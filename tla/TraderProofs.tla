---------------------------- MODULE TraderProofs ----------------------------
(***************************************************************************)
(* Proofs about pe_trader.c.  First the automatic trader and the ids of    *)
(* its orders, for every number of messages, every buffer size and every   *)
(* loss or merging of messages that read() and the coalescing of signals   *)
(* bring about; then how any number of traders and the exchange connect.   *)
(***************************************************************************)
EXTENDS Trader, Startup, TLAPS

USE SMTT(20), ZenonT(20)

Message == MarketType \cup AnswerType \cup TailType

\* What a read() leaves of a FIFO: it took at least one message, and what is
\* left are the last ones, each whole or cut.
LEMMA ReadLeaves ==
    ASSUME NEW S, NEW p \in Seq(S), p # <<>>, NEW q \in AfterRead(p)
    PROVE  \E k \in 1..Len(p) :
              /\ DOMAIN q = 1..(Len(p) - k) /\ Len(q) = Len(p) - k
              /\ \A x \in 1..(Len(p) - k) :
                    q[x] = p[x + k] \/ q[x] = CutOff(p[x + k])
<1>1. CASE \E k \in 1..AtMost(PerRead, Len(p)) : q = SubSeq(p, k + 1, Len(p))
  <2>1. PICK k \in 1..AtMost(PerRead, Len(p)) : q = SubSeq(p, k + 1, Len(p))
    BY <1>1
  <2>2. k \in 1..Len(p)
    BY FifoAssumption DEF AtMost
  <2>3. Len(q) = Len(p) - k /\ DOMAIN q = 1..(Len(p) - k)
    BY <2>1, <2>2
  <2>4. \A x \in 1..(Len(p) - k) : q[x] = p[x + k]
    BY <2>1, <2>2
  <2> QED
    BY <2>2, <2>3, <2>4
<1>2. CASE \E k \in 1..AtMost(PerRead, Len(p) - 1) :
              q = <<CutOff(p[k + 1])>> \o SubSeq(p, k + 2, Len(p))
  <2>1. PICK k \in 1..AtMost(PerRead, Len(p) - 1) :
              q = <<CutOff(p[k + 1])>> \o SubSeq(p, k + 2, Len(p))
    BY <1>2, ZenonT(20)
  <2>2. k \in 1..(Len(p) - 1)
    BY FifoAssumption DEF AtMost
  <2> DEFINE r == SubSeq(p, k + 2, Len(p))
  <2>3. r \in Seq(S) /\ Len(r) = Len(p) - k - 1
    BY <2>2
  <2>4. \A x \in 1..(Len(p) - k - 1) : r[x] = p[x + k + 1]
    BY <2>2
  <2> HIDE DEF r
  <2>5. q = <<CutOff(p[k + 1])>> \o r
    BY <2>1 DEF r
  <2>6. <<CutOff(p[k + 1])>> \in Seq({CutOff(p[k + 1])}) /\ r \in Seq(S)
    BY <2>3
  <2>7. Len(q) = Len(p) - k /\ DOMAIN q = 1..(Len(p) - k)
    BY <2>2, <2>3, <2>5, <2>6
  <2>8. ASSUME NEW x \in 1..(Len(p) - k)
        PROVE  q[x] = p[x + k] \/ q[x] = CutOff(p[x + k])
    <3>1. CASE x = 1
      BY <3>1, <2>5, <2>6, <2>2
    <3>2. CASE x # 1
      <4>1. q[x] = r[x - 1]
        BY <3>2, <2>2, <2>3, <2>5, <2>6
      <4>2. x - 1 \in 1..(Len(p) - k - 1) /\ (x - 1) + k + 1 = x + k
        BY <3>2, <2>2
      <4> QED
        BY <4>1, <4>2, <2>4
    <3> QED
      BY <3>1, <3>2
  <2>9. k \in 1..Len(p)
    BY <2>2
  <2> QED
    BY <2>7, <2>8, <2>9, ZenonT(20)
<1> QED
  BY <1>1, <1>2, ZenonT(20) DEF AfterRead

\* What is left is again a sequence of messages, when cut ones are among them.
LEMMA ReadType ==
    ASSUME NEW S, TailType \subseteq S, \A m \in S : m.n \in Nat,
           NEW p \in Seq(S), p # <<>>, NEW q \in AfterRead(p)
    PROVE  q \in Seq(S)
<1>1. PICK k \in 1..Len(p) :
              /\ DOMAIN q = 1..(Len(p) - k) /\ Len(q) = Len(p) - k
              /\ \A x \in 1..(Len(p) - k) :
                    q[x] = p[x + k] \/ q[x] = CutOff(p[x + k])
  BY ReadLeaves
<1>2. \A m \in S : CutOff(m) \in S
  BY DEF CutOff, TailType
<1>3. \A x \in 1..(Len(p) - k) : q[x] \in S
  BY <1>1, <1>2
<1>4. q = [x \in 1..(Len(p) - k) |-> q[x]]
  <2>1. CASE \E j \in 1..AtMost(PerRead, Len(p)) : q = SubSeq(p, j + 1, Len(p))
    BY <2>1, <1>1, FifoAssumption DEF AtMost
  <2>2. CASE \E j \in 1..AtMost(PerRead, Len(p) - 1) :
                q = <<CutOff(p[j + 1])>> \o SubSeq(p, j + 2, Len(p))
    <3>1. PICK j \in 1..AtMost(PerRead, Len(p) - 1) :
                q = <<CutOff(p[j + 1])>> \o SubSeq(p, j + 2, Len(p))
      BY <2>2, ZenonT(20)
    <3>2. j \in 1..(Len(p) - 1)
      BY FifoAssumption DEF AtMost
    <3>3. SubSeq(p, j + 2, Len(p)) \in Seq(S) /\ <<CutOff(p[j + 1])>> \in Seq(S)
      BY <3>2, <1>2
    <3>4. q \in Seq(S)
      BY <3>1, <3>3
    <3> QED
      BY <3>4, <1>1
  <2> QED
    BY <2>1, <2>2, ZenonT(20) DEF AfterRead
<1>5. Len(p) - k \in Nat
  OBVIOUS
<1>6. q \in [1..(Len(p) - k) -> S]
  BY <1>3, <1>4
<1> QED
  BY <1>5, <1>6

-----------------------------------------------------------------------------
(* Types.                                                                  *)

\* While a message is being handled, its signal has been counted.
Busy == pc \in {"read", "blocked", "write", "kill"} => signal_ptr < signal_count

TypeInv == TTypeOK /\ Busy

\* Every variable keeps its type from one step to the next.
LEMMA TypeStep == TypeInv /\ [TNext]_tvars => TypeInv'
<1> SUFFICES ASSUME TypeInv, [TNext]_tvars PROVE TypeInv'
  OBVIOUS
<1> USE DEF TypeInv, TTypeOK, Busy
<1>1. CASE SigHandler
  <2>1. pending' \in BOOLEAN
    BY <1>1, ZenonT(20) DEF SigHandler
  <2>2. signal_count' \in Nat /\ signal_ptr' \in 0..signal_count' /\ Busy'
    BY <1>1 DEF SigHandler
  <2>3. UNCHANGED <<fifo, pc, newOrder, orderID, commands, sent, unheard, accepted, rejected,
                    kills, written, sells, crowded>>
    BY <1>1 DEF SigHandler, answers, exchange
  <2> QED
    BY <2>1, <2>2, <2>3
<1>2. CASE Poll
  BY <1>2 DEF Poll, channel, answers, exchange
<1>3. CASE Read
  <2>1. fifo' \in Seq(MarketType \cup AnswerType \cup TailType)
    BY <1>3, ReadType, ZenonT(20) DEF Read, MarketType, AnswerType, TailType
  <2>2. Head(fifo) \in MarketType \cup AnswerType \cup TailType
    BY <1>3 DEF Read
  <2>3. CASE Leave(Head(fifo))
    BY <1>3, <2>1, <2>3 DEF Read, Leave, answers, exchange
  <2>4. CASE Reply(Head(fifo))
    <3>1. Head(fifo) \in MarketType
      BY <2>2, <2>4 DEF Reply, MarketType, AnswerType, TailType
    <3> QED
      BY <1>3, <2>1, <2>4, <3>1 DEF Read, Reply, answers, exchange
  <2>5. CASE Invalid(Head(fifo))
    BY <1>3, <2>1, <2>5 DEF Read, Invalid, DoneWith, answers, exchange
  <2>6. CASE Noted(Head(fifo))
    BY <1>3, <2>1, <2>6 DEF Read, Noted, DoneWith, answers, exchange
  <2> QED
    BY <1>3, <2>3, <2>4, <2>5, <2>6 DEF Read
<1>4. CASE ReadBlocks
  BY <1>4 DEF ReadBlocks, channel, answers, exchange
<1>5. CASE ReadInterrupted
  <2>1. pending' \in BOOLEAN
    BY <1>5, ZenonT(20) DEF ReadInterrupted
  <2>2. /\ signal_count' \in Nat /\ signal_ptr' \in 0..signal_count'
        /\ pc' = "poll" /\ orderID' \in Nat
    BY <1>5 DEF ReadInterrupted, DoneWith
  <2>3. UNCHANGED <<fifo, newOrder, commands, sent, unheard, accepted, rejected,
                    kills, written, sells, crowded>>
    BY <1>5 DEF ReadInterrupted, DoneWith, answers, exchange
  <2> QED
    BY <2>1, <2>2, <2>3
<1>6. CASE WriteOrder
  <2>1. newOrder.n \in Nat
    BY DEF MarketType, NoOrder
  <2>2. [cmd |-> "ORDER", n |-> newOrder.n, id |-> orderID] \in OrderType
    BY <2>1 DEF OrderType
  <2> QED
    BY <1>6, <2>2 DEF WriteOrder, channel, exchange
<1>7. CASE KillExchange
  BY <1>7 DEF KillExchange, DoneWith, channel, answers, exchange
<1>8. ASSUME NEW side \in {"BUY", "SELL"}, NEW quantity \in Quantity, Market(side, quantity)
      PROVE  TypeInv'
  <2>1. [cmd |-> side, n |-> written + 1, quantity |-> quantity] \in MarketType
    BY TraderAssumption DEF MarketType
  <2> QED
    BY <1>8, <2>1 DEF Market, Tell, trader
<1>9. ASSUME NEW k \in 0..2, Fill(k) PROVE TypeInv'
  <2>1. [cmd |-> "FILL", n |-> written + 1] \in AnswerType
    BY DEF AnswerType
  <2> QED
    BY <1>9, <2>1 DEF Fill, Tell, trader
<1>10. CASE Answer
  <2>1. commands' \in Seq(OrderType \cup TailType)
    BY <1>10, ReadType, ZenonT(20) DEF Answer, OrderType, TailType
  <2>2. accepted' \in Seq(Nat)
    <3>1. Head(commands) \in OrderType \cup TailType
      BY <1>10 DEF Answer
    <3>2. InSequence(Head(commands)) => Head(commands).id \in Nat
      BY <3>1 DEF InSequence, OrderType, TailType
    <3> QED
      BY <1>10, <3>2 DEF Answer
  <2>3. [cmd |-> IF InSequence(Head(commands)) THEN "ACCEPTED" ELSE "OTHER",
         n |-> written + 1] \in AnswerType
    BY DEF AnswerType
  <2>4. rejected' \in BOOLEAN
    BY <1>10 DEF Answer
  <2> QED
    BY <1>10, <2>1, <2>2, <2>3, <2>4 DEF Answer, Tell, trader
<1>11. CASE AnswerNothing
  <2>1. [cmd |-> "OTHER", n |-> written + 1] \in AnswerType
    BY DEF AnswerType
  <2> QED
    BY <1>11, <2>1 DEF AnswerNothing, Tell, trader
<1>12. CASE Kill
  BY <1>12 DEF Kill, trader, answers
<1>13. CASE UNCHANGED tvars
  BY <1>13 DEF tvars, channel, trader, answers, exchange
<1> QED
  BY <1>1, <1>2, <1>3, <1>4, <1>5, <1>6, <1>7, <1>8, <1>9, <1>10, <1>11, <1>12, <1>13, ZenonT(20)
     DEF TNext, TraderStep, ExchangeStep

\* The trader starts with variables of their types.
LEMMA TypeInit == TInit => TypeInv
<1> SUFFICES ASSUME TInit PROVE TypeInv
  OBVIOUS
<1>1. [cmd |-> "OPEN", n |-> 1] \in AnswerType
  BY DEF AnswerType
<1>2. fifo \in Seq(MarketType \cup AnswerType \cup TailType)
  BY <1>1 DEF TInit
<1>3. pending \in BOOLEAN /\ rejected \in BOOLEAN /\ crowded \in BOOLEAN
  BY ZenonT(20) DEF TInit
<1>4. /\ signal_count \in Nat /\ signal_ptr \in 0..signal_count
      /\ pc = "poll" /\ newOrder = NoOrder /\ orderID \in Nat
      /\ commands = <<>> /\ sent = <<>> /\ unheard = 0 /\ accepted = <<>>
      /\ kills \in 0..2 /\ written \in Nat /\ sells \subseteq Nat
  BY DEF TInit
<1> QED
  BY <1>2, <1>3, <1>4 DEF TypeInv, TTypeOK, Busy

\* The variables of pe_trader.c keep their types, and signal_ptr never gets
\* ahead of signal_count.
THEOREM TraderTypes == TSpec => []TTypeOK
<1>1. TSpec => []TypeInv
  BY TypeInit, TypeStep, PTL DEF TSpec
<1> QED
  BY <1>1, PTL DEF TypeInv

-----------------------------------------------------------------------------
(* The ids of the trader's orders.                                         *)

\* The least id the trader has not used yet.
NextId == IF pc = "kill" THEN orderID + 1 ELSE orderID

IsOrderAt(x) == x \in DOMAIN commands /\ commands[x].cmd = "ORDER"

\* The ids on their way to the exchange grow, lie between those accepted and
\* those to come, and stay above the count of a trader that was refused.
IdInv ==
    /\ AcceptedInSequence
    /\ Len(accepted) <= NextId
    /\ \A x \in DOMAIN commands : IsOrderAt(x) =>
         Len(accepted) <= commands[x].id /\ commands[x].id < NextId
    /\ \A x, j \in DOMAIN commands :
         IsOrderAt(x) /\ IsOrderAt(j) /\ x < j => commands[x].id < commands[j].id
    /\ rejected = TRUE => /\ Len(accepted) < NextId
                          /\ \A x \in DOMAIN commands :
                               IsOrderAt(x) => Len(accepted) < commands[x].id

\* The least unused id never gets smaller, and only a write of the trader and
\* an answer of the exchange touch what IdInv speaks of.
LEMMA QuietStep ==
    ASSUME TypeInv, [TNext]_tvars, ~WriteOrder, ~Answer
    PROVE  /\ NextId \in Nat /\ NextId' \in Nat /\ NextId <= NextId'
           /\ UNCHANGED <<commands, accepted, rejected>>
<1> USE DEF NextId
<1>0. orderID \in Nat
  BY DEF TypeInv, TTypeOK
<1>1. CASE SigHandler
  BY <1>0, <1>1 DEF SigHandler, answers, exchange
<1>2. CASE Poll
  BY <1>0, <1>2 DEF Poll, answers, exchange
<1>3. CASE Read
  <2>1. UNCHANGED <<commands, accepted, rejected>> /\ pc # "kill"
    BY <1>3 DEF Read, answers, exchange
  <2>2. orderID' \in {orderID, orderID + 1} /\ pc' # "kill"
    BY <1>3 DEF Read, Leave, Reply, Invalid, Noted, DoneWith
  <2> QED
    BY <1>0, <2>1, <2>2
<1>4. CASE ReadBlocks
  BY <1>0, <1>4 DEF ReadBlocks, answers, exchange
<1>5. CASE ReadInterrupted
  BY <1>0, <1>5 DEF ReadInterrupted, DoneWith, answers, exchange
<1>6. CASE KillExchange
  BY <1>0, <1>6 DEF KillExchange, DoneWith, answers, exchange
<1>7. ASSUME NEW side \in {"BUY", "SELL"}, NEW quantity \in Quantity, Market(side, quantity)
      PROVE  NextId' = NextId /\ UNCHANGED <<commands, accepted, rejected>>
  BY <1>7 DEF Market, Tell, trader
<1>8. ASSUME NEW k \in 0..2, Fill(k)
      PROVE  NextId' = NextId /\ UNCHANGED <<commands, accepted, rejected>>
  BY <1>8 DEF Fill, Tell, trader
<1>9. CASE AnswerNothing
  BY <1>0, <1>9 DEF AnswerNothing, Tell, trader
<1>10. CASE Kill
  BY <1>0, <1>10 DEF Kill, trader, answers
<1>11. CASE UNCHANGED tvars
  BY <1>0, <1>11 DEF tvars, trader, answers, exchange
<1> QED
  BY <1>0, <1>1, <1>2, <1>3, <1>4, <1>5, <1>6, <1>7, <1>8, <1>9, <1>10, <1>11
     DEF TNext, TraderStep, ExchangeStep

\* IdInv is preserved by a new order of the trader ...
LEMMA WriteKeepsIds ==
    ASSUME TypeInv, IdInv, WriteOrder
    PROVE  IdInv'
<1> DEFINE o == [cmd |-> "ORDER", n |-> newOrder.n, id |-> orderID]
<1>1. /\ pc = "write" /\ pc' = "kill" /\ commands' = Append(commands, o)
      /\ UNCHANGED <<orderID, accepted, rejected>>
  BY DEF WriteOrder, exchange
<1>2. /\ orderID \in Nat /\ commands \in Seq(OrderType \cup TailType)
      /\ accepted \in Seq(Nat) /\ Len(accepted) \in Nat
  BY DEF TypeInv, TTypeOK
<1>3. NextId = orderID /\ NextId' = orderID + 1
  BY <1>1 DEF NextId
<1>4. /\ DOMAIN commands' = 1..(Len(commands) + 1)
      /\ DOMAIN commands = 1..Len(commands)
      /\ commands'[Len(commands) + 1] = o
      /\ \A x \in 1..Len(commands) : commands'[x] = commands[x]
  BY <1>1, <1>2
<1>5. \A x \in 1..Len(commands) : IsOrderAt(x)' <=> IsOrderAt(x)
  BY <1>2, <1>4 DEF IsOrderAt
<1>6. o.id = orderID /\ Len(commands) \in Nat
  BY <1>2
<1> HIDE DEF o
<1>7. ASSUME NEW x \in DOMAIN commands', IsOrderAt(x)'
      PROVE  Len(accepted) <= commands'[x].id /\ commands'[x].id < NextId'
  <2>1. CASE x \in 1..Len(commands)
    <3>1. Len(accepted) <= commands[x].id /\ commands[x].id < orderID
      BY <2>1, <1>3, <1>4, <1>5, <1>7 DEF IdInv
    <3>2. commands[x].id \in Nat
      BY <2>1, <1>2, <1>4, <1>5, <1>7 DEF IsOrderAt, OrderType, TailType
    <3> QED
      BY <2>1, <3>1, <3>2, <1>2, <1>3, <1>4
  <2>2. CASE x = Len(commands) + 1
    BY <2>2, <1>2, <1>3, <1>4, <1>6 DEF IdInv
  <2> QED
    BY <2>1, <2>2, <1>4, <1>6
<1>8. ASSUME NEW x \in DOMAIN commands', NEW j \in DOMAIN commands',
             IsOrderAt(x)', IsOrderAt(j)', x < j
      PROVE  commands'[x].id < commands'[j].id
  <2>1. x \in 1..Len(commands)
    BY <1>4, <1>6, <1>8
  <2>2. CASE j \in 1..Len(commands)
    BY <2>1, <2>2, <1>4, <1>5, <1>8 DEF IdInv
  <2>3. CASE j = Len(commands) + 1
    <3>1. commands[x].id < orderID
      BY <2>1, <1>3, <1>4, <1>5, <1>8 DEF IdInv
    <3> QED
      BY <2>1, <2>3, <3>1, <1>4, <1>6
  <2> QED
    BY <2>2, <2>3, <1>4, <1>6
<1>9. ASSUME rejected' = TRUE
      PROVE  /\ Len(accepted) < NextId'
             /\ \A x \in DOMAIN commands' : IsOrderAt(x)' => Len(accepted) < commands'[x].id
  <2>1. Len(accepted) < orderID
    BY <1>9, <1>1, <1>3 DEF IdInv
  <2>2. \A x \in 1..Len(commands) : IsOrderAt(x) => Len(accepted) < commands[x].id
    BY <1>9, <1>1, <1>4 DEF IdInv
  <2> QED
    BY <2>1, <2>2, <1>2, <1>3, <1>4, <1>5, <1>6
<1>10. AcceptedInSequence' /\ Len(accepted') <= NextId'
  <2>1. AcceptedInSequence /\ Len(accepted) <= orderID
    BY <1>3 DEF IdInv
  <2> QED
    BY <2>1, <1>1, <1>2, <1>3 DEF AcceptedInSequence
<1> QED
  BY <1>1, <1>7, <1>8, <1>9, <1>10, ZenonT(20) DEF IdInv

\* ... and by the exchange's answer to one, which is refused for good if an
\* order was refused before.
LEMMA AnswerKeepsIds ==
    ASSUME TypeInv, IdInv, Answer
    PROVE  IdInv' /\ (rejected = TRUE => accepted' = accepted)
<1> DEFINE o == Head(commands)
<1>1. /\ commands # <<>> /\ commands' \in AfterRead(commands)
      /\ accepted' = (IF InSequence(o) THEN Append(accepted, o.id) ELSE accepted)
      /\ rejected' = (rejected \/ (o.cmd = "ORDER" /\ ~InSequence(o)))
      /\ UNCHANGED <<pc, orderID>>
  BY DEF Answer, Tell, trader
<1>2. /\ orderID \in Nat /\ commands \in Seq(OrderType \cup TailType)
      /\ accepted \in Seq(Nat) /\ Len(accepted) \in Nat
      /\ rejected \in BOOLEAN
  BY DEF TypeInv, TTypeOK
<1>3. NextId' = NextId /\ NextId \in Nat
  BY <1>1, <1>2 DEF NextId
<1>4. PICK k \in 1..Len(commands) :
              /\ DOMAIN commands' = 1..(Len(commands) - k)
              /\ \A x \in 1..(Len(commands) - k) :
                    \/ commands'[x] = commands[x + k]
                    \/ commands'[x] = CutOff(commands[x + k])
  BY <1>1, <1>2, ReadLeaves
<1>5. /\ DOMAIN commands = 1..Len(commands) /\ Len(commands) \in Nat
      /\ 1 \in DOMAIN commands /\ o = commands[1]
  BY <1>1, <1>2
\* An order that is left was there before, behind the one answered.
<1>6. ASSUME NEW x \in DOMAIN commands', IsOrderAt(x)'
      PROVE  /\ x + k \in DOMAIN commands /\ 1 < x + k /\ IsOrderAt(x + k)
             /\ commands'[x].id = commands[x + k].id /\ commands[x + k].id \in Nat
  <2>1. x \in 1..(Len(commands) - k) /\ x + k \in DOMAIN commands /\ 1 < x + k
    BY <1>4, <1>5
  <2>2. commands'[x] = commands[x + k]
    BY <2>1, <1>4, <1>6 DEF IsOrderAt, CutOff
  <2>3. commands[x + k] \in OrderType
    BY <2>1, <2>2, <1>2, <1>6 DEF IsOrderAt, OrderType, TailType
  <2> QED
    BY <2>1, <2>2, <2>3, <1>6 DEF IsOrderAt, OrderType
<1>7. o.cmd = "ORDER" => /\ IsOrderAt(1) /\ o.id \in Nat
                         /\ Len(accepted) <= o.id /\ o.id < NextId
  <2>1. o.cmd = "ORDER" => IsOrderAt(1) /\ o.id \in Nat
    BY <1>2, <1>5 DEF IsOrderAt, OrderType, TailType
  <2> QED
    BY <2>1, <1>5 DEF IdInv
<1> HIDE DEF o
<1>8. \A x, j \in DOMAIN commands' :
         IsOrderAt(x)' /\ IsOrderAt(j)' /\ x < j => commands'[x].id < commands'[j].id
  <2> SUFFICES ASSUME NEW x \in DOMAIN commands', NEW j \in DOMAIN commands',
                      IsOrderAt(x)', IsOrderAt(j)', x < j
               PROVE  commands'[x].id < commands'[j].id
    OBVIOUS
  <2>1. x + k < j + k
    BY <1>4, <1>5
  <2> QED
    BY <2>1, <1>6 DEF IdInv
<1>9. CASE InSequence(o)
  <2>1. /\ o.cmd = "ORDER" /\ o.id = Len(accepted) /\ IsOrderAt(1)
        /\ accepted' = Append(accepted, o.id)
    BY <1>9, <1>1, <1>2, <1>7 DEF InSequence
  <2>2. Len(accepted') = Len(accepted) + 1 /\ DOMAIN accepted' = 1..(Len(accepted) + 1)
    BY <2>1, <1>2
  <2>3. AcceptedInSequence'
    <3>1. \A x \in 1..Len(accepted) : accepted[x] = x - 1
      BY <1>2 DEF IdInv, AcceptedInSequence
    <3>2. \A x \in 1..(Len(accepted) + 1) : accepted'[x] = x - 1
      BY <3>1, <2>1, <1>2
    <3> QED
      BY <3>2, <2>2 DEF AcceptedInSequence
  <2>4. Len(accepted') <= NextId'
    BY <2>1, <2>2, <1>2, <1>3, <1>7
  <2>5. \A x \in DOMAIN commands' : IsOrderAt(x)' =>
           Len(accepted') <= commands'[x].id /\ commands'[x].id < NextId'
    <3> SUFFICES ASSUME NEW x \in DOMAIN commands', IsOrderAt(x)'
                 PROVE  Len(accepted') <= commands'[x].id /\ commands'[x].id < NextId'
      OBVIOUS
    <3>1. commands[1].id < commands[x + k].id /\ commands[x + k].id < NextId
      BY <1>5, <1>6, <2>1 DEF IdInv
    <3> QED
      BY <3>1, <1>2, <1>3, <1>5, <1>6, <2>1, <2>2
  <2>6. rejected = FALSE /\ rejected' = FALSE
    <3>1. ~(rejected = TRUE)
      BY <2>1, <1>2, <1>5 DEF IdInv
    <3> QED
      BY <3>1, <1>1, <1>2, <1>9
  <2> QED
    BY <2>3, <2>4, <2>5, <2>6, <1>8 DEF IdInv
<1>10. CASE ~InSequence(o)
  <2>1. accepted' = accepted
    BY <1>1, <1>10
  <2>2. \A x \in DOMAIN commands' : IsOrderAt(x)' =>
           Len(accepted) <= commands'[x].id /\ commands'[x].id < NextId
    BY <1>6 DEF IdInv
  <2>3. ASSUME rejected' = TRUE
        PROVE  /\ Len(accepted) < NextId
               /\ \A x \in DOMAIN commands' : IsOrderAt(x)' => Len(accepted) < commands'[x].id
    <3>1. CASE rejected = TRUE
      BY <3>1, <1>6 DEF IdInv
    <3>2. CASE rejected = FALSE
      <4>1. o.cmd = "ORDER" /\ Len(accepted) < o.id
        <5>1. o.cmd = "ORDER"
          BY <3>2, <2>3, <1>1, ZenonT(20)
        <5> QED
          BY <5>1, <1>2, <1>7, <1>10 DEF InSequence
      <4>2. ASSUME NEW x \in DOMAIN commands', IsOrderAt(x)'
            PROVE  Len(accepted) < commands'[x].id
        <5>1. commands[1].id < commands[x + k].id
          BY <4>1, <4>2, <1>5, <1>6, <1>7 DEF IdInv
        <5> QED
          BY <5>1, <4>1, <4>2, <1>2, <1>5, <1>6, <1>7
      <4> QED
        BY <4>1, <4>2, <1>2, <1>3, <1>7
    <3> QED
      BY <3>1, <3>2, <1>2, ZenonT(20)
  <2>4. AcceptedInSequence' /\ Len(accepted') <= NextId'
    BY <2>1, <1>3 DEF IdInv, AcceptedInSequence
  <2> QED
    BY <2>1, <2>2, <2>3, <2>4, <1>3, <1>8, ZenonT(20) DEF IdInv
<1> QED
  BY <1>9, <1>10, ZenonT(20)

\* Every step preserves IdInv.
LEMMA IdStep == TypeInv /\ IdInv /\ [TNext]_tvars => IdInv'
<1> SUFFICES ASSUME TypeInv, IdInv, [TNext]_tvars, ~WriteOrder, ~Answer PROVE IdInv'
  BY WriteKeepsIds, AnswerKeepsIds, ZenonT(20)
<1>1. /\ NextId \in Nat /\ NextId' \in Nat /\ NextId <= NextId'
      /\ UNCHANGED <<commands, accepted, rejected>>
  BY QuietStep
<1>2. Len(accepted) \in Nat /\ \A x \in DOMAIN commands : IsOrderAt(x) => commands[x].id \in Nat
  <2>1. commands \in Seq(OrderType \cup TailType) /\ accepted \in Seq(Nat)
    BY DEF TypeInv, TTypeOK
  <2> QED
    BY <2>1 DEF IsOrderAt, OrderType, TailType
<1> QED
  BY <1>1, <1>2 DEF IdInv, IsOrderAt, AcceptedInSequence

\* Together the invariants are inductive.
LEMMA IdAlways == TSpec => [](TypeInv /\ IdInv)
<1>1. TInit => IdInv
  BY DEF TInit, IdInv, IsOrderAt, AcceptedInSequence, NextId
<1> QED
  BY <1>1, TypeInit, TypeStep, IdStep, PTL DEF TSpec

\* README.md:12: the ids pe_trader.c puts on its orders are never reused, and
\* those newOrder() of pe_order.c accepts of them are 0, 1, 2, ...
THEOREM NeverReused == TSpec => []AcceptedInSequence
<1>1. TypeInv /\ IdInv => AcceptedInSequence
  BY DEF IdInv
<1> QED
  BY <1>1, IdAlways, PTL

\* After pe_order.c refused one order of the trader for its id, it accepts no
\* other.
THEOREM NoneAfterRefused == TSpec => RefusedForGood
<1>1. TypeInv /\ IdInv /\ [TNext]_tvars => [rejected => accepted' = accepted]_tvars
  <2> SUFFICES ASSUME TypeInv, IdInv, [TNext]_tvars, rejected = TRUE
               PROVE  accepted' = accepted
    BY ZenonT(20) DEF TypeInv, TTypeOK
  <2>1. CASE Answer
    BY <2>1, AnswerKeepsIds
  <2>2. CASE WriteOrder
    BY <2>2 DEF WriteOrder, exchange
  <2>3. CASE ~WriteOrder /\ ~Answer
    BY <2>3, QuietStep, ZenonT(20)
  <2> QED
    BY <2>1, <2>2, <2>3
<1> QED
  BY <1>1, IdAlways, PTL DEF TSpec, RefusedForGood

-----------------------------------------------------------------------------
(* The numbers of the messages the trader answers.                         *)

\* The messages in the FIFO are in order, later than any that was answered,
\* and the one being answered is between.
ReplyInv ==
    /\ \A x \in DOMAIN fifo : fifo[x].n <= written
    /\ \A x, j \in DOMAIN fifo : x < j => fifo[x].n < fifo[j].n
    /\ RepliesInOrder
    /\ \A s \in DOMAIN sent : /\ sent[s].n <= written
                              /\ \A x \in DOMAIN fifo : sent[s].n < fifo[x].n
                              /\ pc = "write" => sent[s].n < newOrder.n
    /\ pc = "write" => /\ newOrder.n <= written
                       /\ \A x \in DOMAIN fifo : newOrder.n < fifo[x].n

\* The numbers that ReplyInv compares are numbers.
LEMMA Numbers ==
    ASSUME TypeInv
    PROVE  /\ written \in Nat /\ newOrder.n \in Nat
           /\ \A x \in DOMAIN fifo : fifo[x].n \in Nat
           /\ \A s \in DOMAIN sent : sent[s].n \in Nat
           /\ fifo \in Seq(Message) /\ sent \in Seq(OrderType)
<1>1. /\ written \in Nat /\ newOrder \in MarketType \cup {NoOrder}
      /\ fifo \in Seq(Message) /\ sent \in Seq(OrderType)
  BY DEF TypeInv, TTypeOK, Message
<1>2. newOrder.n \in Nat
  BY <1>1 DEF MarketType, NoOrder
<1>3. \A m \in Message : m.n \in Nat
  BY DEF Message, MarketType, AnswerType, TailType
<1>4. \A x \in DOMAIN fifo : fifo[x] \in Message
  BY <1>1
<1>5. \A s \in DOMAIN sent : sent[s].n \in Nat
  <2>1. \A m \in OrderType : m.n \in Nat
    BY DEF OrderType
  <2>2. \A s \in DOMAIN sent : sent[s] \in OrderType
    BY <1>1
  <2> QED
    BY <2>1, <2>2
<1> QED
  BY <1>1, <1>2, <1>3, <1>4, <1>5

\* A message of the exchange is later than all before.
LEMMA TellKeepsReplies ==
    ASSUME TypeInv, ReplyInv, NEW m, m.n = written + 1,
           fifo' = Append(fifo, m), written' = written + 1,
           UNCHANGED <<trader, sent>>
    PROVE  ReplyInv'
<1>1. /\ DOMAIN fifo = 1..Len(fifo) /\ Len(fifo) \in Nat
      /\ DOMAIN fifo' = 1..(Len(fifo) + 1) /\ fifo'[Len(fifo) + 1] = m
      /\ \A x \in 1..Len(fifo) : fifo'[x] = fifo[x]
  <2>1. fifo \in Seq(Message \cup {m})
    BY Numbers
  <2> QED
    BY <2>1
<1>2. UNCHANGED <<pc, newOrder>>
  BY DEF trader
<1>3. \A x \in DOMAIN fifo : fifo[x].n <= written /\ fifo[x].n \in Nat
  BY Numbers DEF ReplyInv
<1>4. \A x, j \in DOMAIN fifo' : x < j => fifo'[x].n < fifo'[j].n
  <2> SUFFICES ASSUME NEW x \in DOMAIN fifo', NEW j \in DOMAIN fifo', x < j
               PROVE  fifo'[x].n < fifo'[j].n
    OBVIOUS
  <2>1. x \in DOMAIN fifo /\ fifo'[x] = fifo[x]
    BY <1>1
  <2>2. CASE j \in DOMAIN fifo
    BY <2>1, <2>2, <1>1 DEF ReplyInv
  <2>3. CASE j = Len(fifo) + 1
    BY <2>1, <2>3, <1>1, <1>3, Numbers
  <2> QED
    BY <2>2, <2>3, <1>1
<1>5. \A x \in DOMAIN fifo' : fifo'[x].n <= written'
  BY <1>1, <1>3, Numbers
<1>6. \A s \in DOMAIN sent : /\ sent[s].n <= written'
                            /\ \A x \in DOMAIN fifo' : sent[s].n < fifo'[x].n
  BY <1>1, Numbers DEF ReplyInv
<1>7. pc = "write" => newOrder.n <= written' /\ \A x \in DOMAIN fifo' : newOrder.n < fifo'[x].n
  BY <1>1, Numbers DEF ReplyInv
<1> QED
  BY <1>2, <1>4, <1>5, <1>6, <1>7 DEF ReplyInv, RepliesInOrder

\* A read removes the message that is handled, and all that is left is later.
LEMMA ReadKeepsReplies ==
    ASSUME TypeInv, ReplyInv, Read
    PROVE  ReplyInv'
<1>1. PICK k \in 1..Len(fifo) :
              /\ DOMAIN fifo' = 1..(Len(fifo) - k)
              /\ \A x \in 1..(Len(fifo) - k) :
                    fifo'[x] = fifo[x + k] \/ fifo'[x] = CutOff(fifo[x + k])
  BY ReadLeaves, Numbers, ZenonT(20) DEF Read
<1>2. /\ DOMAIN fifo = 1..Len(fifo) /\ Len(fifo) \in Nat
      /\ 1 \in DOMAIN fifo /\ Head(fifo) = fifo[1]
  BY Numbers DEF Read
<1>3. \A x \in DOMAIN fifo' : x + k \in DOMAIN fifo /\ 1 < x + k /\ fifo'[x].n = fifo[x + k].n
  BY <1>1, <1>2 DEF CutOff
<1>4. UNCHANGED <<sent, written>>
  BY DEF Read, answers, exchange
<1>5. pc' = "write" => newOrder' = fifo[1]
  BY <1>2 DEF Read, Leave, Reply, Invalid, Noted, DoneWith
<1>6. \A x, j \in DOMAIN fifo' : x < j => x + k < j + k
  BY <1>1, <1>2
<1>7. \A x, j \in DOMAIN fifo' : x < j => fifo'[x].n < fifo'[j].n
  BY <1>3, <1>6 DEF ReplyInv
<1>8. \A x \in DOMAIN fifo' : fifo'[x].n <= written /\ fifo[1].n < fifo'[x].n
  BY <1>2, <1>3 DEF ReplyInv
<1>9. \A s \in DOMAIN sent : /\ sent[s].n <= written /\ sent[s].n < fifo[1].n
                            /\ \A x \in DOMAIN fifo' : sent[s].n < fifo'[x].n
  BY <1>2, <1>3 DEF ReplyInv
<1>10. fifo[1].n <= written
  BY <1>2 DEF ReplyInv
<1> QED
  BY <1>4, <1>5, <1>7, <1>8, <1>9, <1>10 DEF ReplyInv, RepliesInOrder

\* The order written last answers a later message than those before it.
LEMMA WriteKeepsReplies ==
    ASSUME TypeInv, ReplyInv, WriteOrder
    PROVE  ReplyInv'
<1> DEFINE o == [cmd |-> "ORDER", n |-> newOrder.n, id |-> orderID]
<1>1. /\ pc = "write" /\ pc' = "kill" /\ sent' = Append(sent, o)
      /\ UNCHANGED <<fifo, newOrder, written>>
  BY DEF WriteOrder, channel, exchange
<1>2. /\ DOMAIN sent = 1..Len(sent) /\ Len(sent) \in Nat
      /\ DOMAIN sent' = 1..(Len(sent) + 1) /\ sent'[Len(sent) + 1] = o
      /\ \A s \in 1..Len(sent) : sent'[s] = sent[s]
  <2>1. sent \in Seq(OrderType \cup {o})
    BY Numbers
  <2> QED
    BY <1>1, <2>1
<1>3. o.n = newOrder.n
  OBVIOUS
<1> HIDE DEF o
<1>4. RepliesInOrder'
  <2> SUFFICES ASSUME NEW x \in DOMAIN sent', NEW j \in DOMAIN sent', x < j
               PROVE  sent'[x].n < sent'[j].n
    BY DEF RepliesInOrder
  <2>1. x \in DOMAIN sent /\ sent'[x] = sent[x]
    BY <1>2
  <2>2. CASE j \in DOMAIN sent
    BY <2>1, <2>2, <1>2 DEF ReplyInv, RepliesInOrder
  <2>3. CASE j = Len(sent) + 1
    BY <2>1, <2>3, <1>1, <1>2, <1>3 DEF ReplyInv
  <2> QED
    BY <2>2, <2>3, <1>2
<1>5. \A s \in DOMAIN sent' : /\ sent'[s].n <= written
                             /\ \A x \in DOMAIN fifo : sent'[s].n < fifo[x].n
  BY <1>1, <1>2, <1>3 DEF ReplyInv
<1> QED
  BY <1>1, <1>4, <1>5 DEF ReplyInv

\* Every step preserves ReplyInv.
LEMMA ReplyStep == TypeInv /\ ReplyInv /\ [TNext]_tvars => ReplyInv'
<1> SUFFICES ASSUME TypeInv, ReplyInv, [TNext]_tvars PROVE ReplyInv'
  OBVIOUS
<1>1. CASE Read
  BY <1>1, ReadKeepsReplies
<1>2. CASE WriteOrder
  BY <1>2, WriteKeepsReplies
<1>3. ASSUME NEW side, NEW quantity, Market(side, quantity) PROVE ReplyInv'
  BY <1>3, TellKeepsReplies DEF Market, Tell
<1>4. ASSUME NEW k, Fill(k) PROVE ReplyInv'
  BY <1>4, TellKeepsReplies DEF Fill, Tell
<1>5. CASE Answer \/ AnswerNothing
  BY <1>5, TellKeepsReplies DEF Answer, AnswerNothing, Tell
<1>6. CASE SigHandler \/ Kill \/ UNCHANGED tvars
  <2>1. UNCHANGED <<fifo, sent, written, pc, newOrder>>
    BY <1>6 DEF SigHandler, Kill, tvars, channel, trader, answers, exchange
  <2> QED
    BY <2>1 DEF ReplyInv, RepliesInOrder
<1>7. CASE Poll \/ ReadBlocks \/ ReadInterrupted \/ KillExchange
  <2>1. UNCHANGED <<fifo, sent, written>> /\ pc' # "write"
    BY <1>7 DEF Poll, ReadBlocks, ReadInterrupted, KillExchange, DoneWith, channel, answers, exchange
  <2> QED
    BY <2>1 DEF ReplyInv, RepliesInOrder
<1> QED
  BY <1>1, <1>2, <1>3, <1>4, <1>5, <1>6, <1>7 DEF TNext, TraderStep, ExchangeStep

\* pe_trader.c answers no MARKET SELL twice, and none before an earlier one.
THEOREM RepliesOrdered == TSpec => []RepliesInOrder
<1>1. TInit => ReplyInv
  BY DEF TInit, ReplyInv, RepliesInOrder
<1>2. TSpec => [](TypeInv /\ ReplyInv)
  BY <1>1, TypeInit, TypeStep, ReplyStep, PTL DEF TSpec
<1>3. TypeInv /\ ReplyInv => RepliesInOrder
  BY DEF ReplyInv
<1> QED
  BY <1>2, <1>3, PTL
-----------------------------------------------------------------------------
(* How traders and exchange connect.  The argument is about the ends of    *)
(* FIFOs: an open() returns only because the other side was opening the    *)
(* other end, so how far each side is says how far the other must be.      *)

\* The ends of a trader's FIFOs at the trader.
TraderReads(t)  == End(t, "exc2trader", "O_RDONLY")
TraderWrites(t) == End(t, "trader2exc", "O_WRONLY")

\* The trader has opened, or is opening, the second of its FIFOs, or is gone.
Writing == {"wait w", "loop", "trading"}
Reached == Writing \cup {"gone"}

\* Where the exchange is once every trader is connected.
Announcing == {"write", "kill", "loop", "killed"}

\* The exchange's ends of a trader's FIFOs are held by somebody.
Served(t) == ~Ended \/ \E u \in Traders : u > t /\ child[u] \notin {"none", "gone"}

\* How far a trader is, against its ends of FIFOs, those of the exchange, and
\* how far the exchange is.
Connected(t) ==
    /\ child[t] # "none" => t \in fifos
    /\ child[t] \in {"wait r", "open w"} \cup Writing => TraderReads(t) \in ends
    /\ child[t] \in Writing <=> TraderWrites(t) \in ends
    /\ Served(t) => /\ child[t] \in {"open w"} \cup Writing => ToTrader(t) \in ends
                    /\ child[t] \in {"loop", "trading"} => FromTrader(t) \in ends
                    /\ TraderReads(t) \in woken => ToTrader(t) \in ends
                    /\ TraderWrites(t) \in woken => FromTrader(t) \in ends
    /\ FromTrader(t) \in woken => child[t] \in Reached
    /\ at \in Announcing \/ t < i => child[t] \in Reached
    /\ t > i /\ at \notin Announcing => child[t] = "none"
    /\ t = i /\ at \in {"start", "mkfifo", "fork"} => child[t] = "none"

\* The inductive invariant: MARKET OPEN is sent when everyone is connected.
SInv ==
    /\ \A t \in Traders : Connected(t)
    /\ at = "fork" => i \in fifos
    /\ market \cup raised # {} => at \in Announcing

\* Nothing is open at the start.
LEMMA STypeInit == SInit => STypeOK
  BY StartupAssumption DEF SInit, STypeOK, Traders

\* The ends of FIFOs are different, and each has its other end.
LEMMA EndsDiffer ==
    ASSUME NEW t \in Traders
    PROVE  /\ ToTrader(t) \in Ends /\ FromTrader(t) \in Ends
           /\ TraderReads(t) \in Ends /\ TraderWrites(t) \in Ends
           /\ Other(ToTrader(t)) = TraderReads(t) /\ Other(TraderReads(t)) = ToTrader(t)
           /\ Other(FromTrader(t)) = TraderWrites(t) /\ Other(TraderWrites(t)) = FromTrader(t)
           /\ \A u \in Traders :
                /\ ToTrader(t) \notin {FromTrader(u), TraderReads(u), TraderWrites(u)}
                /\ FromTrader(t) \notin {TraderReads(u), TraderWrites(u)}
                /\ TraderReads(t) # TraderWrites(u)
                /\ u # t => /\ ToTrader(t) # ToTrader(u) /\ FromTrader(t) # FromTrader(u)
                            /\ TraderReads(t) # TraderReads(u)
                            /\ TraderWrites(t) # TraderWrites(u)
<1>1. /\ ToTrader(t) \in Ends /\ FromTrader(t) \in Ends
      /\ TraderReads(t) \in Ends /\ TraderWrites(t) \in Ends
  BY DEF ToTrader, FromTrader, TraderReads, TraderWrites, End, Ends
<1>2. /\ Other(ToTrader(t)) = TraderReads(t) /\ Other(TraderReads(t)) = ToTrader(t)
      /\ Other(FromTrader(t)) = TraderWrites(t) /\ Other(TraderWrites(t)) = FromTrader(t)
  BY DEF ToTrader, FromTrader, TraderReads, TraderWrites, End, Other
<1>3. \A u \in Traders :
         /\ ToTrader(t) \notin {FromTrader(u), TraderReads(u), TraderWrites(u)}
         /\ FromTrader(t) \notin {TraderReads(u), TraderWrites(u)}
         /\ TraderReads(t) # TraderWrites(u)
         /\ u # t => /\ ToTrader(t) # ToTrader(u) /\ FromTrader(t) # FromTrader(u)
                     /\ TraderReads(t) # TraderReads(u)
                     /\ TraderWrites(t) # TraderWrites(u)
  BY DEF ToTrader, FromTrader, TraderReads, TraderWrites, End
<1> QED
  BY <1>1, <1>2, <1>3

\* The ends of a trader's FIFOs are these four.
LEMMA FourEnds ==
    ASSUME NEW e \in Ends
    PROVE  e \in {ToTrader(e.trader), FromTrader(e.trader),
                  TraderReads(e.trader), TraderWrites(e.trader)}
  BY DEF ToTrader, FromTrader, TraderReads, TraderWrites, End, Ends

\* What is closed when a process ends: the ends of traders that are gone, and
\* those of the exchange for traders that nobody serves.
LEMMA ExitsCloses ==
    ASSUME Exits, NEW t \in Traders
    PROVE  /\ ends' \subseteq ends /\ woken' \subseteq woken
           /\ child'[t] # "gone" => /\ TraderReads(t) \in ends => TraderReads(t) \in ends'
                                    /\ TraderWrites(t) \in ends => TraderWrites(t) \in ends'
           /\ child'[t] = "gone" =>
                {TraderReads(t), TraderWrites(t)} \cap (ends' \cup woken') = {}
           /\ Served(t)' => /\ ToTrader(t) \in ends => ToTrader(t) \in ends'
                            /\ FromTrader(t) \in ends => FromTrader(t) \in ends'
<1>1. /\ AtTrader(TraderReads(t)) /\ AtTrader(TraderWrites(t))
      /\ ~AtTrader(ToTrader(t)) /\ ~AtTrader(FromTrader(t))
      /\ \A e \in {ToTrader(t), FromTrader(t), TraderReads(t), TraderWrites(t)} : e.trader = t
  BY DEF AtTrader, TraderReads, TraderWrites, ToTrader, FromTrader, End
<1>2. \A e \in {TraderReads(t), TraderWrites(t)} : Held(e)' <=> child'[t] # "gone"
  BY <1>1 DEF Held, AtTrader
<1>3. \A e \in {ToTrader(t), FromTrader(t)} : Held(e)' <=> Served(t)'
  BY <1>1 DEF Held, Served, AtTrader
<1>4. /\ \A e : e \in ends' <=> e \in ends /\ Held(e)'
      /\ \A e : e \in woken' <=> e \in woken /\ Held(e)'
  BY DEF Exits
<1> QED
  BY <1>2, <1>3, <1>4, ZenonT(20)

\* Every step keeps the types.
LEMMA STypeStep == STypeOK /\ [SNext]_svars => STypeOK'
<1> SUFFICES ASSUME STypeOK, [SNext]_svars PROVE STypeOK'
  OBVIOUS
<1>0. \A e \in Ends : Other(e) \in Ends
  BY DEF Ends, Other
<1>1. ASSUME NEW e \in Ends, Open(e) PROVE ends' \subseteq Ends /\ woken' \subseteq Ends
  BY <1>0, <1>1 DEF Open, STypeOK
<1>2. ASSUME NEW e \in Ends, OpenReturns(e) PROVE ends' \subseteq Ends /\ woken' \subseteq Ends
  BY <1>2 DEF OpenReturns, STypeOK
<1>3. ASSUME NEW t \in Traders, Gone(t) PROVE STypeOK'
  BY <1>3 DEF Gone, Exits, STypeOK
<1>4. CASE ExchangeStarts
  <2>1. CASE Start \/ MakeFifos \/ Fork
    BY <2>1 DEF Start, MakeFifos, Fork, Goes, STypeOK
  <2>2. CASE OpenWrite
    BY <2>2, <1>1, EndsDiffer DEF OpenWrite, Goes, STypeOK
  <2>3. CASE WriteOpened
    BY <2>3, <1>2, EndsDiffer DEF WriteOpened, Goes, STypeOK
  <2>4. CASE OpenRead
    BY <2>4, <1>1, EndsDiffer DEF OpenRead, Goes, STypeOK
  <2>5. CASE ReadOpened
    <3>1. 0 \in Traders
      BY StartupAssumption DEF Traders
    <3> QED
      BY <2>5, <1>2, <3>1, EndsDiffer DEF ReadOpened, Goes, STypeOK
  <2>6. CASE WriteMarketOpen
    BY <2>6 DEF WriteMarketOpen, Exits, STypeOK
  <2>7. CASE KillTrader
    BY <2>7 DEF KillTrader, Goes, STypeOK
  <2> QED
    BY <1>4, <2>1, <2>2, <2>3, <2>4, <2>5, <2>6, <2>7 DEF ExchangeStarts
<1>5. ASSUME NEW t \in Traders, TraderStarts(t) PROVE STypeOK'
  <2>1. CASE Exec(t) \/ Sigaction(t) \/ ReadMarketOpen(t)
    BY <2>1 DEF Exec, Sigaction, ReadMarketOpen, Moves, STypeOK
  <2>2. CASE TraderConnects(t)
    <3>1. End(t, "exc2trader", "O_RDONLY") \in Ends /\ End(t, "trader2exc", "O_WRONLY") \in Ends
      BY DEF End, Ends
    <3>2. ends' \subseteq Ends /\ woken' \subseteq Ends
      BY <2>2, <3>1, <1>1, <1>2 DEF TraderConnects, TraderOpens, TraderOpened, STypeOK
    <3> QED
      BY <2>2, <3>2 DEF TraderConnects, TraderOpens, TraderOpened, Moves, STypeOK
  <2>3. CASE Deliver(t)
    BY <2>3, <1>3 DEF Deliver, STypeOK
  <2> QED
    BY <1>5, <2>1, <2>2, <2>3 DEF TraderStarts
<1>6. CASE Fails
  BY <1>6, <1>3 DEF Fails, StartFails, ForkFails, Exits, ExecFails, Lost, Goes, STypeOK
<1>7. CASE UNCHANGED svars
  BY <1>7 DEF svars, STypeOK
<1> QED
  BY <1>4, <1>5, <1>6, <1>7 DEF SNext

\* Every step keeps the invariant.
LEMMA SInvStep == STypeOK /\ SInv /\ [SNext]_svars => SInv'
<1> SUFFICES ASSUME STypeOK, SInv, [SNext]_svars PROVE SInv'
  OBVIOUS
<1>c. i \in Traders /\ \A u \in Traders : Connected(u)
  BY DEF SInv, STypeOK
<1>n. i \in Int /\ \A u \in Traders : u \in Int
  <2>1. \A u \in Traders : u \in Int
    BY DEF Traders
  <2> QED
    BY <1>c, <2>1
<1>s. ASSUME NEW u \in Traders, Served(u)' PROVE Served(u)
  <2>1. CASE ~Ended
    BY <2>1 DEF Served
  <2>2. CASE Ended
    <3>1. at' = at /\ \A t \in Traders : child[t] \in {"none", "gone"} => child'[t] \in {"none", "gone"}
      BY <2>2
      DEF Ended, SNext, ExchangeStarts, Start, MakeFifos, Fork, OpenWrite, WriteOpened, OpenRead,
          ReadOpened, WriteMarketOpen, KillTrader, Goes, TraderStarts, Exec, Sigaction,
          TraderConnects, TraderOpens, TraderOpened, Moves, Deliver, ReadMarketOpen, Fails,
          StartFails, ForkFails, ExecFails, Lost, Gone, svars, STypeOK
    <3> QED
      BY <1>s, <2>2, <3>1 DEF Served, Ended
  <2> QED
    BY <2>1, <2>2
<1>e. ASSUME NEW u \in Traders, Exits, child'[u] = child[u], UNCHANGED <<i, fifos>>,
             \/ at' = at
             \/ /\ at \in Announcing <=> at' \in Announcing
                /\ at' \notin {"start", "mkfifo", "fork"}
      PROVE  Connected(u)'
  <2>1. /\ ends' \subseteq ends /\ woken' \subseteq woken
        /\ child'[u] # "gone" => /\ TraderReads(u) \in ends => TraderReads(u) \in ends'
                                 /\ TraderWrites(u) \in ends => TraderWrites(u) \in ends'
        /\ Served(u)' => /\ ToTrader(u) \in ends => ToTrader(u) \in ends'
                         /\ FromTrader(u) \in ends => FromTrader(u) \in ends'
    BY <1>e, ExitsCloses
  <2>2. Connected(u) /\ (Served(u)' => Served(u))
    BY <1>c, <1>s
  <2>3. /\ child'[u] # "none" => u \in fifos'
        /\ child'[u] \in {"wait r", "open w"} \cup Writing => TraderReads(u) \in ends'
        /\ child'[u] \in Writing <=> TraderWrites(u) \in ends'
    BY <1>e, <2>1, <2>2 DEF Connected, Writing
  <2>4. Served(u)' =>
          /\ child'[u] \in {"open w"} \cup Writing => ToTrader(u) \in ends'
          /\ child'[u] \in {"loop", "trading"} => FromTrader(u) \in ends'
          /\ TraderReads(u) \in woken' => ToTrader(u) \in ends'
          /\ TraderWrites(u) \in woken' => FromTrader(u) \in ends'
    BY <1>e, <2>1, <2>2 DEF Connected
  <2>5. /\ FromTrader(u) \in woken' => child'[u] \in Reached
        /\ at' \in Announcing \/ u < i' => child'[u] \in Reached
        /\ u > i' /\ at' \notin Announcing => child'[u] = "none"
        /\ u = i' /\ at' \in {"start", "mkfifo", "fork"} => child'[u] = "none"
    BY <1>e, <2>1, <2>2 DEF Connected
  <2> QED
    BY <2>3, <2>4, <2>5 DEF Connected, TraderReads, TraderWrites, ToTrader, FromTrader
<1>g. ASSUME NEW t \in Traders, Gone(t), child[t] # "none" PROVE SInv'
  <2>1. ASSUME NEW u \in Traders PROVE Connected(u)'
    <3>1. Exits /\ child'[t] = "gone" /\ UNCHANGED <<at, i, fifos>>
      BY <1>g DEF Gone, STypeOK
    <3>2. u # t => child'[u] = child[u]
      BY <1>g DEF Gone, STypeOK
    <3>3. CASE u = t
      <4>1. Connected(t) /\ (Served(t)' => Served(t))
        BY <1>c, <1>s
      <4>2. /\ woken' \subseteq woken
            /\ {TraderReads(t), TraderWrites(t)} \cap (ends' \cup woken') = {}
        BY <3>1, ExitsCloses
      <4> QED
        BY <1>g, <3>1, <3>3, <4>1, <4>2 DEF Connected, Writing, Reached, Announcing
    <3>4. CASE u # t
      BY <1>e, <3>1, <3>2, <3>4
    <3> QED
      BY <3>3, <3>4
  <2> QED
    BY <1>g, <2>1 DEF Gone, SInv
<1>1. CASE Start \/ MakeFifos \/ Fork
  <2>1. ASSUME NEW u \in Traders PROVE Connected(u)'
    <3>1. CASE Start
      BY <1>c, <1>s, <3>1 DEF Start, Goes, Connected, Announcing
    <3>2. CASE MakeFifos
      BY <1>c, <1>s, <3>2 DEF MakeFifos, Goes, Connected, Announcing
    <3>3. CASE Fork
      <4>1. /\ at = "fork" /\ at' = "open w" /\ UNCHANGED <<i, fifos, ends, woken>>
            /\ child'[u] = IF u = i THEN "forked" ELSE child[u]
        BY <1>c, <3>3 DEF Fork, Goes, STypeOK
      <4>2. i \in fifos
        BY <4>1 DEF SInv
      <4>3. Connected(u) /\ (Served(u)' => Served(u))
        BY <1>c, <1>s
      <4> QED
        BY <1>c, <1>n, <4>1, <4>2, <4>3 DEF Connected, Writing, Reached, Announcing
    <3> QED
      BY <1>1, <3>1, <3>2, <3>3
  <2> QED
    BY <1>1, <2>1 DEF Start, MakeFifos, Fork, Goes, SInv, Announcing
<1>2. CASE OpenWrite
  <2>1. ASSUME NEW u \in Traders PROVE Connected(u)'
    <3>1. /\ ends' = ends \cup {ToTrader(i)}
          /\ woken' \subseteq woken \cup {ToTrader(i), TraderReads(i)}
          /\ at = "open w" /\ at' = "wait w" /\ UNCHANGED <<i, fifos, child>>
      BY <1>2, <1>c, EndsDiffer DEF OpenWrite, Open, Goes
    <3> QED
      BY <1>c, <1>s, <3>1, EndsDiffer DEF Connected, Announcing
  <2> QED
    BY <1>2, <2>1 DEF OpenWrite, Goes, SInv, Announcing
<1>3. CASE WriteOpened
  <2>1. ASSUME NEW u \in Traders PROVE Connected(u)'
    BY <1>3, <1>c, <1>s DEF WriteOpened, OpenReturns, Goes, Connected, Announcing
  <2> QED
    BY <1>3, <2>1 DEF WriteOpened, Goes, SInv, Announcing
<1>4. CASE OpenRead
  <2>1. ASSUME NEW u \in Traders PROVE Connected(u)'
    <3>1. /\ ends' = ends \cup {FromTrader(i)}
          /\ TraderWrites(i) \notin ends => woken' = woken
          /\ woken' \subseteq woken \cup {FromTrader(i), TraderWrites(i)}
          /\ at = "open r" /\ at' = "wait r" /\ UNCHANGED <<i, fifos, child>>
      BY <1>4, <1>c, EndsDiffer DEF OpenRead, Open, Goes
    <3> QED
      BY <1>c, <1>s, <3>1, EndsDiffer DEF Connected, Announcing, Reached
  <2> QED
    BY <1>4, <2>1 DEF OpenRead, Goes, SInv, Announcing
<1>5. CASE ReadOpened
  <2>1. /\ FromTrader(i) \in woken /\ woken' \subseteq woken
        /\ at = "wait r" /\ UNCHANGED <<ends, fifos, child, market, raised>>
        /\ \/ at' = "mkfifo" /\ i' = i + 1
           \/ at' = "write" /\ i + 1 \notin Traders /\ i' = 0
    BY <1>5 DEF ReadOpened, OpenReturns, Goes
  <2>2. ASSUME NEW u \in Traders PROVE Connected(u)'
    <3>1. CASE at' = "mkfifo" /\ i' = i + 1
      <4>1. u < i + 1 => u < i \/ u = i
        BY <1>n
      <4>2. u >= i + 1 => u > i
        BY <1>n
      <4>3. u > i + 1 \/ u = i + 1 => u >= i + 1
        BY <1>n
      <4>4. Connected(u) /\ Connected(i)
        BY <1>c
      <4> QED
        BY <1>s, <2>1, <3>1, <4>1, <4>2, <4>3, <4>4 DEF Connected, Announcing
    <3>2. CASE at' = "write" /\ i + 1 \notin Traders /\ i' = 0
      <4>1. u <= i
        BY <1>c, <3>2, StartupAssumption DEF Traders
      <4>2. child[u] \in Reached
        <5>1. u < i \/ u = i
          BY <1>n, <4>1
        <5> QED
          BY <1>c, <2>1, <5>1 DEF Connected
      <4> QED
        BY <1>c, <1>s, <2>1, <3>2, <4>2 DEF Connected, Announcing
    <3> QED
      BY <2>1, <3>1, <3>2
  <2> QED
    BY <2>1, <2>2 DEF SInv, Announcing
<1>6. CASE WriteMarketOpen
  <2>1. ASSUME NEW u \in Traders PROVE Connected(u)'
    <3>1. /\ at = "write" /\ at' \in Announcing /\ UNCHANGED <<i, fifos, child>>
          /\ Exits \/ UNCHANGED <<ends, woken>>
      BY <1>6 DEF WriteMarketOpen, Announcing
    <3>2. at \in Announcing /\ at' \notin {"start", "mkfifo", "fork"}
      BY <3>1 DEF Announcing
    <3>3. CASE Exits
      BY <1>e, <3>1, <3>2, <3>3
    <3>4. CASE UNCHANGED <<ends, woken>>
      BY <1>c, <1>s, <3>1, <3>2, <3>4 DEF Connected
    <3> QED
      BY <3>1, <3>3, <3>4
  <2> QED
    BY <1>6, <2>1 DEF WriteMarketOpen, SInv, Announcing
<1>7. CASE KillTrader
  <2>1. ASSUME NEW u \in Traders PROVE Connected(u)'
    BY <1>7, <1>c, <1>s DEF KillTrader, Goes, Connected, Announcing
  <2> QED
    BY <1>7, <2>1 DEF KillTrader, Goes, SInv, Announcing
<1>8. ASSUME NEW t \in Traders, Exec(t) \/ Sigaction(t) \/ ReadMarketOpen(t) PROVE SInv'
  <2>1. ASSUME NEW u \in Traders PROVE Connected(u)'
    BY <1>8, <1>c, <1>s DEF Exec, Sigaction, ReadMarketOpen, Moves, STypeOK,
                      Connected, Writing, Reached
  <2> QED
    BY <1>8, <2>1 DEF Exec, Sigaction, ReadMarketOpen, SInv
<1>9. ASSUME NEW t \in Traders, TraderConnects(t) PROVE SInv'
  <2>1. /\ UNCHANGED <<at, i, fifos, market, raised>>
        /\ \A u \in Traders \ {t} : child'[u] = child[u]
    BY <1>9 DEF TraderConnects, TraderOpens, TraderOpened, Moves, STypeOK
  <2>2. CASE TraderOpens(t, "exc2trader", "O_RDONLY", "open r", "wait r", "open w")
    <3>1. /\ child[t] = "open r" /\ child'[t] = "wait r"
          /\ ends' = ends \cup {TraderReads(t)}
          /\ woken' \subseteq woken \cup {ToTrader(t), TraderReads(t)}
          /\ ToTrader(t) \notin ends => woken' = woken
      BY <1>c, <2>2, EndsDiffer DEF TraderOpens, Moves, Open, STypeOK, TraderReads, Connected
    <3>2. ASSUME NEW u \in Traders PROVE Connected(u)'
      BY <1>c, <1>s, <2>1, <3>1, EndsDiffer DEF Connected, Writing, Reached
    <3> QED
      BY <2>1, <3>2 DEF SInv
  <2>3. CASE TraderOpened(t, "exc2trader", "O_RDONLY", "wait r", "open w")
    <3>1. /\ child[t] = "wait r" /\ child'[t] = "open w"
          /\ TraderReads(t) \in woken /\ woken' \subseteq woken /\ ends' = ends
      BY <2>3 DEF TraderOpened, Moves, OpenReturns, STypeOK, TraderReads
    <3>2. ASSUME NEW u \in Traders PROVE Connected(u)'
      BY <1>c, <1>s, <2>1, <3>1 DEF Connected, Writing, Reached
    <3> QED
      BY <2>1, <3>2 DEF SInv
  <2>4. CASE TraderOpens(t, "trader2exc", "O_WRONLY", "open w", "wait w", "loop")
    <3>1. /\ child[t] = "open w" /\ child'[t] = "wait w"
          /\ ends' = ends \cup {TraderWrites(t)}
          /\ woken' \subseteq woken \cup {FromTrader(t), TraderWrites(t)}
          /\ FromTrader(t) \notin ends => woken' = woken
      BY <1>c, <2>4, EndsDiffer DEF TraderOpens, Moves, Open, STypeOK, TraderWrites, Connected
    <3>2. ASSUME NEW u \in Traders PROVE Connected(u)'
      BY <1>c, <1>s, <2>1, <3>1, EndsDiffer DEF Connected, Writing, Reached
    <3> QED
      BY <2>1, <3>2 DEF SInv
  <2>5. CASE TraderOpened(t, "trader2exc", "O_WRONLY", "wait w", "loop")
    <3>1. /\ child[t] = "wait w" /\ child'[t] = "loop"
          /\ TraderWrites(t) \in woken /\ woken' \subseteq woken /\ ends' = ends
      BY <2>5 DEF TraderOpened, Moves, OpenReturns, STypeOK, TraderWrites
    <3>2. ASSUME NEW u \in Traders PROVE Connected(u)'
      BY <1>c, <1>s, <2>1, <3>1 DEF Connected, Writing, Reached
    <3> QED
      BY <2>1, <3>2 DEF SInv
  <2> QED
    BY <1>9, <2>2, <2>3, <2>4, <2>5 DEF TraderConnects
<1>10. ASSUME NEW t \in Traders, Deliver(t) PROVE SInv'
  <2>1. CASE child[t] = "main"
    BY <1>10, <1>g, <2>1 DEF Deliver
  <2>2. CASE child[t] # "main"
    <3>1. raised' \subseteq raised /\ UNCHANGED <<at, i, fifos, child, ends, woken, market>>
      BY <1>10, <2>2 DEF Deliver
    <3>2. ASSUME NEW u \in Traders PROVE Connected(u)'
      BY <1>c, <1>s, <3>1 DEF Connected
    <3> QED
      BY <3>1, <3>2 DEF SInv
  <2> QED
    BY <2>1, <2>2
<1>11. CASE Fails
  <2>1. CASE StartFails \/ ForkFails
    <3>1. /\ at \in {"start", "fork"} /\ at' = "failed"
          /\ UNCHANGED <<i, fifos, child, market, raised>>
          /\ Exits \/ UNCHANGED <<ends, woken>>
      BY <2>1 DEF StartFails, ForkFails, Goes
    <3>2. ASSUME NEW u \in Traders PROVE Connected(u)'
      <4>1. at \notin Announcing /\ at' \notin Announcing
        BY <3>1 DEF Announcing
      <4>2. CASE Exits
        BY <1>e, <3>1, <4>1, <4>2
      <4>3. CASE UNCHANGED <<ends, woken>>
        BY <1>c, <1>s, <3>1, <4>1, <4>3 DEF Connected
      <4> QED
        BY <3>1, <4>2, <4>3
    <3> QED
      BY <3>1, <3>2 DEF SInv, Announcing
  <2> QED
    BY <1>11, <2>1, <1>g DEF Fails, ExecFails, Lost
<1>12. CASE UNCHANGED svars
  <2>1. UNCHANGED <<at, i, fifos, child, ends, woken, market, raised>>
    BY <1>12 DEF svars
  <2>2. ASSUME NEW u \in Traders PROVE Connected(u)'
    BY <1>c, <1>s, <2>1 DEF Connected
  <2> QED
    BY <2>1, <2>2 DEF SInv
<1> QED
  BY <1>1, <1>2, <1>3, <1>4, <1>5, <1>6, <1>7, <1>8, <1>9, <1>10, <1>11, <1>12
  DEF SNext, ExchangeStarts, TraderStarts

\* While the exchange and the traders start, every reachable state satisfies
\* both invariants.
LEMMA SInvAlways == SSpec => [](STypeOK /\ SInv)
<1>1. SInit => SInv
  <2> SUFFICES ASSUME SInit PROVE SInv
    OBVIOUS
  <2>1. ASSUME NEW t \in Traders PROVE Connected(t)
    <3>1. child[t] = "none" /\ i = 0 /\ at = "start" /\ ends = {} /\ woken = {}
      BY DEF SInit
    <3>2. ~(t < i)
      BY <3>1 DEF Traders
    <3> QED
      BY <3>1, <3>2 DEF Connected, Writing, Reached, Announcing
  <2> QED
    BY <2>1 DEF SInit, SInv
<1> QED
  BY <1>1, STypeInit, STypeStep, SInvStep, PTL DEF SSpec

\* The variables of the start keep the values of their declarations, for any
\* number of traders.
THEOREM StartTypes == SSpec => []STypeOK
  BY SInvAlways, PTL

\* A trader in its event loop has both FIFOs open at both ends while the
\* exchange runs: its first open() returned because the exchange was opening
\* the other end, and so did its second.  After the end of the exchange the
\* same holds as long as a later trader has the exchange's descriptors.
THEOREM LoopIsConnected == SSpec => []TradersConnected
<1>1. STypeOK /\ SInv => TradersConnected
  <2> SUFFICES ASSUME STypeOK, SInv, NEW e \in Ends, Held(e),
                      child[e.trader] \in {"loop", "trading"}
               PROVE  e \in ends
    BY DEF TradersConnected
  <2> DEFINE t == e.trader
  <2>1. t \in Traders
    BY DEF Ends
  <2>2. TraderReads(t) \in ends /\ TraderWrites(t) \in ends
    BY <2>1 DEF SInv, Connected, Writing
  <2>3. Served(t) => ToTrader(t) \in ends /\ FromTrader(t) \in ends
    BY <2>1 DEF SInv, Connected, Writing
  <2>4. e \in {ToTrader(t), FromTrader(t)} => Served(t)
    <3>1. e \in {ToTrader(t), FromTrader(t)} => ~AtTrader(e)
      BY DEF AtTrader, ToTrader, FromTrader, End
    <3> QED
      BY <3>1 DEF Held, Served
  <2>5. e \in {ToTrader(t), FromTrader(t), TraderReads(t), TraderWrites(t)}
    BY FourEnds
  <2> QED
    BY <2>2, <2>3, <2>4, <2>5
<1> QED
  BY <1>1, SInvAlways, PTL

\* MARKET OPEN and its signal go to traders that have their handler: the
\* exchange sends them after the open() of the last FIFO of every trader
\* returned, and that end of a FIFO is what a trader opens last.
THEOREM HandlersAreReady == SSpec => []SignalsFindHandlers
<1>1. STypeOK /\ SInv => SignalsFindHandlers
  <2> SUFFICES ASSUME STypeOK, SInv, NEW t \in market \cup raised
               PROVE  child[t] \in {"wait w", "loop", "trading", "gone"}
    BY DEF SignalsFindHandlers
  <2>1. at \in Announcing /\ t \in Traders
    BY DEF SInv, STypeOK
  <2> QED
    BY <2>1 DEF SInv, Connected, Reached, Writing
<1> QED
  BY <1>1, SInvAlways, PTL

\* An open() for a child that is gone never returns: only the child could
\* open the other end, and no step brings a child back.
THEOREM LostChildHangsForever == SSpec => LostChildHangs
<1>1. STypeOK /\ [SNext]_svars => [HungOnChild => HungOnChild']_svars
  <2> SUFFICES ASSUME STypeOK, SNext, HungOnChild PROVE HungOnChild'
    BY DEF HungOnChild, svars, ToTrader, FromTrader
  <2> DEFINE waits == IF at = "wait w" THEN ToTrader(i) ELSE FromTrader(i)
  <2>1. /\ at \in {"wait w", "wait r"} /\ child[i] = "gone" /\ i \in Traders
        /\ waits \notin woken
    BY DEF HungOnChild, STypeOK
  <2>2. SUFFICES at' = at /\ i' = i /\ child'[i] = "gone" /\ waits \notin woken'
    BY <2>1 DEF HungOnChild, ToTrader, FromTrader
  <2>3. waits \in {ToTrader(i), FromTrader(i)}
    OBVIOUS
  <2>g. ASSUME NEW t \in Traders, Gone(t) PROVE at' = at /\ i' = i /\ child'[i] = "gone" /\ waits \notin woken'
    BY <2>1, <2>g DEF Gone, Exits, STypeOK
  <2>4. CASE ExchangeStarts
    BY <2>1, <2>4 DEF ExchangeStarts, Start, MakeFifos, Fork, OpenWrite, WriteOpened, OpenRead,
                      ReadOpened, WriteMarketOpen, KillTrader, Goes, OpenReturns
  <2>5. ASSUME NEW t \in Traders, TraderStarts(t)
        PROVE  at' = at /\ i' = i /\ child'[i] = "gone" /\ waits \notin woken'
    <3>1. CASE Exec(t) \/ Sigaction(t) \/ ReadMarketOpen(t)
      BY <2>1, <3>1 DEF Exec, Sigaction, ReadMarketOpen, Moves, STypeOK
    <3>2. CASE TraderConnects(t)
      <4>1. /\ UNCHANGED <<at, i>> /\ child[t] # "gone"
            /\ \A u \in Traders \ {t} : child'[u] = child[u]
        BY <3>2 DEF TraderConnects, TraderOpens, TraderOpened, Moves, STypeOK
      <4>2. woken' \subseteq woken \cup {ToTrader(t), FromTrader(t), TraderReads(t), TraderWrites(t)}
        BY <3>2, EndsDiffer DEF TraderConnects, TraderOpens, TraderOpened, Open, OpenReturns,
                                TraderReads, TraderWrites
      <4> HIDE DEF waits
      <4> QED
        BY <2>1, <2>3, <4>1, <4>2, EndsDiffer
    <3>3. CASE Deliver(t)
      BY <2>1, <3>3, <2>g DEF Deliver
    <3> QED
      BY <2>5, <3>1, <3>2, <3>3 DEF TraderStarts
  <2>6. CASE Fails
    BY <2>1, <2>6, <2>g DEF Fails, StartFails, ForkFails, ExecFails, Lost, Goes
  <2> QED
    BY <2>4, <2>5, <2>6 DEF SNext
<1> QED
  BY <1>1, SInvAlways, PTL DEF SSpec, LostChildHangs
=============================================================================
