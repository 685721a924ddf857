--------------------------- MODULE ExchangeLemmas ---------------------------
(***************************************************************************)
(* The inductive invariant of the event loop of the exchange, and the      *)
(* proofs that a step keeps the types of its variables, the shape of the   *)
(* queue of calls and the place of the loop in the array of signals, for   *)
(* any number of traders, any commands, any sizes of the signal array and  *)
(* of a read().                                                            *)
(***************************************************************************)
EXTENDS Exchange, TLAPS

USE SMTT(20), ZenonT(20)

\* Traders are numbered from 0.
LEMMA TradersAreNumbers == Trader \subseteq Nat /\ None \notin Trader
  BY ExchangeAssumption DEF None

-----------------------------------------------------------------------------
(* What the FIFOs hold.  The messages are commands with their number, or    *)
(* what a read() cut off a message.                                         *)

WholeMsgs == {Numbered(m, n) : m \in Commands, n \in Nat}
Msgs == WholeMsgs \cup [cmd : {"JUNK"}, n : Nat]

\* The fields of a message are the words that its command takes.
Words(m) ==
    /\ m.n \in Nat
    /\ m.cmd \in Side =>
         /\ m.id \in IdWord /\ m.item \in Product
         /\ m.quantity \in QuantityWord /\ m.price \in PriceWord
    /\ m.cmd = "AMEND" =>
         m.id \in IdWord /\ m.quantity \in QuantityWord /\ m.price \in PriceWord
    /\ m.cmd = "CANCEL" => m.id \in IdWord

\* Numbering a command keeps its fields.
LEMMA NumberedFields ==
    ASSUME NEW m \in Commands, NEW n \in Nat
    PROVE  Words(Numbered(m, n)) /\ Numbered(m, n).n = n
<1>1. /\ "n" \in DOMAIN m \cup {"n"}
      /\ Numbered(m, n)["n"] = n
  BY ZenonT(20) DEF Numbered
<1>2. \A f \in DOMAIN m : f # "n" => Numbered(m, n)[f] = m[f]
  BY ZenonT(20) DEF Numbered
<1>3. CASE m \in [cmd : Side, id : IdWord, item : Product, quantity : QuantityWord, price : PriceWord]
  <2>1. /\ DOMAIN m = {"cmd", "id", "item", "quantity", "price"}
        /\ m.cmd \in Side /\ m.id \in IdWord /\ m.item \in Product
        /\ m.quantity \in QuantityWord /\ m.price \in PriceWord
    BY <1>3
  <2> QED
    BY <1>1, <1>2, <2>1 DEF Words, Side
<1>4. CASE m \in [cmd : {"AMEND"}, id : IdWord, quantity : QuantityWord, price : PriceWord]
  <2>1. /\ DOMAIN m = {"cmd", "id", "quantity", "price"}
        /\ m.cmd = "AMEND" /\ m.id \in IdWord
        /\ m.quantity \in QuantityWord /\ m.price \in PriceWord
    BY <1>4
  <2> QED
    BY <1>1, <1>2, <2>1 DEF Words, Side
<1>5. CASE m \in [cmd : {"CANCEL"}, id : IdWord]
  <2>1. DOMAIN m = {"cmd", "id"} /\ m.cmd = "CANCEL" /\ m.id \in IdWord
    BY <1>5
  <2> QED
    BY <1>1, <1>2, <2>1 DEF Words, Side
<1>6. CASE m \in [cmd : {"JUNK"}]
  <2>1. DOMAIN m = {"cmd"} /\ m.cmd = "JUNK"
    BY <1>6
  <2> QED
    BY <1>1, <1>2, <2>1 DEF Words, Side
<1> QED
  BY <1>3, <1>4, <1>5, <1>6 DEF Commands

\* Every message carries the words its command takes.
LEMMA MsgsHaveWords == ASSUME NEW m \in Msgs PROVE Words(m)
<1>1. CASE \E c \in Commands, n \in Nat : m = Numbered(c, n)
  BY <1>1, NumberedFields
<1>2. CASE m \in [cmd : {"JUNK"}, n : Nat]
  BY <1>2 DEF Words, Side
<1> QED
  BY <1>1, <1>2 DEF Msgs, WholeMsgs

\* What a read() cuts off is a message again, with the number it had.
LEMMA CutIsMsg ==
    ASSUME NEW m, m.n \in Nat PROVE CutOff(m) \in Msgs /\ CutOff(m).n = m.n
<1>1. CutOff(m) \in [cmd : {"JUNK"}, n : Nat]
  <2>1. \A x \in Nat : [cmd |-> "JUNK", n |-> x] \in [cmd : {"JUNK"}, n : Nat]
    OBVIOUS
  <2> QED
    BY <2>1, ZenonT(20) DEF CutOff
<1>2. CutOff(m).n = m.n
  BY ZenonT(20) DEF CutOff
<1> QED
  BY <1>1, <1>2, ZenonT(20) DEF Msgs

\* The messages of rest are those of p after the first k.
Later(p, rest, k) ==
    /\ k \in 1..Len(p) /\ Len(rest) = Len(p) - k
    /\ \A i \in 1..Len(rest) : k + i \in 2..Len(p) /\ rest[i].n = p[k + i].n

\* A read() takes the first message, and what it leaves are later messages in
\* their order, the first of them perhaps cut.
LEMMA AfterReadFacts ==
    ASSUME NEW p \in Seq(Msgs), p # <<>>, NEW rest \in AfterRead(p)
    PROVE  rest \in Seq(Msgs) /\ \E k \in Nat : Later(p, rest, k)
<1>1. Len(p) \in Nat /\ Len(p) >= 1 /\ \A i \in 1..Len(p) : p[i] \in Msgs
  OBVIOUS
<1>2. CASE \E k \in 1..AtMost(PerRead, Len(p)) : rest = SubSeq(p, k + 1, Len(p))
  <2>1. PICK k \in 1..AtMost(PerRead, Len(p)) : rest = SubSeq(p, k + 1, Len(p))
    BY <1>2
  <2>2. k \in 1..Len(p)
    BY <1>1, FifoAssumption DEF AtMost
  <2>3. Len(rest) = Len(p) - k /\ \A i \in 1..Len(rest) : rest[i] = p[k + i]
    BY <1>1, <2>1, <2>2
  <2>4. rest \in Seq(Msgs)
    BY <1>1, <2>1, <2>2
  <2>5. Later(p, rest, k)
    BY <1>1, <2>2, <2>3 DEF Later
  <2> QED
    BY <2>2, <2>4, <2>5
<1>3. CASE \E k \in 1..AtMost(PerRead, Len(p) - 1) :
              rest = <<CutOff(p[k + 1])>> \o SubSeq(p, k + 2, Len(p))
  <2>1. PICK k \in 1..AtMost(PerRead, Len(p) - 1) :
              rest = <<CutOff(p[k + 1])>> \o SubSeq(p, k + 2, Len(p))
    BY <1>3, ZenonT(60)
  <2>2. k \in 1..(Len(p) - 1) /\ k + 1 \in 1..Len(p)
    BY <1>1, FifoAssumption DEF AtMost
  <2>3. p[k + 1].n \in Nat
    BY <1>1, <2>2, MsgsHaveWords DEF Words
  <2>4. CutOff(p[k + 1]) \in Msgs /\ CutOff(p[k + 1]).n = p[k + 1].n
    BY <2>3, CutIsMsg, ZenonT(20)
  <2> DEFINE later == SubSeq(p, k + 2, Len(p))
             cut == CutOff(p[k + 1])
  <2>5. /\ later \in Seq(Msgs) /\ Len(later) = Len(p) - k - 1
        /\ \A i \in 1..Len(later) : later[i] = p[k + 1 + i]
    BY <1>1, <2>2
  <2>6. rest = <<cut>> \o later /\ cut \in Msgs /\ cut.n = p[k + 1].n
    BY <2>1, <2>4
  <2> HIDE DEF later, cut
  <2>7. /\ rest \in Seq(Msgs) /\ Len(rest) = Len(later) + 1 /\ rest[1] = cut
        /\ \A i \in 2..Len(rest) : rest[i] = later[i - 1]
    BY <2>5, <2>6
  <2>8. Len(rest) = Len(p) - k
    BY <1>1, <2>2, <2>5, <2>7
  <2>9. ASSUME NEW i \in 1..Len(rest) PROVE k + i \in 2..Len(p) /\ rest[i].n = p[k + i].n
    <3>1. k + i \in 2..Len(p)
      BY <1>1, <2>2, <2>8
    <3>2. CASE i = 1
      BY <2>6, <2>7, <3>1, <3>2
    <3>3. CASE i # 1
      <4>1. i \in 2..Len(rest) /\ i - 1 \in 1..Len(later)
        BY <1>1, <2>2, <2>5, <2>8, <3>3
      <4>2. rest[i] = p[k + 1 + (i - 1)] /\ k + 1 + (i - 1) = k + i
        BY <2>5, <2>7, <2>2, <4>1
      <4> QED
        BY <3>1, <4>2
    <3> QED
      BY <3>2, <3>3
  <2>10. Later(p, rest, k)
    BY <2>2, <2>8, <2>9 DEF Later
  <2> QED
    BY <2>2, <2>7, <2>10
<1> QED
  BY <1>2, <1>3, ZenonT(20) DEF AfterRead

-----------------------------------------------------------------------------
(* The exchange runs the matching engine of Market: every step of it is a   *)
(* step of the engine or leaves the engine alone.                           *)

\* The messages p of a trader that wrote s of them, of which the last one
\* handled is l: numbered as they were written, and later than l.
PipeOK(p, l, s) ==
    /\ l <= s
    /\ \A i \in DOMAIN p : l < p[i].n /\ p[i].n <= s
    /\ \A i, j \in DOMAIN p : i < j => p[i].n < p[j].n

PipesInv ==
    /\ pipe \in [Trader -> Seq(Msgs)]
    /\ \A t \in Trader : PipeOK(pipe[t], last[t], sent[t])

\* A step of the exchange is a step of the matching engine.
LEMMA MarketStep ==
    ASSUME PipesInv, [XNext]_xvars PROVE [Next]_vars
<1> USE DEF Side
<1>1. CASE Poll
  BY <1>1 DEF Poll
<1>2. CASE PollNothing
  BY <1>2 DEF PollNothing
<1>3. ASSUME NEW t \in Trader, ReadCommand(t) PROVE [Next]_vars
  <2> DEFINE m == Head(pipe[t])
  <2>1. Handle(t, m)
    BY <1>3 DEF ReadCommand
  <2>2. Words(m)
    BY <1>3, MsgsHaveWords DEF ReadCommand, PipesInv
  <2> HIDE DEF m
  <2>3. CASE m.cmd \in Side /\ HandleOrder(t, m)
    BY <2>2, <2>3 DEF HandleOrder, Words, Next, Command
  <2>4. CASE m.cmd = "AMEND" /\ HandleAmend(t, m)
    BY <2>2, <2>4 DEF HandleAmend, Words, Next, Command
  <2>5. CASE m.cmd = "CANCEL" /\ HandleCancel(t, m)
    BY <2>2, <2>5 DEF HandleCancel, Words, Next, Command
  <2>6. CASE m.cmd = "JUNK" /\ HandleInvalid(t)
    BY <2>6 DEF HandleInvalid, Next, Command
  <2> QED
    BY <2>1, <2>3, <2>4, <2>5, <2>6 DEF Handle
<1>4. ASSUME NEW t \in Trader, ReadNothing(t) PROVE [Next]_vars
  BY <1>4 DEF ReadNothing, HandleInvalid, Next, Command
<1>5. ASSUME NEW t \in Trader, ReadBlocks(t) PROVE [Next]_vars
  BY <1>5 DEF ReadBlocks
<1>6. ASSUME NEW t \in Trader, ReadInterrupted(t) PROVE [Next]_vars
  BY <1>6 DEF ReadInterrupted, HandleInvalid, Next, Command
<1>7. CASE DoWrite
  BY <1>7 DEF DoWrite
<1>8. CASE DoKill
  BY <1>8 DEF DoKill
<1>9. CASE Announce
  BY <1>9 DEF Announce
<1>10. CASE AnnounceDone
  BY <1>10 DEF AnnounceDone
<1>11. CASE Match
  BY <1>11 DEF Match, Next
<1>12. CASE MatchNothing
  BY <1>12 DEF MatchNothing, Next
<1>13. CASE PrintOrderBook
  BY <1>13 DEF PrintOrderBook
<1>14. CASE PrintDone
  BY <1>14 DEF PrintDone
<1>15. CASE CommandDone
  BY <1>15 DEF CommandDone
<1>16. CASE ArrayGrown
  BY <1>16 DEF ArrayGrown
<1>17. ASSUME NEW t \in Trader, ReapExited(t) PROVE [Next]_vars
  BY <1>17 DEF ReapExited
<1>18. ASSUME NEW t \in Trader, ReapCrashed(t) PROVE [Next]_vars
  BY <1>18 DEF ReapCrashed
<1>19. CASE ReapNothing
  BY <1>19 DEF ReapNothing
<1>20. CASE SigHandler
  BY <1>20 DEF SigHandler
<1>21. CASE SigHandlerAborts
  BY <1>21 DEF SigHandlerAborts
<1>22. ASSUME NEW t \in Trader, TraderWrite(t) PROVE [Next]_vars
  BY <1>22 DEF TraderWrite
<1>23. ASSUME NEW t \in Trader, TraderKill(t) PROVE [Next]_vars
  BY <1>23 DEF TraderKill
<1>24. ASSUME NEW t \in Trader, TraderExit(t) PROVE [Next]_vars
  BY <1>24 DEF TraderExit
<1>25. ASSUME NEW t \in Trader, TraderCrash(t) PROVE [Next]_vars
  BY <1>25 DEF TraderCrash
<1>26. CASE UNCHANGED xvars
  BY <1>26 DEF xvars
<1> QED
  BY <1>1, <1>2, <1>3, <1>4, <1>5, <1>6, <1>7, <1>8, <1>9, <1>10, <1>11, <1>12, <1>13,
     <1>14, <1>15, <1>16, <1>17, <1>18, <1>19, <1>20, <1>21, <1>22, <1>23, <1>24, <1>25,
     <1>26
     DEF XNext, ExchangeStep, Read, Reap, TraderStep, Finished

-----------------------------------------------------------------------------
(* The calls that answer a command.  A write() is followed by the kill()    *)
(* that announces it, except that of a FILL to the resting order's trader;  *)
(* the answer itself is the first call of its command.                      *)

Shape(q) ==
    /\ q \in Seq(Calls)
    /\ \A i \in DOMAIN q : q[i].call = "write" => q[i].kind # "SIGUSR1"
    /\ \A i \in DOMAIN q :
         q[i].call = "write" /\ q[i].kind # "FILL" =>
             i + 1 \in DOMAIN q /\ q[i + 1] = Kill(q[i].to)
    /\ \A i \in DOMAIN q : q[i].kind \in Answers => i = 1 /\ q[i].call = "write"

\* The calls of the code are calls.
LEMMA CallTypes ==
    ASSUME NEW t \in Trader, NEW kind \in Answers \cup {"MARKET", "FILL"}
    PROVE  /\ Write(t, kind) \in Calls /\ Write(t, kind).call = "write"
           /\ Write(t, kind).kind = kind /\ Write(t, kind).to = t
           /\ Kill(t) \in Calls /\ Kill(t).call = "kill"
           /\ Kill(t).kind = "SIGUSR1" /\ Kill(t).to = t
  BY DEF Write, Kill, Calls

\* A signal is a signal, to its trader.
LEMMA KillFacts == ASSUME NEW t PROVE Kill(t).call = "kill" /\ Kill(t).to = t
  BY DEF Kill

\* A message with its signal, ...
LEMMA TellShape ==
    ASSUME NEW t \in Trader, NEW kind \in Answers \cup {"MARKET", "FILL"}
    PROVE  /\ Shape(Tell(t, kind)) /\ Tell(t, kind) # <<>>
           /\ Head(Tell(t, kind)) = Write(t, kind)
<1> DEFINE w == Write(t, kind)
           k == Kill(t)
<1>1. /\ w \in Calls /\ w.call = "write" /\ w.kind = kind /\ w.to = t
      /\ k \in Calls /\ k.call = "kill" /\ k.kind = "SIGUSR1" /\ k = Kill(t)
  BY CallTypes
<1>2. kind # "SIGUSR1" /\ "SIGUSR1" \notin Answers
  BY DEF Answers
<1>3. Tell(t, kind) = <<w, k>>
  BY DEF Tell
<1> HIDE DEF w, k
<1>4. /\ <<w, k>> \in Seq(Calls) /\ DOMAIN <<w, k>> = {1, 2}
      /\ <<w, k>>[1] = w /\ <<w, k>>[2] = k /\ Head(<<w, k>>) = w /\ <<w, k>> # <<>>
  BY <1>1
<1>5. Shape(<<w, k>>)
  BY <1>1, <1>2, <1>4 DEF Shape
<1> QED
  BY <1>3, <1>4, <1>5 DEF w

\* ... the messages of a trade ...
LEMMA FillShape ==
    ASSUME NEW a \in Trader, NEW b \in Trader
    PROVE  Shape(FillTo(a, b)) /\ FillTo(a, b) # <<>> /\ Head(FillTo(a, b)).kind = "FILL"
<1> DEFINE w == Write(a, "FILL")
           v == Write(b, "FILL")
           k == Kill(a)
<1>1. /\ w \in Calls /\ w.call = "write" /\ w.kind = "FILL" /\ w.to = a
      /\ v \in Calls /\ v.call = "write" /\ v.kind = "FILL" /\ v.to = b
      /\ k \in Calls /\ k.call = "kill" /\ k.kind = "SIGUSR1" /\ k = Kill(a)
  BY CallTypes
<1>2. "SIGUSR1" \notin Answers /\ "FILL" \notin Answers
  BY DEF Answers
<1>3. FillTo(a, b) = IF disconnected[b] THEN <<w, k, k>> ELSE <<w, k, v, k>>
  BY DEF FillTo
<1> HIDE DEF w, v, k
<1>4. CASE disconnected[b]
  <2>1. FillTo(a, b) = <<w, k, k>>
    BY <1>3, <1>4, ZenonT(20)
  <2>2. /\ <<w, k, k>> \in Seq(Calls) /\ DOMAIN <<w, k, k>> = {1, 2, 3}
        /\ <<w, k, k>>[1] = w /\ <<w, k, k>>[2] = k /\ <<w, k, k>>[3] = k
        /\ Head(<<w, k, k>>) = w /\ <<w, k, k>> # <<>>
    BY <1>1
  <2>3. Shape(<<w, k, k>>)
    BY <1>1, <1>2, <2>2 DEF Shape
  <2> QED
    BY <1>1, <2>1, <2>2, <2>3
<1>5. CASE ~disconnected[b]
  <2>1. FillTo(a, b) = <<w, k, v, k>>
    BY <1>3, <1>5, ZenonT(20)
  <2>2. /\ <<w, k, v, k>> \in Seq(Calls) /\ DOMAIN <<w, k, v, k>> = {1, 2, 3, 4}
        /\ <<w, k, v, k>>[1] = w /\ <<w, k, v, k>>[2] = k
        /\ <<w, k, v, k>>[3] = v /\ <<w, k, v, k>>[4] = k
        /\ Head(<<w, k, v, k>>) = w /\ <<w, k, v, k>> # <<>>
    BY <1>1
  <2>3. Shape(<<w, k, v, k>>)
    BY <1>1, <1>2, <2>2 DEF Shape
  <2> QED
    BY <1>1, <2>1, <2>2, <2>3
<1> QED
  BY <1>4, <1>5

\* ... and what is left of them when one call is made.
LEMMA TailShape ==
    ASSUME NEW q, Shape(q), q # <<>>
    PROVE  /\ Shape(Tail(q)) /\ Head(q) \in Calls
           /\ \A i \in DOMAIN Tail(q) : Tail(q)[i].kind \notin Answers
           /\ Head(q).call = "write" /\ Head(q).kind # "FILL" =>
                Tail(q) # <<>> /\ Head(Tail(q)) = Kill(Head(q).to)
           /\ Head(q).call = "write" => Head(q).kind # "SIGUSR1"
<1> DEFINE r == Tail(q)
<1>1. /\ q \in Seq(Calls) /\ Len(q) \in Nat /\ Len(q) >= 1 /\ DOMAIN q = 1..Len(q)
      /\ Head(q) = q[1] /\ Head(q) \in Calls
  BY DEF Shape
<1>2. /\ r \in Seq(Calls) /\ Len(r) = Len(q) - 1 /\ DOMAIN r = 1..(Len(q) - 1)
      /\ \A i \in 1..(Len(q) - 1) : r[i] = q[i + 1] /\ i + 1 \in DOMAIN q
  BY <1>1
<1>10. 1 \in DOMAIN r => r # <<>> /\ Head(r) = r[1]
  BY <1>2
<1> HIDE DEF r
<1>3. \A i \in DOMAIN q :
         /\ q[i].call = "write" => q[i].kind # "SIGUSR1"
         /\ q[i].call = "write" /\ q[i].kind # "FILL" =>
              i + 1 \in DOMAIN q /\ q[i + 1] = Kill(q[i].to)
         /\ q[i].kind \in Answers => i = 1 /\ q[i].call = "write"
  BY DEF Shape
<1>4. \A i \in DOMAIN r : r[i].kind \notin Answers
  <2> TAKE i \in DOMAIN r
  <2>1. i \in 1..(Len(q) - 1) /\ r[i] = q[i + 1] /\ i + 1 \in DOMAIN q
    BY <1>2
  <2>2. i + 1 # 1
    BY <1>1, <2>1
  <2> QED
    BY <1>3, <2>1, <2>2, ZenonT(20)
<1>5. ASSUME NEW i \in DOMAIN r, r[i].call = "write", r[i].kind # "FILL"
      PROVE  i + 1 \in DOMAIN r /\ r[i + 1] = Kill(r[i].to)
  <2>1. i \in 1..(Len(q) - 1) /\ r[i] = q[i + 1] /\ i + 1 \in DOMAIN q
    BY <1>2
  <2>2. (i + 1) + 1 \in DOMAIN q /\ q[(i + 1) + 1] = Kill(q[i + 1].to)
    BY <1>3, <1>5, <2>1
  <2>3. i + 1 \in 1..(Len(q) - 1)
    BY <1>1, <2>1, <2>2
  <2> QED
    BY <1>2, <2>1, <2>2, <2>3
<1>6. \A i \in DOMAIN r : r[i].call = "write" => r[i].kind # "SIGUSR1"
  BY <1>2, <1>3
<1>7. Shape(r)
  BY <1>2, <1>4, <1>5, <1>6 DEF Shape
<1>8. 1 \in DOMAIN q /\ (2 \in DOMAIN q => 1 \in DOMAIN r /\ r[1] = q[2])
  BY <1>1, <1>2
<1>9. Head(q).call = "write" /\ Head(q).kind # "FILL" =>
          2 \in DOMAIN q /\ q[2] = Kill(Head(q).to)
  <2>1. 1 + 1 = 2
    OBVIOUS
  <2> QED
    BY <1>1, <1>3, <1>8, <2>1, ZenonT(20)
<1> QED
  BY <1>1, <1>3, <1>4, <1>7, <1>8, <1>9, <1>10 DEF r

-----------------------------------------------------------------------------
(* The inductive invariant.                                                 *)

InCommand == Answering \cup {"read", "blocked", "print", "done"}

\* Inside a command the loop is at the first signal not handled yet, and the
\* calls are made at the places of the code that make them.
PlaceInv ==
    /\ pc \in InCommand =>
         sig_ptr < Len(signal_array) /\ incoming_trader = signal_array[sig_ptr + 1]
    /\ pc \notin Answering \cup {"killed", "aborted"} => outq = <<>>
    /\ pc = "moved" => Len(signal_array) = sizeofSignalArray - Spare
    /\ \A t \in Trader : disconnected[t] => proc[t] = "reaped"

\* The answer to the command is not written yet.
Due == outq # <<>> /\ Head(outq).kind \in Answers

\* A message that is not a FILL is unsignalled only until the next call.
QueueInv ==
    /\ Shape(outq)
    /\ Due => Head(outq).to = incoming_trader
    /\ \A t \in Trader :
         ~(unsignalled[t] \subseteq {"FILL"}) => outq # <<>> /\ Head(outq) = Kill(t)

\* The signals of a trader among the first k of an array.
SignalsOf(arr, t, k) == {n \in 1..k : arr[n] = t}

Counted(ans, arr, k) == \A t \in Trader : ans[t] <= Cardinality(SignalsOf(arr, t, k))

\* The answer to the signal at sig_ptr is still to be written, or may be.
Early == pc \in {"poll", "read", "blocked", "moved", "reap", "ended"} \/ Due
Late  == pc \in Answering \cup {"print", "done"}

\* A trader was answered at most once for each of its signals handled so far,
\* the one of the command in progress included once its answer is written.
AnswerInv ==
    /\ AnswersNeedSignals
    /\ Early => Counted(answered, signal_array, sig_ptr)
    /\ Late  => Counted(answered, signal_array, sig_ptr + 1)

XInv ==
    /\ TypeOK /\ XTypeOK /\ PipesInv /\ PlaceInv /\ QueueInv /\ AnswerInv
    /\ EndsForAReason

\* What a write() does to the messages and the answers of the traders.
LEMMA WriteFacts ==
    ASSUME XTypeOK, DoWrite, NEW w, w = Head(outq), w.to \in Trader
    PROVE  /\ unsignalled'[w.to] \subseteq unsignalled[w.to] \cup {w.kind}
           /\ \A t \in Trader : t # w.to => unsignalled'[t] = unsignalled[t]
           /\ answered'[w.to] \in {answered[w.to], answered[w.to] + 1}
           /\ w.kind \notin Answers => answered'[w.to] = answered[w.to]
           /\ \A t \in Trader : t # w.to => answered'[t] = answered[t]
<1>1. DOMAIN unsignalled = Trader /\ DOMAIN answered = Trader
  BY DEF XTypeOK
<1>2. CASE UNCHANGED history
  BY <1>2 DEF history
<1>3. CASE /\ unsignalled' = [unsignalled EXCEPT ![w.to] = @ \cup {w.kind}]
           /\ answered' = [answered EXCEPT ![w.to] = IF w.kind \in Answers THEN @ + 1 ELSE @]
  <2>1. unsignalled'[w.to] = unsignalled[w.to] \cup {w.kind}
    BY <1>1, <1>3, ZenonT(20)
  <2>2. answered'[w.to] = IF w.kind \in Answers THEN answered[w.to] + 1 ELSE answered[w.to]
    BY <1>1, <1>3, ZenonT(20)
  <2>3. \A t \in Trader : t # w.to => unsignalled'[t] = unsignalled[t] /\ answered'[t] = answered[t]
    BY <1>1, <1>3, ZenonT(20)
  <2> QED
    BY <2>1, <2>2, <2>3
<1> QED
  BY <1>2, <1>3 DEF DoWrite

\* It keeps their types.
LEMMA WriteTypes ==
    ASSUME XTypeOK, DoWrite, NEW w, w = Head(outq), w.to \in Trader,
           w.kind \in Answers \cup {"MARKET", "FILL"}
    PROVE  /\ unsignalled' \in [Trader -> SUBSET (Answers \cup {"MARKET", "FILL"})]
           /\ answered' \in [Trader -> Nat]
           /\ filled' \in [Trader -> Nat]
<1>1. /\ unsignalled \in [Trader -> SUBSET (Answers \cup {"MARKET", "FILL"})]
      /\ answered \in [Trader -> Nat] /\ filled \in [Trader -> Nat]
  BY DEF XTypeOK
<1>2. CASE UNCHANGED history
  BY <1>1, <1>2 DEF history
<1>3. CASE /\ unsignalled' = [unsignalled EXCEPT ![w.to] = @ \cup {w.kind}]
           /\ answered' = [answered EXCEPT ![w.to] = IF w.kind \in Answers THEN @ + 1 ELSE @]
           /\ filled' = [filled EXCEPT ![w.to] = IF w.kind = "FILL" THEN @ + 1 ELSE @]
  <2>1. unsignalled' \in [Trader -> SUBSET (Answers \cup {"MARKET", "FILL"})]
    BY <1>1, <1>3
  <2>2. answered' \in [Trader -> Nat]
    BY <1>1, <1>3
  <2>3. filled' \in [Trader -> Nat]
    BY <1>1, <1>3
  <2> QED
    BY <2>1, <2>2, <2>3
<1> QED
  BY <1>2, <1>3 DEF DoWrite

\* What every return of read() leads to: an answer to the trader, at the place
\* that goes on with the command or gives it up.
Replies(t) ==
    /\ \E kind \in Answers : outq' = Tell(t, kind)
    /\ pc' \in {"announce", "reject"} /\ other' \in {0, other}

\* Whatever was read, there is one answer.
LEMMA ReadsReply ==
    ASSUME NEW t \in Trader, ReadCommand(t) \/ ReadNothing(t) \/ ReadInterrupted(t)
    PROVE  Replies(t)
<1>1. ASSUME NEW kind \in Answers, Accept(t, kind) PROVE Replies(t)
  BY <1>1 DEF Accept, Replies
<1>2. ASSUME Reject(t) PROVE Replies(t)
  BY <1>2 DEF Reject, Replies, Answers
<1>3. ASSUME HandleInvalid(t) PROVE Replies(t)
  BY <1>2, <1>3 DEF HandleInvalid
<1>4. ASSUME NEW m, Handle(t, m) PROVE Replies(t)
  <2>1. CASE HandleOrder(t, m)
    BY <1>1, <1>2, <2>1 DEF HandleOrder, Answers
  <2>2. CASE HandleAmend(t, m)
    BY <1>1, <1>2, <2>2 DEF HandleAmend, Answers
  <2>3. CASE HandleCancel(t, m)
    BY <1>1, <1>2, <2>3 DEF HandleCancel, Answers
  <2> QED
    BY <1>3, <1>4, <2>1, <2>2, <2>3 DEF Handle
<1> QED
  BY <1>3, <1>4 DEF ReadCommand, ReadNothing, ReadInterrupted

\* An iteration that trades records the trade of two orders of the book, and
\* has their traders told.
LEMMA MatchTrades ==
    ASSUME TypeOK, Match
    PROVE  \E p, r \in Position :
             /\ orderbook[p].trader \in Trader /\ orderbook[r].trader \in Trader
             /\ outq' = FillTo(orderbook[p].trader, orderbook[r].trader)
             /\ \E v : /\ v.incoming_order = p /\ v.order_in_book = r
                       /\ completed_trades' = Append(completed_trades, v)
<1>1. placing # Idle
  BY DEF Match, PlaceOrder
<1>2. PICK r \in Counterparty(placing.side, placing.pos) : Trade(placing.pos, r)
  BY DEF Match, PlaceOrder
<1> DEFINE p == placing.pos
<1>3. p \in Position /\ r \in Position
  <2>1. p \in 0..Len(orderbook) /\ Len(orderbook) \in Nat /\ DOMAIN orderbook = 1..Len(orderbook)
    BY <1>1 DEF TypeOK
  <2>2. p # NULL /\ \E i \in Best(Opposite(placing.side), orderbook[p].item) : r \in DOMAIN orderbook
    BY <1>2 DEF Counterparty, getBestOrder
  <2> QED
    BY <2>1, <2>2 DEF Position, NULL
<1>4. orderbook[p].trader \in Trader /\ orderbook[r].trader \in Trader
  <2>1. orderbook[p] \in OrderType /\ orderbook[r] \in OrderType
    BY <1>3 DEF TypeOK, Position
  <2> QED
    BY <2>1 DEF OrderType
<1>5. /\ completed_trades \in Seq(TradeType)
      /\ \E x, y, z : completed_trades' =
           Append(completed_trades, [incoming_order |-> p, order_in_book |-> r,
                                     transaction_quantity |-> x, transaction_price |-> y,
                                     tax |-> z])
  BY <1>2, ZenonT(20) DEF Trade, TypeOK
<1>6. PICK x, y, z : completed_trades' =
           Append(completed_trades, [incoming_order |-> p, order_in_book |-> r,
                                     transaction_quantity |-> x, transaction_price |-> y,
                                     tax |-> z])
  BY <1>5, ZenonT(20)
<1> DEFINE v == [incoming_order |-> p, order_in_book |-> r, transaction_quantity |-> x,
                 transaction_price |-> y, tax |-> z]
<1>7. v.incoming_order = p /\ v.order_in_book = r
  BY ZenonT(20)
<1>8. completed_trades' = Append(completed_trades, v)
  BY <1>6
<1> HIDE DEF v
<1>9. completed_trades'[Len(completed_trades')] = v
  BY <1>5, <1>8
<1>10. outq' = FillTo(orderbook[p].trader, orderbook[r].trader)
  BY <1>7, <1>9, ZenonT(20) DEF Match
<1>11. \E u : /\ u.incoming_order = p /\ u.order_in_book = r
             /\ completed_trades' = Append(completed_trades, u)
  BY <1>7, <1>8, ZenonT(20)
<1> HIDE DEF p
<1> QED
  BY <1>3, <1>4, <1>10, <1>11, ZenonT(20)

\* The messages of a trade go to traders.
LEMMA MatchFills ==
    ASSUME TypeOK, Match
    PROVE  \E a, b \in Trader : outq' = FillTo(a, b)
  BY MatchTrades, ZenonT(20)

-----------------------------------------------------------------------------
(* The queue of calls.                                                      *)

\* Steps that leave the queue, the trader in turn and the messages alone.
LEMMA QueueUnchanged ==
    ASSUME QueueInv, UNCHANGED <<outq, incoming_trader, unsignalled>> PROVE QueueInv'
  BY DEF QueueInv, Due

\* A new queue, made when every message but a FILL is signalled.
LEMMA QueueStarts ==
    ASSUME XInv, outq = <<>>, Shape(outq'), UNCHANGED unsignalled,
           Due' => Head(outq').to = incoming_trader'
    PROVE  QueueInv'
<1>1. \A t \in Trader : unsignalled[t] \subseteq {"FILL"}
  BY DEF XInv, QueueInv
<1> QED
  BY <1>1 DEF QueueInv

\* After a call, the answer is not due any more.
LEMMA TailDone ==
    ASSUME Shape(outq), outq # <<>>, outq' = Tail(outq)
    PROVE  Shape(outq') /\ ~Due'
<1>1. Shape(Tail(outq)) /\ \A i \in DOMAIN Tail(outq) : Tail(outq)[i].kind \notin Answers
  BY TailShape
<1>2. Tail(outq) \in Seq(Calls)
  BY <1>1 DEF Shape
<1>3. Tail(outq) # <<>> => 1 \in DOMAIN Tail(outq) /\ Head(Tail(outq)) = Tail(outq)[1]
  BY <1>2
<1> QED
  BY <1>1, <1>3, ZenonT(20) DEF Due

\* Every step keeps the shape of the queue, and a message that is not a FILL
\* unsignalled only until the next call.
LEMMA QueueStep ==
    ASSUME XInv, [XNext]_xvars PROVE QueueInv'
<1> USE DEF XInv, loop, history
<1>1. CASE Poll
  <2>1. outq = <<>> /\ outq' = outq /\ unsignalled' = unsignalled
    BY <1>1 DEF Poll, PlaceInv, Answering
  <2> QED
    BY <2>1, QueueStarts DEF QueueInv, Due
<1>2. CASE PollNothing
  BY <1>2, QueueUnchanged DEF PollNothing
<1>3. ASSUME NEW t \in Trader, ReadCommand(t) PROVE QueueInv'
  <2>1. outq = <<>> /\ incoming_trader' = t /\ unsignalled' = unsignalled
    BY <1>3 DEF ReadCommand, PlaceInv, Answering
  <2>2. PICK kind \in Answers : outq' = Tell(t, kind)
    BY <1>3, ReadsReply DEF Replies
  <2>3. Shape(outq') /\ Head(outq').to = incoming_trader'
    BY <2>1, <2>2, TellShape, CallTypes
  <2> QED
    BY <2>1, <2>3, QueueStarts
<1>4. ASSUME NEW t \in Trader, ReadNothing(t) PROVE QueueInv'
  <2>1. outq = <<>> /\ incoming_trader' = t /\ unsignalled' = unsignalled
    BY <1>4 DEF ReadNothing, PlaceInv, Answering
  <2>2. PICK kind \in Answers : outq' = Tell(t, kind)
    BY <1>4, ReadsReply DEF Replies
  <2>3. Shape(outq') /\ Head(outq').to = incoming_trader'
    BY <2>1, <2>2, TellShape, CallTypes
  <2> QED
    BY <2>1, <2>3, QueueStarts
<1>5. ASSUME NEW t \in Trader, ReadBlocks(t) PROVE QueueInv'
  BY <1>5, QueueUnchanged DEF ReadBlocks
<1>6. ASSUME NEW t \in Trader, ReadInterrupted(t) PROVE QueueInv'
  <2>1. outq = <<>> /\ incoming_trader' = t /\ unsignalled' = unsignalled
    BY <1>6 DEF ReadInterrupted, PlaceInv, Answering
  <2>2. PICK kind \in Answers : outq' = Tell(t, kind)
    BY <1>6, ReadsReply DEF Replies
  <2>3. Shape(outq') /\ Head(outq').to = incoming_trader'
    BY <2>1, <2>2, TellShape, CallTypes
  <2> QED
    BY <2>1, <2>3, QueueStarts
<1>7. CASE DoWrite
  <2> DEFINE w == Head(outq)
  <2>1. outq # <<>> /\ w.call = "write" /\ outq' = Tail(outq)
    BY <1>7 DEF DoWrite
  <2>2. Shape(outq') /\ ~Due'
    BY <2>1, TailDone DEF QueueInv
  <2>3. /\ w \in Calls /\ w.to \in Trader
        /\ w.kind # "FILL" => outq' # <<>> /\ Head(outq') = Kill(w.to)
    BY <2>1, TailShape DEF QueueInv, Calls
  <2>4. \A t \in Trader : unsignalled[t] \subseteq {"FILL"}
    BY <2>1, KillFacts DEF QueueInv
  <2>5. /\ unsignalled'[w.to] \subseteq unsignalled[w.to] \cup {w.kind}
        /\ \A t \in Trader : t # w.to => unsignalled'[t] = unsignalled[t]
    BY <1>7, <2>3, WriteFacts
  <2> HIDE DEF w
  <2>6. CASE w.kind = "FILL"
    BY <2>2, <2>3, <2>4, <2>5, <2>6 DEF QueueInv
  <2>7. CASE w.kind # "FILL"
    BY <2>2, <2>3, <2>4, <2>5, <2>7 DEF QueueInv
  <2> QED
    BY <2>6, <2>7
<1>8. CASE DoKill
  <2>1. /\ outq # <<>> /\ Head(outq).call = "kill" /\ outq' = Tail(outq)
        /\ unsignalled' = [unsignalled EXCEPT ![Head(outq).to] = {}]
    BY <1>8 DEF DoKill
  <2>2. Shape(outq') /\ ~Due'
    BY <2>1, TailDone DEF QueueInv
  <2>3. ASSUME NEW t \in Trader PROVE unsignalled'[t] \subseteq {"FILL"}
    <3>1. CASE unsignalled[t] \subseteq {"FILL"}
      BY <2>1, <3>1 DEF XTypeOK
    <3>2. CASE ~(unsignalled[t] \subseteq {"FILL"})
      <4>1. Head(outq) = Kill(t)
        BY <3>2 DEF QueueInv
      <4>2. Head(outq).to = t
        BY <4>1, KillFacts
      <4> QED
        BY <2>1, <4>2 DEF XTypeOK
    <3> QED
      BY <3>1, <3>2
  <2> QED
    BY <2>2, <2>3 DEF QueueInv
<1>9. CASE Announce
  <2>1. outq = <<>> /\ unsignalled' = unsignalled /\ other \in Trader
    BY <1>9 DEF Announce
  <2>2. CASE outq' = <<>>
    BY <2>1, <2>2, QueueStarts, ZenonT(60) DEF QueueInv, Due
  <2>3. CASE outq' = Tell(other, "MARKET")
    <3>1. Shape(outq') /\ Head(outq').kind = "MARKET"
      BY <2>1, <2>3, TellShape, CallTypes
    <3> QED
      BY <2>1, <3>1, QueueStarts DEF Due, Answers
  <2> QED
    BY <1>9, <2>2, <2>3 DEF Announce
<1>10. CASE AnnounceDone
  BY <1>10, QueueUnchanged DEF AnnounceDone
<1>11. CASE Match
  <2>1. outq = <<>> /\ unsignalled' = unsignalled
    BY <1>11 DEF Match
  <2>2. PICK a \in Trader, b \in Trader : outq' = FillTo(a, b)
    BY <1>11, MatchFills
  <2>3. Shape(outq') /\ ~Due'
    BY <2>2, FillShape DEF Due, Answers
  <2> QED
    BY <2>1, <2>3, QueueStarts
<1>12. CASE MatchNothing
  BY <1>12, QueueUnchanged DEF MatchNothing
<1>13. CASE PrintOrderBook
  BY <1>13, QueueUnchanged DEF PrintOrderBook
<1>14. CASE PrintDone
  BY <1>14, QueueUnchanged DEF PrintDone
<1>15. CASE CommandDone
  BY <1>15, QueueUnchanged DEF CommandDone
<1>16. CASE ArrayGrown
  BY <1>16, QueueUnchanged DEF ArrayGrown
<1>17. ASSUME NEW t \in Trader, ReapExited(t) PROVE QueueInv'
  BY <1>17, QueueUnchanged DEF ReapExited
<1>18. ASSUME NEW t \in Trader, ReapCrashed(t) PROVE QueueInv'
  BY <1>18, QueueUnchanged DEF ReapCrashed
<1>19. CASE ReapNothing
  BY <1>19, QueueUnchanged DEF ReapNothing
<1>20. CASE SigHandler
  BY <1>20, QueueUnchanged DEF SigHandler
<1>21. CASE SigHandlerAborts
  BY <1>21, QueueUnchanged DEF SigHandlerAborts
<1>22. ASSUME NEW t \in Trader, TraderWrite(t) PROVE QueueInv'
  BY <1>22, QueueUnchanged DEF TraderWrite
<1>23. ASSUME NEW t \in Trader, TraderKill(t) PROVE QueueInv'
  BY <1>23, QueueUnchanged DEF TraderKill
<1>24. ASSUME NEW t \in Trader, TraderExit(t) PROVE QueueInv'
  BY <1>24, QueueUnchanged DEF TraderExit
<1>25. ASSUME NEW t \in Trader, TraderCrash(t) PROVE QueueInv'
  BY <1>25, QueueUnchanged DEF TraderCrash
<1>26. CASE UNCHANGED xvars
  BY <1>26, QueueUnchanged DEF xvars
<1> QED
  BY <1>1, <1>2, <1>3, <1>4, <1>5, <1>6, <1>7, <1>8, <1>9, <1>10, <1>11, <1>12, <1>13,
     <1>14, <1>15, <1>16, <1>17, <1>18, <1>19, <1>20, <1>21, <1>22, <1>23, <1>24, <1>25,
     <1>26
     DEF XNext, ExchangeStep, Read, Reap, TraderStep, Finished

-----------------------------------------------------------------------------
(* The types, in three parts.                                               *)

LoopTypes ==
    /\ pc \in {"poll", "read", "blocked", "announce", "accept", "reject", "print", "done", "moved",
               "reap", "ended", "killed", "aborted"}
    /\ incoming_trader \in Trader \cup {None}
    /\ outq \in Seq(Calls) /\ other \in Nat

ArrayTypes ==
    /\ pending \in Trader \cup {None}
    /\ signal_array \in Seq(Trader)
    /\ sizeofSignalArray \in Nat /\ Len(signal_array) <= sizeofSignalArray
    /\ sig_ptr \in 0..Len(signal_array)

TraderTypes ==
    /\ proc \in [Trader -> {"running", "exited", "crashed", "reaped"}]
    /\ disconnected \in [Trader -> BOOLEAN]
    /\ writing \in [Trader -> BOOLEAN]
    /\ sent \in [Trader -> Nat]
    /\ answered \in [Trader -> Nat]
    /\ \A t \in Trader : sent[t] <= MaxSent[t]
    /\ last \in [Trader -> Nat]
    /\ unsignalled \in [Trader -> SUBSET (Answers \cup {"MARKET", "FILL"})]
    /\ filled \in [Trader -> Nat]

\* The three parts are the type invariant.
LEMMA TypeParts == XTypeOK <=> LoopTypes /\ ArrayTypes /\ TraderTypes
  BY DEF XTypeOK, LoopTypes, ArrayTypes, TraderTypes

\* sig_handler() adds one entry and keeps the others.
LEMMA RecordFacts ==
    ASSUME ArrayTypes, Record
    PROVE  /\ signal_array' \in Seq(Trader) /\ Len(signal_array') = Len(signal_array) + 1
           /\ \A n \in 1..Len(signal_array) : signal_array'[n] = signal_array[n]
           /\ ArrayTypes'
<1>1. pending \in Trader /\ signal_array' = Append(signal_array, pending)
  BY DEF ArrayTypes, Record
<1>2. signal_array \in Seq(Trader)
  BY DEF ArrayTypes
<1>3. /\ signal_array' \in Seq(Trader) /\ Len(signal_array') = Len(signal_array) + 1
      /\ \A n \in 1..Len(signal_array) : signal_array'[n] = signal_array[n]
  BY <1>1, <1>2
<1> QED
  BY <1>3 DEF ArrayTypes, Record

\* The event loop stays at places of the code, with calls to make.
LEMMA LoopTypeStep ==
    ASSUME XInv, [XNext]_xvars PROVE LoopTypes'
<1>1. LoopTypes /\ ArrayTypes
  BY TypeParts DEF XInv
<1>2. outq' \in Seq(Calls)
  BY QueueStep, ZenonT(60) DEF QueueInv, Shape
<1> USE DEF LoopTypes, loop
<1>3. CASE Poll
  BY <1>1, <1>2, <1>3 DEF Poll, ArrayTypes
<1>4. CASE PollNothing
  BY <1>1, <1>2, <1>4 DEF PollNothing
<1>5. ASSUME NEW t \in Trader, ReadCommand(t) PROVE LoopTypes'
  <2>1. incoming_trader' = incoming_trader
    BY <1>5 DEF ReadCommand
  <2>2. Replies(t)
    BY <1>5, ReadsReply
  <2> QED
    BY <1>1, <1>2, <2>1, <2>2 DEF Replies
<1>6. ASSUME NEW t \in Trader, ReadNothing(t) PROVE LoopTypes'
  <2>1. incoming_trader' = incoming_trader
    BY <1>6 DEF ReadNothing
  <2>2. Replies(t)
    BY <1>6, ReadsReply
  <2> QED
    BY <1>1, <1>2, <2>1, <2>2 DEF Replies
<1>7. ASSUME NEW t \in Trader, ReadBlocks(t) PROVE LoopTypes'
  BY <1>1, <1>2, <1>7 DEF ReadBlocks
<1>8. ASSUME NEW t \in Trader, ReadInterrupted(t) PROVE LoopTypes'
  <2>1. incoming_trader' = incoming_trader
    BY <1>8 DEF ReadInterrupted
  <2>2. Replies(t)
    BY <1>8, ReadsReply
  <2> QED
    BY <1>1, <1>2, <2>1, <2>2 DEF Replies
<1>9. CASE DoWrite
  BY <1>1, <1>2, <1>9 DEF DoWrite
<1>10. CASE DoKill
  BY <1>1, <1>2, <1>10 DEF DoKill
<1>11. CASE Announce
  BY <1>1, <1>2, <1>11, TradersAreNumbers DEF Announce
<1>12. CASE AnnounceDone
  BY <1>1, <1>2, <1>12 DEF AnnounceDone
<1>13. CASE Match
  BY <1>1, <1>2, <1>13 DEF Match
<1>14. CASE MatchNothing
  BY <1>1, <1>2, <1>14 DEF MatchNothing
<1>15. CASE PrintOrderBook
  BY <1>1, <1>2, <1>15 DEF PrintOrderBook
<1>16. CASE PrintDone
  BY <1>1, <1>2, <1>16 DEF PrintDone
<1>17. CASE CommandDone
  BY <1>1, <1>2, <1>17 DEF CommandDone, AfterCommand
<1>18. CASE ArrayGrown
  BY <1>1, <1>2, <1>18 DEF ArrayGrown
<1>19. ASSUME NEW t \in Trader, ReapExited(t) PROVE LoopTypes'
  BY <1>1, <1>2, <1>19 DEF ReapExited, AfterReap
<1>20. ASSUME NEW t \in Trader, ReapCrashed(t) PROVE LoopTypes'
  BY <1>1, <1>2, <1>20 DEF ReapCrashed, AfterReap
<1>21. CASE ReapNothing
  BY <1>1, <1>2, <1>21 DEF ReapNothing, AfterReap
<1>22. CASE SigHandler
  BY <1>1, <1>2, <1>22 DEF SigHandler
<1>23. CASE SigHandlerAborts
  BY <1>1, <1>2, <1>23 DEF SigHandlerAborts
<1>24. ASSUME NEW t \in Trader, TraderWrite(t) PROVE LoopTypes'
  BY <1>1, <1>2, <1>24 DEF TraderWrite
<1>25. ASSUME NEW t \in Trader, TraderKill(t) PROVE LoopTypes'
  BY <1>1, <1>2, <1>25 DEF TraderKill
<1>26. ASSUME NEW t \in Trader, TraderExit(t) PROVE LoopTypes'
  BY <1>1, <1>2, <1>26 DEF TraderExit
<1>27. ASSUME NEW t \in Trader, TraderCrash(t) PROVE LoopTypes'
  BY <1>1, <1>2, <1>27 DEF TraderCrash
<1>28. CASE UNCHANGED xvars
  BY <1>1, <1>2, <1>28 DEF xvars
<1> QED
  BY <1>3, <1>4, <1>5, <1>6, <1>7, <1>8, <1>9, <1>10, <1>11, <1>12, <1>13, <1>14, <1>15,
     <1>16, <1>17, <1>18, <1>19, <1>20, <1>21, <1>22, <1>23, <1>24, <1>25, <1>26, <1>27,
     <1>28
     DEF XNext, ExchangeStep, Read, Reap, TraderStep, Finished


\* The signal array holds what the handler stored, and sig_ptr stays in it.
LEMMA ArrayTypeStep ==
    ASSUME XInv, [XNext]_xvars PROVE ArrayTypes'
<1>1. ArrayTypes
  BY TypeParts DEF XInv
<1> USE DEF signals
<1>2. CASE Poll
  BY <1>1, <1>2 DEF Poll, ArrayTypes
<1>3. CASE PollNothing
  BY <1>1, <1>3 DEF PollNothing, ArrayTypes
<1>4. ASSUME NEW t \in Trader, ReadCommand(t) PROVE ArrayTypes'
  BY <1>1, <1>4 DEF ReadCommand, ArrayTypes
<1>5. ASSUME NEW t \in Trader, ReadNothing(t) PROVE ArrayTypes'
  BY <1>1, <1>5 DEF ReadNothing, ArrayTypes
<1>6. ASSUME NEW t \in Trader, ReadBlocks(t) PROVE ArrayTypes'
  BY <1>1, <1>6 DEF ReadBlocks, ArrayTypes
<1>7. ASSUME NEW t \in Trader, ReadInterrupted(t) PROVE ArrayTypes'
  BY <1>1, <1>7, RecordFacts DEF ReadInterrupted
<1>8. CASE DoWrite
  BY <1>1, <1>8, ZenonT(60) DEF DoWrite, ArrayTypes
<1>9. CASE DoKill
  BY <1>1, <1>9 DEF DoKill, ArrayTypes
<1>10. CASE Announce
  BY <1>1, <1>10 DEF Announce, ArrayTypes
<1>11. CASE AnnounceDone
  BY <1>1, <1>11 DEF AnnounceDone, ArrayTypes
<1>12. CASE Match
  BY <1>1, <1>12 DEF Match, ArrayTypes
<1>13. CASE MatchNothing
  BY <1>1, <1>13 DEF MatchNothing, ArrayTypes
<1>14. CASE PrintOrderBook
  BY <1>1, <1>14 DEF PrintOrderBook, ArrayTypes
<1>15. CASE PrintDone
  BY <1>1, <1>15 DEF PrintDone, ArrayTypes
<1>16. CASE CommandDone
  <2>1. sig_ptr < Len(signal_array) /\ sig_ptr' = sig_ptr + 1
    BY <1>16 DEF CommandDone, XInv, PlaceInv, InCommand, Answering
  <2> QED
    BY <1>1, <2>1, <1>16 DEF CommandDone, ArrayTypes
<1>17. CASE ArrayGrown
  <2>1. /\ sizeofSignalArray' = sizeofSignalArray + MAX_SIGNALS
        /\ UNCHANGED <<pending, signal_array, sig_ptr>>
    BY <1>17, ZenonT(20) DEF ArrayGrown
  <2>2. MAX_SIGNALS \in Nat
    BY ExchangeAssumption
  <2>3. sizeofSignalArray \in Nat /\ Len(signal_array) <= sizeofSignalArray /\ Len(signal_array) \in Nat
    BY <1>1 DEF ArrayTypes
  <2>4. sizeofSignalArray' \in Nat /\ Len(signal_array) <= sizeofSignalArray'
    BY <2>1, <2>2, <2>3
  <2> QED
    BY <1>1, <2>1, <2>4, ZenonT(20) DEF ArrayTypes
<1>18. ASSUME NEW t \in Trader, ReapExited(t) PROVE ArrayTypes'
  BY <1>1, <1>18 DEF ReapExited, ArrayTypes
<1>19. ASSUME NEW t \in Trader, ReapCrashed(t) PROVE ArrayTypes'
  BY <1>1, <1>19 DEF ReapCrashed, ArrayTypes
<1>20. CASE ReapNothing
  BY <1>1, <1>20 DEF ReapNothing, ArrayTypes
<1>21. CASE SigHandler
  BY <1>1, <1>21, RecordFacts DEF SigHandler
<1>22. CASE SigHandlerAborts
  BY <1>1, <1>22 DEF SigHandlerAborts, ArrayTypes
<1>23. ASSUME NEW t \in Trader, TraderWrite(t) PROVE ArrayTypes'
  BY <1>1, <1>23 DEF TraderWrite, ArrayTypes
<1>24. ASSUME NEW t \in Trader, TraderKill(t) PROVE ArrayTypes'
  BY <1>1, <1>24 DEF TraderKill, ArrayTypes
<1>25. ASSUME NEW t \in Trader, TraderExit(t) PROVE ArrayTypes'
  BY <1>1, <1>25 DEF TraderExit, ArrayTypes
<1>26. ASSUME NEW t \in Trader, TraderCrash(t) PROVE ArrayTypes'
  BY <1>1, <1>26 DEF TraderCrash, ArrayTypes
<1>27. CASE UNCHANGED xvars
  BY <1>1, <1>27 DEF xvars, ArrayTypes
<1> QED
  BY <1>2, <1>3, <1>4, <1>5, <1>6, <1>7, <1>8, <1>9, <1>10, <1>11, <1>12, <1>13, <1>14,
     <1>15, <1>16, <1>17, <1>18, <1>19, <1>20, <1>21, <1>22, <1>23, <1>24, <1>25, <1>26,
     <1>27
     DEF XNext, ExchangeStep, Read, Reap, TraderStep, Finished


\* Traders run, exit, crash and are reaped; numbers stay natural numbers and
\* within their bounds.
LEMMA TraderTypeStep ==
    ASSUME XInv, [XNext]_xvars PROVE TraderTypes'
<1>1. TraderTypes
  BY TypeParts DEF XInv
<1> USE DEF TraderTypes, children, senders, history
<1>2. CASE Poll
  BY <1>1, <1>2 DEF Poll
<1>3. CASE PollNothing
  BY <1>1, <1>3 DEF PollNothing
<1>4. ASSUME NEW t \in Trader, ReadCommand(t) PROVE TraderTypes'
  <2> DEFINE m == Head(pipe[t])
  <2>1. m.n \in Nat
    <3>1. pipe[t] # <<>>
      BY <1>4, ZenonT(20) DEF ReadCommand
    <3>2. pipe[t] \in Seq(Msgs)
      BY ZenonT(20) DEF XInv, PipesInv
    <3>3. m \in Msgs
      BY <3>1, <3>2
    <3> QED
      BY <3>3, MsgsHaveWords, ZenonT(20) DEF Words
  <2>2. /\ last' = [last EXCEPT ![t] = m.n]
        /\ UNCHANGED <<children, writing, sent, answered, unsignalled, filled>>
    BY <1>4, ZenonT(60) DEF ReadCommand
  <2> HIDE DEF m
  <2>3. last' \in [Trader -> Nat]
    BY <1>1, <2>1, <2>2, ZenonT(20)
  <2> QED
    BY <1>1, <2>2, <2>3, ZenonT(20)
<1>5. ASSUME NEW t \in Trader, ReadNothing(t) PROVE TraderTypes'
  BY <1>1, <1>5 DEF ReadNothing
<1>6. ASSUME NEW t \in Trader, ReadBlocks(t) PROVE TraderTypes'
  BY <1>1, <1>6, ZenonT(20) DEF ReadBlocks
<1>7. ASSUME NEW t \in Trader, ReadInterrupted(t) PROVE TraderTypes'
  BY <1>1, <1>7, ZenonT(20) DEF ReadInterrupted
<1>8. CASE DoWrite
  <2> DEFINE w == Head(outq)
             kinds == Answers \cup {"MARKET", "FILL"}
  <2>1. UNCHANGED <<children, senders, last>>
    BY <1>8 DEF DoWrite
  <2>2. w.to \in Trader /\ w.kind \in kinds
    BY <1>8, TailShape DEF DoWrite, XInv, QueueInv, Calls
  <2>3. /\ unsignalled' \in [Trader -> SUBSET kinds]
        /\ answered' \in [Trader -> Nat] /\ filled' \in [Trader -> Nat]
    BY <1>8, <2>2, WriteTypes DEF XInv
  <2> QED
    BY <1>1, <2>1, <2>3
<1>9. CASE DoKill
  <2> DEFINE k == Head(outq)
  <2>1. k.to \in Trader
    BY <1>9, TailShape DEF DoKill, XInv, QueueInv, Calls
  <2>2. /\ UNCHANGED <<children, senders, answered, last, filled>>
        /\ unsignalled' = [unsignalled EXCEPT ![k.to] = {}]
    BY <1>9 DEF DoKill
  <2> HIDE DEF k
  <2> QED
    BY <1>1, <2>1, <2>2
<1>10. CASE Announce
  BY <1>1, <1>10 DEF Announce
<1>11. CASE AnnounceDone
  BY <1>1, <1>11 DEF AnnounceDone
<1>12. CASE Match
  BY <1>1, <1>12 DEF Match
<1>13. CASE MatchNothing
  BY <1>1, <1>13 DEF MatchNothing
<1>14. CASE PrintOrderBook
  BY <1>1, <1>14 DEF PrintOrderBook
<1>15. CASE PrintDone
  BY <1>1, <1>15 DEF PrintDone
<1>16. CASE CommandDone
  BY <1>1, <1>16 DEF CommandDone
<1>17. CASE ArrayGrown
  BY <1>1, <1>17 DEF ArrayGrown
<1>18. ASSUME NEW t \in Trader, ReapExited(t) PROVE TraderTypes'
  BY <1>1, <1>18 DEF ReapExited
<1>19. ASSUME NEW t \in Trader, ReapCrashed(t) PROVE TraderTypes'
  BY <1>1, <1>19 DEF ReapCrashed
<1>20. CASE ReapNothing
  BY <1>1, <1>20 DEF ReapNothing
<1>21. CASE SigHandler
  BY <1>1, <1>21 DEF SigHandler
<1>22. CASE SigHandlerAborts
  BY <1>1, <1>22 DEF SigHandlerAborts
<1>23. ASSUME NEW t \in Trader, TraderWrite(t) PROVE TraderTypes'
  <2>1. sent' = [sent EXCEPT ![t] = @ + 1] /\ sent[t] < MaxSent[t]
    BY <1>23, ZenonT(60) DEF TraderWrite
  <2>2. sent' \in [Trader -> Nat] /\ \A u \in Trader : sent'[u] <= MaxSent[u]
    <3>1. MaxSent \in [Trader -> Nat]
      BY ExchangeAssumption
    <3>2. sent \in [Trader -> Nat] /\ \A u \in Trader : sent[u] <= MaxSent[u]
      BY <1>1
    <3> QED
      BY ONLY <2>1, <3>1, <3>2, t \in Trader
  <2>3. UNCHANGED <<children, history>> /\ writing' = [writing EXCEPT ![t] = TRUE]
    BY <1>23, ZenonT(20) DEF TraderWrite
  <2> QED
    BY <1>1, <2>2, <2>3
<1>24. ASSUME NEW t \in Trader, TraderKill(t) PROVE TraderTypes'
  BY <1>1, <1>24 DEF TraderKill
<1>25. ASSUME NEW t \in Trader, TraderExit(t) PROVE TraderTypes'
  BY <1>1, <1>25 DEF TraderExit
<1>26. ASSUME NEW t \in Trader, TraderCrash(t) PROVE TraderTypes'
  BY <1>1, <1>26 DEF TraderCrash
<1>27. CASE UNCHANGED xvars
  BY <1>1, <1>27 DEF xvars
<1> QED
  BY <1>2, <1>3, <1>4, <1>5, <1>6, <1>7, <1>8, <1>9, <1>10, <1>11, <1>12, <1>13, <1>14,
     <1>15, <1>16, <1>17, <1>18, <1>19, <1>20, <1>21, <1>22, <1>23, <1>24, <1>25, <1>26,
     <1>27, ZenonT(60)
     DEF XNext, ExchangeStep, Read, Reap, TraderStep, Finished

-----------------------------------------------------------------------------
(* Where the loop is.                                                       *)

\* What a step does to the signal array: nothing, or it becomes larger, or the
\* handler adds an entry while the loop runs and is not moving the array.
ArrayChange ==
    \/ UNCHANGED <<signal_array, sizeofSignalArray>>
    \/ pc = "moved" /\ pc' = "reap" /\ UNCHANGED signal_array
    \/ /\ pc \notin {"moved", "ended", "killed", "aborted"}
       /\ sizeofSignalArray' = sizeofSignalArray
       /\ Len(signal_array') = Len(signal_array) + 1
       /\ \A n \in 1..Len(signal_array) : signal_array'[n] = signal_array[n]

\* Entries of the signal array stay where they are.
LEMMA ArrayKept == ASSUME XInv, [XNext]_xvars PROVE ArrayChange
<1>1. ArrayTypes
  BY TypeParts DEF XInv
<1>2. ASSUME Record PROVE
        /\ sizeofSignalArray' = sizeofSignalArray /\ Len(signal_array') = Len(signal_array) + 1
        /\ \A n \in 1..Len(signal_array) : signal_array'[n] = signal_array[n]
  BY <1>1, <1>2, RecordFacts, ZenonT(60) DEF Record
<1> USE DEF signals, ArrayChange
<1>3. CASE Poll
  BY <1>3 DEF Poll
<1>4. CASE PollNothing
  BY <1>4 DEF PollNothing
<1>5. ASSUME NEW t \in Trader, ReadCommand(t) PROVE ArrayChange
  BY <1>5 DEF ReadCommand
<1>6. ASSUME NEW t \in Trader, ReadNothing(t) PROVE ArrayChange
  BY <1>6 DEF ReadNothing
<1>7. ASSUME NEW t \in Trader, ReadBlocks(t) PROVE ArrayChange
  BY <1>7 DEF ReadBlocks
<1>8. ASSUME NEW t \in Trader, ReadInterrupted(t) PROVE ArrayChange
  BY <1>2, <1>8 DEF ReadInterrupted
<1>9. CASE DoWrite
  BY <1>9 DEF DoWrite
<1>10. CASE DoKill
  BY <1>10 DEF DoKill
<1>11. CASE Announce
  BY <1>11 DEF Announce
<1>12. CASE AnnounceDone
  BY <1>12 DEF AnnounceDone
<1>13. CASE Match
  BY <1>13 DEF Match
<1>14. CASE MatchNothing
  BY <1>14 DEF MatchNothing
<1>15. CASE PrintOrderBook
  BY <1>15 DEF PrintOrderBook
<1>16. CASE PrintDone
  BY <1>16 DEF PrintDone
<1>17. CASE CommandDone
  BY <1>17 DEF CommandDone
<1>18. CASE ArrayGrown
  BY <1>18 DEF ArrayGrown
<1>19. ASSUME NEW t \in Trader, ReapExited(t) PROVE ArrayChange
  BY <1>19 DEF ReapExited
<1>20. ASSUME NEW t \in Trader, ReapCrashed(t) PROVE ArrayChange
  BY <1>20 DEF ReapCrashed
<1>21. CASE ReapNothing
  BY <1>21 DEF ReapNothing
<1>22. CASE SigHandler
  BY <1>2, <1>22 DEF SigHandler, Stopped
<1>23. CASE SigHandlerAborts
  BY <1>23 DEF SigHandlerAborts
<1>24. ASSUME NEW t \in Trader, TraderWrite(t) PROVE ArrayChange
  BY <1>24 DEF TraderWrite
<1>25. ASSUME NEW t \in Trader, TraderKill(t) PROVE ArrayChange
  BY <1>25 DEF TraderKill
<1>26. ASSUME NEW t \in Trader, TraderExit(t) PROVE ArrayChange
  BY <1>26 DEF TraderExit
<1>27. ASSUME NEW t \in Trader, TraderCrash(t) PROVE ArrayChange
  BY <1>27 DEF TraderCrash
<1>28. CASE UNCHANGED xvars
  BY <1>28 DEF xvars
<1> QED
  BY <1>3, <1>4, <1>5, <1>6, <1>7, <1>8, <1>9, <1>10, <1>11, <1>12, <1>13, <1>14, <1>15,
     <1>16, <1>17, <1>18, <1>19, <1>20, <1>21, <1>22, <1>23, <1>24, <1>25, <1>26, <1>27,
     <1>28, ZenonT(60)
     DEF XNext, ExchangeStep, Read, Reap, TraderStep, Finished


\* Inside a command the loop stays at its signal.
LEMMA PlaceStep ==
    ASSUME XInv, [XNext]_xvars PROVE PlaceInv'
<1>1. PlaceInv /\ LoopTypes /\ ArrayTypes /\ TraderTypes
  BY TypeParts DEF XInv
<1>2. /\ Len(signal_array) \in Nat /\ sig_ptr \in Nat
      /\ Len(signal_array') \in Nat /\ Len(signal_array') >= Len(signal_array)
      /\ \A n \in 1..Len(signal_array) : signal_array'[n] = signal_array[n]
  BY <1>1, ArrayKept, ArrayTypeStep DEF ArrayTypes, ArrayChange
<1>3. ASSUME sig_ptr < Len(signal_array), sig_ptr' = sig_ptr,
             incoming_trader' = signal_array[sig_ptr + 1]
      PROVE  sig_ptr' < Len(signal_array') /\ incoming_trader' = signal_array'[sig_ptr' + 1]
  BY <1>2, <1>3
<1> USE DEF PlaceInv, InCommand, Answering, loop, signals, children
<1>4. CASE Poll
  BY <1>1, <1>2, <1>4 DEF Poll, ArrayTypes
<1>5. CASE PollNothing
  BY <1>1, <1>2, <1>5 DEF PollNothing
<1>6. ASSUME NEW t \in Trader, ReadCommand(t) PROVE PlaceInv'
  <2>1. Replies(t)
    BY <1>6, ReadsReply
  <2>2. UNCHANGED <<incoming_trader, sig_ptr, proc, disconnected>> /\ pc \in {"read", "blocked"}
    BY <1>6 DEF ReadCommand, Record
  <2> QED
    BY <1>1, <1>3, <2>1, <2>2 DEF Replies
<1>7. ASSUME NEW t \in Trader, ReadNothing(t) PROVE PlaceInv'
  <2>1. Replies(t)
    BY <1>7, ReadsReply
  <2>2. UNCHANGED <<incoming_trader, sig_ptr, proc, disconnected>> /\ pc \in {"read", "blocked"}
    BY <1>7, ZenonT(20) DEF ReadNothing, Record
  <2> QED
    BY <1>1, <1>3, <2>1, <2>2 DEF Replies
<1>8. ASSUME NEW t \in Trader, ReadBlocks(t) PROVE PlaceInv'
  BY <1>1, <1>2, <1>8 DEF ReadBlocks
<1>9. ASSUME NEW t \in Trader, ReadInterrupted(t) PROVE PlaceInv'
  <2>1. Replies(t)
    BY <1>9, ReadsReply
  <2>2. UNCHANGED <<incoming_trader, sig_ptr, proc, disconnected>> /\ pc \in {"read", "blocked"}
    BY <1>9 DEF ReadInterrupted, Record
  <2> QED
    BY <1>1, <1>3, <2>1, <2>2 DEF Replies
<1>10. CASE DoWrite
  BY <1>1, <1>2, <1>10, ZenonT(60) DEF DoWrite
<1>11. CASE DoKill
  BY <1>1, <1>2, <1>11, ZenonT(60) DEF DoKill
<1>12. CASE Announce
  BY <1>1, <1>2, <1>12 DEF Announce
<1>13. CASE AnnounceDone
  BY <1>1, <1>2, <1>13 DEF AnnounceDone
<1>14. CASE Match
  BY <1>1, <1>2, <1>14 DEF Match
<1>15. CASE MatchNothing
  BY <1>1, <1>2, <1>15 DEF MatchNothing
<1>16. CASE PrintOrderBook
  BY <1>1, <1>2, <1>16 DEF PrintOrderBook
<1>17. CASE PrintDone
  BY <1>1, <1>2, <1>17 DEF PrintDone
<1>18. CASE CommandDone
  BY <1>1, <1>2, <1>18 DEF CommandDone, AfterCommand
<1>19. CASE ArrayGrown
  BY <1>1, <1>2, <1>19 DEF ArrayGrown
<1>20. ASSUME NEW t \in Trader, ReapExited(t) PROVE PlaceInv'
  BY <1>1, <1>2, <1>20 DEF ReapExited, AfterReap, TraderTypes
<1>21. ASSUME NEW t \in Trader, ReapCrashed(t) PROVE PlaceInv'
  BY <1>1, <1>2, <1>21 DEF ReapCrashed, AfterReap, TraderTypes
<1>22. CASE ReapNothing
  BY <1>1, <1>2, <1>22 DEF ReapNothing, AfterReap, TraderTypes
<1>23. CASE SigHandler
  <2>1. UNCHANGED <<loop, sig_ptr, children>> /\ pc # "moved"
    BY <1>23 DEF SigHandler, Record
  <2> QED
    BY <1>1, <1>3, <2>1, ZenonT(60)
<1>24. CASE SigHandlerAborts
  BY <1>1, <1>2, <1>24 DEF SigHandlerAborts
<1>25. ASSUME NEW t \in Trader, TraderWrite(t) PROVE PlaceInv'
  BY <1>1, <1>2, <1>25 DEF TraderWrite
<1>26. ASSUME NEW t \in Trader, TraderKill(t) PROVE PlaceInv'
  BY <1>1, <1>2, <1>26 DEF TraderKill
<1>27. ASSUME NEW t \in Trader, TraderExit(t) PROVE PlaceInv'
  BY <1>1, <1>2, <1>27 DEF TraderExit, Alive, TraderTypes
<1>28. ASSUME NEW t \in Trader, TraderCrash(t) PROVE PlaceInv'
  BY <1>1, <1>2, <1>28 DEF TraderCrash, Alive, TraderTypes
<1>29. CASE UNCHANGED xvars
  BY <1>1, <1>2, <1>29, ZenonT(60) DEF xvars
<1> QED
  BY <1>4, <1>5, <1>6, <1>7, <1>8, <1>9, <1>10, <1>11, <1>12, <1>13, <1>14, <1>15, <1>16,
     <1>17, <1>18, <1>19, <1>20, <1>21, <1>22, <1>23, <1>24, <1>25, <1>26, <1>27, <1>28,
     <1>29, ZenonT(60)
     DEF XNext, ExchangeStep, Read, Reap, TraderStep, Finished

=============================================================================
