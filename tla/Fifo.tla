-------------------------------- MODULE Fifo --------------------------------
(***************************************************************************)
(* What a read() of BUFFER_READ bytes does to the FIFO between a trader    *)
(* and the exchange.  Both ends read the same way: they look at what       *)
(* precedes the first `;' of the bytes read (pe_exchange.c:375,            *)
(* pe_trader.c:84) and drop the rest of the buffer.  A message is a record *)
(* with a command cmd and a number n, its place among the writer's.  Every *)
(* message is taken to fit into the buffer.                                *)
(***************************************************************************)
EXTENDS Integers, Sequences

CONSTANT PerRead   \* most whole messages one read() takes

ASSUME FifoAssumption == PerRead \in Nat \ {0}

\* The tail of a message that did not fit whole into the buffer.
CutOff(m) == [cmd |-> "JUNK", n |-> m.n]

AtMost(k, n) == IF k < n THEN k ELSE n

AfterRead_Keeps(p) == {p}

\* What may be left in the FIFO by a read() that took the first k messages,
\* and perhaps the beginning of the next.
AfterRead(p) ==
    {SubSeq(p, k + 1, Len(p)) : k \in 1..AtMost(PerRead, Len(p))}
      \cup {<<CutOff(p[k + 1])>> \o SubSeq(p, k + 2, Len(p)) :
               k \in 1..AtMost(PerRead, Len(p) - 1)}
=============================================================================
