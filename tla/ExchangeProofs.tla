--------------------------- MODULE ExchangeProofs ---------------------------
(***************************************************************************)
(* The rest of the invariant of the event loop: why the exchange ends, how *)
(* commands are handled in order, how answers and FILL messages are        *)
(* counted; and the theorems about the loop.                               *)
(***************************************************************************)
EXTENDS ExchangeLemmas, MatchingProofs

USE SMTT(20), ZenonT(20)

\* The exchange ends, is killed or aborts for the reasons of EndsForAReason.
LEMMA EndStep ==
    ASSUME XInv, [XNext]_xvars PROVE EndsForAReason'
<1>1. PlaceInv /\ LoopTypes /\ ArrayTypes /\ TraderTypes /\ EndsForAReason
  BY TypeParts DEF XInv
<1>2. \A t \in Trader : disconnected[t] => proc[t] = "reaped"
  BY <1>1 DEF PlaceInv
<1>3. ASSUME UNCHANGED <<pc, signal_array, sizeofSignalArray, children>> PROVE EndsForAReason'
  BY <1>1, <1>3 DEF EndsForAReason, Alive, children
<1>4. ASSUME pc' \notin {"ended", "killed", "aborted"} PROVE EndsForAReason'
  BY <1>4 DEF EndsForAReason
<1> USE DEF loop, signals, children
<1>5. CASE Poll
  BY <1>4, <1>5 DEF Poll
<1>6. CASE PollNothing
  BY <1>4, <1>6 DEF PollNothing
<1>7. ASSUME NEW t \in Trader, ReadCommand(t) PROVE EndsForAReason'
  BY <1>4, <1>7, ReadsReply DEF Replies
<1>8. ASSUME NEW t \in Trader, ReadNothing(t) PROVE EndsForAReason'
  BY <1>4, <1>8, ReadsReply DEF Replies
<1>9. ASSUME NEW t \in Trader, ReadBlocks(t) PROVE EndsForAReason'
  BY <1>4, <1>9 DEF ReadBlocks
<1>10. ASSUME NEW t \in Trader, ReadInterrupted(t) PROVE EndsForAReason'
  BY <1>4, <1>10, ReadsReply DEF Replies
<1>11. CASE DoWrite
  <2>1. CASE pc' = pc
    BY <1>4, <1>11, <2>1 DEF DoWrite, Answering
  <2>2. CASE \E t \in Trader : ~disconnected[t] /\ ~Alive(t) /\ pc' = "killed"
    BY <1>11, <2>2 DEF DoWrite, EndsForAReason, Alive
  <2>3. Head(outq).to \in Trader
    BY <1>11, TailShape DEF DoWrite, XInv, QueueInv, Calls
  <2> QED
    BY <1>11, <2>1, <2>2, <2>3 DEF DoWrite
<1>12. CASE DoKill
  BY <1>4, <1>12 DEF DoKill, Answering
<1>13. CASE Announce
  BY <1>4, <1>13 DEF Announce
<1>14. CASE AnnounceDone
  BY <1>4, <1>14 DEF AnnounceDone
<1>15. CASE Match
  BY <1>4, <1>15 DEF Match
<1>16. CASE MatchNothing
  BY <1>3, <1>16 DEF MatchNothing
<1>17. CASE PrintOrderBook
  BY <1>4, <1>17 DEF PrintOrderBook
<1>18. CASE PrintDone
  BY <1>4, <1>18 DEF PrintDone
<1>19. CASE CommandDone
  BY <1>4, <1>19 DEF CommandDone, AfterCommand
<1>20. CASE ArrayGrown
  BY <1>4, <1>20 DEF ArrayGrown
<1>21. ASSUME NEW t \in Trader, ReapExited(t) PROVE EndsForAReason'
  BY <1>1, <1>2, <1>21 DEF ReapExited, AfterReap, EndsForAReason, TraderTypes
<1>22. ASSUME NEW t \in Trader, ReapCrashed(t) PROVE EndsForAReason'
  BY <1>1, <1>2, <1>22 DEF ReapCrashed, AfterReap, EndsForAReason, TraderTypes
<1>23. CASE ReapNothing
  BY <1>1, <1>2, <1>23 DEF ReapNothing, AfterReap, EndsForAReason
<1>24. CASE SigHandler
  BY <1>4, <1>24 DEF SigHandler, Stopped
<1>25. CASE SigHandlerAborts
  <2>1. /\ pc' = "aborted" /\ UNCHANGED signals
        /\ pc = "moved" \/ Len(signal_array) = sizeofSignalArray
    BY <1>25 DEF SigHandlerAborts
  <2> QED
    BY <1>1, <2>1 DEF EndsForAReason, PlaceInv
<1>26. ASSUME NEW t \in Trader, TraderWrite(t) PROVE EndsForAReason'
  BY <1>3, <1>26 DEF TraderWrite
<1>27. ASSUME NEW t \in Trader, TraderKill(t) PROVE EndsForAReason'
  BY <1>3, <1>27 DEF TraderKill
<1>28. ASSUME NEW t \in Trader, TraderExit(t) PROVE EndsForAReason'
  <2>1. UNCHANGED <<pc, signal_array, sizeofSignalArray, disconnected>> /\ proc[t] = "running"
    BY <1>28 DEF TraderExit, Alive
  <2>2. \A u \in Trader : u # t => proc'[u] = proc[u]
    BY <1>1, <1>28 DEF TraderExit, TraderTypes
  <2>3. proc'[t] # "running"
    BY <1>1, <1>28 DEF TraderExit, TraderTypes
  <2> QED
    BY <1>1, <2>1, <2>2, <2>3 DEF EndsForAReason, Alive
<1>29. ASSUME NEW t \in Trader, TraderCrash(t) PROVE EndsForAReason'
  <2>1. UNCHANGED <<pc, signal_array, sizeofSignalArray, disconnected>> /\ proc[t] = "running"
    BY <1>29 DEF TraderCrash, Alive
  <2>2. \A u \in Trader : u # t => proc'[u] = proc[u]
    BY <1>1, <1>29 DEF TraderCrash, TraderTypes
  <2>3. proc'[t] # "running"
    BY <1>1, <1>29 DEF TraderCrash, TraderTypes
  <2> QED
    BY <1>1, <2>1, <2>2, <2>3 DEF EndsForAReason, Alive
<1>30. CASE UNCHANGED xvars
  BY <1>3, <1>30 DEF xvars
<1> QED
  BY <1>5, <1>6, <1>7, <1>8, <1>9, <1>10, <1>11, <1>12, <1>13, <1>14, <1>15, <1>16, <1>17,
     <1>18, <1>19, <1>20, <1>21, <1>22, <1>23, <1>24, <1>25, <1>26, <1>27, <1>28, <1>29,
     <1>30
     DEF XNext, ExchangeStep, Read, Reap, TraderStep, Finished

-----------------------------------------------------------------------------
(* The FIFOs.                                                               *)

\* A read() handles a later message than the one before, and leaves later ones.
LEMMA PipeRead ==
    ASSUME NEW p \in Seq(Msgs), p # <<>>, NEW rest \in AfterRead(p),
           NEW l \in Nat, NEW s \in Nat, PipeOK(p, l, s)
    PROVE  l < Head(p).n /\ PipeOK(rest, Head(p).n, s)
<1>1. /\ Len(p) \in Nat /\ DOMAIN p = 1..Len(p) /\ 1 \in DOMAIN p /\ Head(p) = p[1]
      /\ \A i \in DOMAIN p : p[i] \in Msgs
  OBVIOUS
<1>2. \A i \in DOMAIN p : p[i].n \in Nat
  BY <1>1, MsgsHaveWords DEF Words
<1>3. rest \in Seq(Msgs)
  BY AfterReadFacts
<1>4. PICK k \in Nat : Later(p, rest, k)
  BY AfterReadFacts
<1>5. Len(rest) \in Nat /\ DOMAIN rest = 1..Len(rest)
  BY <1>3
<1>6. \A i \in DOMAIN rest : k + i \in DOMAIN p /\ 1 < k + i /\ rest[i].n = p[k + i].n
  BY <1>1, <1>4, <1>5 DEF Later
<1>7. \A i \in DOMAIN rest : p[1].n < rest[i].n /\ rest[i].n <= s
  BY <1>1, <1>6 DEF PipeOK
<1>8. ASSUME NEW i \in DOMAIN rest, NEW j \in DOMAIN rest, i < j
      PROVE  rest[i].n < rest[j].n
  <2>1. k + i < k + j
    BY <1>4, <1>5, <1>8
  <2> QED
    BY <1>6, <2>1 DEF PipeOK
<1>9. l < p[1].n /\ p[1].n <= s
  BY <1>1 DEF PipeOK
<1> QED
  BY <1>1, <1>7, <1>8, <1>9 DEF PipeOK

\* A trader writes the message after the ones it wrote before.
LEMMA PipeWrite ==
    ASSUME NEW p \in Seq(Msgs), NEW m \in Msgs, NEW l \in Nat, NEW s \in Nat,
           PipeOK(p, l, s), m.n = s + 1
    PROVE  PipeOK(Append(p, m), l, s + 1)
<1> DEFINE q == Append(p, m)
<1>1. /\ Len(p) \in Nat /\ DOMAIN p = 1..Len(p) /\ DOMAIN q = 1..(Len(p) + 1)
      /\ \A i \in DOMAIN p : q[i] = p[i]
      /\ q[Len(p) + 1] = m
      /\ \A i \in DOMAIN p : p[i] \in Msgs
  OBVIOUS
<1>2. \A i \in DOMAIN p : p[i].n \in Nat
  BY <1>1, MsgsHaveWords DEF Words
<1> HIDE DEF q
<1>3. \A i \in DOMAIN q : i \in DOMAIN p \/ i = Len(p) + 1
  <2>1. Len(p) \in Nat /\ DOMAIN p = 1..Len(p) /\ DOMAIN q = 1..(Len(p) + 1)
    BY <1>1
  <2> QED
    BY ONLY <2>1, SMTT(20), ZenonT(20)
<1>4. \A i \in DOMAIN p : q[i].n = p[i].n /\ l < p[i].n /\ p[i].n <= s /\ p[i].n \in Nat
  BY <1>1, <1>2 DEF PipeOK
<1>5. l <= s /\ q[Len(p) + 1].n = s + 1
  BY <1>1 DEF PipeOK
<1>6. ASSUME NEW i \in DOMAIN q PROVE l < q[i].n /\ q[i].n <= s + 1
  <2>1. CASE i \in DOMAIN p
    BY <1>4, <2>1
  <2>2. CASE i = Len(p) + 1
    BY <1>5, <2>2
  <2> QED
    BY <1>3, <2>1, <2>2
<1>7. ASSUME NEW i \in DOMAIN q, NEW j \in DOMAIN q, i < j PROVE q[i].n < q[j].n
  <2>1. i \in DOMAIN p
    BY <1>1, <1>7
  <2>2. CASE j \in DOMAIN p
    BY <1>4, <1>7, <2>1, <2>2 DEF PipeOK
  <2>3. CASE j = Len(p) + 1
    BY <1>4, <1>5, <2>1, <2>3
  <2> QED
    BY <1>3, <2>2, <2>3
<1> QED
  BY <1>5, <1>6, <1>7 DEF PipeOK, q

\* Commands stay in the order they were written.
LEMMA PipesStep ==
    ASSUME XInv, [XNext]_xvars PROVE PipesInv'
<1>1. PipesInv /\ TraderTypes
  BY TypeParts DEF XInv
<1>2. ASSUME UNCHANGED <<pipe, last, sent>> PROVE PipesInv'
  BY <1>1, <1>2 DEF PipesInv, PipeOK
<1> USE DEF senders, history
<1>3. CASE Poll
  BY <1>2, <1>3 DEF Poll
<1>4. CASE PollNothing
  BY <1>2, <1>4 DEF PollNothing
<1>5. ASSUME NEW t \in Trader, ReadCommand(t) PROVE PipesInv'
  <2>1. PICK rest \in AfterRead(pipe[t]) : pipe' = [pipe EXCEPT ![t] = rest]
    BY <1>5, ZenonT(60) DEF ReadCommand
  <2>2. /\ pipe[t] # <<>> /\ sent' = sent
        /\ last' = [last EXCEPT ![t] = Head(pipe[t]).n]
    BY <1>5 DEF ReadCommand
  <2>3. /\ pipe[t] \in Seq(Msgs) /\ last[t] \in Nat /\ sent[t] \in Nat
        /\ PipeOK(pipe[t], last[t], sent[t])
    BY <1>1 DEF PipesInv, TraderTypes
  <2>4. PipeOK(rest, Head(pipe[t]).n, sent[t]) /\ rest \in Seq(Msgs)
    BY <2>2, <2>3, PipeRead, AfterReadFacts, ZenonT(60)
  <2>5. pipe' \in [Trader -> Seq(Msgs)]
    BY <1>1, <2>1, <2>4, ZenonT(60) DEF PipesInv
  <2>6. pipe'[t] = rest /\ last'[t] = Head(pipe[t]).n /\ sent'[t] = sent[t]
    BY <1>1, <2>1, <2>2 DEF PipesInv, TraderTypes
  <2>7. \A u \in Trader : u # t => pipe'[u] = pipe[u] /\ last'[u] = last[u] /\ sent'[u] = sent[u]
    BY <1>1, <2>1, <2>2 DEF PipesInv, TraderTypes
  <2>8. \A u \in Trader : PipeOK(pipe'[u], last'[u], sent'[u])
    BY <1>1, <2>4, <2>6, <2>7, ZenonT(20) DEF PipesInv
  <2> QED
    BY <2>5, <2>8 DEF PipesInv, PipeOK
<1>6. ASSUME NEW t \in Trader, ReadNothing(t) PROVE PipesInv'
  BY <1>2, <1>6 DEF ReadNothing
<1>7. ASSUME NEW t \in Trader, ReadBlocks(t) PROVE PipesInv'
  BY <1>2, <1>7 DEF ReadBlocks
<1>8. ASSUME NEW t \in Trader, ReadInterrupted(t) PROVE PipesInv'
  BY <1>2, <1>8 DEF ReadInterrupted
<1>9. CASE DoWrite
  BY <1>2, <1>9 DEF DoWrite
<1>10. CASE DoKill
  BY <1>2, <1>10 DEF DoKill
<1>11. CASE Announce
  BY <1>2, <1>11 DEF Announce
<1>12. CASE AnnounceDone
  BY <1>2, <1>12 DEF AnnounceDone
<1>13. CASE Match
  BY <1>2, <1>13 DEF Match
<1>14. CASE MatchNothing
  BY <1>2, <1>14 DEF MatchNothing
<1>15. CASE PrintOrderBook
  BY <1>2, <1>15 DEF PrintOrderBook
<1>16. CASE PrintDone
  BY <1>2, <1>16 DEF PrintDone
<1>17. CASE CommandDone
  BY <1>2, <1>17 DEF CommandDone
<1>18. CASE ArrayGrown
  BY <1>2, <1>18 DEF ArrayGrown
<1>19. ASSUME NEW t \in Trader, ReapExited(t) PROVE PipesInv'
  BY <1>2, <1>19 DEF ReapExited
<1>20. ASSUME NEW t \in Trader, ReapCrashed(t) PROVE PipesInv'
  BY <1>2, <1>20 DEF ReapCrashed
<1>21. CASE ReapNothing
  BY <1>2, <1>21 DEF ReapNothing
<1>22. CASE SigHandler
  BY <1>2, <1>22 DEF SigHandler
<1>23. CASE SigHandlerAborts
  BY <1>2, <1>23 DEF SigHandlerAborts
<1>24. ASSUME NEW t \in Trader, TraderWrite(t) PROVE PipesInv'
  <2>1. PICK c \in Commands : pipe' = [pipe EXCEPT ![t] = Append(@, Numbered(c, sent[t] + 1))]
    BY <1>24, ZenonT(60) DEF TraderWrite
  <2>2. sent' = [sent EXCEPT ![t] = @ + 1] /\ last' = last
    BY <1>24 DEF TraderWrite
  <2>3. /\ pipe[t] \in Seq(Msgs) /\ last[t] \in Nat /\ sent[t] \in Nat
        /\ PipeOK(pipe[t], last[t], sent[t])
    BY <1>1 DEF PipesInv, TraderTypes
  <2> DEFINE m == Numbered(c, sent[t] + 1)
  <2>4. m \in Msgs /\ m.n = sent[t] + 1
    BY <2>3, NumberedFields DEF Msgs, WholeMsgs
  <2>5. pipe' = [pipe EXCEPT ![t] = Append(@, m)]
    BY <2>1
  <2> HIDE DEF m
  <2>6. PipeOK(Append(pipe[t], m), last[t], sent[t] + 1)
    BY <2>3, <2>4, PipeWrite
  <2>7. pipe' \in [Trader -> Seq(Msgs)]
    BY <1>1, <2>4, <2>5 DEF PipesInv
  <2>8. pipe'[t] = Append(pipe[t], m) /\ last'[t] = last[t] /\ sent'[t] = sent[t] + 1
    BY <1>1, <2>2, <2>5 DEF PipesInv, TraderTypes
  <2>9. \A u \in Trader : u # t => pipe'[u] = pipe[u] /\ last'[u] = last[u] /\ sent'[u] = sent[u]
    BY <1>1, <2>2, <2>5 DEF PipesInv, TraderTypes
  <2>10. \A u \in Trader : PipeOK(pipe'[u], last'[u], sent'[u])
    BY <1>1, <2>6, <2>8, <2>9, ZenonT(20) DEF PipesInv
  <2> QED
    BY <2>7, <2>10, ZenonT(60) DEF PipesInv, PipeOK
<1>25. ASSUME NEW t \in Trader, TraderKill(t) PROVE PipesInv'
  BY <1>2, <1>25 DEF TraderKill
<1>26. ASSUME NEW t \in Trader, TraderExit(t) PROVE PipesInv'
  BY <1>2, <1>26 DEF TraderExit
<1>27. ASSUME NEW t \in Trader, TraderCrash(t) PROVE PipesInv'
  BY <1>2, <1>27 DEF TraderCrash
<1>28. CASE UNCHANGED xvars
  BY <1>2, <1>28 DEF xvars
<1> QED
  BY <1>3, <1>4, <1>5, <1>6, <1>7, <1>8, <1>9, <1>10, <1>11, <1>12, <1>13, <1>14, <1>15,
     <1>16, <1>17, <1>18, <1>19, <1>20, <1>21, <1>22, <1>23, <1>24, <1>25, <1>26, <1>27,
     <1>28
     DEF XNext, ExchangeStep, Read, Reap, TraderStep, Finished

-----------------------------------------------------------------------------
(* The answers.                                                             *)

\* Signals can be counted.
LEMMA SignalsFinite ==
    ASSUME NEW arr, NEW t, NEW k \in Nat
    PROVE  /\ IsFiniteSet(SignalsOf(arr, t, k))
           /\ Cardinality(SignalsOf(arr, t, k)) \in Nat
<1>1. IsFiniteSet(1..k)
  BY FS_Interval
<1>2. IsFiniteSet(SignalsOf(arr, t, k))
  BY <1>1, FS_Subset DEF SignalsOf
<1> QED
  BY <1>2, FS_CardinalityType

\* One more signal of the trader is one more.
LEMMA SignalsNext ==
    ASSUME NEW arr, NEW t, NEW k \in Nat, arr[k + 1] = t
    PROVE  Cardinality(SignalsOf(arr, t, k + 1)) = Cardinality(SignalsOf(arr, t, k)) + 1
<1> DEFINE S == SignalsOf(arr, t, k)
<1>1. IsFiniteSet(S)
  BY SignalsFinite
<1>2. k + 1 \notin S /\ SignalsOf(arr, t, k + 1) = S \cup {k + 1}
  BY DEF SignalsOf
<1> HIDE DEF S
<1>3. Cardinality(S \cup {k + 1}) = Cardinality(S) + 1
  BY <1>1, <1>2, FS_AddElement, ZenonT(20)
<1> QED
  BY <1>2, <1>3, ZenonT(60) DEF S

\* A longer prefix has no fewer.
LEMMA SignalsMore ==
    ASSUME NEW arr, NEW t, NEW k \in Nat, NEW l \in Nat, k <= l
    PROVE  Cardinality(SignalsOf(arr, t, k)) <= Cardinality(SignalsOf(arr, t, l))
<1>1. IsFiniteSet(SignalsOf(arr, t, l))
  BY SignalsFinite
<1>2. SignalsOf(arr, t, k) \in SUBSET SignalsOf(arr, t, l)
  BY DEF SignalsOf
<1> QED
  BY <1>1, <1>2, FS_Subset

\* Answers counted by a prefix are counted by a longer one.
LEMMA CountedMore ==
    ASSUME NEW ans \in [Trader -> Nat], NEW arr, NEW k \in Nat, NEW l \in Nat, k <= l,
           Counted(ans, arr, k)
    PROVE  Counted(ans, arr, l)
<1> SUFFICES ASSUME NEW t \in Trader PROVE ans[t] <= Cardinality(SignalsOf(arr, t, l))
  BY DEF Counted
<1>1. ans[t] \in Nat /\ ans[t] <= Cardinality(SignalsOf(arr, t, k))
  BY DEF Counted
<1>2. /\ Cardinality(SignalsOf(arr, t, k)) \in Nat /\ Cardinality(SignalsOf(arr, t, l)) \in Nat
      /\ Cardinality(SignalsOf(arr, t, k)) <= Cardinality(SignalsOf(arr, t, l))
  BY SignalsFinite, SignalsMore
<1> QED
  BY <1>1, <1>2

\* The prefix may be that of an array that has become longer.
LEMMA CountedKept ==
    ASSUME NEW ans, NEW arr, NEW brr, NEW k \in Nat, \A n \in 1..k : brr[n] = arr[n],
           Counted(ans, arr, k)
    PROVE  Counted(ans, brr, k)
<1>1. \A t : SignalsOf(brr, t, k) = SignalsOf(arr, t, k)
  BY DEF SignalsOf
<1> QED
  BY <1>1 DEF Counted

\* What AnswersNeedSignals counts are the signals of the whole array.
LEMMA CountedAll ==
    ASSUME NEW ans, NEW arr \in Seq(Trader)
    PROVE  Counted(ans, arr, Len(arr)) <=>
             \A t \in Trader : ans[t] <= Cardinality({n \in DOMAIN arr : arr[n] = t})
<1>1. \A t : SignalsOf(arr, t, Len(arr)) = {n \in DOMAIN arr : arr[n] = t}
  BY DEF SignalsOf
<1> QED
  BY <1>1, ZenonT(20) DEF Counted

\* A step that writes no answer keeps what was counted, ...
LEMMA AnswersKept ==
    ASSUME XInv, [XNext]_xvars, answered' = answered, NEW k \in 0..Len(signal_array),
           Counted(answered, signal_array, k)
    PROVE  Counted(answered', signal_array', k)
<1>1. Len(signal_array) \in Nat
  BY TypeParts DEF XInv, ArrayTypes
<1>2. \A n \in 1..k : signal_array'[n] = signal_array[n]
  BY <1>1, ArrayKept DEF ArrayChange
<1> QED
  BY <1>2, CountedKept

\* ... and what is counted by a prefix is counted by the array.
LEMMA AnswersCounted ==
    ASSUME XInv, [XNext]_xvars, NEW k \in Nat, k <= Len(signal_array'),
           Counted(answered', signal_array', k)
    PROVE  AnswersNeedSignals'
<1>1. answered' \in [Trader -> Nat] /\ signal_array' \in Seq(Trader) /\ Len(signal_array') \in Nat
  BY TraderTypeStep, ArrayTypeStep DEF TraderTypes, ArrayTypes
<1>2. Counted(answered', signal_array', Len(signal_array'))
  BY <1>1, CountedMore
<1> QED
  BY <1>1, <1>2, CountedAll DEF AnswersNeedSignals

\* A step that writes no answer.
LEMMA AnswersNeedSignalsKept ==
    ASSUME XInv, [XNext]_xvars, answered' = answered PROVE AnswersNeedSignals'
<1>1. signal_array \in Seq(Trader) /\ Len(signal_array) \in Nat
  BY TypeParts DEF XInv, ArrayTypes
<1>2. Counted(answered, signal_array, Len(signal_array))
  BY <1>1, CountedAll DEF XInv, AnswerInv, AnswersNeedSignals
<1>3. Counted(answered', signal_array', Len(signal_array))
  BY <1>1, <1>2, AnswersKept
<1>4. Len(signal_array) <= Len(signal_array')
  BY <1>1, ArrayKept DEF ArrayChange
<1> QED
  BY <1>1, <1>3, <1>4, AnswersCounted


\* A step that writes no answer and stays at its signal.
LEMMA AnswersQuiet ==
    ASSUME XInv, [XNext]_xvars, answered' = answered, sig_ptr' = sig_ptr,
           Early' => Early, Late' => Late \/ Early
    PROVE  AnswerInv'
<1>1. /\ sig_ptr \in Nat /\ Len(signal_array) \in Nat /\ sig_ptr <= Len(signal_array)
      /\ answered \in [Trader -> Nat]
  BY TypeParts DEF XInv, ArrayTypes, TraderTypes
<1>2. AnswerInv /\ PlaceInv
  BY DEF XInv
<1>3. ASSUME Early PROVE Counted(answered', signal_array', sig_ptr')
  BY <1>1, <1>2, <1>3, AnswersKept DEF AnswerInv
<1>4. ASSUME Late PROVE Counted(answered', signal_array', sig_ptr' + 1)
  <2>1. sig_ptr + 1 \in 0..Len(signal_array)
    BY <1>1, <1>2, <1>4 DEF Late, PlaceInv, InCommand
  <2> QED
    BY <1>2, <1>4, <2>1, AnswersKept DEF AnswerInv
<1>5. ASSUME Early PROVE Counted(answered', signal_array', sig_ptr' + 1)
  BY <1>1, <1>3, <1>5, CountedMore
<1>6. AnswersNeedSignals'
  BY AnswersNeedSignalsKept
<1> QED
  BY <1>3, <1>4, <1>5, <1>6 DEF AnswerInv

\* Nobody is answered more often than signalled.
LEMMA AnswerStep ==
    ASSUME XInv, [XNext]_xvars PROVE AnswerInv'
<1>1. PlaceInv /\ QueueInv /\ AnswerInv /\ LoopTypes /\ ArrayTypes /\ TraderTypes
  BY TypeParts DEF XInv
<1> USE DEF Early, Late, Answering, loop, signals, history
<1>2. CASE Poll
  BY <1>2, AnswersQuiet DEF Poll
<1>3. CASE PollNothing
  BY <1>3, AnswersQuiet DEF PollNothing
<1>4. ASSUME NEW t \in Trader, ReadCommand(t) PROVE AnswerInv'
  BY <1>4, AnswersQuiet DEF ReadCommand, Record
<1>5. ASSUME NEW t \in Trader, ReadNothing(t) PROVE AnswerInv'
  BY <1>5, AnswersQuiet DEF ReadNothing, Record
<1>6. ASSUME NEW t \in Trader, ReadBlocks(t) PROVE AnswerInv'
  BY <1>6, AnswersQuiet DEF ReadBlocks
<1>7. ASSUME NEW t \in Trader, ReadInterrupted(t) PROVE AnswerInv'
  BY <1>7, AnswersQuiet DEF ReadInterrupted, Record
<1>8. CASE DoWrite
  <2> DEFINE w == Head(outq)
             s == signal_array
  <2>1. /\ outq # <<>> /\ pc \in Answering /\ sig_ptr' = sig_ptr /\ s' = s
        /\ pc' \in {pc, "killed"}
    BY <1>8 DEF DoWrite
  <2>2. ~Due' /\ w.to \in Trader
    BY <1>1, <2>1, <1>8, TailDone, TailShape, ZenonT(60) DEF DoWrite, QueueInv, Calls
  <2>3. CASE w.kind \notin Answers
    <3>1. \A t \in Trader : answered'[t] = answered[t]
      BY <1>8, <2>2, <2>3, WriteFacts, ZenonT(60) DEF XInv
    <3>2. answered' \in [Trader -> Nat] /\ answered \in [Trader -> Nat]
      BY <1>1, TraderTypeStep DEF TraderTypes
    <3>3. answered' = answered
      BY <3>1, <3>2
    <3> QED
      BY <2>1, <2>2, <3>3, AnswersQuiet
  <2>4. CASE w.kind \in Answers
    <3>1. w.to = incoming_trader /\ Counted(answered, s, sig_ptr)
      BY <1>1, <2>1, <2>4, ZenonT(60) DEF QueueInv, Due, AnswerInv
    <3>2. /\ s[sig_ptr + 1] = w.to /\ sig_ptr \in Nat
          /\ sig_ptr < Len(s) /\ Len(s) \in Nat
      BY <1>1, <2>1, <3>1 DEF PlaceInv, InCommand, ArrayTypes
    <3>3. ASSUME NEW t \in Trader PROVE answered'[t] <= Cardinality(SignalsOf(s, t, sig_ptr + 1))
      <4> DEFINE now == Cardinality(SignalsOf(s, t, sig_ptr))
                 after == Cardinality(SignalsOf(s, t, sig_ptr + 1))
      <4>1. answered[t] \in Nat
        BY <1>1 DEF TraderTypes
      <4>2. answered[t] <= now
        BY <3>1, ZenonT(20) DEF Counted
      <4>3. sig_ptr + 1 \in Nat
        BY ONLY <3>2, SMTT(20), ZenonT(20)
      <4>4. now \in Nat /\ after \in Nat
        BY <3>2, <4>3, SignalsFinite, ZenonT(20)
      <4>5. CASE t = w.to
        <5>1. answered'[t] \in {answered[t], answered[t] + 1}
          BY <1>8, <2>2, <4>5, WriteFacts DEF XInv
        <5>2. after = now + 1
          BY <3>2, <4>5, SignalsNext
        <5> HIDE DEF now, after
        <5>3. answered'[t] <= after
          BY ONLY <4>1, <4>2, <4>4, <5>1, <5>2, SMTT(20), ZenonT(20)
        <5> QED
          BY ONLY <5>3 DEF after
      <4>6. CASE t # w.to
        <5>1. answered'[t] = answered[t]
          BY <1>8, <2>2, <4>6, WriteFacts DEF XInv
        <5>2. now <= after
          BY <3>2, SignalsMore
        <5> HIDE DEF now, after
        <5>3. answered'[t] <= after
          BY ONLY <4>1, <4>2, <4>4, <5>1, <5>2, SMTT(20), ZenonT(20)
        <5> QED
          BY ONLY <5>3 DEF after
      <4> QED
        BY <4>5, <4>6
    <3>4. Counted(answered', s', sig_ptr' + 1)
      BY <2>1, <3>3 DEF Counted
    <3>5. AnswersNeedSignals'
      BY <2>1, <3>2, <3>4, AnswersCounted
    <3> QED
      BY <2>1, <2>2, <3>4, <3>5 DEF AnswerInv
  <2> QED
    BY <2>3, <2>4
<1>9. CASE DoKill
  <2>1. ~Due'
    BY <1>1, <1>9, TailDone DEF DoKill, QueueInv
  <2> QED
    BY <1>9, <2>1, AnswersQuiet DEF DoKill
<1>10. CASE Announce
  <2>1. ~Due'
    <3>1. CASE outq' = <<>>
      BY <3>1 DEF Due
    <3>2. CASE outq' = Tell(other, "MARKET")
      <4>1. Head(outq').kind = "MARKET"
        BY <1>10, <3>2, TellShape, CallTypes DEF Announce
      <4> QED
        BY <4>1 DEF Due, Answers
    <3> QED
      BY <1>10, <3>1, <3>2 DEF Announce
  <2> QED
    BY <1>10, <2>1, AnswersQuiet DEF Announce
<1>11. CASE AnnounceDone
  <2>1. outq = <<>>
    BY <1>1, <1>11 DEF AnnounceDone, PlaceInv
  <2> QED
    BY <1>11, <2>1, AnswersQuiet DEF AnnounceDone, Due
<1>12. CASE Match
  <2>1. PICK a \in Trader, b \in Trader : outq' = FillTo(a, b)
    BY <1>12, MatchFills DEF XInv
  <2>2. ~Due'
    BY <2>1, FillShape DEF Due, Answers
  <2> QED
    BY <1>12, <2>2, AnswersQuiet DEF Match
<1>13. CASE MatchNothing
  <2>1. outq = <<>>
    BY <1>1, <1>13 DEF MatchNothing, PlaceInv
  <2> QED
    BY <1>13, <2>1, AnswersQuiet DEF MatchNothing, Due
<1>14. CASE PrintOrderBook
  <2>1. outq = <<>>
    BY <1>1, <1>14 DEF PrintOrderBook, PlaceInv
  <2> QED
    BY <1>14, <2>1, AnswersQuiet DEF PrintOrderBook, Due
<1>15. CASE PrintDone
  <2>1. outq = <<>>
    BY <1>1, <1>15 DEF PrintDone, PlaceInv
  <2> QED
    BY <1>15, <2>1, AnswersQuiet DEF PrintDone, Due
<1>16. CASE CommandDone
  <2>1. /\ sig_ptr' = sig_ptr + 1 /\ answered' = answered /\ outq' = outq
        /\ outq = <<>> /\ pc' \in {"moved", "reap"}
    BY <1>1, <1>16 DEF CommandDone, AfterCommand, PlaceInv
  <2>2. Counted(answered, signal_array, sig_ptr + 1) /\ sig_ptr + 1 \in 0..Len(signal_array)
    BY <1>1, <1>16 DEF CommandDone, AnswerInv, PlaceInv, InCommand, ArrayTypes
  <2>3. Counted(answered', signal_array', sig_ptr')
    BY <2>1, <2>2, AnswersKept
  <2>4. AnswersNeedSignals'
    BY <2>1, AnswersNeedSignalsKept
  <2> QED
    BY <2>1, <2>3, <2>4 DEF AnswerInv
<1>17. CASE ArrayGrown
  BY <1>17, AnswersQuiet DEF ArrayGrown
<1>18. ASSUME NEW t \in Trader, ReapExited(t) PROVE AnswerInv'
  BY <1>18, AnswersQuiet DEF ReapExited, AfterReap
<1>19. ASSUME NEW t \in Trader, ReapCrashed(t) PROVE AnswerInv'
  BY <1>19, AnswersQuiet DEF ReapCrashed, AfterReap
<1>20. CASE ReapNothing
  BY <1>20, AnswersQuiet DEF ReapNothing, AfterReap
<1>21. CASE SigHandler
  BY <1>21, AnswersQuiet DEF SigHandler, Record, Due
<1>22. CASE SigHandlerAborts
  BY <1>22, AnswersQuiet DEF SigHandlerAborts, Due
<1>23. ASSUME NEW t \in Trader, TraderWrite(t) PROVE AnswerInv'
  BY <1>23, AnswersQuiet DEF TraderWrite, Due
<1>24. ASSUME NEW t \in Trader, TraderKill(t) PROVE AnswerInv'
  BY <1>24, AnswersQuiet DEF TraderKill, Due
<1>25. ASSUME NEW t \in Trader, TraderExit(t) PROVE AnswerInv'
  BY <1>25, AnswersQuiet DEF TraderExit, Due
<1>26. ASSUME NEW t \in Trader, TraderCrash(t) PROVE AnswerInv'
  BY <1>26, AnswersQuiet DEF TraderCrash, Due
<1>27. CASE UNCHANGED xvars
  BY <1>27, AnswersQuiet DEF xvars, Due
<1> QED
  BY <1>2, <1>3, <1>4, <1>5, <1>6, <1>7, <1>8, <1>9, <1>10, <1>11, <1>12, <1>13, <1>14,
     <1>15, <1>16, <1>17, <1>18, <1>19, <1>20, <1>21, <1>22, <1>23, <1>24, <1>25, <1>26,
     <1>27
     DEF XNext, ExchangeStep, Read, Reap, TraderStep, Finished

-----------------------------------------------------------------------------
(* The FILL messages.  What a trader was sent and what the queue of calls   *)
(* still holds for it add up to its parts in the trades: a trade adds to    *)
(* both sides, a write() moves from the queue to the trader.                *)

IsFill(c, t) == c.call = "write" /\ c.kind = "FILL" /\ c.to = t

\* The call at place i of the queue is a FILL for trader t.
OwedAt(q, i, t) == IF i \in DOMAIN q /\ IsFill(q[i], t) THEN 1 ELSE 0

\* The FILLs for t in a queue of at most four calls.
Owed(q, t) == OwedAt(q, 1, t) + OwedAt(q, 2, t) + OwedAt(q, 3, t) + OwedAt(q, 4, t)

Role == {"incoming_order", "order_in_book"}

Parts(t) == Cardinality(TradesOf(t, "incoming_order")) + Cardinality(TradesOf(t, "order_in_book"))

FillInv ==
    /\ Len(outq) <= 4
    /\ pc \notin {"killed", "aborted"} =>
         \A t \in Trader : Alive(t) => filled[t] + Owed(outq, t) = Parts(t)

\* A call that is made is not owed any more.
LEMMA OwedTail ==
    ASSUME NEW q \in Seq(Calls), q # <<>>, Len(q) <= 4, NEW t
    PROVE  /\ Owed(q, t) = (IF IsFill(Head(q), t) THEN 1 ELSE 0) + Owed(Tail(q), t)
           /\ Len(Tail(q)) <= 4 /\ Owed(Tail(q), t) \in Nat
<1> DEFINE r == Tail(q)
<1>1. /\ Len(q) \in 1..4 /\ DOMAIN q = 1..Len(q) /\ Head(q) = q[1]
      /\ DOMAIN r = 1..(Len(q) - 1) /\ Len(r) = Len(q) - 1
      /\ \A i \in 1..(Len(q) - 1) : r[i] = q[i + 1]
  <2>1. Len(q) \in Nat /\ Len(q) >= 1 /\ DOMAIN q = 1..Len(q) /\ Head(q) = q[1]
    OBVIOUS
  <2>2. Len(r) = Len(q) - 1 /\ DOMAIN r = 1..Len(r)
    BY <2>1
  <2>3. \A i \in 1..(Len(q) - 1) : r[i] = q[i + 1]
    BY <2>1
  <2> HIDE DEF r
  <2> QED
    BY <2>1, <2>2, <2>3
<1> HIDE DEF r
<1>2. OwedAt(q, 1, t) = IF IsFill(Head(q), t) THEN 1 ELSE 0
  BY <1>1 DEF OwedAt
<1>3. ASSUME NEW i \in 1..3 PROVE OwedAt(r, i, t) = OwedAt(q, i + 1, t)
  <2>1. i \in DOMAIN r <=> i + 1 \in DOMAIN q
    BY <1>1
  <2>2. i \in DOMAIN r => r[i] = q[i + 1]
    BY <1>1
  <2> QED
    BY <2>1, <2>2, ZenonT(20) DEF OwedAt
<1>4. OwedAt(r, 4, t) = 0
  BY <1>1 DEF OwedAt
<1>5. /\ OwedAt(r, 1, t) = OwedAt(q, 2, t) /\ OwedAt(r, 2, t) = OwedAt(q, 3, t)
      /\ OwedAt(r, 3, t) = OwedAt(q, 4, t)
  BY <1>3
<1>6. \A i : OwedAt(r, i, t) \in {0, 1} /\ OwedAt(q, i, t) \in {0, 1}
  BY DEF OwedAt
<1>7. OwedAt(q, 1, t) \in {0, 1} /\ OwedAt(q, 2, t) \in {0, 1} /\ OwedAt(q, 3, t) \in {0, 1}
      /\ OwedAt(q, 4, t) \in {0, 1}
  BY <1>6
<1>8. /\ Owed(q, t) = OwedAt(q, 1, t) + OwedAt(q, 2, t) + OwedAt(q, 3, t) + OwedAt(q, 4, t)
      /\ Owed(r, t) = OwedAt(q, 2, t) + OwedAt(q, 3, t) + OwedAt(q, 4, t) + 0
  BY <1>4, <1>5, ZenonT(20) DEF Owed
<1>9. Owed(q, t) = OwedAt(q, 1, t) + Owed(r, t) /\ Owed(r, t) \in Nat /\ Len(r) <= 4
  BY ONLY <1>1, <1>7, <1>8, SMTT(20), ZenonT(20)
<1> QED
  BY <1>2, <1>9, ZenonT(20) DEF r

\* Nothing is owed by an empty queue, nor by an answer or a MARKET message.
LEMMA OwedNothing ==
    ASSUME NEW t
    PROVE  /\ Owed(<<>>, t) = 0 /\ Len(<<>>) <= 4
           /\ \A u \in Trader, kind \in Answers \cup {"MARKET"} :
                Owed(Tell(u, kind), t) = 0 /\ Len(Tell(u, kind)) <= 4
<1>1. Owed(<<>>, t) = 0 /\ Len(<<>>) <= 4
  BY DEF Owed, OwedAt
<1>2. ASSUME NEW u \in Trader, NEW kind \in Answers \cup {"MARKET"}
      PROVE  Owed(Tell(u, kind), t) = 0 /\ Len(Tell(u, kind)) <= 4
  <2> DEFINE w == Write(u, kind)
             k == Kill(u)
  <2>1. kind # "FILL"
    BY DEF Answers
  <2>2. ~IsFill(w, t) /\ ~IsFill(k, t)
    BY <2>1, CallTypes DEF IsFill
  <2>3. Tell(u, kind) = <<w, k>>
    BY DEF Tell
  <2> HIDE DEF w, k
  <2>4. DOMAIN <<w, k>> = {1, 2} /\ <<w, k>>[1] = w /\ <<w, k>>[2] = k /\ Len(<<w, k>>) = 2
    OBVIOUS
  <2>5. \A i : ~(i \in DOMAIN <<w, k>> /\ IsFill(<<w, k>>[i], t))
    BY <2>2, <2>4, ZenonT(20)
  <2>6. \A i : OwedAt(<<w, k>>, i, t) = 0
    BY <2>5, ZenonT(20) DEF OwedAt
  <2>7. Owed(<<w, k>>, t) = 0
    BY <2>6 DEF Owed
  <2> QED
    BY <2>3, <2>4, <2>7
<1> QED
  BY <1>1, <1>2

\* A trade owes a FILL to each of its traders that is still there.
LEMMA OwedByTrade ==
    ASSUME NEW a \in Trader, NEW b \in Trader, NEW t \in Trader, ~disconnected[t]
    PROVE  /\ Owed(FillTo(a, b), t) = (IF a = t THEN 1 ELSE 0) + (IF b = t THEN 1 ELSE 0)
           /\ Len(FillTo(a, b)) <= 4
<1> DEFINE w == Write(a, "FILL")
           v == Write(b, "FILL")
           k == Kill(a)
<1>1. (IsFill(w, t) <=> a = t) /\ (IsFill(v, t) <=> b = t) /\ ~IsFill(k, t)
  BY CallTypes DEF IsFill
<1>2. FillTo(a, b) = IF disconnected[b] THEN <<w, k, k>> ELSE <<w, k, v, k>>
  BY DEF FillTo
<1> HIDE DEF w, v, k
<1>3. CASE disconnected[b]
  <2> DEFINE q == <<w, k, k>>
  <2>1. DOMAIN q = 1..3 /\ q[1] = w /\ q[2] = k /\ q[3] = k /\ Len(q) = 3
    OBVIOUS
  <2> HIDE DEF q
  <2>2. OwedAt(q, 1, t) = IF a = t THEN 1 ELSE 0
    BY <1>1, <2>1 DEF OwedAt
  <2>3. OwedAt(q, 2, t) = 0 /\ OwedAt(q, 3, t) = 0 /\ OwedAt(q, 4, t) = 0
    BY <1>1, <2>1 DEF OwedAt
  <2>4. b # t /\ FillTo(a, b) = q
    BY <1>2, <1>3, ZenonT(20) DEF q
  <2>5. Owed(q, t) = (IF a = t THEN 1 ELSE 0) + 0 + 0 + 0
    BY <2>2, <2>3, ZenonT(20) DEF Owed
  <2>6. Owed(q, t) = (IF a = t THEN 1 ELSE 0) + (IF b = t THEN 1 ELSE 0) /\ Len(q) <= 4
    BY <2>1, <2>4, <2>5
  <2> QED
    BY <2>4, <2>6, ZenonT(20)
<1>4. CASE ~disconnected[b]
  <2> DEFINE q == <<w, k, v, k>>
  <2>1. DOMAIN q = 1..4 /\ q[1] = w /\ q[2] = k /\ q[3] = v /\ q[4] = k /\ Len(q) = 4
    OBVIOUS
  <2> HIDE DEF q
  <2>2. OwedAt(q, 1, t) = (IF a = t THEN 1 ELSE 0) /\ OwedAt(q, 3, t) = IF b = t THEN 1 ELSE 0
    BY <1>1, <2>1 DEF OwedAt
  <2>3. OwedAt(q, 2, t) = 0 /\ OwedAt(q, 4, t) = 0
    BY <1>1, <2>1 DEF OwedAt
  <2>4. FillTo(a, b) = q
    BY <1>2, <1>4, ZenonT(20) DEF q
  <2>5. Owed(q, t) = (IF a = t THEN 1 ELSE 0) + 0 + (IF b = t THEN 1 ELSE 0) + 0
    BY <2>2, <2>3, ZenonT(20) DEF Owed
  <2>6. Owed(q, t) = (IF a = t THEN 1 ELSE 0) + (IF b = t THEN 1 ELSE 0) /\ Len(q) <= 4
    BY <2>1, <2>5
  <2> QED
    BY <2>4, <2>6, ZenonT(20)
<1> QED
  BY <1>3, <1>4

\* What TradesOf reads of a book and of the trades.
TradesIn(bk, trades, t, role) == {k \in DOMAIN trades : bk[trades[k][role]].trader = t}

\* Old trades stay with their traders, whatever becomes of their orders, ...
LEMMA OldParts ==
    ASSUME NEW bk, NEW later, NEW trades \in Seq(TradeType),
           AllInBook(trades, bk), KeepsOrders(bk, later), NEW t, NEW role \in Role
    PROVE  /\ TradesIn(later, trades, t, role) = TradesIn(bk, trades, t, role)
           /\ IsFiniteSet(TradesIn(bk, trades, t, role))
           /\ Cardinality(TradesIn(bk, trades, t, role)) \in Nat
<1>1. \A n \in DOMAIN trades : trades[n][role] \in 1..Len(bk)
  BY ZenonT(20) DEF AllInBook, InBook, Role
<1>2. \A n \in DOMAIN trades : later[trades[n][role]].trader = bk[trades[n][role]].trader
  BY <1>1, ZenonT(20) DEF KeepsOrders, SameOrder
<1>3. TradesIn(later, trades, t, role) = TradesIn(bk, trades, t, role)
  BY <1>2, ZenonT(20) DEF TradesIn
<1>4. DOMAIN trades = 1..Len(trades) /\ Len(trades) \in Nat
  OBVIOUS
<1>5. IsFiniteSet(DOMAIN trades)
  BY <1>4, FS_Interval
<1>6. TradesIn(bk, trades, t, role) \subseteq DOMAIN trades
  BY DEF TradesIn
<1>7. IsFiniteSet(TradesIn(bk, trades, t, role))
  BY <1>5, <1>6, FS_Subset, ZenonT(20)
<1> QED
  BY <1>3, <1>7, FS_CardinalityType, ZenonT(20)

\* ... and a new one is one part more for the traders of its orders.
LEMMA OneMorePart ==
    ASSUME NEW bk, NEW later, NEW trades \in Seq(TradeType),
           AllInBook(trades, bk), KeepsOrders(bk, later), NEW t, NEW role \in Role,
           NEW v, v[role] \in 1..Len(bk)
    PROVE  Cardinality(TradesIn(later, Append(trades, v), t, role)) =
             Cardinality(TradesIn(bk, trades, t, role))
               + IF bk[v[role]].trader = t THEN 1 ELSE 0
<1> DEFINE old == TradesIn(later, trades, t, role)
           new == TradesIn(later, Append(trades, v), t, role)
           n == Len(trades)
           longer == Append(trades, v)
<1>1. /\ n \in Nat /\ DOMAIN trades = 1..n /\ DOMAIN longer = 1..(n + 1)
      /\ \A k \in 1..n : longer[k] = trades[k]
      /\ longer[n + 1] = v
  OBVIOUS
<1>2. old = TradesIn(bk, trades, t, role) /\ IsFiniteSet(old) /\ Cardinality(old) \in Nat
  <2>1. /\ old = TradesIn(bk, trades, t, role)
        /\ IsFiniteSet(TradesIn(bk, trades, t, role))
        /\ Cardinality(TradesIn(bk, trades, t, role)) \in Nat
    BY OldParts
  <2> HIDE DEF old
  <2> QED
    BY <2>1
<1>3. later[v[role]].trader = bk[v[role]].trader
  BY ZenonT(20) DEF KeepsOrders, SameOrder
<1> HIDE DEF n, longer
<1>4. n + 1 \notin 1..n /\ \A k : k \in 1..(n + 1) <=> k \in 1..n \/ k = n + 1
  BY ONLY <1>1, SMTT(20), ZenonT(20)
<1>5. CASE bk[v[role]].trader = t
  <2>1. new = old \cup {n + 1} /\ n + 1 \notin old
    BY <1>1, <1>3, <1>4, <1>5, ZenonT(60) DEF TradesIn, longer
  <2>2. Cardinality(new) = Cardinality(old) + 1
    BY <1>2, <2>1, FS_AddElement, ZenonT(20)
  <2> QED
    BY <1>2, <1>5, <2>2, ZenonT(20)
<1>6. CASE bk[v[role]].trader # t
  <2>1. new = old
    BY <1>1, <1>3, <1>4, <1>6, ZenonT(60) DEF TradesIn, longer
  <2> HIDE DEF new, old
  <2>2. Cardinality(new) = Cardinality(old) + 0
    BY <1>2, <2>1
  <2> QED
    BY <1>2, <1>6, <2>2, ZenonT(20) DEF new
<1> QED
  BY <1>5, <1>6

\* The orders of the book keep their traders.
LEMMA TradersKept ==
    ASSUME TypeOK, [Next]_vars PROVE KeepsOrders(orderbook, orderbook')
<1>1. \A i \in Position : SameOrder(orderbook[i], orderbook'[i])
  BY BookStep, ZenonT(20)
<1> QED
  BY <1>1, ZenonT(20) DEF KeepsOrders, Position

LEMMA PartsKept ==
    ASSUME TypeOK, TradesInBook, [Next]_vars, completed_trades' = completed_trades, NEW t
    PROVE  Parts(t)' = Parts(t) /\ Parts(t) \in Nat
<1>1. completed_trades \in Seq(TradeType) /\ AllInBook(completed_trades, orderbook)
  BY ZenonT(20) DEF TypeOK, TradesInBook
<1>2. KeepsOrders(orderbook, orderbook')
  BY TradersKept
<1>3. \A role : /\ TradesOf(t, role) = TradesIn(orderbook, completed_trades, t, role)
                /\ TradesOf(t, role)' = TradesIn(orderbook', completed_trades, t, role)
  BY ZenonT(20) DEF TradesOf, TradesIn
<1>4. \A role \in Role : /\ TradesOf(t, role)' = TradesOf(t, role)
                         /\ Cardinality(TradesOf(t, role)) \in Nat
  <2> TAKE role \in Role
  <2>1. /\ TradesIn(orderbook', completed_trades, t, role)
             = TradesIn(orderbook, completed_trades, t, role)
        /\ Cardinality(TradesIn(orderbook, completed_trades, t, role)) \in Nat
    BY <1>1, <1>2, OldParts
  <2> QED
    BY <1>3, <2>1, ZenonT(20)
<1>5. "incoming_order" \in Role /\ "order_in_book" \in Role
  BY DEF Role
<1> QED
  BY <1>4, <1>5 DEF Parts

LEMMA PartsMore ==
    ASSUME TypeOK, TradesInBook, [Next]_vars, NEW p \in Position, NEW r \in Position, NEW v,
           v.incoming_order = p, v.order_in_book = r,
           completed_trades' = Append(completed_trades, v), NEW t
    PROVE  /\ Parts(t)' = Parts(t) + (IF orderbook[p].trader = t THEN 1 ELSE 0)
                                   + (IF orderbook[r].trader = t THEN 1 ELSE 0)
           /\ Parts(t) \in Nat
<1>1. completed_trades \in Seq(TradeType) /\ AllInBook(completed_trades, orderbook)
  BY ZenonT(20) DEF TypeOK, TradesInBook
<1>2. KeepsOrders(orderbook, orderbook')
  BY TradersKept
<1> DEFINE old(role) == Cardinality(TradesIn(orderbook, completed_trades, t, role))
           new(role) == Cardinality(TradesIn(orderbook', Append(completed_trades, v), t, role))
           one(i) == IF orderbook[i].trader = t THEN 1 ELSE 0
<1>3. /\ Parts(t) = old("incoming_order") + old("order_in_book")
      /\ Parts(t)' = new("incoming_order") + new("order_in_book")
  BY ZenonT(20) DEF Parts, TradesOf, TradesIn
<1>4. "incoming_order" \in Role /\ "order_in_book" \in Role
  BY DEF Role
<1>5. p \in 1..Len(orderbook) /\ r \in 1..Len(orderbook)
  BY ZenonT(20) DEF Position
<1>6. v["incoming_order"] = p /\ v["order_in_book"] = r
  BY ZenonT(20)
<1>7. new("incoming_order") = old("incoming_order") + one(p)
  <2>1. v["incoming_order"] \in 1..Len(orderbook)
    BY <1>5, <1>6, ZenonT(20)
  <2>2. new("incoming_order") = old("incoming_order") + one(v["incoming_order"])
    BY <1>1, <1>2, <1>4, <2>1, OneMorePart
  <2> QED
    BY <1>6, <2>2, ZenonT(20)
<1>8. new("order_in_book") = old("order_in_book") + one(r)
  <2>1. v["order_in_book"] \in 1..Len(orderbook)
    BY <1>5, <1>6, ZenonT(20)
  <2>2. new("order_in_book") = old("order_in_book") + one(v["order_in_book"])
    BY <1>1, <1>2, <1>4, <2>1, OneMorePart
  <2> QED
    BY <1>6, <2>2, ZenonT(20)
<1>9. old("incoming_order") \in Nat /\ old("order_in_book") \in Nat
  BY <1>1, <1>2, <1>4, OldParts, ZenonT(20)
<1>10. one(p) \in {0, 1} /\ one(r) \in {0, 1}
  OBVIOUS
<1> HIDE DEF old, new, one
<1>11. Parts(t)' = Parts(t) + one(p) + one(r) /\ Parts(t) \in Nat
  BY ONLY <1>3, <1>7, <1>8, <1>9, <1>10, SMTT(20), ZenonT(20)
<1> QED
  BY <1>11, ZenonT(20) DEF one

\* A step that makes no trade and leaves what is owed alone.
LEMMA FillQuiet ==
    ASSUME XInv, TradesInBook, FillInv, [XNext]_xvars,
           completed_trades' = completed_trades, filled' = filled,
           Len(outq') <= 4, \A t \in Trader : Owed(outq', t) = Owed(outq, t),
           \A t \in Trader : Alive(t)' => Alive(t),
           pc \in {"killed", "aborted"} => pc' \in {"killed", "aborted"}
    PROVE  FillInv'
<1>1. TypeOK /\ [Next]_vars
  BY MarketStep DEF XInv
<1>2. \A t : Parts(t)' = Parts(t)
  BY <1>1, PartsKept, ZenonT(20)
<1>3. ASSUME pc' \notin {"killed", "aborted"}, NEW t \in Trader, Alive(t)'
      PROVE  filled'[t] + Owed(outq', t) = Parts(t)'
  <2>1. pc \notin {"killed", "aborted"} /\ Alive(t)
    BY <1>3, ZenonT(20)
  <2>2. filled[t] + Owed(outq, t) = Parts(t)
    BY <2>1, ZenonT(20) DEF FillInv
  <2> QED
    BY <1>2, <2>2, ZenonT(20)
<1> QED
  BY <1>3, ZenonT(20) DEF FillInv

\* read() and what follows it make no trade, and owe an answer only.
LEMMA FillRead ==
    ASSUME XInv, TradesInBook, FillInv, [XNext]_xvars, NEW t \in Trader,
           ReadCommand(t) \/ ReadNothing(t) \/ ReadInterrupted(t)
    PROVE  FillInv'
<1>1. PICK kind \in Answers : outq' = Tell(t, kind)
  BY ReadsReply DEF Replies
<1>2. outq = <<>> /\ pc \notin {"killed", "aborted"} /\ UNCHANGED <<proc, filled>>
  BY DEF ReadCommand, ReadNothing, ReadInterrupted, XInv, PlaceInv, Answering, children, history
<1>3. completed_trades' = completed_trades
  <2>1. \A m : Handle(t, m) => completed_trades' = completed_trades
    BY ZenonT(60)
       DEF Handle, HandleOrder, HandleAmend, HandleCancel, HandleInvalid, OrderReceived,
       OrderRejected, AmendRequest, AmendRejected, CancelRequest, CancelRejected,
       InvalidMessage, ledger
  <2> QED
    BY <2>1, ZenonT(60)
       DEF ReadCommand, ReadNothing, ReadInterrupted, HandleInvalid, InvalidMessage, ledger
<1>4. /\ Len(outq') <= 4
      /\ \A u \in Trader : Owed(outq', u) = Owed(outq, u)
  BY <1>1, <1>2, OwedNothing, ZenonT(20)
<1>5. \A u \in Trader : Alive(u)' => Alive(u)
  BY <1>2, ZenonT(20) DEF Alive
<1> QED
  BY <1>2, <1>3, <1>4, <1>5, FillQuiet, ZenonT(20)

\* A call that is made counts for its reader, if that is still there.
LEMMA FillCall ==
    ASSUME XInv, TradesInBook, FillInv, [XNext]_xvars, DoWrite \/ DoKill
    PROVE  FillInv'
<1> DEFINE w == Head(outq)
<1>1. /\ TypeOK /\ [Next]_vars /\ completed_trades' = completed_trades
      /\ outq' = Tail(outq) /\ outq # <<>> /\ UNCHANGED proc
      /\ pc \notin {"killed", "aborted"}
  BY MarketStep DEF XInv, DoWrite, DoKill, vars, Answering, children
<1>2. outq \in Seq(Calls) /\ Len(outq) <= 4 /\ w \in Calls /\ w.to \in Trader
  BY <1>1, TailShape, ZenonT(20) DEF XInv, QueueInv, Shape, FillInv, Calls
<1>3. \A t : Parts(t)' = Parts(t) /\ Parts(t) \in Nat
  BY <1>1, PartsKept, ZenonT(20)
<1>4. Len(outq') <= 4
  BY <1>1, <1>2, OwedTail
<1>5. \A t \in Trader : disconnected[t] => ~Alive(t)
  BY DEF XInv, PlaceInv, Alive
<1>6. filled \in [Trader -> Nat]
  BY TypeParts DEF XInv, TraderTypes
<1>7. ASSUME pc' \notin {"killed", "aborted"}, NEW t \in Trader, Alive(t)
      PROVE  filled'[t] = filled[t] + IF IsFill(w, t) THEN 1 ELSE 0
  <2>1. CASE DoKill
    <3>1. w.call = "kill" /\ filled' = filled
      BY <2>1, ZenonT(20) DEF DoKill
    <3>2. ~IsFill(w, t)
      BY <3>1 DEF IsFill
    <3> QED
      BY <1>6, <3>1, <3>2
  <2>2. CASE DoWrite /\ filled' = filled /\ disconnected[w.to]
    <3>1. ~IsFill(w, t)
      BY <1>5, <1>7, <2>2, ZenonT(20) DEF IsFill
    <3> QED
      BY <1>6, <2>2, <3>1
  <2>3. CASE /\ DoWrite
             /\ filled' = [filled EXCEPT ![w.to] = IF w.kind = "FILL" THEN @ + 1 ELSE @]
    <3>1. w.call = "write"
      BY <2>3, ZenonT(20) DEF DoWrite
    <3> HIDE DEF w
    <3>2. filled'[t] = IF t = w.to /\ w.kind = "FILL" THEN filled[t] + 1 ELSE filled[t]
      BY <1>2, <1>6, <2>3
    <3>3. IsFill(w, t) <=> t = w.to /\ w.kind = "FILL"
      BY <3>1, ZenonT(20) DEF IsFill
    <3> QED
      BY <1>6, <3>2, <3>3
  <2> QED
    BY <1>7, <2>1, <2>2, <2>3, ZenonT(20) DEF DoWrite, history
<1>8. ASSUME pc' \notin {"killed", "aborted"}, NEW t \in Trader, Alive(t)'
      PROVE  filled'[t] + Owed(outq', t) = Parts(t)'
  <2> DEFINE one == IF IsFill(w, t) THEN 1 ELSE 0
  <2>1. Alive(t)
    BY <1>1, <1>8, ZenonT(20) DEF Alive
  <2>2. filled[t] + Owed(outq, t) = Parts(t)
    BY <1>1, <2>1, ZenonT(20) DEF FillInv
  <2>3. Owed(outq, t) = one + Owed(outq', t) /\ Owed(outq', t) \in Nat
    BY <1>1, <1>2, OwedTail
  <2>4. filled'[t] = filled[t] + one /\ filled[t] \in Nat /\ one \in {0, 1}
    BY <1>6, <1>7, <1>8, <2>1
  <2> HIDE DEF one
  <2>5. filled'[t] + Owed(outq', t) = Parts(t)
    BY ONLY <2>2, <2>3, <2>4, SMTT(20), ZenonT(20)
  <2> QED
    BY <1>3, <2>5, ZenonT(20)
<1> QED
  BY <1>4, <1>8, ZenonT(20) DEF FillInv

\* A trade is owed to its traders.
LEMMA FillTrade ==
    ASSUME XInv, TradesInBook, FillInv, [XNext]_xvars, Match PROVE FillInv'
<1>1. TypeOK /\ [Next]_vars
  BY MarketStep DEF XInv
<1>2. PICK p \in Position, r \in Position :
         /\ orderbook[p].trader \in Trader /\ orderbook[r].trader \in Trader
         /\ outq' = FillTo(orderbook[p].trader, orderbook[r].trader)
         /\ \E v : /\ v.incoming_order = p /\ v.order_in_book = r
                   /\ completed_trades' = Append(completed_trades, v)
  BY <1>1, MatchTrades, ZenonT(20)
<1>3. PICK v : /\ v.incoming_order = p /\ v.order_in_book = r
               /\ completed_trades' = Append(completed_trades, v)
  BY <1>2, ZenonT(20)
<1>4. outq = <<>> /\ pc' = pc /\ pc \notin {"killed", "aborted"} /\ UNCHANGED <<proc, filled>>
  BY DEF Match, children, history
<1> DEFINE a == orderbook[p].trader
           b == orderbook[r].trader
<1>5. ASSUME NEW t \in Trader, Alive(t)' PROVE filled'[t] + Owed(outq', t) = Parts(t)'
  <2> DEFINE one(u) == IF u = t THEN 1 ELSE 0
  <2>1. Alive(t) /\ ~disconnected[t]
    BY <1>4, <1>5 DEF Alive, XInv, PlaceInv
  <2>2. Owed(outq', t) = one(a) + one(b)
    <3>1. a \in Trader /\ b \in Trader /\ outq' = FillTo(a, b)
      BY <1>2, ZenonT(20)
    <3> HIDE DEF a, b
    <3> QED
      BY <2>1, <3>1, OwedByTrade, ZenonT(20)
  <2>3. Parts(t)' = Parts(t) + one(a) + one(b) /\ Parts(t) \in Nat
    BY <1>1, <1>3, PartsMore
  <2>4. filled[t] + Owed(outq, t) = Parts(t) /\ filled[t] \in Nat
    BY <1>4, <2>1, TypeParts DEF FillInv, XInv, TraderTypes
  <2>5. Owed(outq, t) = 0
    BY <1>4, OwedNothing, ZenonT(20)
  <2>6. one(a) \in {0, 1} /\ one(b) \in {0, 1}
    OBVIOUS
  <2> HIDE DEF one
  <2> QED
    BY ONLY <1>4, <2>2, <2>3, <2>4, <2>5, <2>6, SMTT(20), ZenonT(20)
<1>6. Len(outq') <= 4
  <2>1. CASE \E t \in Trader : ~disconnected[t]
    BY <1>2, <2>1, OwedByTrade
  <2>2. CASE \A t \in Trader : disconnected[t]
    <3>1. outq' = <<Write(a, "FILL"), Kill(a), Kill(a)>>
      BY <1>2, <2>2, ZenonT(20) DEF FillTo
    <3> QED
      BY <3>1
  <2> QED
    BY <2>1, <2>2
<1> QED
  BY <1>5, <1>6, ZenonT(20) DEF FillInv

\* Every step keeps what was sent and what is owed equal to the parts.
LEMMA FillStep ==
    ASSUME XInv, TradesInBook, FillInv, [XNext]_xvars PROVE FillInv'
<1>1. Len(outq) <= 4
  BY DEF FillInv
<1>2. ASSUME UNCHANGED <<vars, outq, filled>>, \A t \in Trader : Alive(t)' => Alive(t),
             pc \in {"killed", "aborted"} => pc' \in {"killed", "aborted"}
      PROVE  FillInv'
  BY <1>1, <1>2, FillQuiet DEF vars
<1>3. ASSUME NEW t \in Trader, NEW state, state # "running", proc' = [proc EXCEPT ![t] = state]
      PROVE  \A u \in Trader : Alive(u)' => Alive(u)
  <2>1. DOMAIN proc = Trader
    BY TypeParts DEF XInv, TraderTypes
  <2> QED
    BY <1>3, <2>1 DEF Alive
<1>4. ASSUME UNCHANGED <<vars, outq, children, history>>,
             pc \in {"killed", "aborted"} => pc' \in {"killed", "aborted"}
      PROVE  FillInv'
  BY <1>2, <1>4 DEF Alive, children, history
<1>5. ASSUME UNCHANGED <<vars, outq, history>>, NEW t \in Trader, NEW state, state # "running",
             proc' = [proc EXCEPT ![t] = state],
             pc \in {"killed", "aborted"} => pc' \in {"killed", "aborted"}
      PROVE  FillInv'
  BY <1>2, <1>3, <1>5, ZenonT(20) DEF history
<1> USE DEF loop
<1>7. CASE Poll
  BY <1>4, <1>7 DEF Poll
<1>8. CASE PollNothing
  BY <1>4, <1>8 DEF PollNothing
<1>9. ASSUME NEW t \in Trader, Read(t) PROVE FillInv'
  BY <1>4, <1>9, FillRead DEF Read, ReadBlocks
<1>10. CASE DoWrite \/ DoKill
  BY <1>10, FillCall
<1>11. CASE Announce
  <2>1. outq = <<>> /\ pc = "announce" /\ pc' = pc /\ UNCHANGED <<vars, children, history>>
    BY <1>11 DEF Announce
  <2>2. /\ Len(outq') <= 4
        /\ \A t \in Trader : Owed(outq', t) = Owed(outq, t)
    BY <1>11, <2>1, OwedNothing, ZenonT(20) DEF Announce
  <2>3. \A t \in Trader : Alive(t)' => Alive(t)
    BY <2>1 DEF Alive, children
  <2> QED
    BY <2>1, <2>2, <2>3, FillQuiet DEF vars, history
<1>12. CASE AnnounceDone
  BY <1>4, <1>12 DEF AnnounceDone
<1>13. CASE Match
  BY <1>13, FillTrade
<1>14. CASE MatchNothing
  <2>1. UNCHANGED <<pc, outq, completed_trades, children, history>>
    BY <1>14 DEF MatchNothing, PlacingDone, ledger
  <2>2. \A t \in Trader : Alive(t)' => Alive(t)
    BY <2>1 DEF Alive, children
  <2> QED
    BY <1>1, <2>1, <2>2, FillQuiet DEF history
<1>15. CASE PrintOrderBook
  BY <1>4, <1>15 DEF PrintOrderBook
<1>16. CASE PrintDone
  BY <1>4, <1>16 DEF PrintDone
<1>17. CASE CommandDone
  BY <1>4, <1>17 DEF CommandDone
<1>18. CASE ArrayGrown
  BY <1>4, <1>18 DEF ArrayGrown
<1>19. ASSUME NEW t \in Trader, ReapExited(t) PROVE FillInv'
  BY <1>5, <1>19, ZenonT(20) DEF ReapExited
<1>20. ASSUME NEW t \in Trader, ReapCrashed(t) PROVE FillInv'
  BY <1>5, <1>20, ZenonT(20) DEF ReapCrashed
<1>21. CASE ReapNothing
  BY <1>4, <1>21 DEF ReapNothing
<1>22. CASE SigHandler
  BY <1>4, <1>22 DEF SigHandler
<1>23. CASE SigHandlerAborts
  BY <1>4, <1>23 DEF SigHandlerAborts
<1>24. ASSUME NEW t \in Trader, TraderWrite(t) PROVE FillInv'
  BY <1>4, <1>24 DEF TraderWrite
<1>25. ASSUME NEW t \in Trader, TraderKill(t) PROVE FillInv'
  BY <1>4, <1>25 DEF TraderKill
<1>26. ASSUME NEW t \in Trader, TraderExit(t) PROVE FillInv'
  BY <1>5, <1>26, ZenonT(20) DEF TraderExit
<1>27. ASSUME NEW t \in Trader, TraderCrash(t) PROVE FillInv'
  BY <1>5, <1>27, ZenonT(20) DEF TraderCrash
<1>28. CASE UNCHANGED xvars
  BY <1>4, <1>28 DEF xvars
<1> QED
  BY <1>7, <1>8, <1>9, <1>10, <1>11, <1>12, <1>13, <1>14, <1>15, <1>16, <1>17, <1>18,
     <1>19, <1>20, <1>21, <1>22, <1>23, <1>24, <1>25, <1>26, <1>27, <1>28, ZenonT(60)
     DEF XNext, ExchangeStep, Reap, TraderStep, Finished

-----------------------------------------------------------------------------
(* The theorems.                                                            *)

\* The exchange starts with an empty array, empty FIFOs and nothing to say.
LEMMA XInvInit == XInit => XInv
<1> SUFFICES ASSUME XInit PROVE XInv
  OBVIOUS
<1>1. TypeOK
  BY TypeInit DEF XInit
<1>2. XTypeOK
  <2>1. LoopTypes
    BY DEF XInit, LoopTypes
  <2>2. ArrayTypes
    <3>1. pending = None /\ signal_array = <<>> /\ sig_ptr = 0 /\ sizeofSignalArray = MAX_SIGNALS
      BY ZenonT(20) DEF XInit
    <3> QED
      BY <3>1, ExchangeAssumption DEF ArrayTypes
  <2>3. MaxSent \in [Trader -> Nat]
    BY ExchangeAssumption
  <2>4. TraderTypes
    BY <2>3 DEF XInit, TraderTypes
  <2> QED
    BY <2>1, <2>2, <2>4, TypeParts
<1>3. PipesInv
  <2>1. /\ pipe = [t \in Trader |-> <<>>]
        /\ last = [t \in Trader |-> 0] /\ sent = [t \in Trader |-> 0]
    BY ZenonT(20) DEF XInit
  <2> QED
    BY <2>1 DEF PipesInv, PipeOK
<1>4. PlaceInv
  BY DEF XInit, PlaceInv, InCommand, Answering
<1>5. Shape(<<>>)
  BY DEF Shape
<1>6. QueueInv
  BY <1>5 DEF XInit, QueueInv, Due
<1>7. AnswerInv
  <2>1. signal_array = <<>> /\ sig_ptr = 0 /\ Len(signal_array) = 0 /\ signal_array \in Seq(Trader)
    BY DEF XInit
  <2>2. \A t \in Trader : answered[t] = 0
    BY DEF XInit
  <2>3. Counted(answered, signal_array, 0)
    BY <2>2, SignalsFinite DEF Counted
  <2>4. AnswersNeedSignals
    BY <2>1, <2>3, CountedAll, ZenonT(60) DEF AnswersNeedSignals
  <2> QED
    BY <2>1, <2>3, <2>4 DEF XInit, AnswerInv, Late, Answering
<1>8. EndsForAReason
  BY DEF XInit, EndsForAReason
<1> QED
  BY <1>1, <1>2, <1>3, <1>4, <1>6, <1>7, <1>8 DEF XInv

\* Every step keeps the invariant.
LEMMA XInvStep == XInv /\ [XNext]_xvars => XInv'
<1> SUFFICES ASSUME XInv, [XNext]_xvars PROVE XInv'
  OBVIOUS
<1>1. TypeOK'
  BY MarketStep, TypeStep DEF XInv
<1>2. LoopTypes' /\ ArrayTypes' /\ TraderTypes'
  BY LoopTypeStep, ArrayTypeStep, TraderTypeStep
<1>3. XTypeOK'
  BY <1>2, ZenonT(20) DEF XTypeOK, LoopTypes, ArrayTypes, TraderTypes
<1> QED
  BY <1>1, <1>3, PipesStep, PlaceStep, QueueStep, AnswerStep, EndStep DEF XInv

\* The invariant holds for ever.
THEOREM ExchangeSound == XSpec => []XInv
  BY XInvInit, XInvStep, PTL DEF XSpec

\* XTypeOK: the event loop is always at a place of the code, its array never
\* holds more than it has room for, and the handled signals are entries of it.
THEOREM ExchangeTypes == XSpec => []XTypeOK
<1>1. XInv => XTypeOK
  BY DEF XInv
<1> QED
  BY <1>1, ExchangeSound, PTL

\* AnswersNeedSignals: whatever the traders write, signal or leave unread, the
\* exchange answers none of them more often than it recorded its signals.
THEOREM AnswersAreSolicited == XSpec => []AnswersNeedSignals
<1>1. XInv => AnswersNeedSignals
  BY DEF XInv, AnswerInv
<1> QED
  BY <1>1, ExchangeSound, PTL

\* MessagesSignalled: between two commands every message but a FILL has been
\* followed by a signal to its reader.
THEOREM MessagesAreSignalled == XSpec => []MessagesSignalled
<1>1. XInv => MessagesSignalled
  BY DEF XInv, PlaceInv, QueueInv, MessagesSignalled, Answering
<1> QED
  BY <1>1, ExchangeSound, PTL

\* EndsForAReason: the exchange ends only with its last trader, is killed only
\* by a write to a trader that is gone, aborts only on a full or moving array.
THEOREM EndsAreExplained == XSpec => []EndsForAReason
<1>1. XInv => EndsForAReason
  BY DEF XInv
<1> QED
  BY <1>1, ExchangeSound, PTL

\* CommandsInOrder: commands take effect at most once, in the order in which
\* their trader wrote them, whatever a read() takes, cuts or drops.
THEOREM CommandsKeepOrder == XSpec => CommandsInOrder
<1>1. XInv /\ [XNext]_xvars =>
        [\A t \in Trader : Handled(t) => last[t] < last'[t]]_xvars
  <2> SUFFICES ASSUME XInv, XNext, NEW t \in Trader, Handled(t) PROVE last[t] < last'[t]
    OBVIOUS
  <2>1. ReadCommand(t)
    <3> USE DEF Handled, Answering, Stopped
    <3>1. ASSUME NEW u \in Trader, ReadCommand(u) \/ ReadNothing(u) \/ ReadInterrupted(u)
          PROVE  ReadCommand(t)
      BY <3>1, ZenonT(60) DEF ReadCommand, ReadNothing, ReadInterrupted
    <3> QED
      BY <3>1, ZenonT(60)
         DEF XNext, ExchangeStep, Read, Reap, TraderStep, Finished, xvars, loop,
         Poll, PollNothing, ReadBlocks, DoWrite, DoKill, Announce, AnnounceDone, Match,
         MatchNothing, PrintOrderBook, PrintDone, CommandDone, ArrayGrown, ReapExited,
         ReapCrashed, ReapNothing, SigHandler, SigHandlerAborts, TraderWrite, TraderKill,
         TraderExit, TraderCrash
  <2>2. /\ pipe[t] \in Seq(Msgs) /\ last[t] \in Nat /\ sent[t] \in Nat
        /\ PipeOK(pipe[t], last[t], sent[t]) /\ DOMAIN last = Trader
    BY TypeParts, ZenonT(60) DEF XInv, PipesInv, TraderTypes
  <2>3. pipe[t] # <<>> /\ last'[t] = Head(pipe[t]).n /\ \E rest \in AfterRead(pipe[t]) : TRUE
    BY <2>1, <2>2, ZenonT(60) DEF ReadCommand
  <2> QED
    BY <2>2, <2>3, PipeRead, ZenonT(60)
<1> QED
  BY <1>1, ExchangeSound, PTL DEF XSpec, CommandsInOrder

\* The exchange is a way to run the matching engine: each of its behaviours is
\* one of Market, so what holds of the engine holds of the exchange, whatever
\* signals, crashes and cut messages do to the commands.
THEOREM ExchangeRunsMarket == XSpec => Spec
<1>1. XInit => Init
  BY DEF XInit
<1>2. XInv /\ [XNext]_xvars => [Next]_vars
  BY MarketStep DEF XInv
<1> QED
  BY <1>1, <1>2, ExchangeSound, PTL DEF XSpec, Spec

\* TradesReported: between two commands, whoever has gone away in the middle of
\* one, every trader still there was sent a FILL for each of its parts in the
\* trades, neither fewer nor more.
THEOREM TradesAreReported == XSpec => []TradesReported
<1>1. XInit => FillInv
  <2> SUFFICES ASSUME XInit PROVE FillInv
    OBVIOUS
  <2>1. outq = <<>> /\ DOMAIN completed_trades = {} /\ \A t \in Trader : filled[t] = 0
    BY DEF XInit, Init
  <2>2. \A t, role : TradesOf(t, role) = {}
    BY <2>1 DEF TradesOf
  <2>3. Cardinality({}) = 0
    BY FS_EmptySet
  <2>4. \A t : Parts(t) = 0
    BY <2>2, <2>3 DEF Parts
  <2>5. \A t : Owed(outq, t) = 0 /\ Len(outq) <= 4
    BY <2>1, OwedNothing
  <2> QED
    BY <2>1, <2>4, <2>5 DEF FillInv
<1>2. XInv /\ FillInv => TradesReported
  <2> SUFFICES ASSUME XInv, FillInv, pc \notin Answering \cup {"killed", "aborted"},
                      NEW t \in Trader, Alive(t)
               PROVE  filled[t] = Parts(t)
    BY ZenonT(20) DEF TradesReported, Parts
  <2>1. outq = <<>> /\ filled[t] \in Nat
    BY TypeParts DEF XInv, PlaceInv, TraderTypes
  <2>2. Owed(outq, t) = 0
    BY <2>1, OwedNothing, ZenonT(20)
  <2>3. filled[t] + Owed(outq, t) = Parts(t)
    BY ZenonT(20) DEF FillInv
  <2> QED
    BY ONLY <2>1, <2>2, <2>3, SMTT(20), ZenonT(20)
<1>3. Spec => []TradesInBook
  BY HoldingsInit, HoldingsStep, TypeCorrect, PTL DEF Spec
<1>4. XInv /\ TradesInBook /\ FillInv /\ [XNext]_xvars => FillInv'
  BY FillStep
<1> QED
  BY <1>1, <1>2, <1>3, <1>4, ExchangeSound, ExchangeRunsMarket, PTL DEF XSpec

\* So the exchange implements the abstract ledger: nothing but a trade moves
\* money or units, ...
THEOREM ExchangeImplementsLedger == XSpec => ImplementsLedger
  BY ExchangeRunsMarket, LedgerImplemented, PTL

\* ... no money is made or lost, every trader holds what its trades add up to, ...
THEOREM ExchangeKeepsAccounts == XSpec => [](MoneyConserved /\ HoldingsMatchTrades)
  BY ExchangeRunsMarket, NoMoneyMade, HoldingsAreTrades, PTL

\* ... trades are fair as long as no id is reused, and closed orders stay so, ...
THEOREM ExchangeTradesFairly ==
    XSpec => PriceTimePriority /\ LimitsRespected /\ ClosedOrdersStayClosed
  BY ExchangeRunsMarket, BestOrderTraded, LimitsKept, ClosedForever, PTL

\* ... no order gives more than it was placed or amended for, to any number of
\* trades, ...
THEOREM ExchangeFillsOrders == XSpec => FilledByTrades /\ [](NeverOverfilled /\ TradesBounded)
  BY ExchangeRunsMarket, OrdersFilledByTrades, NoOverfill, TradesAreFew, PTL

\* ... and between commands no two live orders could trade, unless an id was
\* reused or an order amended.
THEOREM ExchangeUncrossed == XSpec => []BookUncrossedWithoutAmend
  BY ExchangeRunsMarket, Uncrossed, PTL
=============================================================================
