------------------------------ MODULE Exchange ------------------------------
(***************************************************************************)
(* The exchange process of pe_exchange.c around the matching engine: the   *)
(* SIGUSR1 handler and its array, the event loop that reads one command    *)
(* per recorded signal, the write() and kill() calls that answer it, the   *)
(* reaping of traders and the end of the exchange.                         *)
(*                                                                         *)
(* The traders are any programs that write commands to their FIFO, signal  *)
(* the exchange, and exit or crash whenever they like.  A system call of   *)
(* the exchange is a step; signals are delivered between any two of them.  *)
(* The kernel is modelled from how the code uses it: a SIGUSR1 that finds  *)
(* one pending is dropped, a blocking read() is interrupted by a signal    *)
(* (no SA_RESTART), a write() to a FIFO without a reader kills the process *)
(* (SIGPIPE is not handled).  FIFOs are taken never to be full.            *)
(***************************************************************************)
EXTENDS Market, Fifo, Functions

CONSTANTS
    MAX_SIGNALS,  \* 100 in pe_exchange.h
    Spare,        \* 10 in the code: room left when the signal array grows
    MemoryShort,  \* TRUE: realloc() may fail
    Patient,      \* TRUE: traders wait for the answer before the next command
    MaxSent       \* bound of the model: commands each trader ever sends

None == -1

ASSUME ExchangeAssumption ==
    /\ IsFiniteSet(Trader) /\ Trader \subseteq Nat /\ \A t \in Trader : 0..t \subseteq Trader
    /\ MAX_SIGNALS \in Nat \ {0} /\ Spare \in 1..MAX_SIGNALS
    /\ MemoryShort \in BOOLEAN /\ Patient \in BOOLEAN
    /\ MaxSent \in [Trader -> Nat]
    /\ SumFunction(MaxSent) <= MaxOrders

VARIABLES
    pc,              \* where the event loop is
    incoming_trader, \* the trader whose command is handled
    outq,            \* write() and kill() calls left before the next place
    other,           \* the trader that the loop of MARKET messages is at
    pending,         \* sender of the pending SIGUSR1, or None
    signal_array,    \* signal_array[0 .. signal_count - 1], as trader ids
    sig_ptr,         \* entries of signal_array already handled
    sizeofSignalArray,
    pipe,            \* commands in each trader's FIFO to the exchange
    proc,            \* running, exited or crashed (zombies), reaped
    disconnected,    \* traders[i]->disconnected
    writing,         \* traders between their write() and their kill()
    sent,            \* commands each trader wrote
    answered,        \* answers written to each trader
    last,            \* number of the last command of the trader handled
    unsignalled,     \* kinds of messages written to a trader since its last kill()
    filled           \* FILL messages written to each trader

loop     == <<pc, incoming_trader, outq, other>>
signals  == <<pending, signal_array, sig_ptr, sizeofSignalArray>>
children == <<proc, disconnected>>
senders  == <<pipe, writing, sent>>
history  == <<answered, last, unsignalled, filled>>
xvars    == <<vars, loop, signals, children, senders, history>>

Stopped == pc \in {"ended", "killed", "aborted"}
Alive(t) == proc[t] = "running"

-----------------------------------------------------------------------------
(* The calls that answer a command.                                        *)

Write(t, kind) == [call |-> "write", to |-> t, kind |-> kind]
Kill(t)        == [call |-> "kill", to |-> t, kind |-> "SIGUSR1"]

Tell_Unsignalled(t, kind) == <<Write(t, kind)>>

Tell(t, kind) == <<Write(t, kind), Kill(t)>>

FillTo_Once(incoming, resting) ==
    IF disconnected[resting] \/ resting = incoming
    THEN <<Write(incoming, "FILL"), Kill(incoming), Kill(incoming)>>
    ELSE <<Write(incoming, "FILL"), Kill(incoming), Write(resting, "FILL"), Kill(incoming)>>

\* FILL to both traders.  The second kill() is addressed to the trader of the
\* incoming order again.
FillTo(incoming, resting) ==
    IF disconnected[resting]
    THEN <<Write(incoming, "FILL"), Kill(incoming), Kill(incoming)>>
    ELSE <<Write(incoming, "FILL"), Kill(incoming), Write(resting, "FILL"), Kill(incoming)>>

-----------------------------------------------------------------------------
(* Handling of what read() returned.                                       *)

Accept(t, kind) == outq' = Tell(t, kind) /\ pc' = "announce" /\ other' = 0

Reject(t) == outq' = Tell(t, "INVALID") /\ pc' = "reject" /\ UNCHANGED other

HandleOrder(t, m) ==
    \/ /\ OrderReceived(t, m.cmd, m.id, m.item, m.quantity, m.price)
       /\ Accept(t, "ACCEPTED")
    \/ /\ OrderRejected(t, m.id, m.quantity, m.price)
       /\ Reject(t)

HandleAmend(t, m) ==
    \/ /\ AmendRequest(t, m.id, m.quantity, m.price)
       /\ Accept(t, "AMENDED")
    \/ /\ AmendRejected(t, m.id, m.quantity, m.price)
       /\ Reject(t)

HandleCancel(t, m) ==
    \/ /\ CancelRequest(t, m.id)
       /\ Accept(t, "CANCELLED")
    \/ /\ CancelRejected(t, m.id)
       /\ Reject(t)

HandleInvalid(t) == InvalidMessage(t) /\ Reject(t)

\* The switch on what read_message() returned.
Handle(t, m) ==
    \/ m.cmd \in Side /\ HandleOrder(t, m)
    \/ m.cmd = "AMEND" /\ HandleAmend(t, m)
    \/ m.cmd = "CANCEL" /\ HandleCancel(t, m)
    \/ m.cmd = "JUNK" /\ HandleInvalid(t)

-----------------------------------------------------------------------------
(* The event loop.                                                         *)

\* A signal not handled yet: its sender's FIFO is read next.
Poll ==
    /\ pc = "poll"
    /\ sig_ptr < Len(signal_array)
    /\ incoming_trader' = signal_array[sig_ptr + 1]
    /\ pc' = "read"
    /\ UNCHANGED <<vars, outq, other, signals, children, senders, history>>

PollNothing ==
    /\ pc = "poll"
    /\ sig_ptr = Len(signal_array)
    /\ pc' = "reap"
    /\ UNCHANGED <<vars, incoming_trader, outq, other, signals, children, senders, history>>

\* read() returns bytes: the first command in them is handled.
ReadCommand(t) ==
    /\ pc \in {"read", "blocked"} /\ incoming_trader = t
    /\ ~disconnected[t]
    /\ pipe[t] # <<>>
    /\ Handle(t, Head(pipe[t]))
    /\ \E rest \in AfterRead(pipe[t]) : pipe' = [pipe EXCEPT ![t] = rest]
    /\ last' = [last EXCEPT ![t] = Head(pipe[t]).n]
    /\ UNCHANGED <<incoming_trader, signals, children, writing, sent, answered, unsignalled, filled>>

\* read() returns nothing: the descriptor was closed at the disconnection, or
\* the trader is gone (end of file).  The empty buffer is an invalid message.
ReadNothing(t) ==
    /\ pc \in {"read", "blocked"} /\ incoming_trader = t
    /\ disconnected[t] \/ (pipe[t] = <<>> /\ ~Alive(t))
    /\ HandleInvalid(t)
    /\ UNCHANGED <<incoming_trader, signals, children, senders, history>>

\* An empty FIFO whose trader is alive: read() blocks, ...
ReadBlocks(t) ==
    /\ pc = "read" /\ incoming_trader = t
    /\ ~disconnected[t] /\ pipe[t] = <<>> /\ Alive(t)
    /\ pc' = "blocked"
    /\ UNCHANGED <<vars, incoming_trader, outq, other, signals, children, senders, history>>

\* sig_handler(): the sender of the signal is the next entry of the array.
Record ==
    /\ pending # None
    /\ Len(signal_array) < sizeofSignalArray
    /\ signal_array' = Append(signal_array, pending)
    /\ pending' = None
    /\ UNCHANGED <<sig_ptr, sizeofSignalArray>>

\* ... and a signal makes it fail with EINTR: an invalid message again.
ReadInterrupted(t) ==
    /\ pc = "blocked" /\ incoming_trader = t
    /\ pipe[t] = <<>> /\ Alive(t)
    /\ Record
    /\ HandleInvalid(t)
    /\ UNCHANGED <<incoming_trader, children, senders, history>>

Answering == {"announce", "accept", "reject"}

Answers == {"ACCEPTED", "AMENDED", "CANCELLED", "INVALID"}

\* The next write() of the queue.  On a closed descriptor it fails; without a
\* reader at the other end it is fatal.
DoWrite ==
    /\ pc \in Answering /\ outq # <<>>
    /\ LET w == Head(outq)
       IN  /\ w.call = "write"
           /\ \/ /\ disconnected[w.to]
                 /\ pc' = pc /\ UNCHANGED history
              \/ /\ ~disconnected[w.to] /\ ~Alive(w.to)
                 /\ pc' = "killed" /\ UNCHANGED history
              \/ /\ Alive(w.to)
                 /\ pc' = pc
                 /\ unsignalled' = [unsignalled EXCEPT ![w.to] = @ \cup {w.kind}]
                 /\ answered' = [answered EXCEPT ![w.to] =
                                    IF w.kind \in Answers THEN @ + 1 ELSE @]
                 /\ filled' = [filled EXCEPT ![w.to] = IF w.kind = "FILL" THEN @ + 1 ELSE @]
                 /\ UNCHANGED last
    /\ outq' = Tail(outq)
    /\ UNCHANGED <<vars, incoming_trader, other, signals, children, senders>>

\* The next kill() of the queue.
DoKill ==
    /\ pc \in Answering /\ outq # <<>>
    /\ Head(outq).call = "kill"
    /\ unsignalled' = [unsignalled EXCEPT ![Head(outq).to] = {}]
    /\ outq' = Tail(outq)
    /\ UNCHANGED <<vars, pc, incoming_trader, other, signals, children, senders, answered, last,
                   filled>>

\* MARKET to every other trader that is still connected, in argv order.
Announce ==
    /\ pc = "announce" /\ outq = <<>> /\ other \in Trader
    /\ outq' = IF other = incoming_trader \/ disconnected[other] THEN <<>>
               ELSE Tell(other, "MARKET")
    /\ other' = other + 1
    /\ UNCHANGED <<vars, pc, incoming_trader, signals, children, senders, history>>

AnnounceDone ==
    /\ pc = "announce" /\ outq = <<>> /\ other \notin Trader
    /\ pc' = "accept"
    /\ UNCHANGED <<vars, incoming_trader, outq, other, signals, children, senders, history>>

\* An iteration of the matching loop, once the calls of the one before are
\* made.
Match ==
    /\ pc = "accept" /\ outq = <<>>
    /\ PlaceOrder
    /\ LET trade == completed_trades'[Len(completed_trades')]
       IN  outq' = FillTo(orderbook[trade.incoming_order].trader,
                          orderbook[trade.order_in_book].trader)
    /\ UNCHANGED <<pc, incoming_trader, other, signals, children, senders, history>>

MatchNothing ==
    /\ pc = "accept" /\ outq = <<>>
    /\ PlacingDone
    /\ UNCHANGED <<loop, signals, children, senders, history>>

\* SIGUSR1 is blocked while the order book is printed.
PrintOrderBook ==
    /\ pc = "accept" /\ outq = <<>> /\ placing = Idle
    /\ pc' = "print"
    /\ UNCHANGED <<vars, incoming_trader, outq, other, signals, children, senders, history>>

PrintDone ==
    /\ pc = "print"
    /\ pc' = "done"
    /\ UNCHANGED <<vars, incoming_trader, outq, other, signals, children, senders, history>>

\* The last thing done for a command is the test whether the array is to
\* grow.  realloc() fails, or frees the array that signal_array points to.
AfterCommand ==
    LET grows == Len(signal_array) = sizeofSignalArray - Spare
    IN  \/ grows /\ pc' = "moved"
        \/ (grows => MemoryShort) /\ pc' = "reap"

CommandDone_Repeats ==
    /\ pc = "done" \/ (pc = "reject" /\ outq = <<>>)
    /\ sig_ptr' = IF pc = "done" THEN sig_ptr + 1 ELSE sig_ptr
    /\ AfterCommand
    /\ UNCHANGED <<vars, incoming_trader, outq, other, pending, signal_array, sizeofSignalArray,
                   children, senders, history>>

CommandDone_Skips ==
    /\ pc = "done" \/ (pc = "reject" /\ outq = <<>>)
    /\ sig_ptr' = Len(signal_array)
    /\ AfterCommand
    /\ UNCHANGED <<vars, incoming_trader, outq, other, pending, signal_array, sizeofSignalArray,
                   children, senders, history>>

\* The command is over: the next signal of the array is due.
CommandDone ==
    /\ pc = "done" \/ (pc = "reject" /\ outq = <<>>)
    /\ sig_ptr' = sig_ptr + 1
    /\ AfterCommand
    /\ UNCHANGED <<vars, incoming_trader, outq, other, pending, signal_array, sizeofSignalArray,
                   children, senders, history>>

\* signal_array = temp
ArrayGrown ==
    /\ pc = "moved"
    /\ pc' = "reap"
    /\ sizeofSignalArray' = sizeofSignalArray + MAX_SIGNALS
    /\ UNCHANGED <<vars, incoming_trader, outq, other, pending, signal_array, sig_ptr,
                   children, senders, history>>

AfterReap_Any(gone) == IF \E t \in Trader : gone[t] THEN "ended" ELSE "poll"

\* traders_online == 0
AfterReap(gone) == IF \A t \in Trader : gone[t] THEN "ended" ELSE "poll"

ReapExited_Forgets(t) ==
    /\ pc = "reap"
    /\ proc[t] = "exited"
    /\ proc' = [proc EXCEPT ![t] = "reaped"]
    /\ pc' = AfterReap(disconnected)
    /\ UNCHANGED <<vars, incoming_trader, outq, other, signals, disconnected, senders, history>>

\* waitpid() finds an exited trader: it is disconnected, its descriptors closed.
ReapExited(t) ==
    /\ pc = "reap"
    /\ proc[t] = "exited"
    /\ proc' = [proc EXCEPT ![t] = "reaped"]
    /\ disconnected' = [disconnected EXCEPT ![t] = TRUE]
    /\ pc' = AfterReap(disconnected')
    /\ UNCHANGED <<vars, incoming_trader, outq, other, signals, senders, history>>

\* waitpid() finds a trader a signal ended: WIFEXITED is false.
ReapCrashed(t) ==
    /\ pc = "reap"
    /\ proc[t] = "crashed"
    /\ proc' = [proc EXCEPT ![t] = "reaped"]
    /\ pc' = AfterReap(disconnected)
    /\ UNCHANGED <<vars, incoming_trader, outq, other, signals, disconnected, senders, history>>

ReapNothing ==
    /\ pc = "reap"
    /\ \A t \in Trader : proc[t] \in {"running", "reaped"}
    /\ pc' = AfterReap(disconnected)
    /\ UNCHANGED <<vars, incoming_trader, outq, other, signals, children, senders, history>>

-----------------------------------------------------------------------------
(* Signals and traders.                                                    *)

\* sig_handler() runs between two calls of the loop, unless SIGUSR1 is
\* blocked.
SigHandler ==
    /\ pc \notin {"print", "blocked", "moved"} /\ ~Stopped
    /\ Record
    /\ UNCHANGED <<vars, loop, children, senders, history>>

\* It does not look at the size of the array, nor whether the array is being
\* moved: the address sanitizer of the build ends the process.
SigHandlerAborts ==
    /\ pending # None
    /\ pc # "print" /\ ~Stopped
    /\ pc = "moved" \/ Len(signal_array) = sizeofSignalArray
    /\ pc' = "aborted"
    /\ UNCHANGED <<vars, incoming_trader, outq, other, signals, children, senders, history>>

Commands ==
    [cmd : Side, id : IdWord, item : Product, quantity : QuantityWord, price : PriceWord]
      \cup [cmd : {"AMEND"}, id : IdWord, quantity : QuantityWord, price : PriceWord]
      \cup [cmd : {"CANCEL"}, id : IdWord]
      \cup [cmd : {"JUNK"}]

Numbered(m, n) == [f \in DOMAIN m \cup {"n"} |-> IF f = "n" THEN n ELSE m[f]]

\* A trader writes a command, ...
TraderWrite(t) ==
    /\ Alive(t) /\ ~writing[t] /\ ~Stopped
    /\ sent[t] < MaxSent[t]
    /\ Patient => answered[t] >= sent[t]
    /\ \E m \in Commands : pipe' = [pipe EXCEPT ![t] = Append(@, Numbered(m, sent[t] + 1))]
    /\ sent' = [sent EXCEPT ![t] = @ + 1]
    /\ writing' = [writing EXCEPT ![t] = TRUE]
    /\ UNCHANGED <<vars, loop, signals, children, history>>

\* ... then signals the exchange.  The signal is dropped if one is pending.
TraderKill(t) ==
    /\ Alive(t) /\ writing[t]
    /\ writing' = [writing EXCEPT ![t] = FALSE]
    /\ pending' = IF pending = None THEN t ELSE pending
    /\ UNCHANGED <<vars, loop, signal_array, sig_ptr, sizeofSignalArray, children, pipe, sent,
                   history>>

TraderExit(t) ==
    /\ Alive(t)
    /\ proc' = [proc EXCEPT ![t] = "exited"]
    /\ UNCHANGED <<vars, loop, signals, disconnected, senders, history>>

TraderCrash(t) ==
    /\ Alive(t)
    /\ proc' = [proc EXCEPT ![t] = "crashed"]
    /\ UNCHANGED <<vars, loop, signals, disconnected, senders, history>>

-----------------------------------------------------------------------------
XInit ==
    /\ Init
    /\ pc = "poll" /\ incoming_trader = None /\ outq = <<>> /\ other = 0
    /\ pending = None /\ signal_array = <<>> /\ sig_ptr = 0
    /\ sizeofSignalArray = MAX_SIGNALS
    /\ proc = [t \in Trader |-> "running"]
    /\ disconnected = [t \in Trader |-> FALSE]
    /\ pipe = [t \in Trader |-> <<>>]
    /\ writing = [t \in Trader |-> FALSE]
    /\ sent = [t \in Trader |-> 0]
    /\ answered = [t \in Trader |-> 0]
    /\ last = [t \in Trader |-> 0]
    /\ unsignalled = [t \in Trader |-> {}]
    /\ filled = [t \in Trader |-> 0]

Read(t) == ReadCommand(t) \/ ReadNothing(t) \/ ReadBlocks(t) \/ ReadInterrupted(t)

Reap == (\E t \in Trader : ReapExited(t) \/ ReapCrashed(t)) \/ ReapNothing

ExchangeStep ==
    \/ Poll \/ PollNothing
    \/ \E t \in Trader : Read(t)
    \/ DoWrite \/ DoKill
    \/ Announce \/ AnnounceDone
    \/ Match \/ MatchNothing
    \/ PrintOrderBook \/ PrintDone \/ CommandDone \/ ArrayGrown
    \/ Reap

TraderStep(t) == TraderWrite(t) \/ TraderKill(t) \/ TraderExit(t) \/ TraderCrash(t)

\* The exchange has ended and nobody is left to do anything.
Finished == Stopped /\ (\A t \in Trader : ~Alive(t)) /\ UNCHANGED xvars

XNext ==
    \/ ExchangeStep
    \/ SigHandler \/ SigHandlerAborts
    \/ \E t \in Trader : TraderStep(t)
    \/ Finished

\* The exchange runs, the kernel delivers a pending signal, and a trader that
\* wrote a command gets to its kill().  Nothing obliges a trader to write, to
\* exit or to crash.
XFairness ==
    /\ WF_xvars(ExchangeStep)
    /\ WF_xvars(SigHandler \/ SigHandlerAborts)
    /\ \A t \in Trader : WF_xvars(TraderKill(t))

XSpec == XInit /\ [][XNext]_xvars /\ XFairness

-----------------------------------------------------------------------------
(* Properties.                                                             *)

Calls == [call : {"write", "kill"}, to : Trader,
          kind : Answers \cup {"MARKET", "FILL", "SIGUSR1"}]

\* The variables of the event loop and of its environment hold the values of
\* their declarations, and the loop is at a place of the code.
XTypeOK ==
    /\ pc \in {"poll", "read", "blocked", "announce", "accept", "reject", "print", "done", "moved",
               "reap", "ended", "killed", "aborted"}
    /\ incoming_trader \in Trader \cup {None}
    /\ outq \in Seq(Calls) /\ other \in Nat
    /\ pending \in Trader \cup {None}
    /\ signal_array \in Seq(Trader)
    /\ sizeofSignalArray \in Nat /\ Len(signal_array) <= sizeofSignalArray
    /\ sig_ptr \in 0..Len(signal_array)
    /\ proc \in [Trader -> {"running", "exited", "crashed", "reaped"}]
    /\ disconnected \in [Trader -> BOOLEAN]
    /\ writing \in [Trader -> BOOLEAN]
    /\ sent \in [Trader -> Nat]
    /\ answered \in [Trader -> Nat]
    /\ \A t \in Trader : sent[t] <= MaxSent[t]
    /\ last \in [Trader -> Nat]
    /\ unsignalled \in [Trader -> SUBSET (Answers \cup {"MARKET", "FILL"})]
    /\ filled \in [Trader -> Nat]

\* A command read from the FIFO of trader t is handled.
Handled(t) ==
    /\ pc \in {"read", "blocked"} /\ pc' \in {"announce", "reject"}
    /\ incoming_trader = t /\ ~disconnected[t] /\ pipe[t] # <<>>

\* A command takes effect at most once and in the order its trader wrote it,
\* whatever is dropped, cut or interrupted on the way.
CommandsInOrder ==
    [][\A t \in Trader : Handled(t) => last[t] < last'[t]]_xvars

\* The exchange answers no trader more often than it was signalled, so an
\* answer is never the answer to a command that was not sent.
AnswersNeedSignals ==
    \A t \in Trader :
        answered[t] <= Cardinality({n \in DOMAIN signal_array : signal_array[n] = t})

\* Every message but a FILL to the trader of the resting order, whose kill()
\* goes to the other trader, is followed by a signal to its reader before the
\* next command is looked at.
MessagesSignalled ==
    pc \in {"poll", "read", "blocked", "reap"} =>
        \A t \in Trader : unsignalled[t] \subseteq {"FILL"}

\* The exchange ends by itself only when every trader has exited, is killed
\* only through a trader that is gone and was not yet disconnected, and is
\* aborted only by a signal that finds the array full or growing.
EndsForAReason ==
    /\ pc = "ended" => \A t \in Trader : proc[t] = "reaped" /\ disconnected[t]
    /\ pc = "killed" => \E t \in Trader : ~Alive(t) /\ ~disconnected[t]
    /\ pc = "aborted" => Len(signal_array) \in {sizeofSignalArray, sizeofSignalArray - Spare}

\* The trades in which trader t has the incoming order, or the order in the
\* book: both, if it trades with itself.
TradesOf(t, role) ==
    {k \in DOMAIN completed_trades : orderbook[completed_trades[k][role]].trader = t}

\* When a command is over, every trader that is still there was sent a FILL for
\* each of its parts in the trades so far, although traders come to be gone
\* between the calls of a command and the loop skips those it knows of.
TradesReported ==
    pc \notin Answering \cup {"killed", "aborted"} =>
        \A t \in Trader :
            Alive(t) => filled[t] = Cardinality(TradesOf(t, "incoming_order"))
                                      + Cardinality(TradesOf(t, "order_in_book"))

\* SIGUSR1s of trader t that were not dropped: recorded or pending.
Signals(t) ==
    Cardinality({n \in DOMAIN signal_array : signal_array[n] = t}) + IF pending = t THEN 1 ELSE 0

\* A trader that waits for its answers gets one for each of its commands whose
\* signal was not dropped, whatever the others send, however signals and
\* commands of theirs arrive in between, unless it goes away.
CommandsAnswered ==
    \A t \in Trader :
        (answered[t] < Signals(t) /\ Alive(t)) ~> (answered[t] >= sent[t] \/ ~Alive(t) \/ Stopped)

\* The matching loop of a command ends, with the messages of its trades: no
\* command is matched for ever, whatever order the loop goes on with.
MatchingEnds == (placing # Idle) ~> (placing = Idle \/ Stopped)

\* README.md:2, the handler ``will store the PID of each incoming SIGUSR1 in a
\* signal array'': there is room for the one that comes.
SignalsStored == pending # None => Len(signal_array) < sizeofSignalArray

AllExited == \A t \in Trader : proc[t] = "exited" \/ disconnected[t]

\* When every trader has exited the exchange stops too, whatever was left
\* unread or half done.
StopsAfterTraders == AllExited ~> Stopped

\* README.md:7, ``The exchange disconnects when all traders disconnect.''
EndsWithTraders == AllExited ~> pc = "ended"
=============================================================================
