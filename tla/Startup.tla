------------------------------ MODULE Startup ------------------------------
(***************************************************************************)
(* How the exchange of pe_exchange.c and its traders, processes running    *)
(* pe_trader.c, find each other: for each trader in turn the exchange      *)
(* makes two FIFOs, forks, and opens the FIFOs while the child executes    *)
(* the trader, installs its SIGUSR1 handler and opens them at its end;     *)
(* then MARKET OPEN goes to all of them.                                   *)
(*                                                                         *)
(* A system call is a step.  The kernel is modelled from how the code uses *)
(* it: an open() of one end of a FIFO waits until the other end is being   *)
(* opened too, and then both return; SIGUSR1 ends a process that has no    *)
(* handler for it; a write() to a FIFO without a reader ends the process.  *)
(* A process that ends closes its descriptors, but fork() has copied those *)
(* of the exchange into every trader started later and execvp() keeps them *)
(* (nothing is opened with O_CLOEXEC).  A child may be lost at any time,   *)
(* as when its program cannot be executed.                                 *)
(***************************************************************************)
EXTENDS Integers, FiniteSets

CONSTANT trader_count

ASSUME StartupAssumption == trader_count \in Nat \ {0}

Traders == 0..(trader_count - 1)

VARIABLES
    at,        \* where the exchange is
    i,         \* the trader that its loop is at
    fifos,     \* traders whose FIFOs were made
    child,     \* where each trader is
    ends,      \* ends of FIFOs that are open or being opened
    woken,     \* those whose open() has met its other end and may return
    market,    \* traders whose FIFO got MARKET OPEN
    raised,    \* traders with a SIGUSR1 pending
    signalled  \* traders whose handler ran, message_in

svars == <<at, i, fifos, child, ends, woken, market, raised, signalled>>

End(t, fifo, mode) == [trader |-> t, fifo |-> fifo, mode |-> mode]

Ends == [trader : Traders, fifo : {"exc2trader", "trader2exc"}, mode : {"O_RDONLY", "O_WRONLY"}]

Other(e) == [e EXCEPT !.mode = IF e.mode = "O_RDONLY" THEN "O_WRONLY" ELSE "O_RDONLY"]

\* open() is called, ...
Open(e) ==
    /\ ends' = ends \cup {e}
    /\ woken' = IF Other(e) \in ends THEN woken \cup {e, Other(e)} ELSE woken

OpenReturns_AtOnce(e) == woken' = woken \ {e} /\ UNCHANGED ends

\* ... and returns.
OpenReturns(e) ==
    /\ e \in woken
    /\ woken' = woken \ {e}
    /\ UNCHANGED ends

\* An end is held by the process that opens it; an end of the exchange also by
\* the traders forked after it was opened.
AtTrader(e) == e.fifo = "exc2trader" <=> e.mode = "O_RDONLY"

Ended == at \in {"failed", "killed"}

Held(e) ==
    IF AtTrader(e) THEN child[e.trader] # "gone"
    ELSE ~Ended \/ \E u \in Traders : u > e.trader /\ child[u] \notin {"none", "gone"}

\* A process ends: what nobody holds any more is closed.
Exits ==
    /\ ends' = {e \in ends : Held(e)'}
    /\ woken' = {e \in woken : Held(e)'}

-----------------------------------------------------------------------------
(* The exchange.                                                           *)

Goes(from, to) == at = from /\ at' = to

\* The arguments, the file of products or sigaction() are no good.
StartFails ==
    /\ Goes("start", "failed")
    /\ UNCHANGED <<i, fifos, child, ends, woken, market, raised, signalled>>

Start ==
    /\ Goes("start", "mkfifo")
    /\ UNCHANGED <<i, fifos, child, ends, woken, market, raised, signalled>>

MakeFifos_Missing ==
    /\ Goes("mkfifo", "fork")
    /\ UNCHANGED <<i, fifos, child, ends, woken, market, raised, signalled>>

MakeFifos ==
    /\ Goes("mkfifo", "fork")
    /\ fifos' = fifos \cup {i}
    /\ UNCHANGED <<i, child, ends, woken, market, raised, signalled>>

Fork ==
    /\ Goes("fork", "open w")
    /\ child' = [child EXCEPT ![i] = "forked"]
    /\ UNCHANGED <<i, fifos, ends, woken, market, raised, signalled>>

ForkFails ==
    /\ Goes("fork", "failed")
    /\ UNCHANGED <<i, fifos, child, market, raised, signalled>>
    /\ Exits

ToTrader(t)   == End(t, "exc2trader", "O_WRONLY")
FromTrader(t) == End(t, "trader2exc", "O_RDONLY")

OpenWrite ==
    /\ Goes("open w", "wait w")
    /\ Open(ToTrader(i))
    /\ UNCHANGED <<i, fifos, child, market, raised, signalled>>

WriteOpened_Announces ==
    /\ Goes("wait w", "open r")
    /\ OpenReturns(ToTrader(i))
    /\ market' = market \cup {i} /\ raised' = raised \cup {i}
    /\ UNCHANGED <<i, fifos, child, signalled>>

WriteOpened ==
    /\ Goes("wait w", "open r")
    /\ OpenReturns(ToTrader(i))
    /\ UNCHANGED <<i, fifos, child, market, raised, signalled>>

OpenRead ==
    /\ Goes("open r", "wait r")
    /\ Open(FromTrader(i))
    /\ UNCHANGED <<i, fifos, child, market, raised, signalled>>

ReadOpened_Past ==
    /\ OpenReturns(FromTrader(i))
    /\ \/ Goes("wait r", "mkfifo") /\ i \in Traders /\ i' = i + 1
       \/ Goes("wait r", "write") /\ i \notin Traders /\ i' = 0
    /\ UNCHANGED <<fifos, child, market, raised, signalled>>

\* The next trader, or MARKET OPEN once all are connected.
ReadOpened ==
    /\ OpenReturns(FromTrader(i))
    /\ \/ Goes("wait r", "mkfifo") /\ i + 1 \in Traders /\ i' = i + 1
       \/ Goes("wait r", "write") /\ i + 1 \notin Traders /\ i' = 0
    /\ UNCHANGED <<fifos, child, market, raised, signalled>>

Reading(t) == End(t, "exc2trader", "O_RDONLY") \in ends

WriteMarketOpen ==
    /\ at = "write"
    /\ UNCHANGED <<i, fifos, child, raised, signalled>>
    /\ \/ Reading(i) /\ at' = "kill" /\ market' = market \cup {i} /\ UNCHANGED <<ends, woken>>
       \/ ~Reading(i) /\ at' = "killed" /\ UNCHANGED market /\ Exits

KillTrader ==
    /\ \/ Goes("kill", "write") /\ i + 1 \in Traders /\ i' = i + 1
       \/ Goes("kill", "loop") /\ i + 1 \notin Traders /\ UNCHANGED i
    /\ raised' = raised \cup {t \in {i} : child[i] # "gone"}
    /\ UNCHANGED <<fifos, child, ends, woken, market, signalled>>

-----------------------------------------------------------------------------
(* A trader.                                                               *)

Moves(t, from, to) == child[t] = from /\ child' = [child EXCEPT ![t] = to]

Exec(t) ==
    /\ Moves(t, "forked", "main")
    /\ UNCHANGED <<at, i, fifos, ends, woken, market, raised, signalled>>

\* The trader id that the exchange passes is a number below MAX_TRADERS.
Sigaction(t) ==
    /\ Moves(t, "main", "open r")
    /\ UNCHANGED <<at, i, fifos, ends, woken, market, raised, signalled>>

\* open() fails if there is no such FIFO, and the trader does not notice.
TraderOpens(t, fifo, mode, from, to, failed) ==
    /\ IF t \in fifos THEN Moves(t, from, to) /\ Open(End(t, fifo, mode))
       ELSE Moves(t, from, failed) /\ UNCHANGED <<ends, woken>>
    /\ UNCHANGED <<at, i, fifos, market, raised, signalled>>

TraderOpened(t, fifo, mode, from, to) ==
    /\ Moves(t, from, to)
    /\ OpenReturns(End(t, fifo, mode))
    /\ UNCHANGED <<at, i, fifos, market, raised, signalled>>

TraderConnects_WriteFirst(t) ==
    \/ TraderOpens(t, "trader2exc", "O_WRONLY", "open r", "wait r", "open w")
    \/ TraderOpened(t, "trader2exc", "O_WRONLY", "wait r", "open w")
    \/ TraderOpens(t, "exc2trader", "O_RDONLY", "open w", "wait w", "loop")
    \/ TraderOpened(t, "exc2trader", "O_RDONLY", "wait w", "loop")

TraderConnects(t) ==
    \/ TraderOpens(t, "exc2trader", "O_RDONLY", "open r", "wait r", "open w")
    \/ TraderOpened(t, "exc2trader", "O_RDONLY", "wait r", "open w")
    \/ TraderOpens(t, "trader2exc", "O_WRONLY", "open w", "wait w", "loop")
    \/ TraderOpened(t, "trader2exc", "O_WRONLY", "wait w", "loop")

Gone(t) ==
    /\ child' = [child EXCEPT ![t] = "gone"]
    /\ raised' = raised \ {t}
    /\ UNCHANGED <<at, i, fifos, market, signalled>>
    /\ Exits

ExecFails(t) == child[t] = "forked" /\ Gone(t)

Lost(t) == child[t] \notin {"none", "forked", "gone"} /\ Gone(t)

\* SIGUSR1: the handler once it is installed, the end of the process before.
Deliver(t) ==
    /\ t \in raised
    /\ IF child[t] = "main" THEN Gone(t)
       ELSE /\ signalled' = signalled \cup {t} /\ raised' = raised \ {t}
            /\ UNCHANGED <<at, i, fifos, child, ends, woken, market>>

\* The event loop of the trader sees the signal and reads MARKET OPEN.
ReadMarketOpen(t) ==
    /\ t \in signalled /\ t \in market
    /\ Moves(t, "loop", "trading")
    /\ UNCHANGED <<at, i, fifos, ends, woken, market, raised, signalled>>

-----------------------------------------------------------------------------
SInit ==
    /\ at = "start" /\ i = 0
    /\ fifos = {} /\ ends = {} /\ woken = {}
    /\ child = [t \in Traders |-> "none"]
    /\ market = {} /\ raised = {} /\ signalled = {}

ExchangeStarts ==
    \/ Start \/ MakeFifos \/ Fork
    \/ OpenWrite \/ WriteOpened \/ OpenRead \/ ReadOpened
    \/ WriteMarketOpen \/ KillTrader

TraderStarts(t) == Exec(t) \/ Sigaction(t) \/ TraderConnects(t) \/ Deliver(t) \/ ReadMarketOpen(t)

Fails == StartFails \/ ForkFails \/ \E t \in Traders : ExecFails(t) \/ Lost(t)

SNext == ExchangeStarts \/ (\E t \in Traders : TraderStarts(t)) \/ Fails

\* Every process gets to run; nothing has to fail.
SSpec ==
    /\ SInit /\ [][SNext]_svars
    /\ WF_svars(ExchangeStarts)
    /\ \A t \in Traders : WF_svars(TraderStarts(t))

-----------------------------------------------------------------------------
(* Properties.                                                             *)

\* The variables have the values of their declarations.
STypeOK ==
    /\ at \in {"start", "mkfifo", "fork", "open w", "wait w", "open r", "wait r",
               "write", "kill", "loop", "failed", "killed"}
    /\ i \in Traders
    /\ child \in [Traders -> {"none", "forked", "main", "open r", "wait r", "open w", "wait w",
                              "loop", "trading", "gone"}]
    /\ ends \subseteq Ends /\ woken \subseteq Ends
    /\ fifos \subseteq Traders
    /\ market \subseteq Traders /\ raised \subseteq Traders /\ signalled \subseteq Traders

\* A trader in its event loop has both its FIFOs open at both ends while the
\* exchange runs: they are made before the trader is, and no open() fails.  If
\* the exchange has ended, a trader is cut off only when all traders started
\* after it are gone, which hold the exchange's descriptors without knowing.
TradersConnected ==
    \A e \in Ends : child[e.trader] \in {"loop", "trading"} /\ Held(e) => e \in ends

\* MARKET OPEN and its SIGUSR1 reach a trader that has its handler and is
\* reading its FIFO, however late the trader is: the opens of the exchange
\* wait for it.
SignalsFindHandlers ==
    \A t \in market \cup raised : child[t] \in {"wait w", "loop", "trading", "gone"}

\* Every trader gets to read MARKET OPEN, in the order of opens of the two
\* programs, unless something could not be started or a child was lost.
MarketOpens ==
    <>(\/ \A t \in Traders : child[t] = "trading"
       \/ at = "failed"
       \/ \E t \in Traders : child[t] = "gone")

\* The exchange in an open() for a child that is gone.
HungOnChild ==
    \/ at = "wait w" /\ child[i] = "gone" /\ ToTrader(i) \notin woken
    \/ at = "wait r" /\ child[i] = "gone" /\ FromTrader(i) \notin woken

\* A child lost before it has opened its FIFOs holds up the exchange for good,
\* and with it the traders that are connected already: there is no timeout
\* and SIGCHLD is not handled.
LostChildHangs == [][HungOnChild => HungOnChild']_svars
=============================================================================
