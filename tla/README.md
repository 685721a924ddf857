# TLA+ models of the exchange, the game and the virtual machine

The repository holds three programs of a systems programming course:

* the **private exchange** (`src/private_exchange/private_exchange`): an exchange
  process that starts trader processes, reads their commands from FIFOs when they
  signal it with SIGUSR1, matches their orders by price and age, and answers
  through FIFOs and signals;
* the game **go in the mist** (`src/go_in_the_mist/go-in-the-mist/gitm.c`): five in
  a row on a board of 19 lines of which a player sees a window of 7 by 7;
* the **RISK-XVII virtual machine** (`src/vm-riskxvii/vm_riskxvii.c`): a simulator
  of a small RISC-V machine.

The exchange is concurrent and takes most of this project; the game and the
machine are sequential. Files of the exchange are named below without their directory.

## The systems and their parts

| Part | Code | State | Operations | Module |
|---|---|---|---|---|
| order validation | `pe_order.c` | the fields of an order | `isNumeric`, `newOrder`, `closeOrder`, `adjustAmount` | `Market` |
| order book, matching | `pe_market.c` | `orderbook`, `completed_trades`, `transaction_fee` | `marketAddOrder`, `getBestBuyOrder`, `getBestSellOrder`, `placeBuyOrder`, `placeSellOrder`, `addTrade` | `Market` |
| trader accounts | `pe_mytrader.c` | `orders`, `inventory_quantity`, `bank` | `traderAddOrder`, `traderAmendOrder`, `getOrder`, `buy`, `sell`, `tax` | `Market`, `Ledger` |
| sort and report | `pe_market.c:106-279` | an array of order pointers, counters | `orderSort`, `orderSortReverse`, `printOrderByProduct` | `OrderReport` |
| commands | `pe_exchange.c:383-699` | main's local `order` | BUY, SELL, AMEND, CANCEL, invalid | `Market`, `Exchange` |
| event loop | `pe_exchange.c:361-743` | `signal_array`, `signal_count`, `sig_ptr`, descriptors | handler, read, write, kill, waitpid, the growth of the array | `Exchange`, `Fifo` |
| start-up | `pe_exchange.c:199-342`, `pe_trader.c:157-244` | FIFOs, children, descriptors | mkfifo, fork, exec, sigaction, open, MARKET OPEN | `Startup` |
| automatic trader | `pe_trader.c` | `signal_count`, `signal_ptr`, `orderID` | handler, read, reply | `Trader`, `Fifo` |
| game | `gitm.c` | board, turn, mist, history, an array on the stack | `place`, `view`, `check_game_cond`, the other commands | `Gitm` |
| virtual machine | `vm_riskxvii.c` | memory, registers, console | load, fetch, every instruction and virtual routine | `VM` |

How they interact: the handler of the exchange appends the pid of a signal's
sender to `signal_array`. The event loop takes the next entry, reads the FIFO of
that trader, handles the first command in the buffer and drops the rest. A
valid order enters the book, is announced to the other traders, and is matched
by a loop `while (trade != NULL)` that sends a FILL to both sides of every
trade. The automatic trader counts the signals it gets, reads one buffer per
signal, and answers every MARKET SELL with a BUY order.

What makes this hard to test: signals coalesce and interrupt a blocking
`read()`; one read may return several messages or a part of one; traders exit
or crash at any point, and a write to a FIFO without reader kills the exchange;
the local variable `order` outlives the command that assigned it; orders are
found again by trader and id although ids can be reused; the sort is not stable;
the handler writes into an array that the loop moves. In the game the test for a
win copies diagonals of different lengths into one array that is never cleared
and that other calls overwrite in part.
In the machine offsets and immediates pass through integers that are too narrow.
`PROJECT.json` lists these hazards, each with its line and the properties that
cover it, or with a note on what they leave out.

## Modules

**`Market`** is the matching engine with the commands that drive it. An order is
its position in `market->orderbook` (positions are never reused, so a position
stands for the pointer; it is also `order_index + 1`; NULL is 0). Numbers in
commands are words: natural numbers or `NotNumeric`. `atoi` is `strtol` cut to an
int: a number beyond a `long` becomes `LONG_MAX`, whose low bits are -1, and of any other
the low bits are taken as a signed int. `OrderReceived`, `OrderRejected`, `AmendRequest`,
`AmendRejected`, `CancelRequest`, `CancelRejected` and `InvalidMessage` are the
branches of the event loop's `switch`. The matching loop is not collapsed:
`placing` holds the side and the order passed to the place function,
`PlaceOrder` is an iteration that trades, `PlacingDone` the one that does not.
After an AMEND the next iterations place the variable `order`, not
`amended_order` (`pe_exchange.c:599`). The variable is declared in the loop body
and not assigned on this path; the build is `-O0` (`Makefile`), so the model
takes it to be what its stack slot still holds, the result of the last
`newOrder()` of a BUY or SELL command, or NULL.

**`Ledger`** is the abstract specification of settlement: holdings change only by
settling a trade between a buyer and a seller, with a fee of one percent.
**`MarketLedger`** instantiates it with the accounts of `Market` and states the
refinement (`ImplementsLedger`), the conservation properties, and what the trades recorded
say of an order: they fill it and nothing else does (`FilledByTrades`, `NeverOverfilled`).
It assumes that there are finitely many traders and products (`LedgerAssumption`): sums
over them need it.

**`Fifo`** says what a read of `BUFFER_READ` bytes leaves in a FIFO: it takes up to
`PerRead` messages and perhaps the beginning of the next, whose tail is junk to
the reader. Both processes read this way.

**`Exchange`** composes `Market` with the event loop. A system call is a step, the
handler runs between any two of them (not while the order book is printed, when
SIGUSR1 is blocked). The calls that answer a command are queued in `outq` in the
order of the code, and `DoWrite` and `DoKill` make them one by one. When the queue
is empty, the loop of MARKET messages goes on to the next trader (`Announce`, `other`
is its counter), and after it the matching loop to its next iteration (`Match`).
`signal_array` has the size of the code: it grows by `MAX_SIGNALS` if a command ends
with exactly `Spare` places left. `AfterCommand` is that test, `"moved"` the moment
between `realloc()` and the assignment of the new address. A signal that finds the
array full or being moved makes the handler write to memory that is not the array's;
the build has the address sanitizer, so the process is aborted (`SigHandlerAborts`).
Traders are arbitrary: they write commands,
signal, exit and crash. `Patient` traders wait for the answer to a command.
The kernel is modelled from its use: a SIGUSR1 that finds one pending is
dropped; `read()` on an empty FIFO blocks while the writer lives, is interrupted
by a signal, and returns nothing after the writer is gone; `write()` fails on a
closed descriptor and is fatal on a FIFO without reader. The variables of `history`
(answers, last command handled, messages not signalled, FILLs written) are no state of the
program; the properties speak of them.

**`Trader`** is `pe_trader.c`, action by action, with an exchange reduced to the
messages it writes, the `kill()` calls that go with them (none or two for a FILL),
the signals of the trader it has still to deal with (`unheard`) and the test of
`newOrder()` on ids. A signal of the trader may be dropped. For each of the others one
read is made: it takes an order, and perhaps more of what follows (`Answer`), or finds
nothing because an earlier read took it, is interrupted, and is answered INVALID
(`AnswerNothing`).

**`OrderReport`** runs the selection and the two sort functions one comparison at a
time, and the grouping of `printOrderByProduct()`. It justifies the operator
`Best` of `Market`, which does not sort: after the unstable sort the first order
is nevertheless the one with priority (`BestIsFirst`).

**`Startup`** is what happens before the event loops: for each trader the exchange
makes two FIFOs, forks, and opens one FIFO for writing and then the other for
reading, while the child executes `pe_trader`, installs its handler and opens them in
the same order. An `open()` waits until the other end is being opened; `ends` are the
ends open or being opened, `woken` those whose `open()` may return. A process that ends
closes what it holds (`Exits`), but the descriptors of the exchange were copied by `fork()`
into the traders started later and `execvp()` keeps them, so its ends stay open while one of
these lives (`Held`). Arguments, the products file, `sigaction`, `fork` and `exec` may fail, a
child may be lost at any time, and the exchange is killed when it writes MARKET OPEN to a FIFO
without reader. `pe_trader` never signals before MARKET OPEN, so the opens of the exchange are not
interrupted.

**`Gitm`** is the game on a board of `Size` lines with `Win` stones in a row. A word that
follows `place` is reduced to what the tests of `main()` look at (first character,
length, digits, leading zero, value). `check_game_cond()` is a set of scans in the
order of the code, each with the text that `strstr()` sees (`Text`). The local array of
the diagonals, of `BUFFER_LEN` bytes, is the variable `buffer`: the function leaves it as
`Leaves` says, and the three calls after a command are made one after the other (`Judge`). In
between the commands other calls use the stack. A run of its bytes, with ends in `Cuts`, may be
overwritten with zeros or with bytes that are no characters of the game (`Leftovers`), and
`view()` may leave its own array of the same length over it, with the stones it showed, at one
of the `Distances` (`ViewLeftovers`, `LookAround`). If no byte of the array is zero,
`strstr()` runs past its end, and the address sanitizer of the build ends the process
(`Endless`).

**`VM`** is the machine. A word is the set of its bits, so shifts, truncations and sign
extensions are what they are in the code, and words of 32 bits need no large integers.
One step fetches and executes an instruction. Shifts by a register use its low five bits,
which is what the shift instruction of the build's processor does. An access outside
`memory` ends the process (address sanitizer). `console` records what was read and
written. The model was compared with the compiled program on 120 random programs: they
agree on the final registers and program counter.

`MCMarket`, `MCMarketLedger`, `MCExchange`, `MCGitm` and `MCVM` add symmetry sets, the
number of commands of each trader, the openings of the game, and the programs of the
machine. `MarketProofs` (the book), `MatchingProofs` (the matching loop and the accounts),
`ExchangeLemmas`, `ExchangeProofs`, `TraderProofs` (with the start-up), `ReportProofs` and
`SequentialProofs` (the game and the machine) hold the theorems, and `Sums` the lemmas on
sums that they use.

Definitions whose name ends in a suffix after an underscore (`KillExchange_SameId`,
`Filled_NeverZero`, ...) are wrong variants of the definition that follows; they
are used only to see that a property notices the difference.

## Runs

Passing runs:

| Run | Bounds | Shows |
|---|---|---|
| `market` | 2 traders, 2 products (symmetric), 3 orders, ids 0 and 1, quantities 1, 2 (as a wrapped 1026) and 3 (above the limit), prices 30 and 60 (values 30 to 120, so the fee rounds both ways) | the book stays consistent (`LiveOrdersHaveUnits`, `LiveOrdersReachable`, `IdsConsecutive`, `ClosedOrdersStayClosed`), trades go to the best order at fair prices (`PriceTimePriority`, `LimitsRespected`) and leave nothing that could trade (`BookUncrossedWithoutAmend`); the engine implements `Ledger`, and `MoneyConserved` and `HoldingsMatchTrades` hold |
| `exchange` | 2 impatient traders, 2 and 1 commands of every kind with numbers and non-numbers, up to 2 per read, exits and crashes, an array of 2 signals that grows by 2, `realloc()` that may fail | commands are handled in order and once (`CommandsInOrder`), no answer lacks its signal (`AnswersNeedSignals`), messages are signalled (`MessagesSignalled`), every trade is reported to both its traders (`TradesReported`), the exchange ends for a reason (`EndsForAReason`) |
| `exchange_live` | 2 patient traders, one more command of every kind from each, from a market of five commands, with quantities of 1 and beyond a `long`, exits and crashes | every command whose signal was not dropped is answered (`CommandsAnswered`), its matching ends (`MatchingEnds`), and the exchange stops after its traders (`StopsAfterTraders`) |
| `startup` | 3 traders | `TradersConnected`, `SignalsFindHandlers`; `MarketOpens` unless something fails; `LostChildHangs` |
| `trader` | 5 messages of the exchange besides answers, up to 2 per read | `AcceptedInSequence`, `RefusedForGood`, `RepliesInOrder`, `SellsAnswered` |
| `report` | every book of up to 5 orders, 3 prices, 2 quantities | `BestIsFirst`, `ReportExact` |
| `game` | 4 lines, 3 in a row, a mist of 3 by 3, arrays of 10 bytes, from three openings of 11, 12 and 15 moves, the free cells, an occupied one and 8 words that are no coordinates | `BoardIsHistory`, `HistoryFits`, `ViewShowsMoves`, `RowsAndColumnsWin`, `LinesSeen`, `TiesAreReal` |
| `vm` | 512 bytes; the programs under `examples/` and some 1,400 short ones: every opcode, `func3` and `func7`, registers -1, 0 and 5, offsets at both ends of their ranges, addresses at the end of memory | memory and registers follow the stores, jumps and short branches (`StoredIsRead`, `StoresStayLocal`, `JumpsLand`, `ShortBranchesLand`); the examples halt and have computed what they are named for (`ExamplesCompute`) |

Three orders are enough for a partial fill followed by a second trade, for an
amendment between an order and its counterparty, for two orders of the same id,
and for the stale `order` after an AMEND. Five orders are enough for the sort to
move equal prices past each other. Two traders are enough for coalesced signals,
for messages to a third party that is gone and for merged commands; three signals
fill an array of two, step over its test and find it being moved. The market from which
`exchange_live` starts is the state after five commands (`OpenedInit`). From it an AMEND trades
twice, the second time with what the variable `order` still holds, two signals can arrive
together so that one is dropped, and both traders can be in the middle of a command when one
goes away. Three traders at
start-up are a first, a middle and a last one. A board of four lines with three in a
row has every kind of scan, diagonals that are too short, and ones that leave stones in
the array; openings keep the run short and the tie within reach. The array is longer than the
longest diagonal and than what `view()` shows, as in the code; other calls overwrite
nothing, its beginning, its end or all of it, and `view()`'s array lies over it or four bytes
further. In `game_wins` the sizes are those of the code and `view()`'s array lies elsewhere.
`INT_RANGE` is 1024 instead of 2^32 in the exchange, and its limits are small: only
their order matters. `MaxOrders`, `MaxSent`, `MaxMessages`, `MaxBook` and `MaxConsole`
are the bounds of the models.

Runs in which the code disagrees with what the repository says of it:

| Run | What happens |
|---|---|
| `price_time_priority` | a trader may reuse an id; the best order is then searched again by id, and an earlier, worse order is traded |
| `signals_stored` | signals that arrive during one command step over the only count at which the array grows; it is full when the next one comes |
| `ends_with_traders` | a message to a trader that has exited and is not reaped yet kills the exchange by SIGPIPE |
| `game_wins` | on the real board, Black wins with two stones at the end of a short diagonal and three that a longer one left behind it in the array |

Some more are visible in the models and have no run of their own. After its first trade
an amended order is not placed again, since the loop goes on with the stale `order`
(`pe_exchange.c:599`); this is why `BookUncrossedWithoutAmend` excludes amendments.
`amend()` stops at the first order with the trader and id, which after one amendment is the
closed original (`pe_exchange.c:142`), so an order is amended once. The second `kill()` of a
trade goes to the trader of the incoming order again (`pe_exchange.c:472`), which is why
`MessagesSignalled` excludes FILLs. `check_game_cond()` does not look at the longest falling
diagonal, nor at rising diagonals below the longest one, where the condition
`y <= temp_x` is false from the start (`gitm.c:215`); `LinesSeen` and `TiesAreReal` exclude
these. A SIGUSR1 that finds another one pending is dropped (`pe_exchange.c:16` is not called for
it), and its command stays unanswered until its trader signals again; `CommandsAnswered`
excludes it. A trader ended by a signal is reaped and not counted (`pe_exchange.c:721`), so the
exchange does not end after it; `StopsAfterTraders` speaks of exits. A store of one
or two bytes also clears the last one or two of the four at its address
(`vm_riskxvii.c:33`); `StoresStayLocal` allows it.

A smaller difference has no run: `README.md:12` says the trader leaves at a
quantity "> 1000", the code tests `>= 1000` (`pe_trader.c:260`); the model follows
the code.

**Fairness.** `Market`: the matching loop does not wait, so its steps are weakly
fair in `FairSpec`; the properties of its passing run are safety properties and use `Spec`,
which has no fairness. `Startup`: weak fairness of the exchange and of each trader, processes that are
scheduled; nothing has to fail. `Startup.cfg` does not check deadlock: after a failure
everybody may rightly wait for ever. `VM`: weak fairness of the only thread. `Exchange`: weak fairness of the exchange's own steps (the process is
scheduled), of signal delivery, and of a trader's `kill()` after its `write()`;
nothing obliges a trader to write, exit or crash. `Trader`: weak fairness of the
trader's steps, of signal delivery and of the exchange's `kill()` after its
`write()`. `Trader.cfg` does not check deadlock: the trader may rightly wait in
`read()` for ever when the exchange has no more messages.

## Theorems

All hold for every value of the constants that satisfies the named assumptions
(`MarketAssumption`, `LedgerAssumption`, `ExchangeAssumption`, `TraderAssumption`,
`StartupAssumption`, `FifoAssumption`, `ReportAssumption`, `GitmAssumption`,
`VMAssumption`), that is, for any number of traders, products, orders, signals and
messages, any board and any program.

* `Sums`. The models add up with `SumFunctionOnSet`, whose definition folds over a set and
  takes any order of its elements. The lemmas say that a sum over a finite set of integers
  exists and how it changes: nothing adds 0 (`SumEmpty`), an element adds its value
  (`SumAdd`, `SumRemove`), one changed value changes the sum by the difference
  (`SumChange`), and equal values have equal sums (`SumSame`). The provers have no
  induction, so the argument is by a least counterexample: if a statement fails for a set,
  it fails for one of the smallest cardinality (`Smallest`, from `NatMin`), and taking
  an element away contradicts that.

* `MarketProofs`. `TypeCorrect` (`TypeOK` is inductive by itself).
  `ClosedForever` and `LiveUnits` follow from it with `BookStep`, which says what a step
  may do to an order in the book. `Reachable` needs the invariant `ReachInv`: as long as
  no id is reused, every live order is in the list of its trader. This is what AMEND
  must keep when it replaces entries of the list; `LiveOrdersReachable` itself is not
  inductive because `getOrder` looks only at the first entry. `BestOrderTraded` and
  `LimitsKept` use the same invariant: live orders then have distinct keys
  (`LiveKeysDistinct`), so the search by key finds the best candidate itself.
  `IdsAreConsecutive` and `TradesCloseOrders` complete the list.
* `MatchingProofs`. `Uncrossed`: between commands no two live orders could trade, when no
  id is reused and nothing is amended. The invariant `CrossInv` says that only the order
  being placed can be crossed, and that it is the one `order` holds. That the loop does
  not stop too early needs the existence of a best order in any non-empty set of
  candidates (`BestExists`, from a least-element lemma `NatMin`).
  `LedgerImplemented`: the engine implements the abstract ledger, for self-trades, reused
  ids and the stale order after an AMEND as well.
  `NoMoneyMade`: `MoneyConserved` is inductive once a step of the engine is known to be one of
  the ledger (`LedgerStep`). A settlement moves the value of the trade between two
  accounts and takes the fee from one of them; the total over all traders and products
  changes by the fee (`TotalMove`), also when both sides are the same trader.
  `HoldingsAreTrades`: every holding is the sum over the trades recorded. A trade adds one
  term to the sums of its two traders (`OneMoreTrade`), and leaves the old terms alone
  because a trade refers to orders by their position and no step changes the trader,
  product or side of an order (`OldTrades`, `TradesInBook`).
  `LoopProgress`: an iteration that trades leaves fewer live orders and makes none live
  (`FewerLive`); the book is finite, so a command iterates at most once for each order that
  was live when it began. `TradesAreFew` follows: there are no more trades than closed
  orders. `OrdersFilledByTrades` and `NoOverfill`: a trade takes the same number of units
  from its two orders as it records (`QuantityStep`), the old trades keep what they took
  (`OneMoreTaken`), and the quantity of an order changes in no other way (`SizeStep`). So the
  units taken from an order and the units left never add up to more than `newOrder()` allowed,
  also for an order that is placed again by its stale pointer.
* `TraderProofs`. `TraderTypes`, `NeverReused`, `NoneAfterRefused`, `RepliesOrdered`. The
  invariant `IdInv` orders the ids of the accepted orders, of the orders in the FIFO and
  the next id, so that whatever a read drops leaves a gap and never a repetition;
  `ReplyInv` does the same for the numbers of the messages answered.
  The start-up, for any number of traders: `StartTypes`, `LoopIsConnected`,
  `HandlersAreReady` and `LostChildHangsForever`. The invariant `SInv` relates how far the
  two sides are: an `open()` returns only because the other side is opening the other end,
  so a trader in its loop says where the exchange is, and an exchange that is past trader
  `t` says where `t` is. Its part `Connected` is about the ends of a trader in its loop: they
  are open as long as somebody holds them, and an end of a process closes no others
  (`ExitsCloses`). `SignalsFindHandlers` alone is not inductive: that MARKET OPEN is
  written only after every trader was waited for is what `SInv` adds.
* `ReportProofs`. `NothingLost`: the sort permutes the selected orders. `FirstIsBest`: the
  invariant `FirstPlace` says that during the first pass the first place holds the best of
  the orders compared so far, the earliest at equal price, and that later passes do not
  touch it. `ReportIsExact` needs three more: `SortInv`, what lies before place `i` is sorted
  against all that follows; `LevelInv`, the levels counted are the different prices selected;
  `GroupInv`, in the grouping loop the counters hold the orders of this level before place
  `i`, and the lines printed are those of the prices above it.
* `ExchangeLemmas` and `ExchangeProofs`. `ExchangeRunsMarket` (`XSpec => Spec`): every step of
  the exchange is a step of `Market` or leaves its variables alone, so the theorems on the
  engine hold inside the exchange. `ExchangeImplementsLedger`, `ExchangeKeepsAccounts`,
  `ExchangeTradesFairly`, `ExchangeFillsOrders` and `ExchangeUncrossed` say so for the
  ledger, the accounts, the trades, the orders and the book.
  `ExchangeTypes`, `AnswersAreSolicited`, `MessagesAreSignalled`, `EndsAreExplained`
  and `CommandsKeepOrder` rest on one inductive invariant, `XInv`. Its
  parts: `PipesInv`, the numbers of the commands in a FIFO grow and lie above the last one
  handled; `PlaceInv`, inside a command the loop is at the first entry of the array that is not
  handled yet, and calls are queued only at the places that make them; `QueueInv`, the shape
  of the queue, in which an answer comes first and a message other than a FILL is followed
  by its kill; `AnswerInv`, the answers
  written are at most the entries handled, the one at hand counted only once its answer is
  no longer due. `AnswersNeedSignals` alone is not inductive: it does not say that the
  command at hand has not been answered yet. `ExchangeLemmas` states the invariant and shows
  that a step keeps the types, the queue and the place of the loop; `ExchangeProofs` shows the
  rest and states the theorems.
  `TradesAreReported` needs one more invariant, `FillInv`: the FILLs that a living trader was
  sent and those that the queue still holds for it add up to its parts in the trades. A trade
  adds as much to both sides (`FillTrade`), a write moves one from the queue to the trader
  (`FillCall`), and nothing else touches either; a queue holds at most four calls. The trader
  and side of an order in a recorded trade never change (`TradesInBook`), so the old parts stay.
* `SequentialProofs`. The game: `GameTypes`, `HistoryIsTheGame`, `HistoryNeverOverflows` (distinct moves name
  distinct cells, so there are at most `Size * Size`), `ViewIsTheHistory`, `LinesAreSeen`
  (each line lies in a scan, and a scan that finds stones or no zero makes the function name a
  winner or ends the process, whatever the array held), `RowsAndColumnsAlwaysWin` (rows and
  columns are looked at before the array is used, so all three calls after a command agree on
  them) and `TiesAreTies`: a tie means that no scan of the third call hits and the board is
  full, so there is no line but those on the diagonals that no scan covers.
  The machine: `MachineTypes` and `ZeroStaysZero` from the invariant `VInv`, which is inductive;
  `StoresAreLocal`, `StoresAreRead`, `JumpsGoHome` and
  `ShortBranchesGoHome` from it, instruction by instruction. The last two compare the offset
  that the code puts together with the one the encoding stands for, bit by bit.

Only model-checked: the liveness properties (`MatchingEnds`, `CommandsAnswered`,
`StopsAfterTraders`, `SellsAnswered`, `MarketOpens`, `ExamplesCompute`), which need fairness
and are out of the provers' reach. `TradesCloseOrders` and `LoopProgress` are the safety part
of `MatchingEnds`: every iteration closes a live order and leaves fewer of them. Every invariant and
every action property that a passing run checks is also proved.

Only proved: the type invariants `TypeOK`, `XTypeOK`, `TTypeOK`, `RTypeOK` (the sort permutes),
`GTypeOK` and `VTypeOK`, `EachTradeClosesAnOrder`, `LoopShrinksBook`, `TradesBounded`,
`FilledByTrades`, `NeverOverfilled` and `ZeroRegister`.
Their theorems cover the instances that the runs would. Those on orders also hold on the
instance of `market` (checked once with TLC); they are no part of the runs.

## Not modelled

* The vendored toolchain `src/vm-riskxvii/riscv-gnu-toolchain-rv32i`: nearly all lines of the
  tree (headers of the Linux kernel, the build scripts and tests of a cross-compiler).
  Programs for the machine are built with it; nothing of it is compiled into or run by the
  three programs. The models cover three quarters of the lines of the repository's own code.
* `auto_trader/`: an unfinished draft of the automatic trader with a stub of the exchange,
  replaced by `pe_trader.c`. Test headers and test drivers.
* The contents of the products file; an exchange started without traders, which
  ends at the first pass of its loop.
* What follows the event loop: it only frees memory.
* The characters of messages: `read_message()` and `read_from_exc()` are modelled by the
  class of message they find. Every message is taken to fit into a read of 40 bytes.
* FIFOs are never full; memory allocation other than the `realloc()` of the signal array
  does not fail.
* The trader does not notice the end of the exchange.
* Bytes left on the stack of the game other than one run of equal ones and the array of
  `view()`.
* Overflow of banks and inventories (`long int`, `int`).
* `cancelOrder()` of `pe_market.c`, which is never called; the printing of positions.
* The words of the game's input lines other than coordinates, which are reduced to the
  command they select; the text of the machine's outputs. `VIR_MALLOC` and `VIR_FREE` are
  declared and not implemented.

## Plan

1. `Trading`: `Exchange` with automatic traders instead of arbitrary ones, to see which
   assumptions of `Trader` about its exchange hold.
2. `read_message()` on sequences of words.
