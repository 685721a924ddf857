-------------------------- MODULE SequentialProofs --------------------------
(***************************************************************************)
(* Proofs about the two programs that run alone: first the game, for       *)
(* boards and lines of every size, then the virtual machine, for every     *)
(* program and memory size.                                                *)
(***************************************************************************)
EXTENDS Gitm, VM, FiniteSetTheorems, WellFoundedInduction, TLAPS

USE SMTT(20), ZenonT(20)

Boards  == [Cells -> {".", "#", "o"}]
Buffers == [Bytes -> Characters]

NatLess == {ss \in Nat \X Nat : ss[1] < ss[2]}

\* Every set of naturals that is not empty has a least element.
LEMMA LeastNumber ==
    ASSUME NEW S, S \subseteq Nat, S # {}
    PROVE  \E m \in S : \A n \in S : m <= n
<1>1. IsWellFoundedOn(NatLess, Nat)
  BY NatLessThanWellFounded, ZenonT(20) DEF OpToRel, NatLess
<1>2. PICK m \in S : \A n \in S : ~(<<n, m>> \in NatLess)
  BY <1>1, WFMin, ZenonT(20)
<1>3. ASSUME NEW n \in S PROVE m <= n
  <2>1. n \in Nat /\ m \in Nat
    OBVIOUS
  <2>2. SUFFICES ASSUME n < m PROVE FALSE
    BY <2>1
  <2> DEFINE ss == <<n, m>>
  <2>3. ss \in Nat \X Nat /\ ss[1] = n /\ ss[2] = m
    BY <2>1
  <2> HIDE DEF ss
  <2>4. ss \in NatLess
    BY <2>2, <2>3 DEF NatLess
  <2> QED
    BY <1>2, <2>4 DEF ss
<1> QED
  BY <1>3

\* The parts of a scan are small integers.
LEMMA ScanParts ==
    ASSUME NEW s \in Scans
    PROVE  /\ s[1] \in 1..6 /\ s[2] \in Int /\ s[2] + Size \in Nat /\ s[3] \in Nat
           /\ s[1] = 1 => s[2] \in Line
           /\ s[1] = 2 => s[2] \in Line /\ s[3] \in 0..(Size - Win)
           /\ s[1] = 3 => s[2] \in Line
           /\ s[1] \in {5, 6} => -s[2] \in 1..(Size - Win)
           /\ s = <<s[1], s[2], s[3]>>
<1> USE GitmAssumption
<1>1. CASE s \in Rows
  BY <1>1 DEF Rows, Line
<1>2. CASE s \in Columns
  BY <1>2 DEF Columns, Line
<1>3. CASE s \in AntiUpper
  BY <1>3 DEF AntiUpper, Line
<1>4. CASE s \in AntiLower
  BY <1>4 DEF AntiLower
<1>5. CASE s \in DiagRight
  BY <1>5 DEF DiagRight
<1>6. CASE s \in DiagBelow
  BY <1>6 DEF DiagBelow
<1> QED
  BY <1>1, <1>2, <1>3, <1>4, <1>5, <1>6 DEF Scans

\* Any set of scans that is not empty has a first one.
LEMMA FirstScan ==
    ASSUME NEW H, H \subseteq Scans, H # {}
    PROVE  \E s \in H : \A t \in H : t = s \/ Before(s, t)
<1>1. PICK s1 \in H : \A t \in H : s1[1] <= t[1]
  <2> DEFINE K == {t[1] : t \in H}
  <2>1. K \subseteq Nat /\ K # {}
    BY ScanParts
  <2> HIDE DEF K
  <2>2. \E k \in K : \A n \in K : k <= n
    BY <2>1, LeastNumber, ZenonT(20)
  <2> QED
    BY <2>2 DEF K
<1> DEFINE H1 == {t \in H : t[1] = s1[1]}
<1>2. PICK s2 \in H1 : \A t \in H1 : s2[2] + Size <= t[2] + Size
  <2> DEFINE K == {t[2] + Size : t \in H1}
  <2>1. K \subseteq Nat /\ K # {}
    BY ScanParts
  <2> HIDE DEF K
  <2>2. \E k \in K : \A n \in K : k <= n
    BY <2>1, LeastNumber, ZenonT(20)
  <2> QED
    BY <2>2 DEF K
<1> DEFINE H2 == {t \in H1 : t[2] = s2[2]}
<1>3. PICK s3 \in H2 : \A t \in H2 : s3[3] <= t[3]
  <2> DEFINE K == {t[3] : t \in H2}
  <2>1. K \subseteq Nat /\ K # {}
    BY ScanParts
  <2> HIDE DEF K
  <2>2. \E k \in K : \A n \in K : k <= n
    BY <2>1, LeastNumber, ZenonT(20)
  <2> QED
    BY <2>2 DEF K
<1>4. ASSUME NEW t \in H PROVE t = s3 \/ Before(s3, t)
  <2> USE GitmAssumption
  <2>1. /\ s3[1] \in Int /\ s3[2] \in Int /\ s3[3] \in Int
        /\ t[1] \in Int /\ t[2] \in Int /\ t[3] \in Int
        /\ t = <<t[1], t[2], t[3]>> /\ s3 = <<s3[1], s3[2], s3[3]>>
    BY ScanParts
  <2>2. s3[1] <= t[1]
    BY <1>1, <1>3
  <2>3. t[1] = s3[1] => s3[2] <= t[2]
    BY <1>1, <1>2, <1>3, <2>1
  <2>4. t[1] = s3[1] /\ t[2] = s3[2] => s3[3] <= t[3]
    BY <1>1, <1>2, <1>3, <2>1
  <2>5. t[1] = s3[1] /\ t[2] = s3[2] /\ t[3] = s3[3] => t = s3
    BY <2>1, ZenonT(20)
  <2> HIDE DEF H1, H2
  <2> QED
    BY <2>1, <2>2, <2>3, <2>4, <2>5 DEF Before
<1> QED
  BY <1>4

\* If some scan finds a line, FirstHit is the first scan that does.
LEMMA FirstHitFound ==
    ASSUME NEW m, NEW buf, \E s \in Scans : Hit(s, m, buf)
    PROVE  /\ FirstHit(m, buf) \in Scans
           /\ Hit(FirstHit(m, buf), m, buf)
           /\ \A t \in Scans : Hit(t, m, buf) => t = FirstHit(m, buf) \/ Before(FirstHit(m, buf), t)
<1> DEFINE H == {s \in Scans : Hit(s, m, buf)}
<1>1. H \subseteq Scans /\ H # {}
  OBVIOUS
<1> HIDE DEF H
<1>2. \E s \in H : \A t \in H : t = s \/ Before(s, t)
  BY <1>1, FirstScan, ZenonT(20)
<1>3. \E s \in Scans : /\ Hit(s, m, buf)
                       /\ \A t \in Scans : Hit(t, m, buf) => t = s \/ Before(s, t)
  BY <1>2, ZenonT(20) DEF H
<1> QED
  BY <1>3, ZenonT(20) DEF FirstHit

-----------------------------------------------------------------------------
(* What check_game_cond() returns and leaves behind.                       *)

\* A cell's parts are lines of the board.
LEMMA CellOf ==
    ASSUME NEW i \in Line, NEW j \in Line
    PROVE  <<i, j>> \in Cells
BY DEF Cells

\* Every square of the board holds a character of the game, none of them zero.
LEMMA StonesOf ==
    ASSUME NEW m \in Boards, NEW i \in Line, NEW j \in Line
    PROVE  m[<<i, j>>] \in Characters /\ m[<<i, j>>] # NUL
<1>1. <<i, j>> \in Cells
  BY CellOf
<1>2. m[<<i, j>>] \in {".", "#", "o"}
  BY <1>1 DEF Boards
<1> QED
  BY <1>2 DEF Characters, NUL

\* The array has room for the longest diagonal.
LEMMA LineInBytes == Line \subseteq Bytes /\ 0 \in Bytes
BY GitmAssumption DEF Line, Bytes

\* What the falling diagonals find behind them are characters.
LEMMA AfterTypes ==
    ASSUME NEW m \in Boards, NEW buf \in Buffers, NEW i \in Bytes
    PROVE  /\ AfterRising(m, buf, i) \in Characters
           /\ AfterRight(m, buf, i) \in Characters
           /\ AfterBelow(m, buf, i) \in Characters
<1> USE GitmAssumption
<1>0. buf[i] \in Characters /\ NUL \in Characters
  BY DEF Buffers, Characters
<1>1. AfterRising(m, buf, i) \in Characters
  <2>1. i <= Size - 1 => i \in Line /\ Size - 1 - i \in Line
    BY DEF Line, Bytes
  <2>2. i <= Size - 1 => m[<<Size - 1 - i, i>>] \in Characters
    BY <2>1, StonesOf
  <2> QED
    BY <1>0, <2>2 DEF AfterRising
<1>2. i <= Size - 2 => m[<<i, i + 1>>] \in Characters
  <2>1. i <= Size - 2 => i \in Line /\ i + 1 \in Line
    BY DEF Line, Bytes
  <2> QED
    BY <2>1, StonesOf
<1>3. i <= Size - 2 => m[<<i + 1, i>>] \in Characters
  <2>1. i <= Size - 2 => i \in Line /\ i + 1 \in Line
    BY DEF Line, Bytes
  <2> QED
    BY <2>1, StonesOf
<1>4. AfterRight(m, buf, i) \in Characters
  BY <1>1, <1>2 DEF AfterRight
<1> QED
  BY <1>1, <1>3, <1>4 DEF AfterBelow

\* The diagonals are texts that fit the array.
LEMMA TextTypes ==
    ASSUME NEW m \in Boards, NEW buf \in Buffers, NEW s \in Scans, s[1] \in {3, 5, 6}
    PROVE  Text(s, m, buf) \in Buffers
<1> USE GitmAssumption
<1>1. CASE s[1] = 3
  <2>1. ASSUME NEW i \in Bytes
        PROVE  (IF i <= s[2] THEN m[<<s[2] - i, i>>] ELSE buf[i]) \in Characters
    <3>1. i <= s[2] => s[2] - i \in Line /\ i \in Line
      BY <1>1, ScanParts DEF Line, Bytes
    <3> QED
      BY <3>1, StonesOf DEF Buffers
  <2>2. Text(s, m, buf) = [i \in Bytes |-> IF i <= s[2] THEN m[<<s[2] - i, i>>] ELSE buf[i]]
    BY <1>1 DEF Text
  <2> QED
    BY <2>1, <2>2 DEF Buffers
<1>2. CASE s[1] = 5
  <2>1. ASSUME NEW i \in Bytes
        PROVE  (IF i <= Size - 1 + s[2] THEN m[<<i, i - s[2]>>] ELSE AfterRising(m, buf, i))
                   \in Characters
    <3>1. i <= Size - 1 + s[2] => i - s[2] \in Line /\ i \in Line
      BY <1>2, ScanParts DEF Line, Bytes
    <3> QED
      BY <3>1, StonesOf, AfterTypes
  <2>2. Text(s, m, buf) = [i \in Bytes |-> IF i <= Size - 1 + s[2] THEN m[<<i, i - s[2]>>]
                                                                 ELSE AfterRising(m, buf, i)]
    BY <1>2 DEF Text
  <2> QED
    BY <2>1, <2>2 DEF Buffers
<1>3. CASE s[1] = 6
  <2>1. ASSUME NEW i \in Bytes
        PROVE  (IF i <= Size - 1 + s[2] THEN m[<<i - s[2], i>>] ELSE AfterRight(m, buf, i))
                   \in Characters
    <3>1. i <= Size - 1 + s[2] => i - s[2] \in Line /\ i \in Line
      BY <1>3, ScanParts DEF Line, Bytes
    <3> QED
      BY <3>1, StonesOf, AfterTypes
  <2>2. Text(s, m, buf) = [i \in Bytes |-> IF i <= Size - 1 + s[2] THEN m[<<i - s[2], i>>]
                                                                 ELSE AfterRight(m, buf, i)]
    BY <1>3 DEF Text
  <2> QED
    BY <2>1, <2>2 DEF Buffers
<1> QED
  BY <1>1, <1>2, <1>3

\* A scan ends the call if it finds stones of either kind in a line, and a
\* row or a column only then.
LEMMA OutcomeOf ==
    ASSUME NEW s, NEW m, NEW buf
    PROVE  /\ Outcome(s, m, buf) \in {0, 1, 2, 4}
           /\ \A p \in {0, 1} : Has(Text(s, m, buf), Stone(p)) => Hit(s, m, buf)
           /\ s[1] \notin {3, 5, 6} => Outcome(s, m, buf) # 4
<1> DEFINE text == Text(s, m, buf)
<1>1. Outcome(s, m, buf) = IF Has(text, "#") THEN 1
                           ELSE IF Endless(s, text) THEN 4
                           ELSE IF Has(text, "o") THEN 2
                           ELSE 0
  BY ZenonT(20) DEF Outcome
<1>2. s[1] \notin {3, 5, 6} => ~Endless(s, text)
  BY DEF Endless
<1> HIDE DEF text
<1>3. Has(text, "#") \/ Has(text, "o") => Outcome(s, m, buf) # 0
  BY <1>1
<1>4. \A p \in {0, 1} : Has(text, Stone(p)) => Hit(s, m, buf)
  BY <1>3, ZenonT(20) DEF Hit, Stone
<1> QED
  BY <1>1, <1>2, <1>4 DEF text

\* The lower rising diagonals are never looked at.
LEMMA LowerNeverHits ==
    ASSUME NEW m, NEW buf, NEW s \in Scans, s[1] = 4
    PROVE  ~Hit(s, m, buf)
<1>1. Text(s, m, buf) = <<>>
  BY DEF Text
<1>2. ~Has(<<>>, "#") /\ ~Has(<<>>, "o") /\ ~Endless(s, <<>>)
  BY DEF Has, Endless
<1> QED
  BY <1>1, <1>2 DEF Hit, Outcome

\* check_game_cond() leaves an array of board contents.
LEMMA LeavesTypes ==
    ASSUME NEW m \in Boards, NEW buf \in Buffers
    PROVE  Leaves(m, buf) \in Buffers
<1>1. CASE \E s \in Scans : Hit(s, m, buf)
  <2> DEFINE s == FirstHit(m, buf)
  <2>1. s \in Scans /\ Hit(s, m, buf)
    BY <1>1, FirstHitFound
  <2>2. Leaves(m, buf) = IF s[1] <= 2 THEN buf ELSE Text(s, m, buf)
    BY <1>1 DEF Leaves
  <2> HIDE DEF s
  <2>3. s[1] # 4 /\ s[1] \in 1..6
    BY <2>1, LowerNeverHits, ScanParts
  <2>4. s[1] <= 2 \/ s[1] \in {3, 5, 6}
    BY <2>3
  <2>5. s[1] \in {3, 5, 6} => Text(s, m, buf) \in Buffers
    BY <2>1, TextTypes
  <2> QED
    BY <2>2, <2>3, <2>4, <2>5
<1>2. CASE ~\E s \in Scans : Hit(s, m, buf)
  <2>1. Leaves(m, buf) = [i \in Bytes |-> AfterBelow(m, buf, i)]
    BY <1>2 DEF Leaves
  <2> QED
    BY <2>1, AfterTypes DEF Buffers
<1> QED
  BY <1>1, <1>2

\* What the three calls after a command do to the array and the game.
LEMMA Judged ==
    ASSUME NEW m, NEW bufs, Judge(m, bufs)
    PROVE  \E buf \in bufs :
             LET second == check_game_cond(m, Leaves(m, buf))
                 third  == check_game_cond(m, Leaves(m, Leaves(m, buf)))
             IN  /\ over' = IF check_game_cond(m, buf) \in {1, 4} THEN Ending[check_game_cond(m, buf)]
                            ELSE IF second \in {2, 4} THEN Ending[second]
                            ELSE IF third \in {3, 4} THEN Ending[third]
                            ELSE "playing"
                 /\ buffer' = Leaves(m, Leaves(m, Leaves(m, buf)))
BY ZenonT(20) DEF Judge

\* The three calls after a command end the game or not, and leave an array.
LEMMA JudgeTypes ==
    ASSUME NEW m \in Boards, NEW bufs \in SUBSET Buffers, Judge(m, bufs)
    PROVE  over' \in {"playing", "black", "white", "tie", "crashed"} /\ buffer' \in Buffers
<1>1. PICK buf \in bufs :
             LET second == check_game_cond(m, Leaves(m, buf))
                 third  == check_game_cond(m, Leaves(m, Leaves(m, buf)))
             IN  /\ over' = IF check_game_cond(m, buf) \in {1, 4} THEN Ending[check_game_cond(m, buf)]
                            ELSE IF second \in {2, 4} THEN Ending[second]
                            ELSE IF third \in {3, 4} THEN Ending[third]
                            ELSE "playing"
                 /\ buffer' = Leaves(m, Leaves(m, Leaves(m, buf)))
  BY Judged
<1>2. Leaves(m, Leaves(m, Leaves(m, buf))) \in Buffers
  BY LeavesTypes
<1>3. \A e \in 1..4 : Ending[e] \in {"black", "white", "tie", "crashed"}
  BY DEF Ending
<1> QED
  BY <1>1, <1>2, <1>3

-----------------------------------------------------------------------------
(* Types.                                                                  *)

\* A coordinate that passes the tests of main() is a move on the board.
LEMMA MoveTypes ==
    ASSUME NEW c \in Coordinates, ValidCoord(c)
    PROVE  Move(c) \in Moves
<1> USE GitmAssumption
<1>1. /\ c.len \in {2, 3} /\ c.ch \in 65..122 /\ c.ch % 65 <= Size - 1
      /\ c.num \in 1..Size
  BY DEF ValidCoord, isalpha, Token
<1>2. c.ch - 65 \in Line
  BY <1>1 DEF Line
<1> QED
  BY <1>1, <1>2 DEF Move, Moves

\* The square of a valid move is on the board, and so is its place in the mist.
LEMMA CellTypes ==
    ASSUME NEW mv \in Moves
    PROVE  Cell(mv) \in Cells /\ Mist(mv) \in (1..Size) \X (1..Size)
<1> USE GitmAssumption
<1>1. mv.h \in Line /\ mv.v \in 1..Size
  BY DEF Moves
<1>2. Cell(mv) \in Cells
  BY <1>1 DEF Cell, Cells, Line
<1>3. ASSUME NEW x \in Int PROVE 1 + (x % Size) \in 1..Size
  OBVIOUS
<1>4. /\ 5 * ((mv.h + 1) * (mv.h + 1)) + 3 * (mv.h + 1) + 4 \in Int
      /\ 4 * (mv.v * mv.v) + 2 * mv.v - 4 \in Int
  BY <1>1 DEF Line
<1> QED
  BY <1>2, <1>3, <1>4 DEF Mist

\* What view() shows are characters of the game, and so is what it and other
\* calls leave in the array.
LEMMA LeftoverTypes ==
    ASSUME GTypeOK
    PROVE  Leftovers \in SUBSET Buffers /\ ViewLeftovers \in SUBSET Buffers
<1> USE GitmAssumption
<1>0. /\ map \in Boards /\ buffer \in Buffers /\ {"x", NUL, Other} \subseteq Characters
      /\ mid_mist[1] \in 1..Size /\ mid_mist[2] \in 1..Size
  BY DEF GTypeOK, Boards, Buffers, Characters
<1>1. Leftovers \subseteq Buffers
  BY <1>0 DEF Leftovers, Buffers
<1>2. ASSUME NEW k \in Int PROVE View(k) \in Characters
  <2> DEFINE i == Size - mid_mist[2] - Reach + (k \div Width)
             j == mid_mist[1] - 1 - Reach + (k % Width)
  <2>1. Width \in Nat \ {0}
    BY DEF Width
  <2>2. k \div Width \in Int /\ k % Width \in Int
    BY <2>1
  <2>3. i \in Int /\ j \in Int
    BY <1>0, <2>2
  <2>4. View(k) = IF i < 0 \/ i > Size - 1 \/ j < 0 \/ j > Size - 1 THEN "x" ELSE map[<<i, j>>]
    BY ZenonT(20) DEF View
  <2> HIDE DEF i, j
  <2>5. ~(i < 0 \/ i > Size - 1 \/ j < 0 \/ j > Size - 1) => i \in Line /\ j \in Line
    BY <2>3 DEF Line
  <2> QED
    BY <1>0, <2>4, <2>5, StonesOf
<1>3. ASSUME NEW buf \in Buffers, NEW d \in Distances PROVE Viewed(buf, d) \in Buffers
  <2>1. ASSUME NEW i \in Bytes PROVE i + d \in Int /\ buf[i] \in Characters
    BY DEF Bytes, Buffers
  <2> QED
    BY <1>0, <1>2, <2>1 DEF Viewed, Buffers
<1>4. ASSUME NEW b \in ViewLeftovers PROVE b \in Buffers
  <2>1. PICK buf \in Leftovers, d \in Distances : b = Viewed(buf, d)
    BY DEF ViewLeftovers
  <2> QED
    BY <1>1, <1>3, <2>1
<1> QED
  BY <1>1, <1>4

\* Two moves on the same cell have the same coordinates.
LEMMA CellInjective ==
    ASSUME NEW a \in Moves, NEW b \in Moves, Cell(a) = Cell(b)
    PROVE  a.h = b.h /\ a.v = b.v
BY GitmAssumption DEF Moves, Cell, Line

\* The variables of main() hold values of their declarations, on a board of
\* any size; in particular the mist stays centred on the board.
THEOREM GameTypes == GSpec => []GTypeOK
<1>1. GInit => GTypeOK
  BY GitmAssumption DEF GInit, GTypeOK, Blank, Characters
<1>2. GTypeOK /\ [GNext]_gvars => GTypeOK'
  <2> SUFFICES ASSUME GTypeOK, [GNext]_gvars PROVE GTypeOK'
    OBVIOUS
  <2>0. Leftovers \in SUBSET Buffers /\ ViewLeftovers \in SUBSET Buffers
    BY LeftoverTypes
  <2>1. map \in Boards /\ buffer \in Buffers /\ history \in Seq(Moves)
    BY DEF GTypeOK, Boards, Buffers
  <2>2. ASSUME NEW c \in Coordinates, PlaceStone(c) PROVE GTypeOK'
    <3>1. Move(c) \in Moves
      BY <2>2, MoveTypes DEF PlaceStone
    <3>2. Cell(Move(c)) \in Cells /\ Mist(Move(c)) \in (1..Size) \X (1..Size)
      BY <3>1, CellTypes
    <3>3. map' \in Boards
      BY <2>1, <2>2, <3>2 DEF PlaceStone, Stone, Boards
    <3>4. over' \in {"playing", "black", "white", "tie", "crashed"} /\ buffer' \in Buffers
      BY <2>0, <2>2, <3>3, JudgeTypes, ZenonT(20) DEF PlaceStone
    <3>5. history' \in Seq(Moves) /\ mid_mist' \in (1..Size) \X (1..Size)
      BY <2>1, <2>2, <3>1, <3>2 DEF PlaceStone
    <3>6. curr_player' \in {0, 1}
      BY <2>2 DEF PlaceStone, GTypeOK
    <3> QED
      BY <3>3, <3>4, <3>5, <3>6 DEF GTypeOK, Boards, Buffers
  <2>3. ASSUME NEW bufs \in SUBSET Buffers, Judge(map, bufs),
               UNCHANGED <<map, curr_player, mid_mist, history>>
        PROVE  GTypeOK'
    <3>1. over' \in {"playing", "black", "white", "tie", "crashed"} /\ buffer' \in Buffers
      BY <2>1, <2>3, JudgeTypes, ZenonT(20)
    <3> QED
      BY <2>3, <3>1 DEF GTypeOK, Buffers
  <2>4. ASSUME NEW c \in Coordinates, PlaceOccupied(c) PROVE GTypeOK'
    BY <2>0, <2>3, <2>4, ZenonT(20) DEF PlaceOccupied
  <2>5. CASE Ask
    BY <2>0, <2>3, <2>5, ZenonT(20) DEF Ask
  <2>6. CASE LookAround
    BY <2>0, <2>3, <2>6, ZenonT(20) DEF LookAround
  <2>7. CASE Quit
    BY <2>7 DEF Quit, Resign, Term, LongBlankLine, GTypeOK
  <2>8. CASE UNCHANGED gvars
    BY <2>8 DEF gvars, GTypeOK
  <2> QED
    BY <2>2, <2>4, <2>5, <2>6, <2>7, <2>8 DEF GNext, Place, PlaceInvalid, Invalid, GameOver
<1> QED
  BY <1>1, <1>2, PTL DEF GSpec

-----------------------------------------------------------------------------
(* The history.                                                            *)

\* The history is the game on a board of any size: replayed in turns it gives
\* the board and names no cell twice.
THEOREM HistoryIsTheGame == GSpec => []BoardIsHistory
<1>1. GInit => BoardIsHistory
  BY DEF GInit, BoardIsHistory, Cells
<1>2. GTypeOK /\ BoardIsHistory /\ [GNext]_gvars => BoardIsHistory'
  <2> SUFFICES ASSUME GTypeOK, BoardIsHistory, [GNext]_gvars PROVE BoardIsHistory'
    OBVIOUS
  <2>1. map \in Boards /\ history \in Seq(Moves) /\ curr_player \in {0, 1}
    BY DEF GTypeOK, Boards
  <2>2. ASSUME NEW c \in Coordinates, PlaceStone(c) PROVE BoardIsHistory'
    <3> DEFINE mv == Move(c)
               L  == Len(history)
    <3>1. mv \in Moves
      BY <2>2, MoveTypes DEF PlaceStone
    <3>2. Cell(mv) \in Cells
      BY <3>1, CellTypes
    <3>3. /\ over = "playing" /\ map[Cell(mv)] = "."
          /\ map' = [map EXCEPT ![Cell(mv)] = Stone(curr_player)]
          /\ history' = Append(history, mv)
          /\ curr_player' = IF over' = "playing" THEN 1 - curr_player ELSE curr_player
      BY <2>2 DEF PlaceStone
    <3> HIDE DEF mv
    <3>4. L \in Nat /\ DOMAIN history = 1..L /\ curr_player = L % 2
      BY <2>1, <3>3 DEF BoardIsHistory
    <3>5. /\ DOMAIN history' = 1..(L + 1) /\ Len(history') = L + 1
          /\ history'[L + 1] = mv
          /\ \A n \in 1..L : history'[n] = history[n]
      BY <2>1, <3>1, <3>3, <3>4
    <3>6. \A n \in 1..L : Cell(history[n]) # Cell(mv) /\ Cell(history[n]) \in Cells
      <4> SUFFICES ASSUME NEW n \in 1..L
                   PROVE  Cell(history[n]) # Cell(mv) /\ Cell(history[n]) \in Cells
        OBVIOUS
      <4>1. map[Cell(history[n])] = Stone((n - 1) % 2)
        BY <3>4 DEF BoardIsHistory
      <4>2. history[n] \in Moves
        BY <2>1, <3>4
      <4> QED
        BY <3>3, <4>1, <4>2, CellTypes DEF Stone
    <3> HIDE DEF L
    <3>7. map'[Cell(mv)] = Stone(L % 2) /\ \A d \in Cells : d # Cell(mv) => map'[d] = map[d]
      BY <2>1, <3>2, <3>3, <3>4 DEF Boards
    <3>8. \A n \in DOMAIN history' : map'[Cell(history'[n])] = Stone((n - 1) % 2)
      <4> SUFFICES ASSUME NEW n \in 1..(L + 1)
                   PROVE  map'[Cell(history'[n])] = Stone((n - 1) % 2)
        BY <3>5
      <4>1. CASE n = L + 1
        <5>1. n - 1 = L
          BY <3>4, <4>1
        <5> QED
          BY <3>5, <3>7, <4>1, <5>1
      <4>2. CASE n \in 1..L
        <5>1. map'[Cell(history[n])] = map[Cell(history[n])]
          BY <3>6, <3>7, <4>2
        <5> QED
          BY <3>4, <3>5, <4>2, <5>1 DEF BoardIsHistory
      <4> QED
        BY <3>4, <4>1, <4>2
    <3>9. \A n, k \in DOMAIN history' : Cell(history'[n]) = Cell(history'[k]) => n = k
      <4> SUFFICES ASSUME NEW n \in 1..(L + 1), NEW k \in 1..(L + 1),
                          Cell(history'[n]) = Cell(history'[k])
                   PROVE  n = k
        BY <3>5
      <4>1. n \in 1..L /\ k \in 1..L => n = k
        BY <3>4, <3>5 DEF BoardIsHistory
      <4>2. n \in 1..L => k \in 1..L
        BY <3>4, <3>5, <3>6
      <4>3. k \in 1..L => n \in 1..L
        BY <3>4, <3>5, <3>6
      <4> QED
        BY <3>4, <4>1, <4>2, <4>3
    <3>10. \A d \in Cells : map'[d] # "." => \E n \in DOMAIN history' : Cell(history'[n]) = d
      <4> SUFFICES ASSUME NEW d \in Cells, map'[d] # "."
                   PROVE  \E n \in 1..(L + 1) : Cell(history'[n]) = d
        BY <3>5
      <4>1. CASE d = Cell(mv)
        BY <3>4, <3>5, <4>1
      <4>2. CASE d # Cell(mv)
        <5>1. PICK n \in 1..L : Cell(history[n]) = d
          BY <3>4, <3>7, <4>2 DEF BoardIsHistory
        <5> QED
          BY <3>4, <3>5, <5>1
      <4> QED
        BY <4>1, <4>2
    <3>11. over' = "playing" => curr_player' = Len(history') % 2
      BY <3>3, <3>4, <3>5
    <3> QED
      BY <3>8, <3>9, <3>10, <3>11 DEF BoardIsHistory
  <2>3. ASSUME NEW c \in Coordinates, PlaceOccupied(c) PROVE BoardIsHistory'
    BY <2>3 DEF PlaceOccupied, BoardIsHistory
  <2>4. CASE Ask
    BY <2>4 DEF Ask, BoardIsHistory
  <2>5. CASE LookAround
    BY <2>5 DEF LookAround, BoardIsHistory
  <2>6. CASE Quit
    BY <2>6 DEF Quit, Resign, Term, LongBlankLine, BoardIsHistory
  <2>7. CASE UNCHANGED gvars
    BY <2>7 DEF gvars, BoardIsHistory
  <2> QED
    BY <2>2, <2>3, <2>4, <2>5, <2>6, <2>7 DEF GNext, Place, PlaceInvalid, Invalid, GameOver
<1> QED
  BY <1>1, <1>2, GameTypes, PTL DEF GSpec

\* A game has at most as many moves as the board has cells, so the history
\* fits its buffer.
THEOREM HistoryNeverOverflows == GSpec => []HistoryFits
<1>1. GTypeOK /\ BoardIsHistory => HistoryFits
  <2> SUFFICES ASSUME GTypeOK, BoardIsHistory PROVE HistoryFits
    OBVIOUS
  <2> DEFINE L == Len(history)
             f == [n \in 1..L |-> Cell(history[n])]
  <2>1. history \in Seq(Moves) /\ L \in Nat /\ DOMAIN history = 1..L
    BY DEF GTypeOK
  <2>2. f \in [1..L -> Cells]
    BY <2>1, CellTypes
  <2>3. \A n, k \in 1..L : f[n] = f[k] => n = k
    BY <2>1 DEF BoardIsHistory
  <2> HIDE DEF f, L
  <2>4. f \in Injection(1..L, Cells)
    BY <2>2, <2>3, ZenonT(20) DEF Injection, IsInjective
  <2>5. IsFiniteSet(Line) /\ Cardinality(Line) = Size
    BY GitmAssumption, FS_Interval DEF Line
  <2>6. IsFiniteSet(Cells) /\ Cardinality(Cells) = Size * Size
    BY <2>5, FS_Product DEF Cells
  <2>7. Cardinality(1..L) = L
    BY <2>1, FS_Interval
  <2>8. Cardinality(1..L) <= Cardinality(Cells)
    BY <2>4, <2>6, FS_Injection
  <2> DEFINE N == Size * Size
  <2>9. L <= N /\ N \in Nat /\ HISTORY_LEN > 3 * N
    BY <2>6, <2>7, <2>8, GitmAssumption
  <2> HIDE DEF N
  <2>10. 3 * L < HISTORY_LEN
    BY <2>1, <2>9, GitmAssumption
  <2> QED
    BY <2>10 DEF HistoryFits, L
<1> QED
  BY <1>1, GameTypes, HistoryIsTheGame, PTL

-----------------------------------------------------------------------------
(* What the players are shown.                                             *)

\* On a board of any size view() shows each coordinate in the mist with the
\* stone of its move, and an x for every place outside the board.
THEOREM ViewIsTheHistory == GSpec => []ViewShowsMoves
<1>1. GTypeOK /\ BoardIsHistory => ViewShowsMoves
  <2> SUFFICES ASSUME GTypeOK, BoardIsHistory, NEW k \in 0..(Shown - 1)
               PROVE  LET letter == mid_mist[1] - 1 - Reach + (k % Width)
                          number == mid_mist[2] + Reach - (k \div Width)
                          played == {n \in DOMAIN history : history[n].h = letter /\ history[n].v = number}
                      IN  /\ View(k) = "x" <=> letter \notin Line \/ number \notin 1..Size
                          /\ View(k) \in {"#", "o"} <=> played # {}
                          /\ \A n \in played : View(k) = Stone((n - 1) % 2)
    BY DEF ViewShowsMoves
  <2> DEFINE letter == mid_mist[1] - 1 - Reach + (k % Width)
             number == mid_mist[2] + Reach - (k \div Width)
             played == {n \in DOMAIN history : history[n].h = letter /\ history[n].v = number}
             inside == letter \in Line /\ number \in 1..Size
  <2>1. mid_mist[1] \in 1..Size /\ mid_mist[2] \in 1..Size
    BY DEF GTypeOK
  <2>0. k \div Width \in Int /\ k % Width \in Int /\ Reach \in Int
    <3>1. Width \in Nat \ {0} /\ k \in Int
      BY GitmAssumption DEF Width
    <3> QED
      BY <3>1, GitmAssumption
  <2>2. letter \in Int /\ number \in Int
    BY <2>0, <2>1
  <2>3. View(k) = IF ~inside THEN "x" ELSE map[<<Size - number, letter>>]
    <3>1. Size - mid_mist[2] - Reach + (k \div Width) = Size - number
      BY <2>0, <2>1, GitmAssumption
    <3> DEFINE i == Size - number
    <3>2. View(k) = IF i < 0 \/ i > Size - 1 \/ letter < 0 \/ letter > Size - 1
                    THEN "x" ELSE map[<<i, letter>>]
      BY <3>1, ZenonT(20) DEF View
    <3>3. (i < 0 \/ i > Size - 1 \/ letter < 0 \/ letter > Size - 1) <=> ~inside
      <4> HIDE DEF letter, number
      <4> QED
        BY <2>2, GitmAssumption DEF Line
    <3> QED
      BY <3>2, <3>3
  <2> HIDE DEF letter, number
  <2>4. \A n \in DOMAIN history : history[n] \in Moves
    BY DEF GTypeOK
  <2>5. \A n \in played : inside /\ Cell(history[n]) = <<Size - number, letter>>
    BY <2>4 DEF Moves, Cell
  <2>6. inside => <<Size - number, letter>> \in Cells
    BY <2>2, GitmAssumption DEF Cells, Line
  <2>7. inside => map[<<Size - number, letter>>] \in {".", "#", "o"}
    BY <2>6 DEF GTypeOK
  <2>8. \A n \in played : View(k) = Stone((n - 1) % 2)
    BY <2>3, <2>5 DEF BoardIsHistory
  <2>9. View(k) = "x" <=> ~inside
    BY <2>3, <2>7
  <2>10. View(k) \in {"#", "o"} => played # {}
    <3> SUFFICES ASSUME View(k) \in {"#", "o"} PROVE played # {}
      OBVIOUS
    <3>1. inside /\ map[<<Size - number, letter>>] # "."
      BY <2>3
    <3>2. PICK n \in DOMAIN history : Cell(history[n]) = <<Size - number, letter>>
      BY <2>6, <3>1 DEF BoardIsHistory
    <3>3. history[n].h = letter /\ Size - history[n].v = Size - number /\ history[n].v \in 1..Size
      BY <2>4, <3>2 DEF Cell, Moves
    <3>4. history[n].v = number
      BY <2>2, <3>3, GitmAssumption
    <3> QED
      BY <3>3, <3>4
  <2>11. played # {} => View(k) \in {"#", "o"}
    BY <2>8 DEF Stone
  <2> QED
    BY <2>8, <2>9, <2>10, <2>11 DEF letter, number
<1> QED
  BY <1>1, GameTypes, HistoryIsTheGame, PTL

-----------------------------------------------------------------------------
(* Lines.                                                                  *)

LineIn(m, c, d, stone) ==
    \A k \in 0..(Win - 1) :
        LET cell == <<c[1] + k * d[1], c[2] + k * d[2]>>
        IN  cell \in Cells /\ m[cell] = stone

\* A line is found by the scan of its row, of its part of the column, or of
\* its diagonal, whatever the array holds: except on two kinds of diagonals.
LEMMA LineIsHit ==
    ASSUME NEW m \in Boards, NEW c \in Cells, NEW d \in {East, South, SouthEast, NorthEast},
           NEW p \in {0, 1}, LineIn(m, c, d, Stone(p)),
           ~(d = SouthEast /\ c[1] = c[2]), ~(d = NorthEast /\ c[1] + c[2] >= Size)
    PROVE  \E s \in Scans : /\ d \in {East, South} => s[1] <= 2
                            /\ \A buf : Hit(s, m, buf)
<1> USE GitmAssumption
<1> DEFINE x == c[1]
           y == c[2]
<1>0. x \in Line /\ y \in Line /\ 0 \in 0..(Win - 1) /\ Win - 1 \in 0..(Win - 1)
  BY DEF Cells, Line
<1> HIDE DEF x, y
<1>1. ASSUME NEW i, NEW j, <<i, j>> \in Cells PROVE i \in Line /\ j \in Line
  BY <1>1 DEF Cells
<1>2. CASE d = East
  <2>1. \A k \in 0..(Win - 1) : y + k \in Line /\ m[<<x, y + k>>] = Stone(p)
    <3> SUFFICES ASSUME NEW k \in 0..(Win - 1) PROVE y + k \in Line /\ m[<<x, y + k>>] = Stone(p)
      OBVIOUS
    <3>1. <<x + k * 0, y + k * 1>> \in Cells /\ m[<<x + k * 0, y + k * 1>>] = Stone(p)
      BY <1>2 DEF LineIn, East, x, y
    <3>2. x + k * 0 = x /\ y + k * 1 = y + k
      BY <1>0 DEF Line
    <3> QED
      BY <1>1, <3>1, <3>2
  <2> DEFINE s == <<1, x, 0>>
  <2>2. s \in Scans
    BY <1>0 DEF Scans, Rows
  <2>3. ASSUME NEW buf PROVE Hit(s, m, buf)
    <3>1. Text(s, m, buf) = [i \in Line |-> m[<<x, i>>]]
      BY DEF Text
    <3>2. ASSUME NEW k \in 0..(Win - 1)
          PROVE  y + k \in DOMAIN Text(s, m, buf) /\ Text(s, m, buf)[y + k] = Stone(p)
      BY <2>1, <3>1, ZenonT(20)
    <3>3. y \in DOMAIN Text(s, m, buf)
      BY <1>0, <3>1
    <3>4. \A j \in DOMAIN Text(s, m, buf) : Text(s, m, buf)[j] # NUL
      BY <1>0, <3>1, StonesOf
    <3>5. Has(Text(s, m, buf), Stone(p))
      BY <3>2, <3>3, <3>4, ZenonT(20) DEF Has
    <3> QED
      BY <3>5, OutcomeOf, ZenonT(20)
  <2> QED
    BY <2>2, <2>3
<1>3. CASE d = South
  <2>1. \A k \in 0..(Win - 1) : x + k \in Line /\ m[<<x + k, y>>] = Stone(p)
    <3> SUFFICES ASSUME NEW k \in 0..(Win - 1) PROVE x + k \in Line /\ m[<<x + k, y>>] = Stone(p)
      OBVIOUS
    <3>1. <<x + k * 1, y + k * 0>> \in Cells /\ m[<<x + k * 1, y + k * 0>>] = Stone(p)
      BY <1>3 DEF LineIn, South, x, y
    <3>2. x + k * 1 = x + k /\ y + k * 0 = y
      BY <1>0 DEF Line
    <3> QED
      BY <1>1, <3>1, <3>2
  <2> DEFINE s == <<2, y, x>>
  <2>2. s \in Scans
    <3>1. x + (Win - 1) \in Line
      BY <1>0, <2>1, ZenonT(20)
    <3>2. x \in 0..(Size - Win)
      BY <1>0, <3>1 DEF Line
    <3> QED
      BY <1>0, <3>2 DEF Scans, Columns
  <2>3. ASSUME NEW buf PROVE Hit(s, m, buf)
    <3>1. Text(s, m, buf) = [i \in 0..(Win - 1) |-> m[<<x + i, y>>]]
      BY DEF Text
    <3>2. \A k \in 0..(Win - 1) : 0 + k = k
      OBVIOUS
    <3>3. ASSUME NEW j \in 0..(Win - 1) PROVE Text(s, m, buf)[j] # NUL
      <4>1. m[<<x + j, y>>] # NUL
        BY <1>0, <2>1, StonesOf, ZenonT(20)
      <4> QED
        BY <3>1, <4>1, ZenonT(20)
    <3>4. DOMAIN Text(s, m, buf) = 0..(Win - 1)
      BY <3>1, ZenonT(20)
    <3>5. Has(Text(s, m, buf), Stone(p))
      BY <1>0, <2>1, <3>1, <3>2, <3>3, <3>4, ZenonT(20) DEF Has
    <3> QED
      BY <3>5, OutcomeOf, ZenonT(20)
  <2> QED
    BY <2>2, <2>3
<1>4. CASE d = SouthEast
  <2>1. \A k \in 0..(Win - 1) : x + k \in Line /\ y + k \in Line /\ m[<<x + k, y + k>>] = Stone(p)
    <3> SUFFICES ASSUME NEW k \in 0..(Win - 1)
                 PROVE  x + k \in Line /\ y + k \in Line /\ m[<<x + k, y + k>>] = Stone(p)
      OBVIOUS
    <3>1. <<x + k * 1, y + k * 1>> \in Cells /\ m[<<x + k * 1, y + k * 1>>] = Stone(p)
      BY <1>4 DEF LineIn, SouthEast, x, y
    <3>2. x + k * 1 = x + k /\ y + k * 1 = y + k
      BY <1>0 DEF Line
    <3> QED
      BY <1>1, <3>1, <3>2
  <2>2. x + (Win - 1) \in Line /\ y + (Win - 1) \in Line
    BY <1>0, <2>1, ZenonT(20)
  <2>3. CASE x < y
    <3> DEFINE s == <<5, -(y - x), 0>>
    <3>1. s \in Scans
      <4>1. y - x \in 1..(Size - Win)
        BY <1>0, <2>2, <2>3 DEF Line
      <4> QED
        BY <4>1 DEF Scans, DiagRight
    <3>2. ASSUME NEW buf PROVE Hit(s, m, buf)
      <4>1. Text(s, m, buf) = [i \in Bytes |-> IF i <= Size - 1 + (-(y - x)) THEN m[<<i, i - (-(y - x))>>]
                                                                          ELSE AfterRising(m, buf, i)]
        BY DEF Text
      <4>2. ASSUME NEW k \in 0..(Win - 1)
            PROVE  /\ x + k \in Line /\ x + k <= Size - 1 + (-(y - x))
                   /\ (x + k) - (-(y - x)) = y + k
        <5>0. x + k \in Line /\ y + k \in Line
          BY <2>1, ZenonT(20)
        <5>1. x \in Int /\ y \in Int /\ k \in Int /\ x + k \in 0..(Size - 1) /\ y + k \in 0..(Size - 1)
          BY <1>0, <5>0 DEF Line
        <5> QED
          BY <2>3, <5>1 DEF Line
      <4>3. ASSUME NEW k \in 0..(Win - 1)
            PROVE  x + k \in DOMAIN Text(s, m, buf) /\ Text(s, m, buf)[x + k] = Stone(p)
        BY <2>1, <4>1, <4>2, LineInBytes, ZenonT(20)
      <4>4. x \in DOMAIN Text(s, m, buf)
        BY <1>0, <4>1, LineInBytes, ZenonT(20)
      <4>5. ASSUME NEW j \in Bytes, j < x PROVE Text(s, m, buf)[j] # NUL
        <5>1. /\ j \in Line /\ j - (-(y - x)) \in Line /\ j <= Size - 1 + (-(y - x))
          BY <1>0, <2>3, <4>5 DEF Line, Bytes
        <5>2. m[<<j, j - (-(y - x))>>] # NUL
          BY <5>1, StonesOf, ZenonT(20)
        <5> QED
          BY <4>1, <5>1, <5>2, ZenonT(20)
      <4>6. DOMAIN Text(s, m, buf) = Bytes
        BY <4>1, ZenonT(20)
      <4>7. Has(Text(s, m, buf), Stone(p))
        BY <4>3, <4>4, <4>5, <4>6, ZenonT(20) DEF Has
      <4> QED
        BY <4>7, OutcomeOf, ZenonT(20)
    <3> QED
      BY <1>4, <3>1, <3>2 DEF East, South, SouthEast
  <2>4. CASE y < x
    <3> DEFINE s == <<6, -(x - y), 0>>
    <3>1. s \in Scans
      <4>1. x - y \in 1..(Size - Win)
        BY <1>0, <2>2, <2>4 DEF Line
      <4> QED
        BY <4>1 DEF Scans, DiagBelow
    <3>2. ASSUME NEW buf PROVE Hit(s, m, buf)
      <4>1. Text(s, m, buf) = [i \in Bytes |-> IF i <= Size - 1 + (-(x - y)) THEN m[<<i - (-(x - y)), i>>]
                                                                          ELSE AfterRight(m, buf, i)]
        BY DEF Text
      <4>2. ASSUME NEW k \in 0..(Win - 1)
            PROVE  /\ y + k \in Line /\ y + k <= Size - 1 + (-(x - y))
                   /\ (y + k) - (-(x - y)) = x + k
        <5>0. x + k \in Line /\ y + k \in Line
          BY <2>1, ZenonT(20)
        <5>1. x \in Int /\ y \in Int /\ k \in Int /\ x + k \in 0..(Size - 1) /\ y + k \in 0..(Size - 1)
          BY <1>0, <5>0 DEF Line
        <5> QED
          BY <2>4, <5>1 DEF Line
      <4>3. ASSUME NEW k \in 0..(Win - 1)
            PROVE  y + k \in DOMAIN Text(s, m, buf) /\ Text(s, m, buf)[y + k] = Stone(p)
        BY <2>1, <4>1, <4>2, LineInBytes, ZenonT(20)
      <4>4. y \in DOMAIN Text(s, m, buf)
        BY <1>0, <4>1, LineInBytes, ZenonT(20)
      <4>5. ASSUME NEW j \in Bytes, j < y PROVE Text(s, m, buf)[j] # NUL
        <5>1. /\ j \in Line /\ j - (-(x - y)) \in Line /\ j <= Size - 1 + (-(x - y))
          BY <1>0, <2>4, <4>5 DEF Line, Bytes
        <5>2. m[<<j - (-(x - y)), j>>] # NUL
          BY <5>1, StonesOf, ZenonT(20)
        <5> QED
          BY <4>1, <5>1, <5>2, ZenonT(20)
      <4>6. DOMAIN Text(s, m, buf) = Bytes
        BY <4>1, ZenonT(20)
      <4>7. Has(Text(s, m, buf), Stone(p))
        BY <4>3, <4>4, <4>5, <4>6, ZenonT(20) DEF Has
      <4> QED
        BY <4>7, OutcomeOf, ZenonT(20)
    <3> QED
      BY <1>4, <3>1, <3>2 DEF East, South, SouthEast
  <2> QED
    BY <1>0, <1>4, <2>3, <2>4 DEF Line, x, y
<1>5. CASE d = NorthEast
  <2>1. \A k \in 0..(Win - 1) : x - k \in Line /\ y + k \in Line /\ m[<<x - k, y + k>>] = Stone(p)
    <3> SUFFICES ASSUME NEW k \in 0..(Win - 1)
                 PROVE  x - k \in Line /\ y + k \in Line /\ m[<<x - k, y + k>>] = Stone(p)
      OBVIOUS
    <3>1. <<x + k * (-1), y + k * 1>> \in Cells /\ m[<<x + k * (-1), y + k * 1>>] = Stone(p)
      BY <1>5 DEF LineIn, NorthEast, x, y
    <3>2. x + k * (-1) = x - k /\ y + k * 1 = y + k
      BY <1>0 DEF Line
    <3> QED
      BY <1>1, <3>1, <3>2
  <2>2. x - (Win - 1) \in Line
    BY <1>0, <2>1, ZenonT(20)
  <2>3. x + y < Size
    BY <1>0, <1>5 DEF Line, x, y
  <2> DEFINE s == <<3, x + y, 0>>
  <2>4. s \in Scans
    <3>1. x + y \in (Win - 1)..(Size - 1)
      BY <1>0, <2>2, <2>3 DEF Line
    <3> QED
      BY <3>1 DEF Scans, AntiUpper
  <2>5. ASSUME NEW buf PROVE Hit(s, m, buf)
    <3>1. Text(s, m, buf) = [i \in Bytes |-> IF i <= x + y THEN m[<<(x + y) - i, i>>] ELSE buf[i]]
      BY DEF Text
    <3>2. ASSUME NEW k \in 0..(Win - 1)
          PROVE  y + k \in Line /\ y + k <= x + y /\ (x + y) - (y + k) = x - k
      <4>0. x - k \in Line /\ y + k \in Line
        BY <2>1, ZenonT(20)
      <4>1. x \in Int /\ y \in Int /\ k \in Int /\ x - k \in 0..(Size - 1) /\ y + k \in 0..(Size - 1)
        BY <1>0, <4>0 DEF Line
      <4> QED
        BY <4>1 DEF Line
    <3>3. ASSUME NEW k \in 0..(Win - 1)
          PROVE  y + k \in DOMAIN Text(s, m, buf) /\ Text(s, m, buf)[y + k] = Stone(p)
      BY <2>1, <3>1, <3>2, LineInBytes, ZenonT(20)
    <3>4. y \in DOMAIN Text(s, m, buf)
      BY <1>0, <3>1, LineInBytes, ZenonT(20)
    <3>5. ASSUME NEW j \in Bytes, j < y PROVE Text(s, m, buf)[j] # NUL
      <4>1. j \in Line /\ (x + y) - j \in Line /\ j <= x + y
        BY <1>0, <2>3, <3>5 DEF Line, Bytes
      <4>2. m[<<(x + y) - j, j>>] # NUL
        BY <4>1, StonesOf, ZenonT(20)
      <4> QED
        BY <3>1, <4>1, <4>2, ZenonT(20)
    <3>6. DOMAIN Text(s, m, buf) = Bytes
      BY <3>1, ZenonT(20)
    <3>7. Has(Text(s, m, buf), Stone(p))
      BY <3>3, <3>4, <3>5, <3>6, ZenonT(20) DEF Has
    <3> QED
      BY <3>7, OutcomeOf, ZenonT(20)
  <2> QED
    BY <1>5, <2>4, <2>5 DEF East, South, NorthEast
<1> QED
  BY <1>2, <1>3, <1>4, <1>5

\* On a board of any size no call of check_game_cond() that comes to its end
\* overlooks a line of either player, whatever is left in the array, but for
\* the longest falling diagonal and the rising ones below the longest.
THEOREM LinesAreSeen == GSpec => []LinesSeen
<1>1. GTypeOK => LinesSeen
  <2> SUFFICES ASSUME GTypeOK,
                      NEW c \in Cells, NEW d \in {East, South, SouthEast, NorthEast},
                      NEW p \in {0, 1}, LineFrom(c, d, Stone(p)),
                      ~(d = SouthEast /\ c[1] = c[2]), ~(d = NorthEast /\ c[1] + c[2] >= Size),
                      NEW buf \in Leftovers \cup ViewLeftovers
               PROVE  check_game_cond(map, buf) \in {1, 2, 4}
    BY ZenonT(20) DEF LinesSeen
  <2>1. LineIn(map, c, d, Stone(p)) /\ map \in Boards
    BY DEF LineIn, LineFrom, GTypeOK, Boards
  <2>2. \E s \in Scans : Hit(s, map, buf)
    BY <2>1, LineIsHit, ZenonT(20)
  <2> DEFINE f == FirstHit(map, buf)
  <2>3. Hit(f, map, buf)
    BY <2>2, FirstHitFound
  <2>4. check_game_cond(map, buf) = Outcome(f, map, buf)
    BY <2>2 DEF check_game_cond
  <2> HIDE DEF f
  <2>5. Outcome(f, map, buf) \in {0, 1, 2, 4}
    BY OutcomeOf
  <2> QED
    BY <2>3, <2>4, <2>5 DEF Hit
<1> QED
  BY <1>1, GameTypes, PTL

\* A row or a column is found first, by each of the three calls.
LEMMA RowsAndColumnsEnd ==
    ASSUME NEW m, NEW s \in Scans, s[1] <= 2, \A buf : Hit(s, m, buf),
           NEW bufs, Judge(m, bufs)
    PROVE  over' # "playing"
<1>1. ASSUME NEW buf PROVE check_game_cond(m, buf) \in {1, 2} /\ Leaves(m, buf) = buf
  <2>1. \E t \in Scans : Hit(t, m, buf)
    OBVIOUS
  <2> DEFINE f == FirstHit(m, buf)
  <2>2. f \in Scans /\ Hit(f, m, buf) /\ (s = f \/ Before(f, s))
    BY <2>1, FirstHitFound
  <2>3. f[1] <= 2 /\ f[1] \notin {3, 5, 6}
    <3> HIDE DEF f
    <3>1. f[1] \in Int /\ s[1] \in Int
      BY <2>2, ScanParts
    <3> QED
      BY <2>2, <3>1 DEF Before
  <2>4. Leaves(m, buf) = IF f[1] <= 2 THEN buf ELSE Text(f, m, buf)
    BY <2>1 DEF Leaves
  <2>5. check_game_cond(m, buf) = Outcome(f, m, buf)
    BY <2>1 DEF check_game_cond
  <2> HIDE DEF f
  <2>6. Outcome(f, m, buf) \in {1, 2}
    BY <2>2, <2>3, OutcomeOf DEF Hit
  <2> QED
    BY <2>3, <2>4, <2>5, <2>6
<1>2. PICK buf \in bufs :
          over' = IF check_game_cond(m, buf) \in {1, 4} THEN Ending[check_game_cond(m, buf)]
                  ELSE IF check_game_cond(m, Leaves(m, buf)) \in {2, 4}
                       THEN Ending[check_game_cond(m, Leaves(m, buf))]
                  ELSE IF check_game_cond(m, Leaves(m, Leaves(m, buf))) \in {3, 4}
                       THEN Ending[check_game_cond(m, Leaves(m, Leaves(m, buf)))]
                  ELSE "playing"
  BY Judged, ZenonT(20)
<1>3. \A e \in {1, 2} : Ending[e] # "playing"
  BY DEF Ending
<1>4. check_game_cond(m, buf) \in {1, 2} /\ Leaves(m, buf) = buf
  BY <1>1
<1> QED
  BY <1>2, <1>3, <1>4

\* On a board of any size the game goes on only while nobody has a line in a
\* row or in a column.
THEOREM RowsAndColumnsAlwaysWin == GSpec => []RowsAndColumnsWin
<1>1. GInit => RowsAndColumnsWin
  <2> SUFFICES ASSUME GInit, NEW c \in Cells, NEW d \in {East, South}, NEW p \in {0, 1},
                      LineFrom(c, d, Stone(p))
               PROVE  FALSE
    BY ZenonT(20) DEF RowsAndColumnsWin
  <2>1. 0 \in 0..(Win - 1)
    BY GitmAssumption
  <2>2. \E cell \in Cells : map[cell] = Stone(p)
    BY <2>1, ZenonT(20) DEF LineFrom
  <2> QED
    BY <2>2 DEF GInit, Stone
<1>2. ASSUME NEW m \in Boards, m = map', NEW bufs, Judge(m, bufs) PROVE RowsAndColumnsWin'
  <2> SUFFICES ASSUME over' = "playing", NEW c \in Cells, NEW d \in {East, South}, NEW p \in {0, 1},
                      LineFrom(c, d, Stone(p))'
               PROVE  FALSE
    BY ZenonT(20) DEF RowsAndColumnsWin
  <2>1. LineIn(m, c, d, Stone(p))
    BY <1>2 DEF LineIn, LineFrom
  <2>2. d # SouthEast /\ d # NorthEast
    BY DEF East, South, SouthEast, NorthEast
  <2>3. PICK s \in Scans : s[1] <= 2 /\ \A buf : Hit(s, m, buf)
    BY <2>1, <2>2, LineIsHit, ZenonT(20)
  <2> QED
    BY <1>2, <2>3, RowsAndColumnsEnd
<1>3. GTypeOK /\ GTypeOK' /\ RowsAndColumnsWin /\ [GNext]_gvars => RowsAndColumnsWin'
  <2> SUFFICES ASSUME GTypeOK, GTypeOK', RowsAndColumnsWin, [GNext]_gvars PROVE RowsAndColumnsWin'
    OBVIOUS
  <2>0. map' \in Boards
    BY DEF GTypeOK, Boards
  <2>1. ASSUME NEW c \in Coordinates, PlaceStone(c) PROVE RowsAndColumnsWin'
    BY <1>2, <2>0, <2>1, ZenonT(20) DEF PlaceStone
  <2>2. ASSUME NEW c \in Coordinates, PlaceOccupied(c) PROVE RowsAndColumnsWin'
    <3>1. map' = map /\ Judge(map', Leftovers)
      BY <2>2 DEF PlaceOccupied
    <3> QED
      BY <1>2, <2>0, <3>1, ZenonT(20)
  <2>3. CASE Ask
    <3>1. map' = map /\ Judge(map', Leftovers)
      BY <2>3 DEF Ask
    <3> QED
      BY <1>2, <2>0, <3>1, ZenonT(20)
  <2>4. CASE LookAround
    <3>1. map' = map /\ Judge(map', ViewLeftovers)
      BY <2>4 DEF LookAround
    <3> QED
      BY <1>2, <2>0, <3>1, ZenonT(20)
  <2>5. CASE Quit
    BY <2>5 DEF Quit, Resign, Term, LongBlankLine, RowsAndColumnsWin
  <2>6. CASE UNCHANGED gvars
    BY <2>6 DEF gvars, RowsAndColumnsWin, LineFrom
  <2> QED
    BY <2>1, <2>2, <2>3, <2>4, <2>5, <2>6 DEF GNext, Place, PlaceInvalid, Invalid, GameOver
<1> QED
  BY <1>1, <1>3, GameTypes, PTL DEF GSpec

-----------------------------------------------------------------------------
(* Ties.                                                                   *)

\* A tie is declared when no scan of the third call finds anything.
LEMMA TieJudged ==
    ASSUME NEW m \in Boards, m = map', NEW bufs, Judge(m, bufs)
    PROVE  TiesAreReal'
<1>1. PICK buf \in bufs :
             LET second == check_game_cond(m, Leaves(m, buf))
                 third  == check_game_cond(m, Leaves(m, Leaves(m, buf)))
             IN  /\ over' = IF check_game_cond(m, buf) \in {1, 4} THEN Ending[check_game_cond(m, buf)]
                            ELSE IF second \in {2, 4} THEN Ending[second]
                            ELSE IF third \in {3, 4} THEN Ending[third]
                            ELSE "playing"
                 /\ buffer' = Leaves(m, Leaves(m, Leaves(m, buf)))
  BY Judged
<1> DEFINE last == Leaves(m, Leaves(m, buf))
<1> SUFFICES ASSUME over' = "tie" PROVE TiesAreReal'
  BY DEF TiesAreReal
<1>2. check_game_cond(m, last) = 3
  <2>1. Ending[1] # "tie" /\ Ending[2] # "tie" /\ Ending[4] # "tie"
    BY DEF Ending
  <2> QED
    BY <1>1, <2>1
<1> HIDE DEF last
<1>3. Full(m) /\ \A s \in Scans : ~Hit(s, m, last)
  <2>1. CASE \E s \in Scans : Hit(s, m, last)
    <3>1. check_game_cond(m, last) = Outcome(FirstHit(m, last), m, last)
      BY <2>1 DEF check_game_cond
    <3> QED
      BY <1>2, <3>1, OutcomeOf
  <2>2. CASE ~\E s \in Scans : Hit(s, m, last)
    BY <1>2, <2>2 DEF check_game_cond
  <2> QED
    BY <2>1, <2>2
<1> SUFFICES ASSUME NEW c \in Cells,
                    NEW d \in {East, South, SouthEast, NorthEast}, NEW p \in {0, 1},
                    LineFrom(c, d, Stone(p))',
                    ~(d = SouthEast /\ c[1] = c[2]), ~(d = NorthEast /\ c[1] + c[2] >= Size)
             PROVE  FALSE
  BY <1>3 DEF TiesAreReal, Full
<1>4. LineIn(m, c, d, Stone(p))
  BY DEF LineIn, LineFrom
<1>5. \E s \in Scans : \A b : Hit(s, m, b)
  BY <1>4, LineIsHit, ZenonT(20)
<1> QED
  BY <1>3, <1>5

\* A tie is declared on a full board, on which no line is but the ones that no
\* scan covers, for boards and lines of every size.
THEOREM TiesAreTies == GSpec => []TiesAreReal
<1>1. GInit => TiesAreReal
  BY DEF GInit, TiesAreReal
<1>2. GTypeOK' /\ TiesAreReal /\ [GNext]_gvars => TiesAreReal'
  <2> SUFFICES ASSUME GTypeOK', TiesAreReal, [GNext]_gvars PROVE TiesAreReal'
    OBVIOUS
  <2>0. map' \in Boards
    BY DEF GTypeOK, Boards
  <2>1. ASSUME NEW c \in Coordinates, PlaceStone(c) PROVE TiesAreReal'
    BY <2>0, <2>1, TieJudged, ZenonT(20) DEF PlaceStone
  <2>2. ASSUME NEW c \in Coordinates, PlaceOccupied(c) PROVE TiesAreReal'
    <3>1. map' = map /\ Judge(map', Leftovers)
      BY <2>2 DEF PlaceOccupied
    <3> QED
      BY <2>0, <3>1, TieJudged, ZenonT(20)
  <2>3. CASE Ask
    <3>1. map' = map /\ Judge(map', Leftovers)
      BY <2>3 DEF Ask
    <3> QED
      BY <2>0, <3>1, TieJudged, ZenonT(20)
  <2>4. CASE LookAround
    <3>1. map' = map /\ Judge(map', ViewLeftovers)
      BY <2>4 DEF LookAround
    <3> QED
      BY <2>0, <3>1, TieJudged, ZenonT(20)
  <2>5. CASE Quit
    BY <2>5 DEF Quit, Resign, Term, LongBlankLine, TiesAreReal
  <2>6. CASE UNCHANGED gvars
    BY <2>6 DEF gvars, TiesAreReal, LineFrom
  <2> QED
    BY <2>1, <2>2, <2>3, <2>4, <2>5, <2>6 DEF GNext, Place, PlaceInvalid, Invalid, GameOver
<1> QED
  BY <1>1, <1>2, GameTypes, PTL DEF GSpec

-----------------------------------------------------------------------------
(* Words.                                                                  *)

\* The sum of two words is a word.
LEMMA PlusTypes ==
    ASSUME NEW x \in Word, NEW y \in Word
    PROVE  Plus(x, y) \in Word
<1> DEFINE p == <<x, y>>
<1>1. p \in Word \X Word
  OBVIOUS
<1> HIDE DEF p
<1>2. Sum[p] \in Word
  <2>1. Sum[p] = {i \in 0..31 : (i \in Xor(p[1], p[2])) # Carry(p[1], p[2], i)}
    BY <1>1 DEF Sum
  <2> QED
    BY <2>1, ZenonT(20) DEF Word
<1> QED
  BY <1>2 DEF Plus, p

\* So are their difference and their bitwise combinations, ...
LEMMA SetTypes ==
    ASSUME NEW x \in Word, NEW y \in Word
    PROVE  /\ Minus(x, y) \in Word /\ Xor(x, y) \in Word
           /\ x \cup y \in Word /\ x \cap y \in Word
<1>1. (0..31) \ y \in Word /\ {0} \in Word
  BY DEF Word
<1>2. Minus(x, y) \in Word
  BY <1>1, PlusTypes DEF Minus
<1> QED
  BY <1>2 DEF Word, Xor

\* ... the result of a shift, ...
LEMMA ShiftTypes ==
    ASSUME NEW x, NEW n
    PROVE  Shr(x, n) \in Word /\ Shl(x, n) \in Word
BY ZenonT(20) DEF Word, Shr, Shl

\* ... a sign-extended word, ...
LEMMA SignTypes ==
    ASSUME NEW x \in Word, NEW n \in Nat
    PROVE  sign_extend(x, n) \in Word
<1>1. n..31 \subseteq 0..31
  OBVIOUS
<1> QED
  BY <1>1 DEF Word, sign_extend

\* ... and the result of a comparison.
LEMMA FlagTypes ==
    ASSUME NEW b
    PROVE  Flag(b) \in Word
BY DEF Flag, Word

\* Register numbers are below 32 and addresses within memory.
LEMMA IndexTypes ==
    ASSUME NEW x, NEW i
    PROVE  Index(x, i) \in 0..31
BY DEF Index, Nibble, Bit

\* An address taken from a register is within memory.
LEMMA AddressTypes ==
    ASSUME NEW x
    PROVE  Address(x) \in 0..(MEMORY_MAX - 1)
<1>1. Low16(x) \in Int
  <2>1. ASSUME NEW i PROVE Nibble(x, i) \in Int
    BY DEF Nibble, Bit
  <2> QED
    BY <2>1 DEF Low16
<1>2. MEMORY_MAX \in Nat /\ MEMORY_MAX >= 4
  BY VMAssumption, ZenonT(20)
<1> QED
  BY <1>1, <1>2 DEF Address

\* mem_read() yields a word.
LEMMA ReadTypes ==
    ASSUME NEW m, NEW a, NEW len \in {1, 2, 4}
    PROVE  mem_read(m, a, len) \in Word
<1>1. 0..(8 * len - 1) \subseteq 0..31
  OBVIOUS
<1>2. mem_read(m, a, len) \subseteq 0..(8 * len - 1)
  BY ZenonT(20) DEF mem_read
<1> QED
  BY <1>1, <1>2, ZenonT(20) DEF Word

\* The immediates of the five formats are words.
LEMMA ImmediateTypes ==
    ASSUME NEW w \in Word
    PROVE  /\ ImmI(w) \in Word /\ ImmS(w) \in Word /\ ImmU(w) \in Word
           /\ ImmB(w) \in Word /\ ImmJ(w) \in Word
<1>1. ImmI(w) \in Word
  BY ShiftTypes, SignTypes DEF ImmI
<1>2. ImmS(w) \in Word
  <2> DEFINE x == {i \in 0..4 : i + 7 \in w} \cup {i \in 5..11 : i + 20 \in w}
  <2>1. x \in Word
    BY DEF Word
  <2> HIDE DEF x
  <2>2. sign_extend(x, 12) \in Word
    BY <2>1, SignTypes
  <2> QED
    BY <2>2 DEF ImmS, x
<1>3. ImmU(w) \in Word
  BY ShiftTypes DEF ImmU
<1>4. ImmB(w) \in Word
  <2> DEFINE b11 == {i \in {10} : 7 \in w}
             b4  == {i \in 0..3 : i + 8 \in w}
             b5  == {i \in 4..7 : i + 21 \in w}
             b12 == {i \in {11} : 31 \in w}
             x   == b12 \cup b11 \cup sign_extend(b5, 8) \cup b4
  <2>1. b11 \in Word /\ b4 \in Word /\ b5 \in Word /\ b12 \in Word
    BY DEF Word
  <2> HIDE DEF b11, b4, b5, b12
  <2>2. sign_extend(b5, 8) \in Word
    BY <2>1, SignTypes
  <2>3. x \in Word
    BY <2>1, <2>2, ZenonT(20) DEF Word
  <2> HIDE DEF x
  <2>4. sign_extend(Shl(x, 1), 13) \in Word
    BY ShiftTypes, SignTypes
  <2> QED
    BY <2>4, ZenonT(20) DEF ImmB, x, b11, b4, b5, b12
<1>5. ImmJ(w) \in Word
  <2> DEFINE x == {i \in {19} : 31 \in w} \cup {i \in 0..9 : i + 21 \in w}
                     \cup {i \in {10} : 20 \in w} \cup {i \in 11..18 : i + 1 \in w}
  <2>1. x \in Word
    BY DEF Word
  <2> HIDE DEF x
  <2>2. sign_extend(Shl(x, 1), 19) \in Word
    BY ShiftTypes, SignTypes
  <2> QED
    BY <2>2, ZenonT(20) DEF ImmJ, x
<1> QED
  BY <1>1, <1>2, <1>3, <1>4, <1>5

-----------------------------------------------------------------------------
(* Registers.                                                              *)

\* Registers that hold words, the first of them zero.
Sound(r) == r \in Registers /\ r[0] = {}

\* reg_write() keeps register 0; so does moving the program counter.
LEMMA RegWriteSound ==
    ASSUME NEW r, Sound(r), NEW i \in 0..31, NEW v \in Word
    PROVE  Sound(reg_write(r, i, v)) /\ reg_write(r, i, v)[R_PC] = r[R_PC]
BY DEF Sound, Registers, reg_write, R_PC

\* Writing the program counter keeps the registers sound, ...
LEMMA PcSound ==
    ASSUME NEW r, Sound(r), NEW v \in Word
    PROVE  Sound([r EXCEPT ![R_PC] = v])
BY DEF Sound, Registers, R_PC

\* ... and so does moving it to the next instruction.
LEMMA AdvanceSound ==
    ASSUME NEW r, Sound(r)
    PROVE  Sound(Advance(r))
<1>1. r[R_PC] \in Word /\ {2} \in Word
  BY DEF Sound, Registers, R_PC, Word
<1>2. Plus(r[R_PC], {2}) \in Word
  BY <1>1, PlusTypes
<1> QED
  BY <1>2, PcSound DEF Advance

\* A decoded instruction.
Instructions ==
    [word : Word, opcode : SUBSET (0..6), rd : 0..31, rs1 : 0..31, rs2 : 0..31,
     func3 : 0..7, func7 : Word, load : Word, store : Word]

\* A fetched word decodes to an instruction.
LEMMA DecodeTypes ==
    ASSUME NEW w \in Word, Sound(reg)
    PROVE  Decode(w) \in Instructions
<1>1. Index(w, 7) \in 0..31 /\ Index(w, 15) \in 0..31 /\ Index(w, 20) \in 0..31
  BY IndexTypes
<1>2. Bit(w, 12, 1) + Bit(w, 13, 2) + Bit(w, 14, 4) \in 0..7
  BY DEF Bit
<1>3. Shr(w, 25) \in Word
  BY ShiftTypes
<1>4. reg[Index(w, 15)] \in Word
  BY <1>1 DEF Sound, Registers
<1>5. /\ Plus(reg[Index(w, 15)], ImmI(w)) \in Word
      /\ Plus(reg[Index(w, 15)], ImmS(w)) \in Word
  BY <1>4, PlusTypes, ImmediateTypes
<1>6. w \cap (0..6) \in SUBSET (0..6)
  OBVIOUS
<1> QED
  BY <1>1, <1>2, <1>3, <1>5, <1>6 DEF Decode, Instructions

\* The registers after an arithmetic instruction.
LEMMA ResultRSound ==
    ASSUME NEW inst \in Instructions, NEW r, Sound(r)
    PROVE  Sound(ResultR(inst, r))
<1> DEFINE x == r[inst.rs1]
           y == r[inst.rs2]
           s == Shifted(inst, r)
<1>1. inst.rd \in 0..31 /\ inst.rs1 \in 0..31 /\ inst.rs2 \in 0..31
  BY DEF Instructions
<1>2. x \in Word /\ y \in Word /\ {5} \in Word
  BY <1>1 DEF Sound, Registers, Word
<1>3. Sound(s)
  <2> DEFINE shift == Shr(x, Index(y, 0))
  <2>1. shift \in Word /\ Minus({5}, y) \in Word
    BY <1>2, ShiftTypes, SetTypes, ZenonT(20)
  <2>2. shift \cup Minus({5}, y) \in Word
    BY <2>1, SetTypes, ZenonT(20)
  <2>3. /\ Sound(reg_write(r, inst.rd, shift))
        /\ Sound(reg_write(r, inst.rd, shift \cup Minus({5}, y)))
    BY <1>1, <2>1, <2>2, RegWriteSound, ZenonT(20)
  <2>4. s \in {reg_write(r, inst.rd, shift), reg_write(r, inst.rd, shift \cup Minus({5}, y)), r}
    BY ZenonT(20) DEF Shifted
  <2> QED
    BY <2>3, <2>4
<1>4. /\ Plus(x, y) \in Word /\ Minus(x, y) \in Word /\ Xor(x, y) \in Word
      /\ x \cup y \in Word /\ x \cap y \in Word
  BY <1>2, PlusTypes, SetTypes, ZenonT(20)
<1>5. /\ Shl(x, Index(y, 0)) \in Word /\ Flag(BelowS(x, y)) \in Word /\ Flag(Below(x, y)) \in Word
      /\ Flag(BelowS(s[inst.rs1], s[inst.rs2])) \in Word
  BY ShiftTypes, FlagTypes
<1>6. \A v \in Word : Sound(reg_write(r, inst.rd, v)) /\ Sound(reg_write(s, inst.rd, v))
  BY <1>1, <1>3, RegWriteSound, ZenonT(20)
<1>7. ResultR(inst, r) \in
         {reg_write(r, inst.rd, v) :
             v \in {Plus(x, y), Minus(x, y), Shl(x, Index(y, 0)), Flag(BelowS(x, y)), Flag(Below(x, y)),
                    Xor(x, y), x \cup y, x \cap y}}
         \cup {reg_write(s, inst.rd, Flag(BelowS(s[inst.rs1], s[inst.rs2]))), r}
  BY ZenonT(20) DEF ResultR
<1> HIDE DEF x, y, s
<1> QED
  BY <1>4, <1>5, <1>6, <1>7

\* An immediate instruction leaves the registers sound.
LEMMA ResultISound ==
    ASSUME NEW inst \in Instructions, NEW r, Sound(r)
    PROVE  Sound(ResultI(inst, r))
<1> DEFINE x   == r[inst.rs1]
           imm == ImmI(inst.word)
<1>1. inst.rd \in 0..31 /\ inst.rs1 \in 0..31 /\ inst.word \in Word
  BY DEF Instructions
<1>2. x \in Word /\ imm \in Word
  BY <1>1, ImmediateTypes DEF Sound, Registers
<1>3. Plus(x, imm) \in Word /\ Xor(x, imm) \in Word /\ x \cup imm \in Word /\ x \cap imm \in Word
  BY <1>2, PlusTypes, SetTypes, ZenonT(20)
<1>4. Flag(Below(x, imm)) \in Word /\ Flag(Below(x, imm \cap (0..15))) \in Word
  BY FlagTypes
<1>5. \A v \in Word : Sound(reg_write(r, inst.rd, v))
  BY <1>1, RegWriteSound, ZenonT(20)
<1>6. ResultI(inst, r) \in
         {reg_write(r, inst.rd, v) :
             v \in {Plus(x, imm), Flag(Below(x, imm)), Flag(Below(x, imm \cap (0..15))),
                    Xor(x, imm), x \cup imm, x \cap imm}} \cup {r}
  BY ZenonT(20) DEF ResultI
<1> HIDE DEF x, imm
<1> QED
  BY <1>3, <1>4, <1>5, <1>6

-----------------------------------------------------------------------------
(* Types, and register 0.                                                  *)

\* mem_write() writes bytes into memory and nowhere else.
LEMMA WriteTypes ==
    ASSUME NEW m \in [0..(MEMORY_MAX - 1) -> Byte], NEW a, NEW data, NEW len
    PROVE  mem_write(m, a, data, len) \in [0..(MEMORY_MAX - 1) -> Byte]
<1> DEFINE f(b) == IF b - a \in 0..(len - 1) THEN {i \in 0..7 : i + 8 * (b - a) \in data}
                   ELSE IF len < 4 /\ b - a \in (4 - len)..3 THEN {}
                   ELSE m[b]
<1>1. \A b \in 0..(MEMORY_MAX - 1) : f(b) \in Byte
  <2> SUFFICES ASSUME NEW b \in 0..(MEMORY_MAX - 1) PROVE f(b) \in Byte
    OBVIOUS
  <2>1. {i \in 0..7 : i + 8 * (b - a) \in data} \in Byte /\ {} \in Byte /\ m[b] \in Byte
    BY ZenonT(20) DEF Byte
  <2> QED
    BY <2>1, ZenonT(20)
<1>2. mem_write(m, a, data, len) = [b \in 0..(MEMORY_MAX - 1) |-> f(b)]
  BY ZenonT(20) DEF mem_write
<1> QED
  BY <1>1, <1>2, ZenonT(20)

\* What a virtual routine writes is an item of the output.
LEMMA WrittenTypes ==
    ASSUME NEW inst \in Instructions, Sound(reg), inst.store \in Writers
    PROVE  Written(inst) \in Items
<1> DEFINE w == reg[inst.rs2]
           d == mem_read(memory, Address(w), 1)
<1>1. w \in Word /\ reg[R_PC] \in Word /\ reg \in Registers
  BY DEF Instructions, Sound, Registers, R_PC
<1>2. w \cap (0..7) \in Word /\ d \in Word
  BY <1>1, ReadTypes DEF Word
<1>3. Written(inst) \in {<<"char", w \cap (0..7)>>, <<"int", w>>, <<"hex", w>>, <<"hex", reg[R_PC]>>,
                         <<"registers", reg>>, <<"hex", d>>}
  <2> DEFINE st == inst.store
  <2>1. st \in {VIR_W_CHAR, VIR_W_INT, VIR_W_UINT, VIR_DUMP_PC, VIR_DUMP_REG, VIR_DUMP_MEM}
    BY DEF Writers
  <2> HIDE DEF d, w
  <2> QED
    BY <2>1, ZenonT(20) DEF Written, w, d
<1> HIDE DEF w, d
<1>4. /\ <<"char", w \cap (0..7)>> \in Items /\ <<"int", w>> \in Items /\ <<"hex", w>> \in Items
      /\ <<"hex", reg[R_PC]>> \in Items /\ <<"hex", d>> \in Items
  BY <1>1, <1>2, ZenonT(20) DEF Items
<1>5. <<"registers", reg>> \in Items
  BY <1>1, ZenonT(20) DEF Items
<1> QED
  BY <1>3, <1>4, <1>5, ZenonT(20)

\* What a step does to the registers, and what it needs to know of them.
VInv == VTypeOK /\ ZeroRegister

\* Reading the console: the registers stay sound and one item is added.
LEMMA ReadStep ==
    ASSUME VInv, Fetched, NEW inst \in Instructions, ReadChar(inst) \/ ReadInt(inst)
    PROVE  Sound(reg') /\ console' \in Seq(Items) /\ Len(console') <= MaxConsole
<1>1. Sound(reg) /\ console \in Seq(Items) /\ Len(console) < MaxConsole /\ Len(console) \in Nat
  BY DEF VInv, VTypeOK, ZeroRegister, Sound, Fetched
<1>2. MaxConsole \in Nat
  BY VMAssumption, ZenonT(20)
<1>3. ASSUME NEW item \in Items, console' = Append(console, item)
      PROVE  console' \in Seq(Items) /\ Len(console') <= MaxConsole
  BY <1>1, <1>2, <1>3
<1>4. inst.rd \in 0..31
  BY DEF Instructions
<1>5. CASE ReadChar(inst)
  <2>1. PICK c \in Chars \cup {0..31} : /\ reg' = Advance(reg_write(reg, inst.rd, c))
                                         /\ console' = Append(console, <<"char read", c>>)
    BY <1>5, ZenonT(20) DEF ReadChar
  <2>2. c \in Word
    <3>1. Chars \subseteq Byte
      BY VMAssumption, ZenonT(20)
    <3> QED
      BY <3>1 DEF Byte, Word
  <2>3. Sound(reg')
    BY <1>1, <1>4, <2>1, <2>2, RegWriteSound, AdvanceSound, ZenonT(20)
  <2>4. <<"char read", c>> \in Items
    BY <2>2, ZenonT(20) DEF Items
  <2> QED
    BY <1>3, <2>1, <2>3, <2>4, ZenonT(20)
<1>6. CASE ReadInt(inst)
  <2>1. CASE inst.rd = 0
    <3>1. reg' = Advance(reg) /\ console' = console
      BY <1>6, <2>1, ZenonT(20) DEF ReadInt
    <3> QED
      BY <1>1, <1>2, <3>1, AdvanceSound
  <2>2. ASSUME NEW n \in Ints, inst.rd # 0, reg' = Advance([reg EXCEPT ![inst.rd] = n]),
               console' = Append(console, <<"int read", n>>)
        PROVE  Sound(reg') /\ console' \in Seq(Items) /\ Len(console') <= MaxConsole
    <3>1. n \in Word
      BY VMAssumption, ZenonT(20)
    <3>2. Sound([reg EXCEPT ![inst.rd] = n])
      <4>1. reg_write(reg, inst.rd, n) = [reg EXCEPT ![inst.rd] = n]
        BY <2>2, ZenonT(20) DEF reg_write
      <4>2. Sound(reg_write(reg, inst.rd, n))
        BY <1>1, <1>4, <3>1, RegWriteSound, ZenonT(20)
      <4> QED
        BY <4>1, <4>2, ZenonT(20)
    <3>3. <<"int read", n>> \in Items
      BY <3>1, ZenonT(20) DEF Items
    <3> QED
      BY <1>3, <2>2, <3>2, <3>3, AdvanceSound, ZenonT(20)
  <2>3. ASSUME reg' = Advance(reg), console' = Append(console, <<"no int", {}>>)
        PROVE  Sound(reg') /\ console' \in Seq(Items) /\ Len(console') <= MaxConsole
    <3>1. <<"no int", {}>> \in Items
      BY ZenonT(20) DEF Items, Word
    <3> QED
      BY <1>1, <1>3, <2>3, <3>1, AdvanceSound, ZenonT(20)
  <2> QED
    BY <1>6, <2>1, <2>2, <2>3, ZenonT(20) DEF ReadInt
<1> QED
  BY <1>5, <1>6

\* An instruction leaves the registers sound and memory a memory.
LEMMA ExecuteTypes ==
    ASSUME VInv, Fetched, NEW inst \in Instructions, Execute(inst)
    PROVE  /\ file' = file /\ memory' \in [0..(MEMORY_MAX - 1) -> Byte] /\ Sound(reg')
           /\ console' \in Seq(Items) /\ Len(console') <= MaxConsole
           /\ status' \in {"running", "halted", "crashed"}
<1> DEFINE Goal == /\ file' = file /\ memory' \in [0..(MEMORY_MAX - 1) -> Byte] /\ Sound(reg')
                   /\ console' \in Seq(Items) /\ Len(console') <= MaxConsole
                   /\ status' \in {"running", "halted", "crashed"}
<1>1. /\ memory \in [0..(MEMORY_MAX - 1) -> Byte] /\ Sound(reg)
      /\ console \in Seq(Items) /\ Len(console) <= MaxConsole
      /\ status = "running" /\ Len(console) < MaxConsole
  BY DEF VInv, VTypeOK, ZeroRegister, Sound, Fetched
<1>2. inst.rd \in 0..31 /\ inst.rs1 \in 0..31 /\ inst.rs2 \in 0..31 /\ inst.word \in Word
  BY DEF Instructions
<1>3. /\ reg[R_PC] \in Word /\ {2} \in Word
      /\ Plus(reg[R_PC], {2}) \in Word
  <2>1. reg[R_PC] \in Word /\ {2} \in Word
    BY <1>1 DEF Sound, Registers, R_PC, Word
  <2> QED
    BY <2>1, PlusTypes
<1>4. Sound(Advance(reg))
  BY <1>1, AdvanceSound
<1> DEFINE link == reg_write(reg, inst.rd, Plus(reg[R_PC], {2}))
<1>5. Sound(link) /\ link[inst.rs1] \in Word /\ link[R_PC] \in Word
  <2>1. Sound(link)
    BY <1>1, <1>2, <1>3, RegWriteSound, ZenonT(20)
  <2> HIDE DEF link
  <2> QED
    BY <1>2, <2>1 DEF Sound, Registers, R_PC
<1> HIDE DEF link
<1>6. CASE OpR(inst)
  <2>1. Sound(reg')
    BY <1>1, <1>6, ResultRSound, AdvanceSound DEF OpR
  <2> QED
    BY <1>1, <1>6, <2>1 DEF OpR
<1>7. CASE OpI(inst)
  <2>1. Sound(reg')
    BY <1>1, <1>7, ResultISound, AdvanceSound DEF OpI
  <2> QED
    BY <1>1, <1>7, <2>1 DEF OpI
<1>8. CASE ReadChar(inst) \/ ReadInt(inst)
  <2>1. Sound(reg') /\ console' \in Seq(Items) /\ Len(console') <= MaxConsole
    BY <1>8, ReadStep
  <2>2. UNCHANGED <<file, memory, status>>
    BY <1>8, ZenonT(20) DEF ReadChar, ReadInt
  <2> QED
    BY <1>1, <2>1, <2>2
<1>9. CASE LoadMemory(inst)
  <2>1. ASSUME NEW f \in DOMAIN LoadSize PROVE Loaded(inst, f) \in Word
    <3>1. LoadSize[f] \in {1, 2, 4} /\ 8 * LoadSize[f] \in Nat
      BY DEF LoadSize
    <3>2. mem_read(memory, Address(inst.load), LoadSize[f]) \in Word
      BY <3>1, ReadTypes
    <3> QED
      BY <3>1, <3>2, SignTypes DEF Loaded
  <2>2. reg' = Advance(reg) \/ \E v \in Word : reg' = Advance(reg_write(reg, inst.rd, v))
    BY <1>9, <2>1, ZenonT(20) DEF LoadMemory
  <2>3. Sound(reg')
    BY <1>1, <1>2, <1>4, <2>2, RegWriteSound, AdvanceSound, ZenonT(20)
  <2> QED
    BY <1>1, <1>9, <2>3 DEF LoadMemory
<1>10. CASE OpIJmp(inst)
  <2>1. reg' = [link EXCEPT ![R_PC] = Plus(link[inst.rs1], ImmI(inst.word))]
    BY <1>10, ZenonT(20) DEF OpIJmp, link
  <2>2. Plus(link[inst.rs1], ImmI(inst.word)) \in Word
    BY <1>2, <1>5, PlusTypes, ImmediateTypes
  <2>3. Sound(reg')
    BY <1>5, <2>1, <2>2, PcSound, ZenonT(20)
  <2> QED
    BY <1>1, <1>10, <2>3 DEF OpIJmp
<1>11. CASE OpU(inst)
  <2>1. Sound(reg')
    BY <1>1, <1>2, <1>11, ImmediateTypes, RegWriteSound, AdvanceSound, ZenonT(20) DEF OpU
  <2> QED
    BY <1>1, <1>11, <2>1 DEF OpU
<1>12. CASE Write(inst)
  <2>1. Written(inst) \in Items
    BY <1>1, <1>12, WrittenTypes DEF Write
  <2>2. console' = Append(console, Written(inst)) /\ reg' = Advance(reg) /\ UNCHANGED <<file, memory, status>>
    BY <1>12 DEF Write
  <2>3. MaxConsole \in Nat
    BY VMAssumption, ZenonT(20)
  <2>4. console' \in Seq(Items) /\ Len(console') <= MaxConsole
    BY <1>1, <2>1, <2>2, <2>3
  <2> QED
    BY <1>1, <1>4, <2>2, <2>4
<1>13. CASE Halt(inst)
  BY <1>1, <1>13 DEF Halt
<1>14. CASE StoreMemory(inst)
  <2>1. memory' \in [0..(MEMORY_MAX - 1) -> Byte]
    BY <1>1, <1>14, WriteTypes DEF StoreMemory
  <2> QED
    BY <1>1, <1>4, <1>14, <2>1 DEF StoreMemory
<1>15. CASE LoadPastEnd(inst) \/ StorePastEnd(inst)
  BY <1>1, <1>15, ZenonT(20) DEF LoadPastEnd, StorePastEnd, Crash
<1>16. CASE OpSB(inst)
  <2>1. Plus(reg[R_PC], ImmB(inst.word)) \in Word
    BY <1>2, <1>3, PlusTypes, ImmediateTypes
  <2>2. reg' \in {reg, [reg EXCEPT ![R_PC] = Plus(reg[R_PC], ImmB(inst.word))], Advance(reg)}
    BY <1>16, ZenonT(20) DEF OpSB
  <2>3. Sound(reg')
    BY <1>1, <1>4, <2>1, <2>2, PcSound
  <2> QED
    BY <1>1, <1>16, <2>3 DEF OpSB
<1>17. CASE OpUJ(inst)
  <2>1. reg' = [link EXCEPT ![R_PC] = Plus(link[R_PC], ImmJ(inst.word))]
    BY <1>17, ZenonT(20) DEF OpUJ, link
  <2>2. Plus(link[R_PC], ImmJ(inst.word)) \in Word
    BY <1>2, <1>5, PlusTypes, ImmediateTypes
  <2>3. Sound(reg')
    BY <1>5, <2>1, <2>2, PcSound, ZenonT(20)
  <2> QED
    BY <1>1, <1>17, <2>3 DEF OpUJ
<1>18. CASE NotImplemented(inst)
  BY <1>1, <1>18 DEF NotImplemented, vvars
<1> QED
  BY <1>6, <1>7, <1>8, <1>9, <1>10, <1>11, <1>12, <1>13, <1>14, <1>15, <1>16, <1>17, <1>18, ZenonT(20)
     DEF Execute, OpIMem, OpS

\* For every program the machine's registers hold words, its memory bytes, and
\* register 0 is zero.
THEOREM MachineSound == Spec => []VInv
<1>1. Init => VInv
  <2> SUFFICES ASSUME Init PROVE VInv
    OBVIOUS
  <2>1. {} \in Word /\ Garbage \subseteq Byte /\ MaxConsole \in Nat
    BY VMAssumption DEF Word
  <2>2. reg \in Registers /\ reg[0] = {}
    BY <2>1 DEF Init, Registers
  <2>3. memory \in [0..(MEMORY_MAX - 1) -> Byte]
    BY <2>1 DEF Init
  <2> QED
    BY <2>1, <2>2, <2>3 DEF Init, VInv, VTypeOK, ZeroRegister
<1>2. VInv /\ [Next]_vvars => VInv'
  <2> SUFFICES ASSUME VInv, [Next]_vvars PROVE VInv'
    OBVIOUS
  <2>1. Sound(reg)
    BY DEF VInv, VTypeOK, ZeroRegister, Sound
  <2>2. CASE Step
    <3>1. PICK inst \in {Decode(w) : w \in {mem_read(memory, Pc, 4)}} : Execute(inst)
      BY <2>2 DEF Step
    <3>2. mem_read(memory, Pc, 4) \in Word
      BY ReadTypes
    <3>3. inst \in Instructions
      BY <2>1, <3>1, <3>2, DecodeTypes
    <3>4. Fetched
      BY <2>2 DEF Step
    <3>5. /\ file' = file /\ memory' \in [0..(MEMORY_MAX - 1) -> Byte] /\ Sound(reg')
          /\ console' \in Seq(Items) /\ Len(console') <= MaxConsole
          /\ status' \in {"running", "halted", "crashed"}
      BY <3>1, <3>3, <3>4, ExecuteTypes
    <3> QED
      BY <3>5 DEF VInv, VTypeOK, ZeroRegister, Sound
  <2>3. CASE Load
    <3>1. file \in Seq(Byte) /\ MEMORY_MAX \in Nat /\ memory \in [0..(MEMORY_MAX - 1) -> Byte]
      BY VMAssumption DEF VInv, VTypeOK
    <3>2. ASSUME NEW a \in 0..(MEMORY_MAX - 1)
          PROVE  (IF a < Len(file) THEN file[a + 1] ELSE memory[a]) \in Byte
      BY <3>1
    <3>3. memory' = [a \in 0..(MEMORY_MAX - 1) |-> IF a < Len(file) THEN file[a + 1] ELSE memory[a]]
      BY <2>3, <3>1 DEF Load
    <3>4. memory' \in [0..(MEMORY_MAX - 1) -> Byte]
      BY <3>2, <3>3
    <3> QED
      BY <2>3, <3>4 DEF Load, VInv, VTypeOK, ZeroRegister
  <2>4. CASE LoadTooLong \/ FetchPastEnd
    BY <2>4 DEF LoadTooLong, FetchPastEnd, Crash, VInv, VTypeOK, ZeroRegister
  <2>5. CASE UNCHANGED vvars
    BY <2>5 DEF vvars, VInv, VTypeOK, ZeroRegister
  <2> QED
    BY <2>2, <2>3, <2>4, <2>5 DEF Next, Ended
<1> QED
  BY <1>1, <1>2, PTL DEF Spec

\* The variables of the machine have their types, for every program.
THEOREM MachineTypes == Spec => []VTypeOK
<1>1. VInv => VTypeOK
  BY DEF VInv
<1> QED
  BY <1>1, MachineSound, PTL

\* Register 0 is zero at all times, for every program.
THEOREM ZeroStaysZero == Spec => []ZeroRegister
<1>1. VInv => ZeroRegister
  BY DEF VInv
<1> QED
  BY <1>1, MachineSound, PTL

-----------------------------------------------------------------------------
(* What a step does.                                                       *)

\* A step that changes anything while the machine runs executes the
\* instruction at the program counter.
LEMMA RunningStep ==
    ASSUME VInv, [Next]_vvars, vvars' # vvars, status = "running", InBounds(Pc, 4)
    PROVE  Fetched /\ Inst \in Instructions /\ Execute(Inst)
<1>1. Step
  BY DEF Next, Load, LoadTooLong, FetchPastEnd, Ended
<1>2. Execute(Inst) /\ Fetched
  BY <1>1, ZenonT(20) DEF Step, Inst
<1>3. mem_read(memory, Pc, 4) \in Word /\ Sound(reg)
  BY ReadTypes DEF VInv, VTypeOK, ZeroRegister, Sound
<1> QED
  BY <1>2, <1>3, DecodeTypes DEF Inst

\* An instruction is executed by the case of its own opcode.
LEMMA OneCase ==
    ASSUME NEW inst, Execute(inst)
    PROVE  /\ inst.opcode = OP_S => OpS(inst)
           /\ inst.opcode = OP_SB => OpSB(inst)
           /\ inst.opcode = OP_UJ => OpUJ(inst)
           /\ inst.opcode \notin Implemented => NotImplemented(inst)
           /\ inst.opcode # OP_S => memory' = memory
<1>1. /\ OP_R \in Implemented /\ OP_I \in Implemented /\ OP_I_MEM \in Implemented
      /\ OP_I_JMP \in Implemented /\ OP_U \in Implemented /\ OP_S \in Implemented
      /\ OP_SB \in Implemented /\ OP_UJ \in Implemented
  BY ZenonT(20) DEF Implemented
<1>2. OP_S \notin {OP_R, OP_I, OP_I_MEM, OP_I_JMP, OP_U, OP_SB, OP_UJ}
  BY DEF OP_R, OP_I, OP_I_MEM, OP_I_JMP, OP_U, OP_S, OP_SB, OP_UJ
<1>3. OP_SB \notin {OP_R, OP_I, OP_I_MEM, OP_I_JMP, OP_U, OP_S, OP_UJ}
  BY DEF OP_R, OP_I, OP_I_MEM, OP_I_JMP, OP_U, OP_S, OP_SB, OP_UJ
<1>4. OP_UJ \notin {OP_R, OP_I, OP_I_MEM, OP_I_JMP, OP_U, OP_S, OP_SB}
  BY DEF OP_R, OP_I, OP_I_MEM, OP_I_JMP, OP_U, OP_S, OP_SB, OP_UJ
<1>5. OpS(inst) => inst.opcode = OP_S
  BY ZenonT(20) DEF OpS, Write, Halt, StoreMemory, StorePastEnd
<1>6. OpIMem(inst) => inst.opcode = OP_I_MEM /\ memory' = memory
  BY ZenonT(20) DEF OpIMem, ReadChar, ReadInt, LoadMemory, LoadPastEnd, Crash
<1>7. /\ OpR(inst) => inst.opcode = OP_R /\ memory' = memory
      /\ OpI(inst) => inst.opcode = OP_I /\ memory' = memory
      /\ OpIJmp(inst) => inst.opcode = OP_I_JMP /\ memory' = memory
      /\ OpU(inst) => inst.opcode = OP_U /\ memory' = memory
      /\ OpSB(inst) => inst.opcode = OP_SB /\ memory' = memory
      /\ OpUJ(inst) => inst.opcode = OP_UJ /\ memory' = memory
      /\ NotImplemented(inst) => inst.opcode \notin Implemented /\ memory' = memory
  BY DEF OpR, OpI, OpIJmp, OpU, OpSB, OpUJ, NotImplemented, vvars
<1> QED
  BY <1>1, <1>2, <1>3, <1>4, <1>5, <1>6, <1>7, ZenonT(20) DEF Execute

\* Memory changes only by stores, and only in the four bytes from the address
\* of the store, in every program.
THEOREM StoresAreLocal == Spec => StoresStayLocal
<1>1. VInv /\ [Next]_vvars =>
         [status = "running" /\ memory' # memory =>
             /\ Storing /\ Inst.store \notin Writers
             /\ \A a \in DOMAIN memory : memory'[a] # memory[a] => a - Address(Inst.store) \in 0..3]_vvars
  <2> SUFFICES ASSUME VInv, [Next]_vvars, vvars' # vvars, status = "running", memory' # memory
               PROVE  /\ Storing /\ Inst.store \notin Writers
                      /\ \A a \in DOMAIN memory :
                             memory'[a] # memory[a] => a - Address(Inst.store) \in 0..3
    BY ZenonT(20)
  <2>1. InBounds(Pc, 4)
    BY DEF Next, Step, Fetched, Load, LoadTooLong, FetchPastEnd, Crash, Ended, vvars
  <2>2. Execute(Inst) /\ Inst.opcode = OP_S /\ OpS(Inst)
    BY <2>1, RunningStep, OneCase
  <2>3. /\ StoreMemory(Inst) /\ Inst.func3 \in DOMAIN StoreSize
        /\ memory' = mem_write(memory, Address(Inst.store), reg[Inst.rs2], StoreSize[Inst.func3])
    BY <2>2, ZenonT(20) DEF OpS, Write, Halt, StoreMemory, StorePastEnd, Crash
  <2>4. StoreSize[Inst.func3] \in {1, 2, 4}
    BY <2>3 DEF StoreSize
  <2>5. ASSUME NEW a \in DOMAIN memory, memory'[a] # memory[a]
        PROVE  a - Address(Inst.store) \in 0..3
    <3> DEFINE x == Address(Inst.store)
               n == StoreSize[Inst.func3]
    <3>1. x \in Int /\ a \in Int
      <4>1. x \in 0..(MEMORY_MAX - 1) /\ DOMAIN memory = 0..(MEMORY_MAX - 1)
        BY AddressTypes DEF VInv, VTypeOK
      <4> QED
        BY <4>1
    <3>2. a - x \in 0..(n - 1) \/ (n < 4 /\ a - x \in (4 - n)..3)
      BY <2>3, <2>5, ZenonT(20) DEF mem_write
    <3> HIDE DEF x
    <3>3. n \in {1, 2, 4}
      BY <2>4
    <3> HIDE DEF n
    <3>4. a - x \in 0..3
      BY <3>1, <3>2, <3>3
    <3> QED
      BY <3>4 DEF x
  <2> QED
    BY <2>1, <2>2, <2>3, <2>5 DEF Storing, StoreMemory
<1> QED
  BY <1>1, MachineSound, PTL DEF Spec, StoresStayLocal

\* mem_read() finds what mem_write() wrote, byte by byte.
LEMMA ReadAfterWrite ==
    ASSUME NEW m, m \in [0..(MEMORY_MAX - 1) -> Byte], NEW a, a \in Nat, InBounds(a, 4),
           NEW data, data \in Word, NEW len, len \in {1, 2, 4}
    PROVE  mem_read(mem_write(m, a, data, len), a, len) = data \cap (0..(8 * len - 1))
<1> DEFINE n == mem_write(m, a, data, len)
<1>1. MEMORY_MAX \in Nat
  BY VMAssumption, ZenonT(20)
<1>2. ASSUME NEW i \in 0..(8 * len - 1)
      PROVE  i % 8 \in n[a + (i \div 8)] <=> i \in data
  <2> DEFINE q == i \div 8
             r == i % 8
             b == a + q
  <2>1. q \in 0..(len - 1) /\ r \in 0..7 /\ i = 8 * q + r
    OBVIOUS
  <2> HIDE DEF q, r
  <2>2. b \in 0..(MEMORY_MAX - 1) /\ b - a = q
    BY <1>1, <2>1 DEF InBounds
  <2> HIDE DEF b
  <2>3. n[b] = {j \in 0..7 : j + 8 * (b - a) \in data}
    <3>1. b - a \in 0..(len - 1) /\ b \in DOMAIN m
      BY <2>1, <2>2
    <3> QED
      BY <3>1, ZenonT(20) DEF mem_write
  <2>4. r \in n[b] <=> r + 8 * q \in data
    BY <2>1, <2>2, <2>3
  <2>5. r + 8 * q = i
    BY <2>1
  <2> QED
    BY <2>4, <2>5, ZenonT(20) DEF q, r, b
<1> HIDE DEF n
<1>3. mem_read(n, a, len) = data \cap (0..(8 * len - 1))
  BY <1>2, ZenonT(20) DEF mem_read
<1> QED
  BY <1>3 DEF n

\* The general registers hold words.
LEMMA RegisterWord ==
    ASSUME reg \in Registers, NEW k \in 0..31
    PROVE  reg[k] \in Word
BY DEF Registers

\* What a store writes can be read back, in every program.
THEOREM StoresAreRead == Spec => StoredIsRead
<1>1. VInv /\ [Next]_vvars =>
         [(Storing /\ Inst.store \notin Writers /\ Inst.func3 \in DOMAIN StoreSize /\ status' = "running") =>
             mem_read(memory', Address(Inst.store), StoreSize[Inst.func3])
                 = reg[Inst.rs2] \cap (0..(8 * StoreSize[Inst.func3] - 1))]_vvars
  <2> SUFFICES ASSUME VInv, [Next]_vvars, vvars' # vvars, Storing, Inst.store \notin Writers,
                      Inst.func3 \in DOMAIN StoreSize, status' = "running"
               PROVE  mem_read(memory', Address(Inst.store), StoreSize[Inst.func3])
                          = reg[Inst.rs2] \cap (0..(8 * StoreSize[Inst.func3] - 1))
    BY ZenonT(20)
  <2>1. Inst \in Instructions /\ OpS(Inst)
    BY RunningStep, OneCase DEF Storing
  <2>2. /\ InBounds(Address(Inst.store), 4)
        /\ memory' = mem_write(memory, Address(Inst.store), reg[Inst.rs2], StoreSize[Inst.func3])
    BY <2>1 DEF OpS, Write, Halt, StoreMemory, StorePastEnd, Crash
  <2> DEFINE a == Address(Inst.store)
             n == StoreSize[Inst.func3]
             k == Inst.rs2
             d == reg[k]
  <2>3. n \in {1, 2, 4}
    BY DEF StoreSize
  <2>4. a \in Nat
    BY AddressTypes
  <2>5. memory \in [0..(MEMORY_MAX - 1) -> Byte] /\ reg \in Registers
    BY DEF VInv, VTypeOK
  <2>6. k \in 0..31
    BY <2>1 DEF Instructions
  <2> HIDE DEF a, n, k
  <2>7. d \in Word
    BY <2>5, <2>6, RegisterWord, ZenonT(20)
  <2> HIDE DEF d
  <2>8. InBounds(a, 4) /\ memory' = mem_write(memory, a, d, n)
    BY <2>2 DEF a, n, k, d
  <2>9. mem_read(mem_write(memory, a, d, n), a, n) = d \cap (0..(8 * n - 1))
    BY ONLY <2>3, <2>4, <2>5, <2>7, <2>8, ReadAfterWrite, SMTT(20), ZenonT(20)
  <2> QED
    BY <2>8, <2>9 DEF a, n, k, d
<1> QED
  BY <1>1, MachineSound, PTL DEF Spec, StoredIsRead

-----------------------------------------------------------------------------
(* Where branches and jumps go.                                            *)

\* The low 16 bits of a sum depend on the low 16 bits of what is added.
LEMMA LowSum ==
    ASSUME NEW x \in Word, NEW y \in Word, NEW z \in Word,
           \A i \in 0..15 : i \in y <=> i \in z
    PROVE  Address(Plus(x, y)) = Address(Plus(x, z))
<1>1. ASSUME NEW v \in Word, NEW i \in 0..15
      PROVE  i \in Plus(x, v) <=> ((i \in Xor(x, v)) # Carry(x, v, i))
  <2> DEFINE p == <<x, v>>
  <2>1. p \in Word \X Word /\ p[1] = x /\ p[2] = v
    OBVIOUS
  <2> HIDE DEF p
  <2>2. Sum[p] = {j \in 0..31 : (j \in Xor(p[1], p[2])) # Carry(p[1], p[2], j)}
    BY <2>1 DEF Sum
  <2>3. Sum[p] = {j \in 0..31 : (j \in Xor(x, v)) # Carry(x, v, j)}
    BY <2>1, <2>2, ZenonT(20)
  <2>4. i \in 0..31
    OBVIOUS
  <2> QED
    BY <2>3, <2>4, ZenonT(20) DEF Plus, p
<1>2. ASSUME NEW i \in 0..15 PROVE Carry(x, y, i) <=> Carry(x, z, i)
  <2>1. ASSUME NEW j \in 0..(i - 1) PROVE j \in 0..15
    OBVIOUS
  <2>2. ASSUME NEW j \in 0..(i - 1), NEW k \in (j + 1)..(i - 1) PROVE k \in 0..15
    OBVIOUS
  <2> QED
    BY <2>1, <2>2, ZenonT(20) DEF Carry
<1>3. ASSUME NEW i \in 0..15 PROVE i \in Xor(x, y) <=> i \in Xor(x, z)
  BY ZenonT(20) DEF Xor
<1>4. ASSUME NEW i \in 0..15 PROVE i \in Plus(x, y) <=> i \in Plus(x, z)
  <2>1. (i \in Xor(x, y)) = (i \in Xor(x, z))
    BY <1>3
  <2>2. Carry(x, y, i) = Carry(x, z, i)
    BY <1>2 DEF Carry
  <2>3. /\ i \in Plus(x, y) <=> ((i \in Xor(x, y)) # Carry(x, y, i))
        /\ i \in Plus(x, z) <=> ((i \in Xor(x, z)) # Carry(x, z, i))
    BY <1>1, ZenonT(20)
  <2> QED
    BY <2>1, <2>2, <2>3, ZenonT(20)
<1> DEFINE s == Plus(x, y)
           t == Plus(x, z)
<1>5. \A i \in 0..15 : i \in s <=> i \in t
  BY <1>4
<1> HIDE DEF s, t
<1>6. Low16(s) = Low16(t)
  <2>1. ASSUME NEW i \in {0, 4, 8, 12} PROVE Nibble(s, i) = Nibble(t, i)
    <3>1. i \in 0..15 /\ i + 1 \in 0..15 /\ i + 2 \in 0..15 /\ i + 3 \in 0..15
      OBVIOUS
    <3> QED
      BY <1>5, <3>1, ZenonT(20) DEF Nibble, Bit
  <2> QED
    BY <2>1 DEF Low16
<1> QED
  BY <1>6, ZenonT(20) DEF Address, s, t

\* The offset of main() and the one of the encoding agree in their low bits.
LEMMA JumpOffsets ==
    ASSUME Inst.word \in Word
    PROVE  /\ JumpOffset \in Word
           /\ \A i \in 0..15 : i \in ImmJ(Inst.word) <=> i \in JumpOffset
<1> DEFINE w == Inst.word
           B == {i \in {19} : 31 \in w} \cup {i \in 0..9 : i + 21 \in w}
                  \cup {i \in {10} : 20 \in w} \cup {i \in 11..18 : i + 1 \in w}
           O == {i \in 1..10 : i + 20 \in w} \cup {i \in {11} : 20 \in w} \cup {i \in 12..19 : i \in w}
<1>1. JumpOffset = IF 31 \in w THEN O \cup (20..31) ELSE O
  BY ZenonT(20) DEF JumpOffset
<1>2. ImmJ(w) = sign_extend(Shl(B, 1), 19)
  BY ZenonT(20) DEF ImmJ
<1>3. JumpOffset \in Word
  BY <1>1 DEF Word
<1>4. ASSUME NEW i \in 0..15
      PROVE  i \in ImmJ(w) <=> i \in JumpOffset
  <2>1. i \in Shl(B, 1) <=> i - 1 \in B
    BY DEF Shl
  <2>2. i \in ImmJ(w) <=> i \in Shl(B, 1)
    BY <1>2 DEF sign_extend
  <2>3. i \in JumpOffset <=> i \in O
    BY <1>1
  <2>4. i - 1 \in B <=> \/ i - 1 \in 0..9 /\ i + 20 \in w
                        \/ i = 11 /\ 20 \in w
                        \/ i - 1 \in 11..18 /\ i \in w
    <3>1. (i - 1) + 21 = i + 20 /\ (i - 1) + 1 = i /\ i - 1 # 19 /\ (i - 1 = 10 <=> i = 11)
      OBVIOUS
    <3> QED
      BY <3>1, ZenonT(20)
  <2>5. i - 1 \in B <=> i \in O
    BY <2>4
  <2> QED
    BY <2>1, <2>2, <2>3, <2>5, ZenonT(20)
<1> QED
  BY <1>3, <1>4

\* A jump fetches its next instruction where its encoding says, in every
\* program.
THEOREM JumpsGoHome == Spec => JumpsLand
<1>1. VInv /\ [Next]_vvars =>
         [(status = "running" /\ InBounds(Pc, 4) /\ Inst.opcode = OP_UJ) =>
             /\ Address(reg'[R_PC]) = Address(Plus(reg[R_PC], JumpOffset))
             /\ Inst.rd # 0 => reg'[Inst.rd] = Plus(reg[R_PC], {2})]_vvars
  <2> SUFFICES ASSUME VInv, [Next]_vvars, vvars' # vvars, status = "running", InBounds(Pc, 4),
                      Inst.opcode = OP_UJ
               PROVE  /\ Address(reg'[R_PC]) = Address(Plus(reg[R_PC], JumpOffset))
                      /\ Inst.rd # 0 => reg'[Inst.rd] = Plus(reg[R_PC], {2})
    BY ZenonT(20)
  <2>1. Inst \in Instructions /\ OpUJ(Inst)
    BY RunningStep, OneCase
  <2>2. Inst.rd \in 0..31 /\ Inst.word \in Word
    BY <2>1 DEF Instructions
  <2>3. reg \in Registers
    BY DEF VInv, VTypeOK
  <2>4. reg[R_PC] \in Word /\ R_PC # Inst.rd /\ R_PC \in DOMAIN reg /\ Inst.rd \in DOMAIN reg
    BY <2>2, <2>3 DEF Registers, R_PC
  <2> DEFINE next == Plus(reg[R_PC], {2})
             r    == reg_write(reg, Inst.rd, next)
  <2>5. reg' = [r EXCEPT ![R_PC] = Plus(r[R_PC], ImmJ(Inst.word))]
    BY <2>1, ZenonT(20) DEF OpUJ
  <2> HIDE DEF next
  <2>6. /\ DOMAIN r = DOMAIN reg /\ r[R_PC] = reg[R_PC]
        /\ Inst.rd # 0 => r[Inst.rd] = next
    BY <2>3, <2>4 DEF reg_write, Registers
  <2> HIDE DEF r
  <2>7. /\ reg'[R_PC] = Plus(reg[R_PC], ImmJ(Inst.word))
        /\ Inst.rd # 0 => reg'[Inst.rd] = next
    BY <2>4, <2>5, <2>6
  <2>8. Address(Plus(reg[R_PC], ImmJ(Inst.word))) = Address(Plus(reg[R_PC], JumpOffset))
    BY <2>2, <2>4, JumpOffsets, ImmediateTypes, LowSum
  <2> QED
    BY <2>7, <2>8, ZenonT(20) DEF next
<1> QED
  BY <1>1, MachineSound, PTL DEF Spec, JumpsLand

\* The offset of main() is the one of the encoding when that is a byte and a
\* sign.
LEMMA BranchOffsets ==
    ASSUME Inst.word \in Word, 8..31 \cap BranchOffset \in {{}, 8..31}
    PROVE  ImmB(Inst.word) = BranchOffset
<1> DEFINE w   == Inst.word
           b11 == {i \in {10} : 7 \in w}
           b4  == {i \in 0..3 : i + 8 \in w}
           b5  == {i \in 4..7 : i + 21 \in w}
           b12 == {i \in {11} : 31 \in w}
           B   == b12 \cup b11 \cup sign_extend(b5, 8) \cup b4
           O   == {i \in 1..4 : i + 7 \in w} \cup {i \in 5..10 : i + 20 \in w} \cup {i \in {11} : 7 \in w}
<1>1. ImmB(w) = sign_extend(Shl(B, 1), 13)
  BY ZenonT(20) DEF ImmB
<1>2. BranchOffset = IF 31 \in w THEN O \cup (12..31) ELSE O
  BY ZenonT(20) DEF BranchOffset
<1>3. \/ {7, 28, 29, 30, 31} \cap w = {}
      \/ {7, 28, 29, 30, 31} \subseteq w
  <2>1. /\ 8 \in BranchOffset <=> 28 \in w
        /\ 9 \in BranchOffset <=> 29 \in w
        /\ 10 \in BranchOffset <=> 30 \in w
        /\ 11 \in BranchOffset <=> 7 \in w
        /\ 12 \in BranchOffset <=> 31 \in w
    BY <1>2
  <2>2. \/ 8..31 \cap BranchOffset = {}
        \/ 8..31 \subseteq BranchOffset
    BY ZenonT(20)
  <2>3. \/ {8, 9, 10, 11, 12} \cap BranchOffset = {}
        \/ {8, 9, 10, 11, 12} \subseteq BranchOffset
    BY <2>2
  <2> HIDE DEF w
  <2> QED
    BY <2>1, <2>3, ZenonT(20)
<1>4. ASSUME NEW i \in Int
      PROVE  i \in B <=> \/ i = 11 /\ 31 \in w
                         \/ i = 10 /\ 7 \in w
                         \/ i \in 4..7 /\ i + 21 \in w
                         \/ i \in 8..31 /\ 28 \in w
                         \/ i \in 0..3 /\ i + 8 \in w
  <2>1. 7 \in b5 <=> 28 \in w
    OBVIOUS
  <2>2. i \in sign_extend(b5, 8) <=> (i \in b5 \/ (28 \in w /\ i \in 8..31))
    BY <2>1 DEF sign_extend
  <2>3. /\ i \in b12 <=> i = 11 /\ 31 \in w
        /\ i \in b11 <=> i = 10 /\ 7 \in w
        /\ i \in b5 <=> i \in 4..7 /\ i + 21 \in w
        /\ i \in b4 <=> i \in 0..3 /\ i + 8 \in w
    BY ZenonT(20)
  <2> QED
    BY <2>2, <2>3, ZenonT(20)
<1>5. ASSUME NEW i \in 0..31
      PROVE  i \in Shl(B, 1) <=> \/ i = 12 /\ 31 \in w
                                 \/ i = 11 /\ 7 \in w
                                 \/ i \in 5..8 /\ i + 20 \in w
                                 \/ i \in 9..31 /\ 28 \in w
                                 \/ i \in 1..4 /\ i + 7 \in w
  <2>1. i \in Shl(B, 1) <=> i - 1 \in B
    BY ZenonT(20) DEF Shl
  <2>2. i - 1 \in Int /\ (i - 1) + 21 = i + 20 /\ (i - 1) + 8 = i + 7
    OBVIOUS
  <2> HIDE DEF B, w
  <2>3. i - 1 \in B <=> \/ i - 1 = 11 /\ 31 \in w
                        \/ i - 1 = 10 /\ 7 \in w
                        \/ i - 1 \in 4..7 /\ i + 20 \in w
                        \/ i - 1 \in 8..31 /\ 28 \in w
                        \/ i - 1 \in 0..3 /\ i + 7 \in w
    <3> DEFINE j == i - 1
    <3>1. j \in Int /\ j + 21 = i + 20 /\ j + 8 = i + 7
      BY <2>2
    <3> HIDE DEF j
    <3>2. j \in B <=> \/ j = 11 /\ 31 \in w
                      \/ j = 10 /\ 7 \in w
                      \/ j \in 4..7 /\ i + 20 \in w
                      \/ j \in 8..31 /\ 28 \in w
                      \/ j \in 0..3 /\ i + 7 \in w
      BY <1>4, <3>1, ZenonT(20)
    <3> QED
      BY <3>2, ZenonT(20) DEF j
  <2> QED
    BY <2>1, <2>3
<1>6. Shl(B, 1) \in Word /\ ImmB(w) \in Word /\ BranchOffset \subseteq 0..31
  BY <1>2, ShiftTypes, ImmediateTypes
<1> HIDE DEF B
<1>7. ASSUME NEW i \in 0..31
      PROVE  i \in O <=> \/ i \in 1..4 /\ i + 7 \in w
                         \/ i \in 5..10 /\ i + 20 \in w
                         \/ i = 11 /\ 7 \in w
  BY ZenonT(20)
<1> HIDE DEF O, w
<1>8. CASE {7, 28, 29, 30, 31} \cap w = {}
  <2>1. 7 \notin w /\ 28 \notin w /\ 29 \notin w /\ 30 \notin w /\ 31 \notin w
    BY <1>8, ZenonT(20)
  <2>2. ImmB(w) = Shl(B, 1)
    <3>1. 12 \notin Shl(B, 1)
      BY <1>5, <2>1
    <3> QED
      BY <1>1, <3>1 DEF sign_extend
  <2>3. ASSUME NEW i \in 0..31 PROVE i \in ImmB(w) <=> i \in BranchOffset
    <3>1. i \in ImmB(w) <=> (i \in 5..8 /\ i + 20 \in w) \/ (i \in 1..4 /\ i + 7 \in w)
      BY <1>5, <2>1, <2>2, ZenonT(20)
    <3>2. i \in BranchOffset <=> (i \in 1..4 /\ i + 7 \in w) \/ (i \in 5..10 /\ i + 20 \in w)
      BY <1>2, <1>7, <2>1, ZenonT(20)
    <3> QED
      BY <2>1, <3>1, <3>2
  <2>4. ImmB(w) = BranchOffset
    BY <1>6, <2>3, ZenonT(20) DEF Word
  <2> QED
    BY <2>4 DEF w
<1>9. CASE {7, 28, 29, 30, 31} \subseteq w
  <2>1. 7 \in w /\ 28 \in w /\ 29 \in w /\ 30 \in w /\ 31 \in w
    BY <1>9, ZenonT(20)
  <2>2. ImmB(w) = Shl(B, 1) \cup (13..31)
    <3>1. 12 \in Shl(B, 1)
      BY <1>5, <2>1
    <3> QED
      BY <1>1, <3>1 DEF sign_extend
  <2>3. ASSUME NEW i \in 0..31 PROVE i \in ImmB(w) <=> i \in BranchOffset
    <3>1. i \in Shl(B, 1) <=> \/ i = 12 \/ i = 11
                              \/ i \in 5..8 /\ i + 20 \in w
                              \/ i \in 9..31
                              \/ i \in 1..4 /\ i + 7 \in w
      BY <1>5, <2>1, ZenonT(20)
    <3>2. i \in BranchOffset <=> \/ i \in 12..31 \/ i = 11
                                 \/ i \in 1..4 /\ i + 7 \in w
                                 \/ i \in 5..10 /\ i + 20 \in w
      BY <1>2, <1>7, <2>1, ZenonT(20)
    <3>3. (i = 8 => i + 20 \in w) /\ (i = 9 => i + 20 \in w) /\ (i = 10 => i + 20 \in w)
      BY <2>1
    <3> QED
      BY <2>2, <3>1, <3>2, <3>3
  <2>4. ImmB(w) = BranchOffset
    BY <1>6, <2>3, ZenonT(20) DEF Word
  <2> QED
    BY <2>4 DEF w
<1> QED
  BY <1>3, <1>8, <1>9 DEF w

\* beq and bne are taken when the registers are equal, and when they are not.
LEMMA TakenEqual ==
    ASSUME NEW inst, NEW x, NEW y
    PROVE  /\ inst.func3 = 0 => (Taken(inst, x, y) <=> x = y)
           /\ inst.func3 = 1 => (Taken(inst, x, y) <=> x # y)
<1> DEFINE f == inst.func3
<1>1. f = 0 => f # 1 /\ f \notin {4, 6} /\ f \notin {5, 7}
  OBVIOUS
<1>2. f = 1 => f # 0 /\ f \notin {4, 6} /\ f \notin {5, 7}
  OBVIOUS
<1> HIDE DEF f
<1>3. Taken(inst, x, y) = CASE f = 0        -> x = y
                            [] f = 1        -> x # y
                            [] f \in {4, 6} -> Below(x, y)
                            [] f \in {5, 7} -> Below(y, x)
  BY ZenonT(20) DEF Taken, f
<1>4. f = 0 => (Taken(inst, x, y) <=> x = y)
  BY <1>1, <1>3, ZenonT(20)
<1>5. f = 1 => (Taken(inst, x, y) <=> x # y)
  BY <1>2, <1>3, ZenonT(20)
<1> QED
  BY <1>4, <1>5 DEF f

\* A branch of at most 256 bytes goes to its target or to the next
\* instruction, or hangs, and beq and bne choose as they should, in every
\* program.
THEOREM ShortBranchesGoHome == Spec => ShortBranchesLand
<1>1. VInv /\ [Next]_vvars =>
         [(status = "running" /\ InBounds(Pc, 4) /\ Inst.opcode = OP_SB /\ 8..31 \cap BranchOffset \in {{}, 8..31}) =>
             LET next   == Plus(reg[R_PC], {2})
                 target == Plus(reg[R_PC], BranchOffset)
                 equal  == reg[Inst.rs1] = reg[Inst.rs2]
             IN  /\ reg'[R_PC] \in {reg[R_PC], next, target}
                 /\ Inst.func3 = 0 => reg'[R_PC] = IF equal THEN target ELSE next
                 /\ Inst.func3 = 1 => reg'[R_PC] = IF equal THEN next ELSE target]_vvars
  <2> DEFINE next   == Plus(reg[R_PC], {2})
             target == Plus(reg[R_PC], BranchOffset)
             x      == reg[Inst.rs1]
             y      == reg[Inst.rs2]
  <2> SUFFICES ASSUME VInv, [Next]_vvars, vvars' # vvars, status = "running", InBounds(Pc, 4),
                      Inst.opcode = OP_SB, 8..31 \cap BranchOffset \in {{}, 8..31}
               PROVE  /\ reg'[R_PC] \in {reg[R_PC], next, target}
                      /\ Inst.func3 = 0 => reg'[R_PC] = IF x = y THEN target ELSE next
                      /\ Inst.func3 = 1 => reg'[R_PC] = IF x = y THEN next ELSE target
    BY ZenonT(20)
  <2>1. Inst \in Instructions /\ OpSB(Inst)
    BY RunningStep, OneCase
  <2>2. Inst.word \in Word
    BY <2>1 DEF Instructions
  <2>3. ImmB(Inst.word) = BranchOffset
    BY <2>2, BranchOffsets
  <2>4. R_PC \in DOMAIN reg
    BY DEF VInv, VTypeOK, Registers, R_PC
  <2>5. reg' = IF Inst.func3 \in {2, 3} THEN reg
               ELSE IF Taken(Inst, x, y) THEN [reg EXCEPT ![R_PC] = target]
               ELSE [reg EXCEPT ![R_PC] = next]
    BY <2>1, <2>3, ZenonT(20) DEF OpSB, Advance
  <2>6. /\ Inst.func3 = 0 => (Taken(Inst, x, y) <=> x = y)
        /\ Inst.func3 = 1 => (Taken(Inst, x, y) <=> x # y)
    BY TakenEqual, ZenonT(20)
  <2> HIDE DEF next, target, x, y
  <2>7. reg'[R_PC] = IF Inst.func3 \in {2, 3} THEN reg[R_PC]
                     ELSE IF Taken(Inst, x, y) THEN target ELSE next
    BY <2>4, <2>5, ZenonT(20)
  <2>8. (Inst.func3 = 0 => Inst.func3 \notin {2, 3}) /\ (Inst.func3 = 1 => Inst.func3 \notin {2, 3})
    OBVIOUS
  <2> QED
    BY <2>6, <2>7, <2>8, ZenonT(20)
<1> QED
  BY <1>1, MachineSound, PTL DEF Spec, ShortBranchesLand
=============================================================================
