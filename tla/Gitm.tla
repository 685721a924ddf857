-------------------------------- MODULE Gitm --------------------------------
(***************************************************************************)
(* The game of gitm.c: two players place stones on a square board, five in *)
(* a line win, and a player sees only the part of the board in the mist.   *)
(*                                                                         *)
(* The board has Size lines each way (19, ROWS - 1 and COLS - 1 in the     *)
(* code) and Win stones in a line win (5); the mist reaches Reach cells    *)
(* each way from its centre (3).  A cell is <<row, column>>, both counted  *)
(* from 0 at the top left; a move is the coordinate the player types, a    *)
(* letter for the column and a number counted from the bottom.             *)
(***************************************************************************)
EXTENDS Integers, Sequences, FiniteSets

CONSTANTS
    Size,         \* lines of the board
    Win,          \* stones in a line that win
    Reach,        \* how far one sees from the centre of the mist
    BUFFER_LEN,   \* bytes of the arrays of view() and check_game_cond()
    HISTORY_LEN,  \* bytes of the history buffer
    Coordinates,  \* the second words of the place commands that are tried
    Distances,    \* how far view()'s array may lie from check_game_cond()'s
    Cuts          \* where in the latter other calls may start or stop writing

Line  == 0..(Size - 1)
Cells == Line \X Line
Bytes == 0..(BUFFER_LEN - 1)

\* The mist is a square of Width cells each way, and view() shows Shown cells.
Width == 2 * Reach + 1
Shown == Width * Width

\* A word is its first character, its length, whether the rest are digits,
\* whether the rest begins with 0, and the number atoi() finds in the rest.
Token == [ch : 0..255, len : Nat \ {0}, digits : BOOLEAN, zero : BOOLEAN, num : Int]

ASSUME GitmAssumption ==
    /\ Size \in Nat /\ Win \in 2..Size /\ Reach \in Nat
    /\ BUFFER_LEN \in Nat /\ BUFFER_LEN >= Size /\ BUFFER_LEN > Shown
    /\ HISTORY_LEN \in Nat /\ HISTORY_LEN > 3 * (Size * Size)
    /\ Coordinates \subseteq Token
    /\ Distances \subseteq Int /\ Cuts \subseteq Int

VARIABLES
    map,          \* game_map without its terminating column and its last row
    curr_player,  \* 0 is Black, 1 is White
    mid_mist,     \* centre of the mist, as column and number counted from 1
    history,      \* the moves, in the order of the history buffer
    buffer,       \* what the last check_game_cond() left in its local array
    over          \* "playing", or how the game ended

gvars == <<map, curr_player, mid_mist, history, buffer, over>>

Stone(player) == IF player = 0 THEN "#" ELSE "o"

-----------------------------------------------------------------------------
(* Coordinates.                                                            *)

isalpha(ch) == ch \in 65..90 \/ ch \in 97..122

\* The tests main() makes before place(): 65 is 'A'.
ValidCoord(c) ==
    /\ c.len \in {2, 3}
    /\ isalpha(c.ch)
    /\ c.digits
    /\ ~(c.len = 3 /\ c.zero)
    /\ c.ch % 65 <= Size - 1
    /\ c.num >= 1 /\ c.num <= Size

\* What is left of a valid word: h_coord, v_coord and the length in the history.
Move(c) == [h |-> c.ch - 65, v |-> c.num, len |-> c.len]

Moves == [h : Line, v : 1..Size, len : {2, 3}]

Cell(m) == <<Size - m.v, m.h>>

\* The centre of the mist after a move.
Mist(m) ==
    << 1 + ((5 * ((m.h + 1) * (m.h + 1)) + 3 * (m.h + 1) + 4) % Size),
       1 + ((4 * (m.v * m.v) + 2 * m.v - 4) % Size) >>

View_Shifted(k) ==
    LET i == Size - mid_mist[2] - Reach + 1 + (k \div Width)
        j == mid_mist[1] - 1 - Reach + (k % Width)
    IN  IF i < 0 \/ i > Size - 1 \/ j < 0 \/ j > Size - 1 THEN "x" ELSE map[<<i, j>>]

\* view(): character k of those that are shown, row by row.
View(k) ==
    LET i == Size - mid_mist[2] - Reach + (k \div Width)
        j == mid_mist[1] - 1 - Reach + (k % Width)
    IN  IF i < 0 \/ i > Size - 1 \/ j < 0 \/ j > Size - 1 THEN "x" ELSE map[<<i, j>>]

-----------------------------------------------------------------------------
(* check_game_cond().  The diagonals are copied one after the other into a *)
(* local array that is neither initialised nor terminated: behind a short  *)
(* diagonal strstr() finds what is still there, from longer diagonals, from *)
(* the call before or from other calls, up to a byte that is zero.         *)

NUL   == "0"
Other == "?"  \* a byte that is neither zero nor a character of the game

Characters == {".", "#", "o", "x", NUL, Other}

Blank == [i \in Bytes |-> NUL]

\* A scan is <<kind, a, b>>; scans are made in lexicographic order.
Rows == {<<1, a, 0>> : a \in Line}
Columns_Short == {2} \X Line \X (0..(Size - Win - 1))

Columns == {2} \X Line \X (0..(Size - Win))
AntiUpper_Late == {<<3, a, 0>> : a \in Win..(Size - 1)}

AntiUpper == {<<3, a, 0>> : a \in (Win - 1)..(Size - 1)}
AntiLower == {<<4, -a, 0>> : a \in 0..(Size - Win)}
DiagRight == {<<5, -a, 0>> : a \in 1..(Size - Win)}
DiagBelow == {<<6, -a, 0>> : a \in 1..(Size - Win)}

Scans == Rows \cup Columns \cup AntiUpper \cup AntiLower \cup DiagRight \cup DiagBelow

Before(s, t) ==
    \/ s[1] < t[1]
    \/ s[1] = t[1] /\ s[2] < t[2]
    \/ s[1] = t[1] /\ s[2] = t[2] /\ s[3] < t[3]

\* Element i of the array after the rising diagonals and after each kind of
\* falling ones.
AfterRising(m, buf, i) ==
    IF i = 0 THEN NUL ELSE IF i <= Size - 1 THEN m[<<Size - 1 - i, i>>] ELSE buf[i]

AfterRight(m, buf, i) ==
    IF Size > Win /\ i <= Size - 2 THEN m[<<i, i + 1>>] ELSE AfterRising(m, buf, i)

AfterBelow(m, buf, i) ==
    IF Size > Win /\ i <= Size - 2 THEN m[<<i + 1, i>>] ELSE AfterRight(m, buf, i)

\* What strstr() looks at in a scan, buf being the array at the call.  The
\* inner loop of the fourth kind, y = 18; y <= temp_x, never runs.
Text(s, m, buf) ==
    CASE s[1] = 1 -> [i \in Line |-> m[<<s[2], i>>]]
      [] s[1] = 2 -> [i \in 0..(Win - 1) |-> m[<<s[3] + i, s[2]>>]]
      [] s[1] = 3 -> [i \in Bytes |-> IF i <= s[2] THEN m[<<s[2] - i, i>>] ELSE buf[i]]
      [] s[1] = 4 -> <<>>
      [] s[1] = 5 -> [i \in Bytes |-> IF i <= Size - 1 + s[2] THEN m[<<i, i - s[2]>>]
                                                              ELSE AfterRising(m, buf, i)]
      [] s[1] = 6 -> [i \in Bytes |-> IF i <= Size - 1 + s[2] THEN m[<<i - s[2], i>>]
                                                              ELSE AfterRight(m, buf, i)]

\* strstr(text, "#####") and strstr(text, "ooooo")
Has(text, stone) ==
    \E i \in DOMAIN text :
        /\ \A k \in 0..(Win - 1) : i + k \in DOMAIN text /\ text[i + k] = stone
        /\ \A j \in DOMAIN text : j < i => text[j] # NUL

\* No byte of the array is zero: strstr() runs past its end, unless it finds
\* what it looks for, and the address sanitizer of the build ends the process.
Endless(s, text) == s[1] \in {3, 5, 6} /\ \A i \in DOMAIN text : text[i] # NUL

\* What a scan ends the call with: 1 for Black, 2 for White, 4 for the end of
\* the process, and 0 if the call goes on.
Outcome(s, m, buf) ==
    LET text == Text(s, m, buf)
    IN  IF Has(text, "#") THEN 1
        ELSE IF Endless(s, text) THEN 4
        ELSE IF Has(text, "o") THEN 2
        ELSE 0

Hit(s, m, buf) == Outcome(s, m, buf) # 0

FirstHit(m, buf) ==
    CHOOSE s \in Scans : /\ Hit(s, m, buf)
                         /\ \A t \in Scans : Hit(t, m, buf) => t = s \/ Before(s, t)

Full_ButLastRow(m) == \A c \in Cells : c[1] < Size - 1 => m[c] # "."

Full(m) == \A c \in Cells : m[c] # "."

\* The value returned, or 4 for the end of the process; 3 is a tie ...
check_game_cond(m, buf) ==
    IF \E s \in Scans : Hit(s, m, buf)
    THEN Outcome(FirstHit(m, buf), m, buf)
    ELSE IF Full(m) THEN 3 ELSE 0

\* ... and the array it leaves behind.
Leaves(m, buf) ==
    IF \E s \in Scans : Hit(s, m, buf)
    THEN LET s == FirstHit(m, buf) IN IF s[1] <= 2 THEN buf ELSE Text(s, m, buf)
    ELSE [i \in Bytes |-> AfterBelow(m, buf, i)]

\* The arrays that check_game_cond() may find after a command: some bytes are
\* overwritten by other calls ...
Leftovers ==
    {[i \in Bytes |-> IF i \in lo..hi THEN byte ELSE buffer[i]] :
        lo, hi \in Cuts, byte \in {NUL, Other}}

\* ... and after view() what it showed, and zeros to the end of its own array,
\* may lie over this one.
Viewed(buf, d) ==
    [i \in Bytes |-> IF i + d \notin Bytes THEN buf[i]
                     ELSE IF i + d < Shown THEN View(i + d) ELSE NUL]

ViewLeftovers == {Viewed(buf, d) : buf \in Leftovers, d \in Distances}

-----------------------------------------------------------------------------
(* Commands.                                                               *)

GInit ==
    /\ map = [c \in Cells |-> "."]
    /\ curr_player = 0
    /\ mid_mist = <<(Size + 1) \div 2, (Size + 1) \div 2>>
    /\ history = <<>>
    /\ buffer = Blank
    /\ over = "playing"

Ending == <<"black", "white", "tie", "crashed">>

\* Every command that main() knows ends with check_game_cond(), called up to
\* three times in a row; the first call finds one of the arrays bufs.
Judge(m, bufs) ==
    \E buf \in bufs :
        LET buf2   == Leaves(m, buf)
            buf3   == Leaves(m, buf2)
            first  == check_game_cond(m, buf)
            second == check_game_cond(m, buf2)
            third  == check_game_cond(m, buf3)
        IN  /\ over' = IF first \in {1, 4} THEN Ending[first]
                       ELSE IF second \in {2, 4} THEN Ending[second]
                       ELSE IF third \in {3, 4} THEN Ending[third]
                       ELSE "playing"
            /\ buffer' = Leaves(m, buf3)

\* who and history print and change nothing ...
Ask ==
    /\ over = "playing"
    /\ Judge(map, Leftovers)
    /\ UNCHANGED <<map, curr_player, mid_mist, history>>

\* ... and so does view, but for the array it leaves on the stack.
LookAround ==
    /\ over = "playing"
    /\ Judge(map, ViewLeftovers)
    /\ UNCHANGED <<map, curr_player, mid_mist, history>>

PlaceStone_Anywhere(c) ==
    /\ over = "playing" /\ ValidCoord(c)
    /\ map' = [map EXCEPT ![Cell(Move(c))] = Stone(curr_player)]
    /\ mid_mist' = Mist(Move(c))
    /\ history' = Append(history, Move(c))
    /\ Judge(map', Leftovers)
    /\ curr_player' = IF over' = "playing" THEN 1 - curr_player ELSE curr_player

\* place on a free cell
PlaceStone(c) ==
    /\ over = "playing" /\ ValidCoord(c)
    /\ map[Cell(Move(c))] = "."
    /\ map' = [map EXCEPT ![Cell(Move(c))] = Stone(curr_player)]
    /\ mid_mist' = Mist(Move(c))
    /\ history' = Append(history, Move(c))
    /\ Judge(map', Leftovers)
    /\ curr_player' = IF over' = "playing" THEN 1 - curr_player ELSE curr_player

PlaceOccupied_Passes(c) ==
    /\ over = "playing" /\ ValidCoord(c)
    /\ map[Cell(Move(c))] # "."
    /\ Judge(map, Leftovers)
    /\ curr_player' = IF over' = "playing" THEN 1 - curr_player ELSE curr_player
    /\ UNCHANGED <<map, mid_mist, history>>

\* place on an occupied cell: the turn does not pass.
PlaceOccupied(c) ==
    /\ over = "playing" /\ ValidCoord(c)
    /\ map[Cell(Move(c))] # "."
    /\ Judge(map, Leftovers)
    /\ UNCHANGED <<map, curr_player, mid_mist, history>>

\* place with a word that is no coordinate
PlaceInvalid(c) ==
    /\ over = "playing" /\ ~ValidCoord(c)
    /\ UNCHANGED gvars

\* An empty, too long or unknown line, one with blanks in the wrong place or
\* too many words, and the end of the input, which is read again and again.
Invalid ==
    /\ over = "playing"
    /\ UNCHANGED gvars

Resign ==
    /\ over = "playing"
    /\ over' = "resigned"
    /\ UNCHANGED <<map, curr_player, mid_mist, history, buffer>>

Term ==
    /\ over = "playing"
    /\ over' = "term"
    /\ UNCHANGED <<map, curr_player, mid_mist, history, buffer>>

\* A line of blanks longer than the input buffer: strtok() finds no word, and
\* its result is compared all the same.
LongBlankLine ==
    /\ over = "playing"
    /\ over' = "crashed"
    /\ UNCHANGED <<map, curr_player, mid_mist, history, buffer>>

Place == \E c \in Coordinates : PlaceStone(c) \/ PlaceOccupied(c) \/ PlaceInvalid(c)

Quit == Resign \/ Term \/ LongBlankLine

\* main() has returned.
GameOver == over # "playing" /\ UNCHANGED gvars

GNext == Place \/ Ask \/ LookAround \/ Invalid \/ Quit \/ GameOver

GSpec == GInit /\ [][GNext]_gvars

-----------------------------------------------------------------------------
(* Properties.                                                             *)

\* The variables of main() hold values of their declarations; the centre of
\* the mist is on the board.
GTypeOK ==
    /\ map \in [Cells -> {".", "#", "o"}]
    /\ curr_player \in {0, 1}
    /\ mid_mist \in (1..Size) \X (1..Size)
    /\ history \in Seq(Moves)
    /\ buffer \in [Bytes -> Characters]
    /\ over \in {"playing", "black", "white", "tie", "resigned", "term", "crashed"}

\* The history printed at the end is the game: replaying it, Black first and
\* in turns, gives the board, and no cell is named twice.
BoardIsHistory ==
    /\ \A n \in DOMAIN history : map[Cell(history[n])] = Stone((n - 1) % 2)
    /\ \A n, k \in DOMAIN history : Cell(history[n]) = Cell(history[k]) => n = k
    /\ \A c \in Cells : map[c] # "." => \E n \in DOMAIN history : Cell(history[n]) = c
    /\ over = "playing" => curr_player = Len(history) % 2

\* strcat() never runs past the end of the history buffer: a coordinate has at
\* most three characters.
HistoryFits == 3 * Len(history) < HISTORY_LEN

\* view() shows, at the place of each coordinate in the mist, the stone of the
\* move with that coordinate, and an x outside the board.
ViewShowsMoves ==
    \A k \in 0..(Shown - 1) :
        LET letter == mid_mist[1] - 1 - Reach + (k % Width)
            number == mid_mist[2] + Reach - (k \div Width)
            played == {n \in DOMAIN history : history[n].h = letter /\ history[n].v = number}
        IN  /\ View(k) = "x" <=> letter \notin Line \/ number \notin 1..Size
            /\ View(k) \in {"#", "o"} <=> played # {}
            /\ \A n \in played : View(k) = Stone((n - 1) % 2)

\* Win stones of one kind from cell c in direction d.
LineFrom(c, d, stone) ==
    \A k \in 0..(Win - 1) :
        LET cell == <<c[1] + k * d[1], c[2] + k * d[2]>>
        IN  cell \in Cells /\ map[cell] = stone

East      == <<0, 1>>
South     == <<1, 0>>
SouthEast == <<1, 1>>
NorthEast == <<-1, 1>>

\* A game goes on only while nobody has a horizontal or vertical line.
RowsAndColumnsWin ==
    over = "playing" =>
        \A c \in Cells, d \in {East, South}, p \in {0, 1} : ~LineFrom(c, d, Stone(p))

\* Whatever other calls and earlier moves have left in the array, a call of
\* check_game_cond() names a winner, or ends the process, as soon as there is a
\* line, except on the longest falling diagonal and on the rising diagonals
\* below the longest.
LinesSeen ==
    \A c \in Cells, d \in {East, South, SouthEast, NorthEast}, p \in {0, 1} :
        LineFrom(c, d, Stone(p)) =>
            \/ d = SouthEast /\ c[1] = c[2]
            \/ d = NorthEast /\ c[1] + c[2] >= Size
            \/ \A buf \in Leftovers \cup ViewLeftovers : check_game_cond(map, buf) \in {1, 2, 4}

\* gitm.c:142, ``win condition - horizontal, vertical, diagonal'': a player
\* declared the winner has a line.
WinsAreLines ==
    \A p \in {0, 1} :
        over = (IF p = 0 THEN "black" ELSE "white") =>
            \E c \in Cells, d \in {East, South, SouthEast, NorthEast} : LineFrom(c, d, Stone(p))

\* A game is declared a tie only on a full board without a line, except those
\* that check_game_cond() never looks at.
TiesAreReal ==
    over = "tie" =>
        /\ \A c \in Cells : map[c] # "."
        /\ \A c \in Cells, d \in {East, South, SouthEast, NorthEast}, p \in {0, 1} :
             LineFrom(c, d, Stone(p)) =>
                 \/ d = SouthEast /\ c[1] = c[2]
                 \/ d = NorthEast /\ c[1] + c[2] >= Size
=============================================================================
