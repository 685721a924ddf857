------------------------------- MODULE MCGitm -------------------------------
(* Small boards for TLC.                                                   *)
EXTENDS Gitm, SequencesExt

CONSTANT Openings  \* games the runs start from

\* The coordinate of a cell, as it is typed.
Typed(c) ==
    [ch |-> 65 + c[2], len |-> IF Size - c[1] < 10 THEN 2 ELSE 3, digits |-> TRUE,
     zero |-> FALSE, num |-> Size - c[1]]

\* A column and a number next to the board, a small letter, leading zeros, a
\* missing number, a number that is none, and a third digit.
Wrong ==
    { [ch |-> 65 + Size, len |-> 2, digits |-> TRUE, zero |-> FALSE, num |-> 1],
      [ch |-> 65, len |-> 2, digits |-> TRUE, zero |-> FALSE, num |-> Size + 1],
      [ch |-> 65, len |-> 2, digits |-> TRUE, zero |-> TRUE, num |-> 0],
      [ch |-> 97, len |-> 2, digits |-> TRUE, zero |-> FALSE, num |-> 1],
      [ch |-> 65, len |-> 3, digits |-> TRUE, zero |-> TRUE, num |-> 1],
      [ch |-> 65, len |-> 1, digits |-> TRUE, zero |-> FALSE, num |-> 0],
      [ch |-> 65, len |-> 2, digits |-> FALSE, zero |-> FALSE, num |-> 0],
      [ch |-> 65, len |-> 4, digits |-> TRUE, zero |-> FALSE, num |-> 100] }

-----------------------------------------------------------------------------
(* The middle of a game: the state after an opening during which the last  *)
(* array was always overwritten.                                           *)

Board(moves) ==
    [c \in Cells |-> IF \E n \in DOMAIN moves : Cell(moves[n]) = c
                     THEN Stone(((CHOOSE n \in DOMAIN moves : Cell(moves[n]) = c) - 1) % 2)
                     ELSE "."]

\* No opening is decided at any of its moves.
ASSUME OpeningsUndecided ==
    \A o \in Openings : \A n \in DOMAIN o :
        LET m == Board(SubSeq(o, 1, n))
        IN  /\ Board(SubSeq(o, 1, n - 1))[Cell(o[n])] = "."
            /\ check_game_cond(m, Blank) = 0
            /\ check_game_cond(m, Leaves(m, Blank)) # 2

MCInit ==
    \E o \in Openings :
        /\ map = Board(o)
        /\ curr_player = Len(o) % 2
        /\ mid_mist = Mist(o[Len(o)])
        /\ history = o
        /\ buffer = Leaves(Board(o), Blank)
        /\ over = "playing"

MCSpec == MCInit /\ [][GNext]_gvars

\* Openings given by their cells.
Played(cells) == [n \in DOMAIN cells |-> Move(Typed(cells[n]))]

\* On a board of four lines, games of eleven, twelve and fifteen moves.
SmallOpenings ==
    { Played(<< <<0, 0>>, <<1, 0>>, <<2, 0>>, <<2, 1>>, <<3, 0>>, <<2, 2>>, <<3, 2>>,
                <<3, 1>>, <<1, 3>>, <<3, 3>>, <<0, 2>> >>),
      Played(<< <<0, 0>>, <<0, 1>>, <<1, 1>>, <<1, 0>>, <<0, 2>>, <<2, 2>>, <<3, 0>>,
                <<3, 1>>, <<1, 3>>, <<2, 0>>, <<2, 1>>, <<1, 2>> >>),
      Played(<< <<0, 0>>, <<0, 1>>, <<1, 1>>, <<1, 0>>, <<0, 2>>, <<2, 2>>, <<3, 0>>,
                <<3, 1>>, <<1, 3>>, <<2, 0>>, <<2, 1>>, <<1, 2>>, <<3, 2>>, <<3, 3>>,
                <<2, 3>> >>) }

\* The cells that some opening leaves free, an occupied one, and wrong words.
SmallCoordinates ==
    {Typed(c) : c \in {<<0, 0>>} \cup {c \in Cells : \E o \in Openings : Board(o)[c] = "."}}
        \cup Wrong

\* view()'s array over the other one, or further down the stack by four bytes;
\* other calls overwrite nothing, the first bytes, the bytes behind the longest
\* diagonal, the first of them, or all.
SmallDistances == {0, -4}
SmallCuts      == {0, 4, BUFFER_LEN - 1}

\* R16 A1 S15 C1 F6 E1 G7 G1 on the board of gitm.c, and cells to go on with.
LargeOpenings ==
    { Played(<< <<3, 17>>, <<18, 0>>, <<4, 18>>, <<18, 2>>, <<13, 5>>, <<18, 4>>,
                <<12, 6>>, <<18, 6>> >>) }

CornerCoordinates == {Typed(<<i, j>>) : i, j \in {0, 7, 11, 18}}
=============================================================================
