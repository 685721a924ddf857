-------------------------------- MODULE MCVM --------------------------------
(* The programs under examples/ and short programs that meet every kind of *)
(* instruction, for a machine with 512 bytes of memory.                    *)
EXTENDS VM, FiniteSets, SequencesExt

\* The bits of a number below 2^16, and a word of two halves.
Bits(n) == {i \in 0..15 : (n \div 2 ^ i) % 2 = 1}
Word32(high, low) == Bits(low) \cup {i + 16 : i \in Bits(high)}

\* A file of words, least significant byte first.
FileOf(words) ==
    [n \in 1..(4 * Len(words)) |->
        {i \in 0..7 : i + 8 * ((n - 1) % 4) \in words[((n - 1) \div 4) + 1]}]

Halves(pairs) == [i \in DOMAIN pairs |-> Word32(pairs[i][1], pairs[i][2])]

\* examples/5_sum/5_sum.mi
FiveSum == FileOf(Halves(<<
    <<32752, 275>>, <<192, 239>>, <<0, 6071>>, <<32775, 34339>>, <<0, 6071>>, <<33127, 34707>>,
    <<7, 42883>>, <<519, 35939>>, <<80, 1811>>, <<0, 1683>>, <<0, 5687>>, <<33126, 1555>>,
    <<246, 34483>>, <<65527, 1811>>, <<7, 1635>>, <<6, 10115>>, <<65031, 39139>>, <<0, 6071>>,
    <<32983, 41507>>, <<0, 1299>>, <<0, 32871>>, <<7, 34451>>, <<65247, 61551>>, <<0, 2052>>
    >>))

\* examples/add_2_numbers/add_2_numbers.mi
AddTwo == FileOf(Halves(<<
    <<32752, 275>>, <<192, 239>>, <<0, 6071>>, <<32775, 34339>>, <<0, 5943>>, <<33127, 1939>>,
    <<7, 42627>>, <<7, 42883>>, <<215, 34739>>, <<33015, 8739>>, <<0, 1299>>, <<0, 32871>>,
    <<0, 2052>>, <<0, 2070>>
    >>))

\* examples/add_2_numbers_withfunc/add_2_numbers_withfunc.mi
AddTwoFunc == FileOf(Halves(<<
    <<32752, 275>>, <<1088, 239>>, <<0, 6071>>, <<32775, 34339>>, <<65025, 275>>, <<129, 11811>>,
    <<513, 1043>>, <<0, 6071>>, <<33127, 34707>>, <<65268, 9763>>, <<65220, 10115>>, <<7, 42883>>,
    <<65268, 9251>>, <<65156, 10115>>, <<7, 34067>>, <<449, 9219>>, <<513, 275>>, <<0, 32871>>,
    <<65025, 275>>, <<17, 11811>>, <<129, 11299>>, <<513, 1043>>, <<64415, 61679>>, <<65188, 9763>>,
    <<64287, 61679>>, <<65188, 9251>>, <<0, 6071>>, <<32839, 34707>>, <<65220, 9859>>, <<65156, 9987>>,
    <<230, 34611>>, <<231, 40995>>, <<0, 1939>>, <<7, 34067>>, <<449, 8323>>, <<385, 9219>>,
    <<513, 275>>, <<0, 32871>>, <<0, 2070>>, <<0, 2052>>
    >>))

\* examples/printing_h/printing_h.mi
PrintingH == FileOf(Halves(<<
    <<32752, 275>>, <<192, 239>>, <<0, 6071>>, <<32775, 34339>>, <<0, 6071>>, <<1152, 1811>>,
    <<32999, 32803>>, <<0, 1299>>, <<0, 32871>>
    >>))

Examples == {FiveSum, AddTwo, AddTwoFunc, PrintingH}

-----------------------------------------------------------------------------
(* An assembler for the short programs.                                    *)

Field(n, at) == {i + at : i \in Bits(n)}

\* The low bits of a number that may be negative.
Low(n, width) == Bits(n % 2 ^ width)

I(op, f3, d, s1, imm) ==
    op \cup Field(d, 7) \cup Field(f3, 12) \cup Field(s1, 15) \cup {i + 20 : i \in Low(imm, 12)}
R(f3, f7, d, s1, s2) ==
    OP_R \cup Field(d, 7) \cup Field(f3, 12) \cup Field(s1, 15) \cup Field(s2, 20) \cup Field(f7, 25)
S(f3, s1, s2, imm) ==
    OP_S \cup Field(f3, 12) \cup Field(s1, 15) \cup Field(s2, 20)
         \cup {i + 7 : i \in Low(imm, 12) \cap (0..4)} \cup {i + 20 : i \in Low(imm, 12) \cap (5..11)}
B(f3, s1, s2, off) ==
    LET o == Low(off, 13)
    IN  OP_SB \cup Field(f3, 12) \cup Field(s1, 15) \cup Field(s2, 20)
              \cup {i + 7 : i \in o \cap (1..4)} \cup {i + 20 : i \in o \cap (5..10)}
              \cup {7 : i \in o \cap {11}} \cup {31 : i \in o \cap {12}}
J(d, off) ==
    LET o == {i \in 0..20 : ((off % 2 ^ 21) \div 2 ^ i) % 2 = 1}
    IN  OP_UJ \cup Field(d, 7) \cup {i + 20 : i \in o \cap (1..10)} \cup {20 : i \in o \cap {11}}
              \cup (o \cap (12..19)) \cup {31 : i \in o \cap {20}}
U(d, imm) == OP_U \cup Field(d, 7) \cup {i + 12 : i \in 0..19 \cap {k \in 0..19 : (imm \div 2 ^ k) % 2 = 1}}

Addi(d, s1, imm) == I(OP_I, 0, d, s1, imm)

\* Registers 1 and 2 get two numbers before the instruction under test.
Given(a, b, rest) == FileOf(<<Addi(1, 0, a), Addi(2, 0, b)>> \o rest)

Values == {-1, 0, 5}

OnRegisters  == {Given(a, b, <<R(f3, f7, d, 1, 2)>>) :
                    a \in Values, b \in Values, f3 \in 0..7, f7 \in {0, 1, 32}, d \in {0, 1, 2}}
OnImmediates == {Given(a, 0, <<I(OP_I, f3, d, 1, b)>>) : a \in Values, b \in Values, f3 \in 0..7, d \in {0, 3}}
Branches     == {Given(a, b, <<B(f3, 1, 2, off)>>) :
                    a \in Values, b \in Values, f3 \in 0..7, off \in {-256, -4, 12, 254}}
FarBranches  == {Given(0, 0, <<B(0, 1, 2, off)>>) : off \in {-258, 256, 1024, 2064}}
Jumps        == {FileOf(<<J(d, off)>>) : d \in {0, 1}, off \in {0, 8, -6, 2 ^ 18 + 8, 8 - 2 ^ 19, 8 - 2 ^ 20}}
Returns      == {Given(a, 0, <<I(OP_I_JMP, 0, d, 1, 8)>>) : a \in {0, 5, 245}, d \in {0, 1, 3}}
Uppers       == {FileOf(<<U(d, imm)>>) : d \in {0, 1}, imm \in {1, 2 ^ 11, 2 ^ 19 + 1}}

\* A store, and a load from where it was.
Stores == {Given(a, at, <<S(f3, 2, 1, 0), I(OP_I_MEM, g3, 3, 2, 0)>>) :
              a \in {-1, 683}, at \in {64, 66, 507, 508, 509, 511}, f3 \in 0..3, g3 \in {0, 1, 2, 3, 4, 5}}

\* A load of unwritten memory, and one past the end.
Loads == {Given(0, at, <<I(OP_I_MEM, g3, d, 2, 0)>>) : at \in {128, 510}, g3 \in 0..5, d \in {0, 3}}

Routines ==
    {FileOf(<<U(2, 1), Addi(1, 0, 300), S(0, 2, 1, off)>>) :
        off \in {-2048, -2044, -2040, -2036, -2016, -2012, -2008}}
    \cup {FileOf(<<U(2, 1), I(OP_I_MEM, 0, d, 2, off)>>) : d \in {0, 1}, off \in {-2030, -2026}}

\* Programs that fill memory or are too long for it, and one that jumps to
\* the last bytes.
Ends == {FileOf([n \in 1..k |-> IF n < k THEN Addi(1, 1, 1) ELSE J(0, 0)]) : k \in {128, 129}}
            \cup {FileOf(<<J(0, 510)>>)}

ShortPrograms ==
    OnRegisters \cup OnImmediates \cup Branches \cup FarBranches \cup Jumps \cup Returns
        \cup Uppers \cup Stores \cup Loads \cup Routines \cup Ends

AllPrograms == Examples \cup ShortPrograms

SomeInts == {{}, {0, 1}, 0..31}
SomeChars == {{}, {0, 6}, 0..7}
SomeGarbage == {{}, 0..7}

-----------------------------------------------------------------------------
(* Adding the numbers that were read.                                      *)

\* The adder of VM agrees with addition.
ASSUME PlusAdds ==
    \A a \in {0, 1, 5, 255, 4095, 21845}, b \in {0, 1, 7, 256, 10922} :
        Plus(Bits(a), Bits(b)) = Bits(a + b) /\ Minus(Bits(a + b), Bits(b)) = Bits(a)

Total(numbers) == FoldLeft(Plus, {}, numbers)

\* The numbers read, if the console has nothing but them and then one output.
Reads == [n \in 1..(Len(console) - 1) |-> console[n][2]]
ReadsThenOne(kind) ==
    /\ Len(console) > 0 /\ console[Len(console)][1] = kind
    /\ \A n \in 1..(Len(console) - 1) : console[n][1] \in {"int read", "no int"}

\* What the programs under examples/ have done at their end, if scanf() always
\* found a number: 5_sum reads up to five numbers, stops behind a zero and
\* prints their sum; the two add_2_numbers print the sum of two; printing_h
\* prints an H.
Computed ==
    (~\E n \in DOMAIN console : console[n][1] = "no int") =>
        CASE file = FiveSum ->
                 /\ ReadsThenOne("int")
                 /\ Len(Reads) \in 1..5
                 /\ \A n \in DOMAIN Reads : Reads[n] = {} => n = Len(Reads)
                 /\ Len(Reads) < 5 => Reads[Len(Reads)] = {}
                 /\ Last(console)[2] = Total(Reads)
          [] file \in {AddTwo, AddTwoFunc} ->
                 ReadsThenOne("int") /\ Len(Reads) = 2 /\ Last(console)[2] = Total(Reads)
          [] file = PrintingH -> console = <<<<"char", {3, 6}>>>>
          [] OTHER -> TRUE

\* The programs under examples/ reach their halt whatever is read, and have
\* then done what they are named for.
ExamplesCompute == file \in Examples ~> status = "halted" /\ Computed
=============================================================================
