--------------------------------- MODULE VM ---------------------------------
(***************************************************************************)
(* The RISK-XVII virtual machine of vm_riskxvii.c: main() reads a program  *)
(* into memory and runs it, one instruction per turn of its loop.          *)
(*                                                                         *)
(* A uint32_t is the set of its bits that are 1, a byte likewise; so |, &  *)
(* and ^ are set operations.  Memory has MEMORY_MAX bytes, 2^16 in the     *)
(* code, and addresses are cut to its size as uint16_t does.  Reading or   *)
(* writing past its end is caught by the sanitizer of the build, which     *)
(* aborts.  What memory holds behind the program is not initialised.       *)
(***************************************************************************)
EXTENDS Integers, Sequences

CONSTANTS
    MEMORY_MAX,   \* bytes of memory
    Programs,     \* contents of the file argv[1], sequences of bytes
    Garbage,      \* bytes that memory may hold behind the program
    Ints,         \* numbers scanf() may read
    Chars,        \* characters getchar() may read
    MaxConsole    \* a run is followed while it has read and written fewer items

Word == SUBSET (0..31)
Byte == SUBSET (0..7)

ASSUME VMAssumption ==
    /\ MEMORY_MAX \in Nat /\ MEMORY_MAX >= 4
    /\ Programs \subseteq Seq(Byte)
    /\ Garbage \subseteq Byte
    /\ Ints \subseteq Word /\ Chars \subseteq Byte
    /\ MaxConsole \in Nat

VARIABLES
    file,      \* the program that is run
    memory,
    reg,       \* the 32 registers and, at R_PC, the program counter
    console,   \* what was read and written, in order
    status     \* "loading", "running", "halted" or "crashed"

vvars == <<file, memory, reg, console, status>>

R_PC == 32

-----------------------------------------------------------------------------
(* Words.                                                                  *)

Bit(x, i, weight) == IF i \in x THEN weight ELSE 0

\* Numbers in a word: four bits from bit i, a register, the low half.
Nibble(x, i) == Bit(x, i, 1) + Bit(x, i + 1, 2) + Bit(x, i + 2, 4) + Bit(x, i + 3, 8)
Index(x, i)  == Nibble(x, i) + Bit(x, i + 4, 16)
Low16(x)     == Nibble(x, 0) + 16 * Nibble(x, 4) + 256 * Nibble(x, 8) + 4096 * Nibble(x, 12)

Carry(x, y, i) ==
    \E j \in 0..(i - 1) : j \in x \cap y /\ \A k \in (j + 1)..(i - 1) : k \in x \cup y

Xor(x, y) == (x \ y) \cup (y \ x)

Sum == [p \in Word \X Word |-> {i \in 0..31 : (i \in Xor(p[1], p[2])) # Carry(p[1], p[2], i)}]

Plus(x, y)  == Sum[<<x, y>>]
Minus(x, y) == Plus(Plus(x, (0..31) \ y), {0})
Shr(x, n)   == {i \in 0..31 : i + n \in x}

Shl(x, n) == {i \in 0..31 : i - n \in x}

\* < of uint32_t, and of int32_t
Below(x, y)  == \E i \in y \ x : \A k \in (i + 1)..31 : k \in x <=> k \in y
BelowS(x, y) == Below(Xor(x, {31}), Xor(y, {31}))

Flag(b) == IF b THEN {0} ELSE {}

sign_extend(x, n) == IF n - 1 \in x THEN x \cup (n..31) ELSE x

-----------------------------------------------------------------------------
(* Memory and registers.                                                   *)

Address(x) == Low16(x) % MEMORY_MAX

InBounds(a, len) == a + len <= MEMORY_MAX

mem_read(m, a, len) == {i \in 0..(8 * len - 1) : i % 8 \in m[a + (i \div 8)]}

mem_write_Reversed(m, a, data, len) ==
    [b \in DOMAIN m |->
        IF b - a \in 0..(len - 1) THEN {i \in 0..7 : i + 8 * (len - 1 - (b - a)) \in data}
        ELSE IF len < 4 /\ b - a \in (4 - len)..3 THEN {}
        ELSE m[b]]

mem_write_Wide(m, a, data, len) ==
    [b \in DOMAIN m |->
        IF b - a \in 0..(len - 1) THEN {i \in 0..7 : i + 8 * (b - a) \in data}
        ELSE IF b - a \in (4 - len)..4 THEN {}
        ELSE m[b]]

\* A store of fewer than four bytes clears as many bytes again, up to the
\* fourth from the address.
mem_write(m, a, data, len) ==
    [b \in DOMAIN m |->
        IF b - a \in 0..(len - 1) THEN {i \in 0..7 : i + 8 * (b - a) \in data}
        ELSE IF len < 4 /\ b - a \in (4 - len)..3 THEN {}
        ELSE m[b]]

reg_write(r, index, value) == IF index # 0 THEN [r EXCEPT ![index] = value] ELSE r

\* reg[R_PC] += 0x4
Advance(r) == [r EXCEPT ![R_PC] = Plus(@, {2})]

-----------------------------------------------------------------------------
(* The instruction at the program counter.                                 *)

Pc == Address(reg[R_PC])

OP_R     == {0, 1, 4, 5}
OP_I     == {0, 1, 4}
OP_I_MEM == {0, 1}
OP_I_JMP == {0, 1, 2, 5, 6}
OP_U     == {0, 1, 2, 4, 5}
OP_S     == {0, 1, 5}
OP_SB    == {0, 1, 5, 6}
OP_UJ    == {0, 1, 2, 3, 5, 6}

ImmI(w) == sign_extend(Shr(w, 20), 12)
ImmS(w) == sign_extend({i \in 0..4 : i + 7 \in w} \cup {i \in 5..11 : i + 20 \in w}, 12)
ImmU(w) == Shl(sign_extend(Shr(w, 12), 12), 12)

ImmB_Short(w) ==
    LET bits == {i \in 0..3 : i + 8 \in w} \cup {i \in 4..6 : i + 21 \in w}
    IN  sign_extend(Shl(bits, 1), 13)

\* bit10to5 is an int8_t: bits 8 and 9 of what is shifted into it are lost and
\* bit 7 becomes its sign.
ImmB(w) ==
    LET bit11    == {i \in {10} : 7 \in w}
        bit4to1  == {i \in 0..3 : i + 8 \in w}
        bit10to5 == sign_extend({i \in 4..7 : i + 21 \in w}, 8)
        bit12    == {i \in {11} : 31 \in w}
    IN  sign_extend(Shl(bit12 \cup bit11 \cup bit10to5 \cup bit4to1, 1), 13)

ImmJ_Straight(w) == sign_extend(Shl(Shr(w, 12), 1), 19)

\* The offset has 21 bits but its sign is taken from bit 18.
ImmJ(w) ==
    LET byte1 == {i \in {19} : 31 \in w}
        byte2 == {i \in 0..9 : i + 21 \in w}
        byte3 == {i \in {10} : 20 \in w}
        byte4 == {i \in 11..18 : i + 1 \in w}
    IN  sign_extend(Shl(byte1 \cup byte2 \cup byte3 \cup byte4, 1), 19)

\* The fields that the cases of main() cut out of an instruction, and the
\* address that it has if it is a load or a store.
Decode(w) ==
    [word |-> w, opcode |-> w \cap (0..6),
     rd |-> Index(w, 7), rs1 |-> Index(w, 15), rs2 |-> Index(w, 20),
     func3 |-> Bit(w, 12, 1) + Bit(w, 13, 2) + Bit(w, 14, 4), func7 |-> Shr(w, 25),
     load |-> Plus(reg[Index(w, 15)], ImmI(w)), store |-> Plus(reg[Index(w, 15)], ImmS(w))]

Inst == Decode(mem_read(memory, Pc, 4))

-----------------------------------------------------------------------------
(* main().                                                                 *)

Init ==
    /\ file \in Programs
    /\ memory \in {[a \in 0..(MEMORY_MAX - 1) |-> g] : g \in Garbage}
    /\ reg = [i \in 0..32 |-> {}]
    /\ console = <<>>
    /\ status = "loading"

Crash ==
    /\ status' = "crashed"
    /\ UNCHANGED <<file, memory, reg, console>>

\* fread() byte by byte to the end of the file
Load ==
    /\ status = "loading"
    /\ Len(file) <= MEMORY_MAX
    /\ memory' = [a \in DOMAIN memory |-> IF a < Len(file) THEN file[a + 1] ELSE memory[a]]
    /\ status' = "running"
    /\ UNCHANGED <<file, reg, console>>

LoadTooLong ==
    /\ status = "loading"
    /\ Len(file) > MEMORY_MAX
    /\ Crash

Fetched == status = "running" /\ Len(console) < MaxConsole /\ InBounds(Pc, 4)

FetchPastEnd ==
    /\ status = "running" /\ Len(console) < MaxConsole
    /\ ~InBounds(Pc, 4)
    /\ Crash

\* The value of func3 5 is written by case SRL_FUNC3, which has no break and
\* goes on with SLT_FUNC3.
Shifted(inst, r) ==
    LET shift == Shr(r[inst.rs1], Index(r[inst.rs2], 0))
    IN  CASE inst.func7 = {}  -> reg_write(r, inst.rd, shift)
          [] inst.func7 = {5} -> reg_write(r, inst.rd, shift \cup Minus({5}, r[inst.rs2]))
          [] OTHER            -> r

ResultR(inst, r) ==
    LET x == r[inst.rs1]
        y == r[inst.rs2]
        s == Shifted(inst, r)
    IN  CASE inst.func3 = 0 /\ inst.func7 = {}  -> reg_write(r, inst.rd, Plus(x, y))
          [] inst.func3 = 0 /\ inst.func7 = {5} -> reg_write(r, inst.rd, Minus(x, y))
          [] inst.func3 = 1 -> reg_write(r, inst.rd, Shl(x, Index(y, 0)))
          [] inst.func3 = 2 -> reg_write(r, inst.rd, Flag(BelowS(x, y)))
          [] inst.func3 = 3 -> reg_write(r, inst.rd, Flag(Below(x, y)))
          [] inst.func3 = 4 -> reg_write(r, inst.rd, Xor(x, y))
          [] inst.func3 = 5 -> reg_write(s, inst.rd, Flag(BelowS(s[inst.rs1], s[inst.rs2])))
          [] inst.func3 = 6 -> reg_write(r, inst.rd, x \cup y)
          [] inst.func3 = 7 -> reg_write(r, inst.rd, x \cap y)
          [] OTHER          -> r

OpR(inst) ==
    /\ inst.opcode = OP_R
    /\ reg' = Advance(ResultR(inst, reg))
    /\ UNCHANGED <<file, memory, console, status>>

\* SLTI compares as unsigned; SLTIU cuts the immediate to 16 bits.
ResultI(inst, r) ==
    LET x   == r[inst.rs1]
        imm == ImmI(inst.word)
    IN  CASE inst.func3 = 0 -> reg_write(r, inst.rd, Plus(x, imm))
          [] inst.func3 = 2 -> reg_write(r, inst.rd, Flag(Below(x, imm)))
          [] inst.func3 = 3 -> reg_write(r, inst.rd, Flag(Below(x, imm \cap (0..15))))
          [] inst.func3 = 4 -> reg_write(r, inst.rd, Xor(x, imm))
          [] inst.func3 = 6 -> reg_write(r, inst.rd, x \cup imm)
          [] inst.func3 = 7 -> reg_write(r, inst.rd, x \cap imm)
          [] OTHER          -> r

OpI(inst) ==
    /\ inst.opcode = OP_I
    /\ reg' = Advance(ResultI(inst, reg))
    /\ UNCHANGED <<file, memory, console, status>>

VIR_W_CHAR   == {11}
VIR_W_INT    == {2, 11}
VIR_W_UINT   == {3, 11}
VIR_HALT     == {2, 3, 11}
VIR_R_CHAR   == {1, 4, 11}
VIR_R_INT    == {1, 2, 4, 11}
VIR_DUMP_PC  == {5, 11}
VIR_DUMP_REG == {2, 5, 11}
VIR_DUMP_MEM == {3, 5, 11}

LoadSize  == [f \in {0, 1, 2, 4, 5} |-> CASE f \in {0, 4} -> 1 [] f \in {1, 5} -> 2 [] f = 2 -> 4]
StoreSize == [f \in {0, 1, 2} |-> CASE f = 0 -> 1 [] f = 1 -> 2 [] f = 2 -> 4]

\* getchar() gives a character or EOF, -1.
ReadChar(inst) ==
    /\ inst.opcode = OP_I_MEM /\ inst.load = VIR_R_CHAR
    /\ \E c \in Chars \cup {0..31} :
           /\ reg' = Advance(reg_write(reg, inst.rd, c))
           /\ console' = Append(console, <<"char read", c>>)
    /\ UNCHANGED <<file, memory, status>>

\* scanf() stores a number, or leaves the register alone.
ReadInt(inst) ==
    /\ inst.opcode = OP_I_MEM /\ inst.load = VIR_R_INT
    /\ IF inst.rd = 0
       THEN reg' = Advance(reg) /\ UNCHANGED console
       ELSE \/ \E n \in Ints : /\ reg' = Advance([reg EXCEPT ![inst.rd] = n])
                               /\ console' = Append(console, <<"int read", n>>)
            \/ /\ reg' = Advance(reg)
               /\ console' = Append(console, <<"no int", {}>>)
    /\ UNCHANGED <<file, memory, status>>

Loaded(inst, f) ==
    LET data == mem_read(memory, Address(inst.load), LoadSize[f])
    IN  IF f \in {0, 1} THEN sign_extend(data, 8 * LoadSize[f]) ELSE data

LoadMemory(inst) ==
    /\ inst.opcode = OP_I_MEM /\ inst.load \notin {VIR_R_CHAR, VIR_R_INT}
    /\ IF inst.func3 \in DOMAIN LoadSize
       THEN /\ InBounds(Address(inst.load), LoadSize[inst.func3])
            /\ reg' = Advance(reg_write(reg, inst.rd, Loaded(inst, inst.func3)))
       ELSE reg' = Advance(reg)
    /\ UNCHANGED <<file, memory, console, status>>

LoadPastEnd(inst) ==
    /\ inst.opcode = OP_I_MEM /\ inst.load \notin {VIR_R_CHAR, VIR_R_INT}
    /\ inst.func3 \in DOMAIN LoadSize /\ ~InBounds(Address(inst.load), LoadSize[inst.func3])
    /\ Crash

\* jalr: rd is written before rs1 is read.
OpIJmp(inst) ==
    /\ inst.opcode = OP_I_JMP
    /\ LET r == reg_write(reg, inst.rd, Plus(reg[R_PC], {2}))
       IN  reg' = [r EXCEPT ![R_PC] = Plus(r[inst.rs1], ImmI(inst.word))]
    /\ UNCHANGED <<file, memory, console, status>>

OpU(inst) ==
    /\ inst.opcode = OP_U
    /\ reg' = Advance(reg_write(reg, inst.rd, ImmU(inst.word)))
    /\ UNCHANGED <<file, memory, console, status>>

Written_Narrow(inst) ==
    IF inst.store = VIR_DUMP_REG THEN <<"registers", reg>> ELSE <<"int", reg[inst.rs2] \cap (0..15)>>

\* What a store to a virtual routine writes.
Written(inst) ==
    LET w == reg[inst.rs2]
    IN  CASE inst.store = VIR_W_CHAR   -> <<"char", w \cap (0..7)>>
          [] inst.store = VIR_W_INT    -> <<"int", w>>
          [] inst.store = VIR_W_UINT   -> <<"hex", w>>
          [] inst.store = VIR_DUMP_PC  -> <<"hex", reg[R_PC]>>
          [] inst.store = VIR_DUMP_REG -> <<"registers", reg>>
          [] inst.store = VIR_DUMP_MEM -> <<"hex", mem_read(memory, Address(w), 1)>>

Writers == {VIR_W_CHAR, VIR_W_INT, VIR_W_UINT, VIR_DUMP_PC, VIR_DUMP_REG, VIR_DUMP_MEM}

Write(inst) ==
    /\ inst.opcode = OP_S /\ inst.store \in Writers
    /\ console' = Append(console, Written(inst))
    /\ reg' = Advance(reg)
    /\ UNCHANGED <<file, memory, status>>

Halt(inst) ==
    /\ inst.opcode = OP_S /\ inst.store = VIR_HALT
    /\ status' = "halted"
    /\ UNCHANGED <<file, memory, reg, console>>

StoreMemory(inst) ==
    /\ inst.opcode = OP_S /\ inst.store \notin Writers \cup {VIR_HALT}
    /\ IF inst.func3 \in DOMAIN StoreSize
       THEN /\ InBounds(Address(inst.store), 4)
            /\ memory' = mem_write(memory, Address(inst.store), reg[inst.rs2], StoreSize[inst.func3])
       ELSE UNCHANGED memory
    /\ reg' = Advance(reg)
    /\ UNCHANGED <<file, console, status>>

StorePastEnd(inst) ==
    /\ inst.opcode = OP_S /\ inst.store \notin Writers \cup {VIR_HALT}
    /\ inst.func3 \in DOMAIN StoreSize /\ ~InBounds(Address(inst.store), 4)
    /\ Crash

\* All comparisons of branches are unsigned; func3 5 and 7 test for greater.
Taken(inst, x, y) ==
    CASE inst.func3 = 0        -> x = y
      [] inst.func3 = 1        -> x # y
      [] inst.func3 \in {4, 6} -> Below(x, y)
      [] inst.func3 \in {5, 7} -> Below(y, x)

\* func3 2 and 3 leave the program counter alone: the machine hangs.
OpSB(inst) ==
    /\ inst.opcode = OP_SB
    /\ reg' = IF inst.func3 \in {2, 3} THEN reg
              ELSE IF Taken(inst, reg[inst.rs1], reg[inst.rs2]) THEN [reg EXCEPT ![R_PC] = Plus(@, ImmB(inst.word))]
              ELSE Advance(reg)
    /\ UNCHANGED <<file, memory, console, status>>

OpUJ(inst) ==
    /\ inst.opcode = OP_UJ
    /\ LET r == reg_write(reg, inst.rd, Plus(reg[R_PC], {2}))
       IN  reg' = [r EXCEPT ![R_PC] = Plus(@, ImmJ(inst.word))]
    /\ UNCHANGED <<file, memory, console, status>>

Implemented == {OP_R, OP_I, OP_I_MEM, OP_I_JMP, OP_U, OP_S, OP_SB, OP_UJ}

\* A line is printed and the same instruction is fetched again.
NotImplemented(inst) ==
    /\ inst.opcode \notin Implemented
    /\ UNCHANGED vvars

\* The process has ended, or the run is not followed further.
Ended ==
    /\ status \in {"halted", "crashed"} \/ Len(console) = MaxConsole
    /\ UNCHANGED vvars

OpIMem(inst) == ReadChar(inst) \/ ReadInt(inst) \/ LoadMemory(inst) \/ LoadPastEnd(inst)

OpS(inst) == Write(inst) \/ Halt(inst) \/ StoreMemory(inst) \/ StorePastEnd(inst)

Execute(inst) ==
    \/ OpR(inst) \/ OpI(inst) \/ OpIMem(inst) \/ OpIJmp(inst) \/ OpU(inst)
    \/ OpS(inst) \/ OpSB(inst) \/ OpUJ(inst) \/ NotImplemented(inst)

Step == Fetched /\ \E inst \in {Decode(w) : w \in {mem_read(memory, Pc, 4)}} : Execute(inst)

Next == Load \/ LoadTooLong \/ FetchPastEnd \/ Step \/ Ended

Spec == Init /\ [][Next]_vvars

\* The machine is one thread, and goes on while it can.
FairSpec == Spec /\ WF_vvars(Next)

-----------------------------------------------------------------------------
(* Properties.                                                             *)

Registers == [0..32 -> Word]

Items ==
    ({"char read", "int read", "no int", "char", "int", "hex"} \X Word) \cup ({"registers"} \X Registers)

\* Registers, the program counter included, and memory hold words and bytes,
\* whatever instructions are met.
VTypeOK ==
    /\ file \in Programs
    /\ memory \in [0..(MEMORY_MAX - 1) -> Byte]
    /\ reg \in Registers
    /\ console \in Seq(Items) /\ Len(console) <= MaxConsole
    /\ status \in {"loading", "running", "halted", "crashed"}

\* Register 0 reads as zero at all times: no instruction and no console read
\* gets past the test of reg_write() and the one before scanf().
ZeroRegister == reg[0] = {}

Storing == status = "running" /\ InBounds(Pc, 4) /\ Inst.opcode = OP_S

\* A store can be read back: a load of the same size from the same address
\* finds the low bytes of the register, the clearing of mem_write() included.
StoredIsRead ==
    [][(Storing /\ Inst.store \notin Writers /\ Inst.func3 \in DOMAIN StoreSize /\ status' = "running") =>
          mem_read(memory', Address(Inst.store), StoreSize[Inst.func3])
              = reg[Inst.rs2] \cap (0..(8 * StoreSize[Inst.func3] - 1))]_vvars

\* Once the program is loaded memory changes only by stores, and only in the
\* four bytes from the address; a store to a virtual routine changes none.
StoresStayLocal ==
    [][status = "running" /\ memory' # memory =>
          /\ Storing /\ Inst.store \notin Writers
          /\ \A a \in DOMAIN memory : memory'[a] # memory[a] => a - Address(Inst.store) \in 0..3]_vvars

\* The 13-bit offset that the encoding of a branch stands for.
BranchOffset ==
    LET bits == {i \in 1..4 : i + 7 \in Inst.word} \cup {i \in 5..10 : i + 20 \in Inst.word}
                  \cup {i \in {11} : 7 \in Inst.word}
    IN  IF 31 \in Inst.word THEN bits \cup (12..31) ELSE bits

\* A branch whose offset is between -256 and 254 goes to its target or to the
\* next instruction, or hangs; beq and bne go to the target when they should.
\* Farther ones may not: bit10to5 is too narrow.
ShortBranchesLand ==
    [][(status = "running" /\ InBounds(Pc, 4) /\ Inst.opcode = OP_SB /\ 8..31 \cap BranchOffset \in {{}, 8..31}) =>
          LET next   == Plus(reg[R_PC], {2})
              target == Plus(reg[R_PC], BranchOffset)
              equal  == reg[Inst.rs1] = reg[Inst.rs2]
          IN  /\ reg'[R_PC] \in {reg[R_PC], next, target}
              /\ Inst.func3 = 0 => reg'[R_PC] = IF equal THEN target ELSE next
              /\ Inst.func3 = 1 => reg'[R_PC] = IF equal THEN next ELSE target]_vvars

\* The 21-bit offset that the encoding of a jump stands for.
JumpOffset ==
    LET bits == {i \in 1..10 : i + 20 \in Inst.word} \cup {i \in {11} : 20 \in Inst.word}
                  \cup {i \in 12..19 : i \in Inst.word}
    IN  IF 31 \in Inst.word THEN bits \cup (20..31) ELSE bits

\* A jump fetches its next instruction where the encoding says, and links the
\* instruction behind it, although its sign is taken from the wrong bit.
JumpsLand ==
    [][(status = "running" /\ InBounds(Pc, 4) /\ Inst.opcode = OP_UJ) =>
          /\ Address(reg'[R_PC]) = Address(Plus(reg[R_PC], JumpOffset))
          /\ Inst.rd # 0 => reg'[Inst.rd] = Plus(reg[R_PC], {2})]_vvars
=============================================================================
