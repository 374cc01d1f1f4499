-------------------------------- MODULE MicroCode --------------------------------
(***************************************************************************)
(* The compiler and the simulator of uCode, the Forth in which the         *)
(* processor of the FPGA implementation is programmed                      *)
(* (src/fpga/ucode/ucode.js, ucode_sim.js and ucode_sim_cli.js).           *)
(*                                                                         *)
(* The compiler reads one token per step and writes the program as it      *)
(* goes.  Control words leave placeholders that later ones patch, through  *)
(* a stack of contexts; `;' folds an exit into the word before it, or      *)
(* turns a call into a jump, from what it remembers of the last token.     *)
(* The machine executes one 16-bit instruction per step over two stacks    *)
(* of fixed depth, whose bottom is copied when they are popped, while the  *)
(* UART of the simulator transmits and receives as the host pleases.       *)
(*                                                                         *)
(* Left out: positions and the text of errors, warnings of unused words,   *)
(* printing and disassembly, statistics, and the devices other than the    *)
(* UART.  The simulator runs up to 1000 instructions between two turns of  *)
(* the host; here the host may act between any two.                        *)
(***************************************************************************)
EXTENDS Integers, Sequences, SequencesExt, FiniteSetsExt, TLC

CONSTANTS
    Texts,                  \* the programs: sequences of sequences of tokens
    Depth,                  \* of a stack: 12 in the code
    Typed                   \* the characters that the host types

ASSUME DepthAssumption == Depth \in Nat \ {0, 1, 2}

VARIABLES
    which, text, pos,       \* the text, and next_char's place in it
    phase,                  \* "compile", "run", "refused", "stopped"
    prog,                   \* the program: a function of its addresses
    ctrlCtx, tailCtx, words,                    \* of the compiler
    pc, dstack, rstack, cells,                  \* of the machine; cells: gcc, qram, qrom
    typed, readQueue, rxData, writeQueue, writing, shown,  \* of the UART
    lost                    \* a character was stored while it transmitted

compiler == <<text, pos, ctrlCtx, tailCtx, words>>
uart == <<readQueue, rxData, writeQueue, writing, lost>>
host == <<typed, shown>>
mach == <<pc, dstack, rstack, cells>>
micro == <<which, phase, prog, compiler, mach, uart, host>>

Undefined == -1             \* what JavaScript reads where nothing was written

-----------------------------------------------------------------------------
(* Instructions that hold an address.                                      *)
ADDR == 4096
Jump(addr) == \h8000 + (addr % ADDR)
Jz(addr) == \h9000 + (addr % ADDR)
JnzInc(addr) == \hA000 + (addr % ADDR)
JnzDec(addr) == \hB000 + (addr % ADDR)
Call(addr) == \hC000 + (addr % ADDR)
IsAuto(word) == word \div ADDR \in {\hA, \hB}
Fixup(word, addr) == word - (word % ADDR) + (addr % ADDR)

UC_LIT == \h021F
UC_CONST == \h521F
UC_TO_R == \h2100
UC_R_FETCH == \h0280
UC_EXIT == \h5000

Codes ==
    <<<<"NOP", \h0000>>, <<"DEBUG", \h00F0>>, <<"RESET", \h11F0>>, <<"DROP", \h0100>>,
      <<"DUP", \h0200>>, <<"SWAP", \h0400>>, <<"OVER", \h0240>>, <<"ROT", \h0500>>,
      <<"-ROT", \h0600>>, <<"0", \h02C0>>, <<"1", \h02D6>>, <<"-1", \h02F6>>, <<"TRUE", \h02F6>>,
      <<"FALSE", \h02C0>>, <<"LSB", \h02D6>>, <<"MSB", \h02E6>>, <<"LSB&", \h0314>>,
      <<"MSB&", \h0324>>, <<"LSB|", \h0316>>, <<"MSB|", \h0326>>, <<"INVERT", \h0335>>,
      <<"NEGATE", \h03C2>>, <<"+", \h0741>>, <<"-", \h0742>>, <<"*", \h0743>>, <<"AND", \h0744>>,
      <<"XOR", \h0745>>, <<"OR", \h0746>>, <<"ROL", \h0307>>, <<"2ROL", \h0308>>,
      <<"4ROL", \h0309>>, <<"8ROL", \h030A>>, <<"ASR", \h030B>>, <<"2ASR", \h030C>>,
      <<"4ASR", \h030D>>, <<"1+", \h0311>>, <<"1-", \h0312>>, <<"2*", \h0301>>, <<"2/", \h030B>>,
      <<"@", \h030F>>, <<"!", \h098F>>, <<"IO@", \h033F>>, <<"IO!", \h09BF>>, <<"QT@", \h034F>>,
      <<"QT!", \h09CF>>, <<"QX@", \h035F>>, <<"QX!", \h09DF>>, <<"QY@", \h036F>>,
      <<"QY!", \h09EF>>, <<"QZ@", \h037F>>, <<"QZ!", \h09FF>>, <<"GCC@", \h032F>>,
      <<"GCC!", \h09AF>>, <<">R", \h2100>>, <<"R>", \h1280>>, <<"R@", \h0280>>,
      <<"RDROP", \h1000>>, <<"FAIL", \h000E>>, <<"#?", \h02C0>>, <<"#nil", \h02D6>>,
      <<"#0", \h02E6>>, <<"#-1", \h02F6>>, <<"is_fix", \h0324>>, <<"int2fix", \h0326>>,
      <<"EXIT", UC_EXIT>> >>
Primitives ==
    [w \in {Codes[i][1] : i \in DOMAIN Codes} |->
        Codes[CHOOSE i \in DOMAIN Codes : Codes[i][1] = w][2]]

Directives ==
    {":", ",", "CONSTANT", "VARIABLE", "SKZ", "BEGIN", "UNTIL", "WHILE", "REPEAT",
     "?LOOP-", "?LOOP+", "I", "AGAIN", "IF", "ELSE", "THEN", ";"}

-----------------------------------------------------------------------------
(* The compiler.  A token is <<"word", name>> or <<"num", number>>.        *)
Reading == phase = "compile" /\ pos <= Len(text)
Is(w) == Reading /\ text[pos][1] = "word" /\ text[pos][2] = w
Named == text[pos + 1][2]                       \* the token after the directive
Here == Cardinality(DOMAIN prog)                \* prog.length
Known(name) == name \in DOMAIN words \cup DOMAIN Primitives \cup Directives
WordOf(name) == IF name \in DOMAIN words THEN words[name] ELSE Primitives[name]
Emitted(codes) == prog @@ [a \in Here..(Here + Len(codes) - 1) |-> codes[a - Here + 1]]
Patched(p, addr, word) == [p EXCEPT ![addr] = word]

(* The contexts: popping an empty stack gives undefined, whose address     *)
(* and kind are those of zero.                                             *)
Ctrl == IF ctrlCtx = <<>> THEN 0 ELSE Last(ctrlCtx)
CtrlAddr == Ctrl % ADDR
Outer == IF ctrlCtx = <<>> THEN <<>> ELSE Front(ctrlCtx)

(* What every token leaves behind: the program, the contexts, the words,   *)
(* the kind of the last token, and the number of tokens read.              *)
Compiled(p, ctrl, ws, tail, tokens) ==
    /\ prog' = p /\ ctrlCtx' = ctrl /\ words' = ws /\ tailCtx' = tail
    /\ pos' = pos + tokens
    /\ UNCHANGED <<which, text, phase, mach, uart, host>>
Control(p, ctrl) == Compiled(p, ctrl, words, "none", 1)

(* The tokens that are refused.                                            *)
Refused ==
    \/ Is(":") /\ Known(Named)
    \/ Is("VARIABLE") /\ Known(Named)
    \/ Is("CONSTANT") /\ (Known(Named) \/ tailCtx # "data")
    \/ Is(",") /\ tailCtx # "data"
    \/ Is("I") /\ ~ IsAuto(Ctrl)
    \/ Is(";") /\ \E i \in DOMAIN ctrlCtx : IsAuto(ctrlCtx[i])
    \/ Reading /\ text[pos][1] = "word" /\ ~ Known(text[pos][2]) /\ text[pos][2] # "("

Refuse ==
    /\ Refused
    /\ phase' = "refused"
    /\ UNCHANGED <<which, prog, compiler, mach, uart, host>>

Define ==
    /\ Is(":") /\ ~ Refused
    /\ Compiled(Patched(prog, 0, Call(Here)), ctrlCtx, (Named :> Call(Here)) @@ words, "none", 2)

Variable ==
    /\ Is("VARIABLE") /\ ~ Refused
    /\ Compiled(Emitted(<<UC_CONST, Here + 2, 0>>), ctrlCtx,
                (Named :> Call(Here)) @@ words, "none", 2)

Constant ==                                     \* the literal becomes a procedure
    /\ Is("CONSTANT") /\ ~ Refused
    /\ Compiled(Patched(prog, Here - 2, UC_CONST), ctrlCtx,
                (Named :> Call(Here - 2)) @@ words, "none", 2)

Allot ==                                        \* the literal becomes its number
    /\ Is(",") /\ ~ Refused
    /\ Control([a \in 0..(Here - 2) |-> IF a = Here - 2 THEN prog[Here - 1] ELSE prog[a]], ctrlCtx)

Skz == Is("SKZ") /\ Control(Emitted(<<Jz(Here + 2)>>), ctrlCtx)
Begin == Is("BEGIN") /\ Control(prog, Append(ctrlCtx, Jump(Here)))
Until == Is("UNTIL") /\ Control(Emitted(<<Jz(CtrlAddr)>>), Outer)
While == Is("WHILE") /\ Control(Emitted(<<Jz(CtrlAddr)>>), Append(Outer, Jz(Here)))
Repeat ==
    /\ Is("REPEAT")
    /\ Control(Patched(Emitted(<<Jump(prog[CtrlAddr])>>), CtrlAddr, Jz(Here + 1)), Outer)

Count(w, Jnz(_)) ==
    Is(w) /\ Control(Emitted(<<UC_TO_R, Jnz(Here + 1)>>), Append(ctrlCtx, Jnz(Here + 1)))
LoopDown == Count("?LOOP-", JnzDec)
LoopUp == Count("?LOOP+", JnzInc)
Index == Is("I") /\ ~ Refused /\ Control(Emitted(<<UC_R_FETCH>>), ctrlCtx)
Again ==
    /\ Is("AGAIN")
    /\ Control(IF IsAuto(Ctrl)
               THEN Patched(Emitted(<<Fixup(Ctrl, CtrlAddr + 1)>>), CtrlAddr, Jump(Here))
               ELSE Emitted(<<Jump(CtrlAddr)>>),
               Outer)

If == Is("IF") /\ Control(Emitted(<<Jz(Here)>>), Append(ctrlCtx, Jz(Here)))
Else ==
    /\ Is("ELSE")
    /\ Control(Patched(Emitted(<<Jump(Here)>>), CtrlAddr, Jz(Here + 1)),
               Append(Outer, Jump(Here)))
Then == Is("THEN") /\ Control(Patched(prog, CtrlAddr, Fixup(Ctrl, Here)), Outer)

Return ==
    /\ Is(";") /\ ~ Refused
    /\ Control(CASE tailCtx = "eval" -> Patched(prog, Here - 1, prog[Here - 1] + UC_EXIT)
                 [] tailCtx = "call" -> Patched(prog, Here - 1, prog[Here - 1] - \h4000)
                 [] OTHER -> Emitted(<<UC_EXIT>>),
               ctrlCtx)

(* A comment ends where its parentheses are balanced, or with the text.    *)
Comment ==
    LET Parens(p, j) == Cardinality({i \in pos..j : text[i] = <<"word", p>>})
        ends == {j \in pos..Len(text) : Parens("(", j) = Parens(")", j)}
    IN  /\ Is("(")
        /\ Compiled(prog, ctrlCtx, words, tailCtx,
                    (IF ends = {} THEN Len(text) ELSE Min(ends)) - pos + 1)

Word ==
    /\ Reading /\ text[pos][1] = "word" /\ text[pos][2] \in DOMAIN words \cup DOMAIN Primitives
    /\ LET word == WordOf(text[pos][2])
       IN  Compiled(Emitted(<<word>>), ctrlCtx, words,
                    CASE word \div ADDR = \hC -> "call"
                      [] word \div ADDR = 0 -> "eval"
                      [] OTHER -> "none", 1)

Number ==
    /\ Reading /\ text[pos][1] = "num"
    /\ Compiled(Emitted(<<UC_LIT, text[pos][2] % 65536>>), ctrlCtx, words, "data", 1)

EndOfText ==
    /\ phase = "compile" /\ pos > Len(text)
    /\ phase' = "run"
    /\ UNCHANGED <<which, prog, compiler, mach, uart, host>>

Compile ==
    \/ Refuse \/ Define \/ Variable \/ Constant \/ Allot \/ Skz \/ Begin \/ Until \/ While
    \/ Repeat \/ LoopDown \/ LoopUp \/ Index \/ Again \/ If \/ Else \/ Then \/ Return
    \/ Comment \/ Word \/ Number \/ EndOfText

-----------------------------------------------------------------------------
(* The stacks.  A pop copies the bottom, a push loses it.                  *)
Empty == [i \in 1..Depth |-> Undefined]
Perform(s, se, data) ==
    CASE se = 1 -> Append(Tail(s), s[Depth])                            \* DROP
      [] se = 2 -> <<data>> \o Front(s)                                 \* PUSH
      [] se = 3 -> [s EXCEPT ![1] = data]                               \* RPLC
      [] se = 4 -> [s EXCEPT ![1] = s[2], ![2] = s[1]]                  \* SWAP
      [] se = 5 -> [s EXCEPT ![1] = s[3], ![2] = s[1], ![3] = s[2]]     \* ROT3
      [] se = 6 -> [s EXCEPT ![1] = s[2], ![2] = s[3], ![3] = s[1]]     \* RROT
      [] se = 7 -> <<data>> \o SubSeq(s, 3, Depth) \o <<s[Depth]>>      \* ALU2
      [] OTHER -> s

(* Numbers as sets of bits, and what the ALU makes of them.                *)
Bits(n) == {i \in 0..15 : (n \div 2^i) % 2 = 1}
FromBits(S) == MapThenSumSet(LAMBDA i : 2^i, S)
Rol(n, k) == (n * 2^k + n \div 2^(16 - k)) % 65536
Asr(n, k) == n \div 2^k + (IF n >= \h8000 THEN 65536 - 2^(16 - k) ELSE 0)
Val(v) == IF v = Undefined THEN 0 ELSE v        \* as an operand of a bitwise operator

Alu(op, a, b) ==
    LET x == Val(a)
        y == Val(b)
        nan == Undefined \in {a, b}
    IN  CASE op = 0 -> x
          [] op = 1 -> IF nan THEN 0 ELSE (x + y) % 65536
          [] op = 2 -> IF nan THEN 0 ELSE (x - y) % 65536
          [] op = 3 -> IF nan THEN 0
                       ELSE (x * (y % 256) + ((x * (y \div 256)) % 256) * 256) % 65536
          [] op = 4 -> FromBits(Bits(x) \cap Bits(y))
          [] op = 5 -> FromBits((Bits(x) \cup Bits(y)) \ (Bits(x) \cap Bits(y)))
          [] op = 6 -> FromBits(Bits(x) \cup Bits(y))
          [] op \in 7..10 -> Rol(x, 2^(op - 7))
          [] op \in 11..13 -> Asr(x, 2^(op - 11))

-----------------------------------------------------------------------------
(* The instruction to be executed, and its parts.                          *)
Fetched == prog[pc]
Running(class) ==
    /\ phase = "run" /\ pc \in DOMAIN prog /\ Fetched # Undefined
    /\ class = (CASE Fetched = \h11F0 -> "reset"
                  [] Fetched # \h11F0 /\ Fetched >= \h8000 -> "control"
                  [] Fetched # \h11F0 /\ Fetched < \h8000 /\ Fetched % 16 = 14 -> "fail"
                  [] Fetched # \h11F0 /\ Fetched < \h8000 /\ Fetched % 16 = 15 -> "memory"
                  [] OTHER -> "evaluate")
RPc == (Fetched \div \h4000) % 2 = 1
RSe == (Fetched \div \h1000) % 4
DSe == (Fetched \div \h0100) % 8
Tos == dstack[1]
Nos == dstack[2]
Tors == rstack[1]
Field(lo, width) == (Fetched \div 2^lo) % 2^width

Stop ==
    /\ phase' = "stopped"
    /\ UNCHANGED <<which, prog, compiler, dstack, rstack, cells, uart, host>>

Reset ==
    /\ Running("reset")
    /\ dstack' = Empty /\ rstack' = Empty /\ pc' = pc + 1
    /\ UNCHANGED <<which, phase, prog, compiler, cells, uart, host>>

Fail ==                                         \* also outside the program
    /\ \/ Running("fail") /\ pc' = pc + 1
       \/ Running("control") /\ RPc /\ RSe \in {2, 3} /\ pc' = pc + 1
       \/ phase = "run" /\ (IF pc \in DOMAIN prog THEN Fetched = Undefined ELSE TRUE) /\ pc' = pc
    /\ Stop

(* Jumps and calls, and the branches that count on the return stack.       *)
Branch ==
    /\ Running("control")
    /\ \/ /\ RSe \in {0, 1}
          /\ pc' = IF RSe = 0 \/ Tos = 0 THEN Fetched % ADDR ELSE pc + 1
          /\ dstack' = Perform(dstack, RSe, 0)
          /\ rstack' = Perform(rstack, IF RPc THEN 2 ELSE 0, pc + 1)
       \/ /\ RSe \in {2, 3} /\ ~ RPc
          /\ pc' = IF Tors = 0 THEN pc + 1 ELSE Fetched % ADDR
          /\ rstack' = IF Tors = 0 THEN Perform(rstack, 1, 0)
                       ELSE Perform(rstack, 3, Alu(RSe - 1, Tors, 1))
          /\ UNCHANGED dstack
    /\ UNCHANGED <<which, phase, prog, compiler, cells, uart, host>>

(* After the result of an evaluation or of a memory operation.             *)
Finish(result, skip, stack) ==
    /\ pc' = IF RPc THEN Val(Tors) % ADDR ELSE pc + 1 + skip
    /\ dstack' = Perform(stack, DSe, result)
    /\ rstack' = Perform(rstack, RSe, result)

Evaluate ==
    /\ Running("evaluate")
    /\ Finish(Alu(Fetched % 16, <<Tos, Nos, Tors, 0>>[Field(6, 2) + 1],
                              <<Tos, 1, \h8000, \hFFFF>>[Field(4, 2) + 1]), 0, dstack)
    /\ UNCHANGED <<which, phase, prog, compiler, cells, uart, host>>

(* Memory: the program itself, the data after the instruction, the         *)
(* collector's marks and the quads; a cell that was never written holds    *)
(* what the machine was made with.                                         *)
IsWrite == Field(7, 1) = 1
MemRange == Field(4, 3)
Cell(range, addr) ==
    CASE range = 2 -> <<"gcc", addr % 4096, 0>>
      [] range >= 4 /\ addr \div \h4000 = 1 -> <<"ram", addr % 4096, range - 4>>
      [] range >= 4 /\ addr \div \h4000 = 0 -> <<"rom", addr % 8192, range - 4>>
      [] OTHER -> <<"none", 0, 0>>
Held(cell) ==
    IF cell \in DOMAIN cells THEN cells[cell] ELSE IF cell[1] \in {"ram", "rom"} THEN \hDEAD ELSE 0
Stored(p, addr) == IF addr \in DOMAIN p THEN p[addr] ELSE Undefined

(* An access that gives undefined is given up before the stacks change.    *)
Memory ==
    LET addr == Val(Tos)
        cell == Cell(MemRange, addr)
        result == CASE MemRange = 1 -> Stored(prog, pc + 1)
                    [] IsWrite -> Nos
                    [] MemRange = 0 -> Stored(prog, addr % ADDR)
                    [] OTHER -> Held(cell)
    IN  /\ Running("memory") /\ MemRange # 3
        /\ prog' = IF IsWrite /\ MemRange = 0 THEN ((addr % ADDR) :> Nos) @@ prog ELSE prog
        /\ cells' = IF IsWrite /\ MemRange \in {2} \cup 4..7 /\ cell[1] # "none"
                    THEN (cell :> Nos) @@ cells ELSE cells
        /\ IF result = Undefined
           THEN pc' = pc + 1 /\ UNCHANGED <<dstack, rstack>>
           ELSE Finish(result, IF MemRange = 1 THEN 1 ELSE 0,
                       IF IsWrite THEN Perform(dstack, 1, 0) ELSE dstack)
        /\ UNCHANGED <<which, phase, compiler, uart, host>>

-----------------------------------------------------------------------------
(* The UART, at devices 0 and 1.                                           *)
Bool(b) == IF b THEN 255 ELSE 0
IsUart == (Val(Tos) \div 16) % 16 \in {0, 1}
Reg == Val(Tos) % 16

DeviceRead ==
    /\ Running("memory") /\ MemRange = 3 /\ ~ IsWrite /\ IsUart
    /\ LET got == IF readQueue # <<>> THEN Head(readQueue) ELSE rxData
           result == CASE Reg = 0 -> Bool(~ writing)
                       [] Reg = 2 -> Bool(readQueue # <<>>)
                       [] Reg = 3 -> got
                       [] OTHER -> 0
       IN  /\ IF Reg = 3 /\ readQueue # <<>>
              THEN readQueue' = Tail(readQueue) /\ rxData' = got
              ELSE UNCHANGED <<readQueue, rxData>>
           /\ Finish(result, 0, dstack)
    /\ UNCHANGED <<which, phase, prog, compiler, cells, writeQueue, writing, lost, host>>

DeviceWrite ==                                  \* overflow ignored
    /\ Running("memory") /\ MemRange = 3 /\ IsWrite /\ IsUart
    /\ writeQueue' = IF Reg = 1 /\ ~ writing THEN Append(writeQueue, Nos) ELSE writeQueue
    /\ lost' = (lost \/ (Reg = 1 /\ writing))
    /\ IF Nos = Undefined THEN pc' = pc + 1 /\ UNCHANGED <<dstack, rstack>>
       ELSE Finish(Nos, 0, Perform(dstack, 1, 0))
    /\ UNCHANGED <<which, phase, prog, compiler, cells, readQueue, rxData, writing, host>>

NoDevice == Running("memory") /\ MemRange = 3 /\ ~ IsUart /\ pc' = pc + 1 /\ Stop

(* The host: the timer of write(), the end of its promise, and input.      *)
Write ==
    /\ phase = "run" /\ writeQueue # <<>>
    /\ shown' = shown \o writeQueue /\ writeQueue' = <<>> /\ writing' = TRUE
    /\ UNCHANGED <<which, phase, prog, compiler, mach, readQueue, rxData, lost, typed>>
Written ==
    /\ phase = "run" /\ writing /\ writing' = FALSE
    /\ UNCHANGED <<which, phase, prog, compiler, mach, readQueue, rxData, writeQueue, lost, host>>
Arrive ==
    /\ phase = "run" /\ typed # <<>>
    /\ \E n \in 1..Len(typed) :
          /\ readQueue' = readQueue \o SubSeq(typed, 1, n)
          /\ typed' = SubSeq(typed, n + 1, Len(typed))
    /\ UNCHANGED <<which, phase, prog, compiler, mach, rxData, writeQueue, writing, lost, shown>>

Step == Reset \/ Fail \/ Branch \/ Evaluate \/ Memory \/ DeviceRead \/ DeviceWrite \/ NoDevice

InitMicro ==
    /\ which \in DOMAIN Texts /\ text = Texts[which] /\ pos = 1 /\ phase = "compile"
    /\ prog = (0 :> Jump(0)) /\ ctrlCtx = <<>> /\ tailCtx = "none" /\ words = <<>>
    /\ pc = 0 /\ dstack = Empty /\ rstack = Empty /\ cells = <<>>
    /\ typed = Typed /\ readQueue = <<>> /\ rxData = 0
    /\ writeQueue = <<>> /\ writing = FALSE /\ shown = <<>> /\ lost = FALSE

NextMicro == Compile \/ Step \/ Write \/ Written \/ Arrive
=============================================================================
