------------------------------ MODULE AsmLines ------------------------------
(***************************************************************************)
(* The text the code generator writes and the optimizer rewrites, a line   *)
(* at a time, with what optimize.cpp reads off a line: the registers it     *)
(* names, what it does to one of them, whether control goes straight on.   *)
(* A line is its operation, its registers in the order they are written    *)
(* (a0..a15 are 0..15, f0..f15 are 16..31), its number (the immediate, the  *)
(* offset, the size of a frame, for a call how many arguments it passes, of *)
(* extui the bits it keeps) and its label or symbol (of extui, the first    *)
(* bit when that is not 0).                                                 *)
(***************************************************************************)
EXTENDS Integers, Sequences, FiniteSets, SequencesExt

Ins(op, r, n, l) == [op |-> op, r |-> r, n |-> n, l |-> l]
Blank == Ins("", <<>>, 0, "")
Label(name) == Ins("label", <<>>, 0, name)
FunctionLabel(name) == Ins("function", <<>>, 0, name)

F(k) == 16 + k                     \* the number of the float register fk
IsFloat(reg) == reg >= 16

IsBlank(x) == x.op = ""
IsFunctionLabel(x) == x.op = "function"
IsLabel(x) == x.op \in {"label", "function"}
IsCall(x) == x.op \in {"call8", "callExt"}
IsReturn(x) == x.op = "retw.n"
Branches == {"beqz", "bnez", "beq", "bne", "blt", "bge", "bltu", "bgeu",
             "beqi", "bnei", "blti", "bgei"}
IsBranch(x) == x.op \in Branches
IsJump(x) == x.op = "j"

Width(x) == CASE x.op \in {"s8i", "l8ui"} -> 1
              [] x.op \in {"s16i", "l16i", "l16ui", "l16si"} -> 2
              [] OTHER -> 4
Stores == {"s8i", "s16i", "s32i", "ssi"}
IndirectLoads == {"l32i", "l16i", "l16ui", "l8ui"}

Overlap(off1, w1, off2, w2) == off1 < off2 + w2 /\ off2 < off1 + w1

\* An integer load from memory that a store can change: not a load that
\* rewrites the register it reads through, whose repeat reads elsewhere.
SelfBased(x) == x.op \in IndirectLoads /\ x.r[1] = x.r[2]

\* Mutant: a store through another register is thought to go elsewhere.
StoreMayClobberSameBase(x, tracked) ==
  /\ x.op \in Stores
  /\ tracked.op \in IndirectLoads
  /\ x.r[2] = tracked.r[2]
  /\ Overlap(x.n, Width(x), tracked.n, Width(tracked))

StoreMayClobber(x, tracked) ==
  /\ x.op \in Stores
  /\ tracked.op \in IndirectLoads
  /\ \/ x.r[2] # tracked.r[2]
     \/ Overlap(x.n, Width(x), tracked.n, Width(tracked))

FirstOperandIs(x, reg) == x.r # <<>> /\ x.r[1] = reg

WritesFirstOperandOnly ==
  {"movi", "mov", "movr", "fill", "pop", "mov.s", "l32i", "l16i", "l16ui",
   "l16si", "l8ui", "lsi", "l32r", "movExt", "add", "addi", "sub", "mull",
   "quos", "quou", "remu", "rems", "and", "or", "xor", "extui", "slli",
   "srli", "srai", "sll", "srl", "sra", "addx2", "addx4", "addx8", "subx8",
   "neg", "neg.s", "abs.s", "abs", "mulsh", "src", "float.s", "ufloat.s",
   "trunc.s", "wfr", "rfr", "add.s", "sub.s", "mul.s", "const.s",
   "nexp01.s", "div0.s"}

\* The registers of a line that names one first, unless it is known to
\* leave that one alone: a set of at most one.
WrittenRegister(x) ==
  IF \/ x.r = <<>> \/ IsLabel(x) \/ IsBranch(x) \/ IsCall(x)
     \/ x.op \in Stores \cup {"j", "retw.n", "entry"}
  THEN {} ELSE {x.r[1]}

LineWritesRegister(x, reg) ==
  x.op \in WritesFirstOperandOnly /\ FirstOperandIs(x, reg)

\* What a line does to a register. A call reads its arguments, a10 onwards,
\* and what else it changes is not counted as a write.
RegRole(x, reg) ==
  CASE IsBlank(x) \/ IsLabel(x) -> "untouched"
    [] IsCall(x) -> IF reg \in 10..(9 + x.n) THEN "read" ELSE "untouched"
    [] OTHER ->
         CASE \E k \in 2..Len(x.r) : x.r[k] = reg -> "read"
           [] ~FirstOperandIs(x, reg) -> "untouched"
           [] x.op \in WritesFirstOperandOnly -> "written"
           [] OTHER -> "read"

EndsStraightLine(x) ==
  IsBlank(x) \/ IsLabel(x) \/ IsBranch(x) \/ IsJump(x) \/ IsReturn(x)

\* The line with every register `from` it names renamed, all but the first
\* it names when skipFirst.
RenameRegister(x, from, to, skipFirst) ==
  [x EXCEPT !.r = [k \in DOMAIN x.r |->
     IF x.r[k] = from /\ ~(skipFirst /\ k = 1) THEN to ELSE x.r[k]]]

(***************************************************************************)
(* After: Do(value), where TLC holds the value before it begins Do (the set *)
(* of one does that). Walking over a text: Op applied to what it returned    *)
(* for the line before and to each line number from lo to hi, in halves so   *)
(* that a long text does not nest deep; the first line from lo to hi with P, *)
(* hi + 1 when there is none; the last one, lo - 1 when there is none; Join  *)
(* puts the lines Lines(1), .. Lines(n) of each place one after the other.   *)
(***************************************************************************)
After(value, Do(_)) == CHOOSE done \in {Do(v) : v \in {value}} : TRUE

Walk(Op(_, _), start, lo, hi) ==
  LET RECURSIVE Half(_, _, _)
      Half(s, l, h) ==
        IF l = h THEN Op(s, l)
        ELSE After(Half(s, l, (l + h) \div 2), LAMBDA first : Half(first, (l + h) \div 2 + 1, h))
  IN  IF hi < lo THEN start ELSE Half(start, lo, hi)

FirstFrom(P(_), lo, hi) ==
  IF \A i \in lo..hi : ~P(i) THEN hi + 1
  ELSE CHOOSE i \in lo..hi : P(i) /\ \A k \in lo..(i - 1) : ~P(k)

LastDownTo(P(_), hi, lo) ==
  IF \A i \in lo..hi : ~P(i) THEN lo - 1
  ELSE CHOOSE i \in lo..hi : P(i) /\ \A k \in (i + 1)..hi : ~P(k)

FunctionEnd(text, start) ==
  FirstFrom(LAMBDA i : IsFunctionLabel(text[i]), start, Len(text))

\* The text Line(1), .. Line(n). (SubSeq makes TLC hold it as a sequence: it
\* gets a later EXCEPT wrong on a function it has not evaluated yet.)
Rewrite(Line(_), n) == SubSeq([i \in 1..n |-> Line(i)], 1, n)

\* The numbers from 1 to n with P, in order.
Places(P(_), n) == SelectSeq(Rewrite(LAMBDA i : i, n), P)

Join(Lines(_), n) == Walk(LAMBDA all, i : all \o Lines(i), <<>>, 1, n)

\* A text with Op applied to the body of each function, its lines after the
\* label; what comes before the first function is left as it is.
EachFunction(Op(_), text) ==
  Join(LAMBDA i :
         CASE IsFunctionLabel(text[i]) ->
                <<text[i]>> \o Op(SubSeq(text, i + 1, FunctionEnd(text, i + 1) - 1))
           [] \A k \in 1..i : ~IsFunctionLabel(text[k]) -> <<text[i]>>
           [] OTHER -> <<>>,
       Len(text))

RemoveBlankLines(text) == SelectSeq(text, LAMBDA x : ~IsBlank(x))
=============================================================================
