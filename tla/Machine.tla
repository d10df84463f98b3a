------------------------------- MODULE Machine -------------------------------
(***************************************************************************)
(* What the lines of a compiled script do: the part of the processor they   *)
(* use, and the host as a script sees it. Not the program's own code: it is *)
(* what its output is judged by. A value is an integer <<"i", n>>, a float  *)
(* <<"f", n>> of n times 1/Unit, or Junk, which nothing may depend on. The  *)
(* state m is                                                               *)
(*   pc, status       the next line; "run", "done" or "stuck"               *)
(*   reg              a0..a15 as 0..15, f0..f15 as 16..31                   *)
(*   flag, sar        what a float comparison said, the shift amount        *)
(*   mem              the bytes written so far, by address                  *)
(*   saved, stack     what waits for a return; what spill and push put away *)
(*   trace            what the script gave the host                         *)
(* Code c is [text, at, address, mem, windowed, settled]: the lines, where  *)
(* each label is, the address of each symbol, the memory at the start, and  *)
(* whether a call leaves its caller's a8 to a15 and the floats to the       *)
(* callee, as the processor does, or gives them back, as the lines are      *)
(* written before PreserveAcrossCalls(): in the functions, in @__footer.    *)
(***************************************************************************)
EXTENDS AsmLines, Bitwise, TLC

CONSTANTS Unit,                    \* floats are multiples of 1/Unit
          StepDoublings            \* a run is cut after 2^StepDoublings lines

Int_(n) == <<"i", n>>
Float_(n) == <<"f", n>>
Junk == <<"?", 0>>
IsInt(v) == v[1] = "i"
IsReal(v) == v[1] = "f"

Halt(m, status) == [m EXCEPT !.status = status]
Stuck(m) == Halt(m, "stuck")
Write(m, reg, v) == [m EXCEPT !.reg[reg] = v]
Advance(m) == [m EXCEPT !.pc = @ + 1]

(***************************************************************************)
(* Memory: bytes of integers, bytes of floats that only a whole load reads. *)
(***************************************************************************)
ByteOf(v, k) == IF IsInt(v) THEN <<"i", (v[2] \div 256^k) % 256>> ELSE <<v[1], v[2], k>>

StoreBytes(mem, addr, width, v) ==
  [a \in addr..(addr + width - 1) |-> ByteOf(v, a - addr)] @@ mem

Signed_(n, width) == IF n >= 128 * 256^(width - 1) THEN n - 256^width ELSE n
LoadBytes(mem, addr, width, signed) ==
  LET bytes == [k \in 0..(width - 1) |->
                  IF addr + k \in DOMAIN mem THEN mem[addr + k] ELSE Junk]
      low == bytes[0][2] + (IF width > 1 THEN bytes[1][2] * 256 ELSE 0)
      high == IF width < 4 THEN 0 ELSE bytes[2][2] * 65536 + Signed_(bytes[3][2], 1) * 16777216
  IN  CASE \A k \in 0..(width - 1) : Len(bytes[k]) = 2 /\ bytes[k][1] = "i" ->
             Int_(IF signed /\ width = 2 THEN Signed_(low, 2) ELSE low + high)
        [] width = 4 /\ \A k \in 0..3 : Len(bytes[k]) = 3 /\ bytes[k] = <<"f", bytes[0][2], k>> ->
             Float_(bytes[0][2])
        [] OTHER -> Junk

(***************************************************************************)
(* Registers.                                                               *)
(***************************************************************************)
Toward0(a, b) ==
  LET q == (IF a < 0 THEN -a ELSE a) \div (IF b < 0 THEN -b ELSE b)
  IN  IF (a < 0) = (b < 0) THEN q ELSE -q
Absolute(n) == IF n < 0 THEN -n ELSE n
ShiftLeft(n, k) == n * 2^k

\* Operations on integers: of the second and third registers, or of the second.
OnInts2(op, a, b) ==
  CASE op = "add" -> a + b
    [] op = "sub" -> a - b
    [] op = "mull" -> a * b
    [] op \in {"quos", "quou"} -> Toward0(a, b)
    [] op \in {"rems", "remu"} -> a - b * Toward0(a, b)
    [] op = "and" -> a & b
    [] op = "or" -> a | b
    [] op = "addx2" -> 2 * a + b
    [] op = "addx4" -> 4 * a + b
    [] op = "addx8" -> 8 * a + b
Ints2 == {"add", "sub", "mull", "quos", "quou", "rems", "remu", "and", "or",
          "addx2", "addx4", "addx8"}
Divides == {"quos", "quou", "rems", "remu"}
OnInts1(op, a, n, sar) ==
  CASE op = "addi" -> a + n
    [] op = "neg" -> -a
    [] op = "abs" -> Absolute(a)
    [] op = "slli" -> ShiftLeft(a, n)
    [] op = "sll" -> ShiftLeft(a, 32 - sar)
    [] op = "srl" -> a \div 2^sar
    [] op = "extui" -> a % 2^n
Ints1 == {"addi", "neg", "abs", "slli", "sll", "srl", "extui"}
OnFloats2(op, a, b) ==
  CASE op = "add.s" -> a + b
    [] op = "sub.s" -> a - b
    [] op = "mul.s" -> Toward0(a * b, Unit)
Floats2 == {"add.s", "sub.s", "mul.s"}
OnFloats1(op, a) == IF op = "neg.s" THEN -a ELSE Absolute(a)
Floats1 == {"neg.s", "abs.s"}
Copies_ == {"mov", "movr", "mov.s", "wfr", "rfr"}

\* The value an operation gives its first register.
Result(x, v, sar) ==
  CASE x.op = "movi" -> Int_(x.n)
    [] x.op \in Copies_ -> v[2]
    [] x.op \in Ints2 ->
         IF IsInt(v[2]) /\ IsInt(v[3]) /\ ~(x.op \in Divides /\ v[3][2] = 0)
         THEN Int_(OnInts2(x.op, v[2][2], v[3][2])) ELSE Junk
    [] x.op \in Ints1 -> IF IsInt(v[2]) THEN Int_(OnInts1(x.op, v[2][2], x.n, sar)) ELSE Junk
    [] x.op \in Floats2 ->
         IF IsReal(v[2]) /\ IsReal(v[3]) THEN Float_(OnFloats2(x.op, v[2][2], v[3][2])) ELSE Junk
    [] x.op \in Floats1 -> IF IsReal(v[2]) THEN Float_(OnFloats1(x.op, v[2][2])) ELSE Junk
    [] x.op = "float.s" -> IF IsInt(v[2]) THEN Float_(Unit * v[2][2]) ELSE Junk
    [] x.op = "trunc.s" -> IF IsReal(v[2]) THEN Int_(Toward0(v[2][2], Unit)) ELSE Junk
Computes ==
  {"movi", "float.s", "trunc.s"} \cup Copies_ \cup Ints1 \cup Ints2 \cup Floats1 \cup Floats2

(***************************************************************************)
(* Branches.                                                                *)
(***************************************************************************)
Immediates == <<1, 2, 3, 4, 5, 6, 7, 8, 10, 12, 16, 32, 64, 128, 256>>
BelowUnsigned(a, b) == IF (a < 0) = (b < 0) THEN a < b ELSE b < 0
Taken(op, a, b) ==
  CASE op \in {"beq", "beqi", "beqz"} -> a = b
    [] op \in {"bne", "bnei", "bnez"} -> a # b
    [] op \in {"blt", "blti"} -> a < b
    [] op \in {"bge", "bgei"} -> a >= b
    [] op = "bltu" -> BelowUnsigned(a, b)
    [] op = "bgeu" -> ~BelowUnsigned(a, b)
FloatTests == {"olt.s", "ole.s", "oeq.s"}
Holds(op, a, b) == CASE op = "olt.s" -> a < b [] op = "ole.s" -> a <= b [] OTHER -> a = b

GoTo_(c, m, label) ==
  IF label \in DOMAIN c.at THEN [m EXCEPT !.pc = c.at[label] + 1] ELSE Stuck(m)

BranchStep(c, m, x) ==
  LET a == m.reg[x.r[1]]
      b == CASE Len(x.r) = 2 -> m.reg[x.r[2]]
             [] x.op \in {"beqz", "bnez"} -> Int_(0)
             [] OTHER -> IF x.n \in DOMAIN Immediates THEN Int_(Immediates[x.n]) ELSE Junk
  IN  CASE ~IsInt(a) \/ ~IsInt(b) -> Stuck(m)
        [] IsInt(a) /\ IsInt(b) /\ Taken(x.op, a[2], b[2]) -> GoTo_(c, m, x.l)
        [] OTHER -> Advance(m)

(***************************************************************************)
(* Calls.                                                                   *)
(***************************************************************************)
\* The registers after a call that gave results: a10 and one float.
AfterCall(c, before, after, result, float, value) ==
  [i \in 0..31 |->
     CASE i = 10 -> result
       [] i = float -> value
       [] c.windowed /\ i \in 8..15 -> Junk
       [] c.windowed /\ i >= 16 -> after[i]
       [] OTHER -> before[i]]
AllJunk == [i \in 0..31 |-> Junk]

CallStep(c, m, x) ==
  LET a == m.reg[F(1)]
      b == m.reg[F(2)]
      quotient == IF IsReal(a) /\ IsReal(b) /\ b[2] # 0 THEN Float_(Toward0(Unit * a[2], b[2]))
                  ELSE Junk
      entered == [i \in 0..31 |-> CASE i < 8 -> m.reg[i + 8]
                                    [] i \in 8..15 -> Junk
                                    [] OTHER -> m.reg[i]]
  IN  IF x.l = "@___div(d|d)"
      THEN [Advance(m) EXCEPT !.reg = AfterCall(c, @, [AllJunk EXCEPT ![F(0)] = quotient],
                                                Junk, F(0), quotient)]
      ELSE [GoTo_(c, m, x.l) EXCEPT !.reg = [entered EXCEPT ![1] = m.reg[1]],
                                    !.saved = Append(@, [reg |-> m.reg, pc |-> m.pc, stack |-> m.stack])]

ReturnStep(c, m) ==
  LET back == Last(m.saved)
  IN  IF m.saved = <<>> THEN Halt(m, "done")
      ELSE [m EXCEPT !.pc = back.pc + 1, !.stack = back.stack, !.saved = SubSeq(@, 1, Len(@) - 1),
                     !.reg = AfterCall(c, back.reg, m.reg, m.reg[2], F(2), m.reg[F(2)])]

\* The host: in(k) is the k-th input; what it is given otherwise is traced.
HostStep(c, m, x, inputs) ==
  LET arguments == [k \in 1..Min({x.n, 4}) |-> m.reg[9 + k]]
      k == m.reg[10][2]
      read == x.l = "@_in(num)"
      result == IF read /\ k \in DOMAIN inputs THEN Int_(inputs[k]) ELSE Junk
  IN  [Advance(m) EXCEPT !.reg = AfterCall(c, @, AllJunk, result, 10, result),
                         !.trace = IF read THEN @ ELSE Append(@, <<x.l, arguments>>)]

(***************************************************************************)
(* One line, a run of them, and what a script gives the host.               *)
(***************************************************************************)
Loads == {"l8ui", "l16ui", "l16si", "l32i", "lsi"}
MemoryStep(m, x) ==
  LET base == m.reg[x.r[2]]
      addr == base[2] + x.n
      v == m.reg[x.r[1]]
  IN  CASE ~IsInt(base) \/ addr % Width(x) # 0 -> Stuck(m)
        [] IsInt(base) /\ x.op \in Loads ->
             Write(Advance(m), x.r[1], LoadBytes(m.mem, addr, Width(x), x.op = "l16si"))
        [] OTHER -> [Advance(m) EXCEPT !.mem = StoreBytes(@, addr, Width(x), v)]

Step(c, m, inputs) ==
  LET x == c.text[m.pc]
      v == [k \in DOMAIN x.r |-> m.reg[x.r[k]]]
  IN  CASE IsBlank(x) \/ IsLabel(x) -> Advance(m)
        [] x.op \in Computes -> Write(Advance(m), x.r[1], Result(x, v, m.sar))
        [] x.op \in {"l32r", "movExt"} ->
             IF x.l \in DOMAIN c.address THEN Write(Advance(m), x.r[1], Int_(c.address[x.l]))
             ELSE Stuck(m)
        [] x.op \in Loads \cup Stores -> MemoryStep(m, x)
        [] IsBranch(x) -> BranchStep(c, m, x)
        [] x.op \in FloatTests ->
             IF IsReal(v[1]) /\ IsReal(v[2])
             THEN [Advance(m) EXCEPT !.flag = Holds(x.op, v[1][2], v[2][2])] ELSE Stuck(m)
        [] x.op \in {"bt", "bf"} -> IF m.flag = (x.op = "bt") THEN GoTo_(c, m, x.l) ELSE Advance(m)
        [] IsJump(x) -> GoTo_(c, m, x.l)
        [] x.op = "ssl" -> [Advance(m) EXCEPT !.sar = 32 - (v[1][2] % 32)]
        [] x.op = "wsr" -> [Advance(m) EXCEPT !.sar = v[1][2] % 32]
        [] x.op \in {"spill", "push"} -> [Advance(m) EXCEPT !.stack = Append(@, v[1])]
        [] x.op \in {"fill", "pop"} ->
             [Write(Advance(m), x.r[1], Last(m.stack)) EXCEPT !.stack = SubSeq(@, 1, Len(@) - 1)]
        [] x.op = "entry" -> Write(Advance(m), 1, Int_(m.reg[1][2] - x.n))
        [] x.op = "call8" -> CallStep(c, m, x)
        [] x.op = "callExt" -> HostStep(c, m, x, inputs)
        [] IsReturn(x) -> ReturnStep(c, m)
        [] OTHER -> Stuck(m)

RECURSIVE Run(_, _, _, _)
Run(c, m, inputs, k) ==
  CASE m.status # "run" -> m
    [] m.pc > Len(c.text) -> Stuck(m)
    [] m.status = "run" /\ m.pc <= Len(c.text) /\ k = 0 -> Step(c, m, inputs)
    [] OTHER -> CHOOSE done \in {Run(c, half, inputs, k - 1) :
                                   half \in {Run(c, m, inputs, k - 1)}} : TRUE

StackTop == 100000
Start(c, mem, name) ==
  GoTo_(c, [pc |-> 1, status |-> "run", reg |-> [AllJunk EXCEPT ![1] = Int_(StackTop)],
            flag |-> FALSE, sar |-> 0, mem |-> mem, saved |-> <<>>, stack |-> <<>>,
            trace |-> <<>>], name)

\* @__footer gives the globals their values when there is one, then main().
RunFrom(c, mem, name, inputs) == Run(c, Start(c, mem, name), inputs, StepDoublings)
RunScript(c, inputs) ==
  LET RunMain(first) ==
        IF first.status # "done" THEN [status |-> first.status, trace |-> <<>>]
        ELSE LET Seen(m) == [status |-> m.status, trace |-> m.trace]
             IN  Seen(RunFrom(c, first.mem, "@_main()", inputs))
  IN  RunMain(IF "@__footer" \in DOMAIN c.at
              THEN RunFrom([c EXCEPT !.windowed = c.settled], c.mem, "@__footer", inputs)
              ELSE [status |-> "done", mem |-> c.mem])
=============================================================================
