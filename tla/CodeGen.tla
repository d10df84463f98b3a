------------------------------ MODULE CodeGen ------------------------------
(***************************************************************************)
(* The code generator (visitnode.cpp): one operator per visitor, from the   *)
(* state of CodeText and a node to the state once the node is visited. A    *)
(* node is a record: its kind k (_nodetype), the token t of an operator,    *)
(* its children ch, its name (the text of a variable, the signature of a    *)
(* function), its type vt (_vartype, "eof" when none was given), what it    *)
(* jumps to or the register it lives in, its place in the frame pos         *)
(* (stack_pos), isPointer, asPointer, its size, the dimensions of its array *)
(* and the value of a literal.                                              *)
(***************************************************************************)
EXTENDS CodeText

NodeOf(kind) ==
  [k |-> kind, t |-> "", ch |-> <<>>, name |-> "", vt |-> "eof", target |-> "",
   reg |-> 0, pos |-> 0, isPointer |-> FALSE, asPointer |-> FALSE, size |-> 1,
   dims |-> <<>>, num |-> 0, open |-> 0]

RECURSIVE Visit(_, _)

\* register_numl.duplicate(); child->visitNode(); register_numl.pop();
VisitUnder(s, nd) == PopL(After(Duplicate(s), LAMBDA v : Visit(v, nd)))
VisitAs(s, t, nd) == PopType(VisitUnder(PushType(s, t), nd))
WithType(s, t) == [s EXCEPT !.vt = t]
\* A value with a type made one of type t; of the type wanted on top.
Coerce(v, t) == IF v.vt = "eof" THEN v ELSE TranslateType(v, t, v.vt, L(v))
CoerceToTop(v) == Coerce(v, For(v))
RRR(op, a, b, c) == Ins(op, <<a, b, c>>, 0, "")
N(k) == ToString(k)

STACK_SIZE == 56                   \* _STACK_SIZE
START_2 == 32                      \* _START_2
FRAME_RESERVED == 32               \* _FRAME_RESERVED

(***************************************************************************)
(* Literals.                                                                *)
(***************************************************************************)
LiteralName(s) == "@_local_var_" \o N(s.numbers)
Literal(s, t, value) ==
  [s EXCEPT !.literals = Append(@, [l |-> LiteralName(s), type |-> t, value |-> value]),
            !.numbers = @ + 1]

visitnumberNode(s, nd) ==
  LET pool == PutAll(Literal(s, nd.vt, nd.num),
                     <<Ins("l32r", <<9>>, 0, LiteralName(s)), LoadInto(nd.vt, L(s), 9, 0)>>)
      parts == Walk(LAMBDA p, i : VisitUnder(p, nd.ch[i]), s, 1, Len(nd.ch))
  IN  WithType(CASE nd.ch # <<>> -> parts
                 [] nd.vt = "float" \/ nd.num >= 2048 \/ nd.num <= -2047 ->
                      Decrease(Mark(pool))
                 [] OTHER -> Decrease(Mark(Put(s, Ins("movi", <<L(s)>>, nd.num, "")))),
               nd.vt)

(***************************************************************************)
(* Operators: the left operand is in L(s), the right one in R(s).           *)
(***************************************************************************)
\* The right operand when the line that loaded it is the last one.
LoadedConstant(s) ==
  IF Current(s).op = "movi" /\ Current(s).r = <<R(s)>> THEN {Current(s).n} ELSE {}

OrImmediate(s, sign, otherwise) ==
  IF \E b \in LoadedConstant(s) : b \in -128..127
  THEN Put(BlankCurrent(s), Ins("addi", <<L(s), L(s)>>, sign * Current(s).n, ""))
  ELSE Put(s, otherwise)

Shift(k) == CHOOSE n \in 0..30 : 2^n = k
IsPowerOfTwo(k) == k > 0 /\ \E n \in 0..30 : 2^n = k
ByItself == 2 :> "add" @@ 3 :> "addx2" @@ 5 :> "addx4" @@ 9 :> "addx8"

Multiply(s) ==
  LET a == L(s)
      b == Current(s).n
      known == LoadedConstant(s) # {}
  IN  CASE known /\ b \in DOMAIN ByItself -> Put(BlankCurrent(s), RRR(ByItself[b], a, a, a))
        [] known /\ b > 2 /\ IsPowerOfTwo(b) ->
             Put(BlankCurrent(s), Ins("slli", <<a, a>>, Shift(b), ""))
        [] OTHER -> Put(s, RRR("mull", a, a, R(s)))

FloatDivide(s) ==
  [PutAll(s, <<MoveInto("float", 1, L(s)), MoveInto("float", 2, R(s)),
               Ins("call8", <<>>, 2, "@___div(d|d)"), MoveInto("float", L(s), 0)>>)
    EXCEPT !.div = TRUE]

Power(s, ff, exponent) ==
  LET t == IF ff THEN "float" ELSE "int"
      a == IF ff THEN F(L(s)) ELSE L(s)
      op == IF ff THEN "mul.s" ELSE "mull"
      ready == IF ff THEN BlankCurrent(s) ELSE s
      by == IF ff THEN F(10) ELSE 10
  IN  CASE exponent.k # "number" -> s
        [] exponent.num > 2 ->
             PutAll(ready, <<MoveInto(t, 10, L(s))>>
                           \o [k \in 1..(exponent.num - 1) |-> RRR(op, a, a, by)])
        [] OTHER -> Put(ready, RRR(op, a, a, a))

steppedAsPointer(nd) == nd.isPointer /\ ~nd.asPointer /\ nd.ch = <<>>

visitoperatorNode(s, nd, l, r) ==
  LET ff == For(s) = "float"
      a == L(s)
      right == IF Len(nd.ch) >= 2 THEN TranslateType(s, For(s), r, R(s)) ELSE s
      unsigned == "uint32" \in {l, r}
      rrr(op) == IF ff THEN RRR(op \o ".s", F(a), F(a), F(R(s))) ELSE RRR(op, a, a, R(s))
      step == IF steppedAsPointer(nd.ch[1]) THEN Types[l].total ELSE 1
      unary(x, op) == Put(x, IF ff THEN Ins(op \o ".s", <<F(a), F(a)>>, 0, "")
                             ELSE Ins(op, <<a, a>>, 0, ""))
      done(x) ==
        CASE nd.t = "+" -> OrImmediate(x, 1, rrr("add"))
          [] nd.t = "-" -> OrImmediate(x, -1, rrr("sub"))
          [] nd.t = "*" -> IF ff THEN Put(x, rrr("mul")) ELSE Multiply(x)
          [] nd.t = "/" ->
               IF ff THEN FloatDivide(x)
               ELSE Put(x, RRR(IF unsigned THEN "quou" ELSE "quos", a, a, R(s)))
          [] nd.t = "%" -> Put(x, RRR(IF unsigned THEN "remu" ELSE "rems", a, a, R(s)))
          [] nd.t = "^" -> Power(x, ff, nd.ch[2])
          [] nd.t = "<<" -> PutAll(x, <<Ins("ssl", <<R(s)>>, 0, ""), Ins("sll", <<a, a>>, 0, "")>>)
          [] nd.t = ">>" -> PutAll(x, <<Ins("wsr", <<R(s)>>, 3, ""), Ins("srl", <<a, a>>, 0, "")>>)
          [] nd.t = "++" -> Put(x, Ins("addi", <<a, a>>, step, ""))
          [] nd.t = "--" -> Put(x, Ins("addi", <<a, a>>, -step, ""))
          [] nd.t = "&&" -> Put(x, RRR("and", a, a, R(s)))
          [] nd.t = "||" -> Put(x, RRR("or", a, a, R(s)))
          [] nd.t = "fabs" -> Put(x, Ins("abs.s", <<F(a), F(a)>>, 0, ""))
          [] nd.t = "abs" -> unary(x, "abs")
          [] nd.t = "negation" -> MarkAgain(unary(x, "neg"))
          [] OTHER -> x
  IN  WithType(done(TranslateType(right, For(s), l, a)),
               CASE ff -> "float" [] nd.vt = "eof" -> "none" [] OTHER -> nd.vt)

\* The left operand's register is taken from under the right one's and put in
\* register_numr.
TakeLeft(s) ==
  LET n == Len(s.numl)
  IN  [s EXCEPT !.numr = Append(@, s.numl[n - 1]),
                !.numl = SubSeq(@, 1, n - 3) \o <<@[n], @[n - 2]>>]

visitbinOpNode(s, nd) ==
  LET right(x) == IF nd.t = "^" THEN Mark(Put(x, Blank)) ELSE Visit(x, nd.ch[2])
      typed(x) == IF nd.t = "^" THEN nd.ch[2].vt ELSE x.vt
      operate(x, l) == PopL(visitoperatorNode(TakeLeft(x), nd, l, typed(x)))
      both(left) == After(right(Duplicate(left)), LAMBDA x : operate(x, left.vt))
      sum(x) == IF nd.t \in {"+", "-"} THEN Increase(x) ELSE x
      last(x) == IF nd.t \in {"/", "*"} THEN PushL(PopL(x), R(x)) ELSE x
  IN  [Mark(Unmark(Unmark(last(sum(After(Visit(Duplicate(s), nd.ch[1]), both))))))
        EXCEPT !.numr = Popped(@)]

\* !x: 1 when the register holds 0.
Negate(v) ==
  LET a == L(v)
      skip == "label_not_" \o N(v.labels)
  IN  [PutAll(v, <<Ins("movi", <<7>>, 0, ""), Ins("bnez", <<a>>, 0, skip),
                   Ins("movi", <<7>>, 1, ""), Label(skip), Ins("mov", <<a, 7>>, 0, "")>>)
        EXCEPT !.labels = @ + 1]

visitunitaryOpNode(s, nd) ==
  LET minus == [nd EXCEPT !.t = IF @ = "-" THEN "negation" ELSE @]
      marked(v) == IF nd.t = "-" THEN v ELSE Mark(v)
      done(v) ==
        CASE nd.t = "&" -> WithType(Mark(v), "none")
          [] nd.t = "!" -> WithType(Decrease(Mark(Negate(v))), nd.vt)
          [] OTHER -> marked(Decrease(visitoperatorNode(v, minus, v.vt, "none")))
  IN  done(VisitUnder(s, nd.ch[1]))

visitchangeTypeNode(s, nd) ==
  WithType(PopType(Decrease(Coerce(VisitUnder(PushType(s, nd.vt), nd.ch[1]), nd.vt))), nd.vt)

(***************************************************************************)
(* Elements of arrays.                                                      *)
(***************************************************************************)
\* dst = src * k, with a register to hold k when nothing shorter does.
emitScaleByConstant(s, dst, src, k, scratch) ==
  CASE k = 1 -> IF dst = src THEN s ELSE Put(s, Ins("mov", <<dst, src>>, 0, ""))
    [] k > 1 /\ IsPowerOfTwo(k) -> Put(s, Ins("slli", <<dst, src>>, Shift(k), ""))
    [] k \in {3, 5, 9} -> Put(s, RRR(ByItself[k], dst, src, src))
    [] OTHER -> PutAll(s, <<Ins("movi", <<scratch>>, k, ""), RRR("mull", dst, src, scratch)>>)

VisitIndex(s, nd) == Coerce(VisitUnder(PushType(s, "int"), nd), "int")

\* c0 * d1*...*dn + c1 * d2*...*dn + ... + cn in L(s).
emitFlatIndex(s, nd) ==
  LET n == Len(nd.ch)
      sum == L(s)
      stride(i) == FoldFunction(LAMBDA a, b : a * b, 1, SubSeq(nd.dims, i + 1, n))
      scaled(v, i) ==
        emitScaleByConstant(v, IF i = 1 THEN sum ELSE L(v), L(v), stride(i), L(v) - 1)
      added(v, i) ==
        IF i = 1 THEN scaled(v, i) ELSE Put(scaled(v, i), RRR("add", sum, sum, L(v)))
      term(x, i) == PopType(added(VisitIndex(x, nd.ch[i]), i))
  IN  Increase(Walk(term, Decrease(s), 1, n))

emitSingleIndex(s, nd) == PopType(VisitIndex(s, nd.ch[1]))
FlatOrSingle(s, nd) ==
  IF Len(nd.dims) > 1 THEN emitFlatIndex(s, nd) ELSE emitSingleIndex(s, nd)

isBarePointer(nd) == nd.isPointer /\ nd.dims = <<>>

\* Where a constant index leads from start, when it fits the instruction: a
\* set of at most one.
constantIndexOffset(s, nd, start) ==
  LET c == IF nd.ch[1].k = "changeType" THEN nd.ch[1].ch[1] ELSE nd.ch[1]
      limit(part) == CASE part = 1 -> 255 [] part = 2 -> 510 [] OTHER -> 1020
      reached(off, part, size) ==
        \A i \in 0..(size - 1) : off + i * part <= limit(part) /\ (off + i * part) % part = 0
      offsets(type) ==
        {off \in {start + c.num * type.total} :
           /\ ~s.safe /\ nd.isPointer /\ Len(nd.ch) = 1 /\ Len(nd.dims) <= 1
           /\ c.k = "number" /\ c.ch = <<>> /\ c.vt # "float" /\ c.num >= 0
           /\ reached(off, type.total \div type.size, type.size)}
  IN  offsets(Types[nd.vt])

IsFolded(s, nd, start) == nd.ch # <<>> /\ constantIndexOffset(s, nd, start) # {}
StartOf(s, nd, start) ==
  LET from(offsets) == IF offsets = {} THEN start ELSE CHOOSE o \in offsets : TRUE
  IN  from(IF nd.ch = <<>> THEN {} ELSE constantIndexOffset(s, nd, start))

\* Mutant: the elements of four bytes are taken for elements of two.
ScaleIndexHalf(total, reg) ==
  IF total \in {2, 4} THEN <<RRR("add", reg, reg, reg)>> ELSE <<>>

ScaleIndex(total, reg) ==
  CASE total = 2 -> <<RRR("add", reg, reg, reg)>>
    [] total = 3 -> <<RRR("addx2", reg, reg, reg)>>
    [] total = 4 -> <<RRR("add", reg, reg, reg), RRR("add", reg, reg, reg)>>
    [] OTHER -> <<>>

\* The address an external or a global is at, or for an element of a bare
\* pointer the address it holds, in reg.
AddressOf(op, symbol, nd, reg) ==
  <<Ins(op, <<reg>>, 0, symbol)>>
  \o IF nd.ch # <<>> /\ isBarePointer(nd) THEN <<Ins("l32i", <<reg, reg>>, 0, "")>> ELSE <<>>
GlobalAddress(nd, reg) == AddressOf("l32r", "@_" \o nd.name, nd, reg)
ExtAddress(nd, reg) == AddressOf("movExt", "@_ext_" \o nd.name, nd, reg)

PutScaled(s, nd) ==
  PutAll(s, ScaleIndex(Types[nd.vt].total, L(s)) \o <<RRR("add", s.point, s.point, L(s))>>)

\* The address base + start in L(s).
PutPointer(s, base, start) ==
  Mark(PutAll(s, CASE start = 0 -> <<Ins("mov", <<L(s), base>>, 0, "")>>
                   [] start \in -128..127 -> <<Ins("addi", <<L(s), base>>, start, "")>>
                   [] OTHER -> <<Ins("movi", <<L(s)>>, start, ""), RRR("add", L(s), L(s), base)>>))

Part(t) == Types[t].total \div Types[t].size

\* The parts of a value loaded one after the other, a position kept for each.
LoadParts(s, t, base, start, convert) ==
  LET load(x, i) == Put(x, LoadInto(t, L(x), base, start + (i - 1) * Part(t)))
      part(x) == Mark(IF convert THEN TranslateType(x, For(x), t, L(x)) ELSE x)
  IN  Walk(LAMBDA x, i : part(load(x, i)), s, 1, Types[t].size)

\* And stored from the last to the first, each at the position kept for it.
StoreParts(s, t, base, start) ==
  LET n == Types[t].size
      store(x, i) ==
        PutAt(Unmark(x), Kept(x), StoreFrom(t, L(s), base, start + (n - i) * Part(t)))
  IN  Walk(store, s, 1, n)

(***************************************************************************)
(* Variables read.                                                          *)
(***************************************************************************)
\* The address of a global in reg, an element's with what is in L(s) added.
PutAddress(s, nd, reg, indexed) ==
  PutAll(s, IF indexed /\ nd.isPointer
            THEN ScaleIndex(Types[nd.vt].total, L(s)) \o GlobalAddress(nd, reg)
                 \o <<RRR("add", reg, reg, L(s))>>
            ELSE GlobalAddress(nd, reg))

visitglobalVariableNode(s, nd) ==
  LET indexed == nd.ch # <<>> /\ ~IsFolded(s, nd, nd.pos)
      i == IF indexed THEN FlatOrSingle(Duplicate(s), nd) ELSE Duplicate(s)
      read(a) ==
        CASE nd.asPointer -> PutPointer(a, s.point, StartOf(s, nd, nd.pos))
          [] nd.ch # <<>> \/ ~nd.isPointer ->
               LoadParts(a, nd.vt, s.point, StartOf(s, nd, nd.pos), FALSE)
          [] OTHER -> Mark(Put(a, Ins("mov", <<L(a), s.point>>, 0, "")))
  IN  WithType(Decrease(PopL(read(Mark(PutAddress(i, nd, s.point, indexed))))), nd.vt)

\* &x, &a[i].
LocalAddress(s, nd) ==
  LET place(d) == Decrease(Put(d, IF nd.ch # <<>> /\ isBarePointer(nd)
                                  THEN Ins("l32i", <<L(d), 1>>, nd.pos, "")
                                  ELSE Ins("addi", <<L(d), 1>>, nd.pos, "")))
      scaled(i) ==
        Put(emitScaleByConstant(i, L(i), L(i), Types[nd.vt].total, L(i) - 1),
            RRR("add", L(i) + 1, L(i) + 1, L(i)))
      element(a) == Increase(scaled(VisitUnder(a, nd.ch[1])))
      address(a) == IF nd.isPointer /\ nd.ch # <<>> THEN element(a) ELSE a
  IN  Decrease(PopL(Mark(address(place(Duplicate(s))))))

visitlocalVariableNode(s, nd) ==
  LET d == Duplicate(s)
      folded == IsFolded(s, nd, 0)
      i == IF nd.ch # <<>> /\ ~folded THEN VisitAs(d, "int", nd.ch[1]) ELSE d
      at == Put(i, Ins("l32i", <<s.point, 1>>, nd.pos, ""))
      pointed == Mark(Put(d, Ins("l32i", <<L(d), 1>>, nd.pos, "")))
      read == CASE ~nd.isPointer -> LoadParts(d, nd.vt, 1, nd.pos, TRUE)
                [] nd.isPointer /\ nd.ch = <<>> -> pointed
                [] OTHER -> LoadParts(Mark(IF folded THEN at ELSE PutScaled(at, nd)), nd.vt,
                                      s.point, StartOf(s, nd, 0), TRUE)
  IN  WithType(IF nd.asPointer THEN LocalAddress(s, nd) ELSE Decrease(PopL(read)), nd.vt)

visitlocalVariableNodeAsRegister(s, nd) ==
  WithType(Decrease(Mark(Put(s, IF nd.vt = "float" THEN Ins("wfr", <<F(L(s)), nd.reg>>, 0, "")
                                ELSE Ins("movr", <<L(s), nd.reg>>, 0, "")))), nd.vt)

visitextGlobalVariableNode(s, nd) ==
  LET d == Duplicate(s)
      folded == IsFolded(s, nd, nd.pos)
      start == StartOf(s, nd, nd.pos)
      toInt(one) == TranslateType(one, "int", one.vt, L(one))
      i == CASE nd.ch = <<>> \/ folded -> d
             [] Len(nd.ch) = 1 -> toInt(VisitUnder(d, nd.ch[1]))
             [] OTHER -> emitFlatIndex(d, nd)
      element(a) == Mark(IF nd.isPointer /\ ~folded THEN PutScaled(a, nd) ELSE a)
      read(at) == IF nd.asPointer /\ (~nd.isPointer \/ nd.ch # <<>>)
                  THEN PutPointer(at, s.point, start)
                  ELSE LoadParts(at, nd.vt, s.point, start, FALSE)
  IN  WithType(Decrease(PopL(
        IF nd.isPointer /\ nd.ch = <<>>
        THEN Mark(Mark(Put(d, Ins("movExt", <<L(d)>>, 0, "@_ext_" \o nd.name))))
        ELSE read(element(PutAll(i, ExtAddress(nd, s.point)))))), nd.vt)

(***************************************************************************)
(* Data: the globals, the arrays of every function among them, and in safe  *)
(* mode how many elements an array was declared with.                       *)
(***************************************************************************)
Product(dims) == FoldFunction(LAMBDA a, b : a * b, 1, dims)
PutData(s, label, size, value) ==
  [s EXCEPT !.data = Append(@, [l |-> label, size |-> size, value |-> value])]

declareSafeArray(s, nd) ==
  LET label == "@_size_" \o nd.name
  IN  IF \/ ~s.safe \/ ~nd.isPointer \/ nd.dims = <<>>
         \/ \E i \in DOMAIN s.data : s.data[i].l = label
      THEN s ELSE PutData(s, label, 4, Product(nd.dims))

visitdefGlobalVariableNode(s, nd) ==
  LET total == IF nd.isPointer /\ nd.dims = <<>> THEN 4
               ELSE Types[nd.vt].total * Product(nd.dims)
  IN  IF nd.name = "_handle_" THEN s
      ELSE PutData(declareSafeArray(s, nd), "@_" \o nd.name, total, 0)

visitdefExtGlobalVariableNode(s, nd) ==
  PutData(declareSafeArray(s, nd), "@_ext_" \o nd.name, 4, 0)

(***************************************************************************)
(* Variables written: the stores go where the value was left, the code that *)
(* finds the address before it.                                             *)
(***************************************************************************)
emitSafeBoundsCheck(s, nd, sizeReg) ==
  LET ok == "__test_safe_" \o N(s.labels)
      check == <<Ins("l32r", <<sizeReg>>, 0, "@_size_" \o nd.name),
                 Ins("l32i", <<sizeReg, sizeReg>>, 0, ""),
                 Ins("bltu", <<L(s), sizeReg>>, 0, ok),
                 Ins("l32r", <<10>>, 0, "@_name_" \o nd.name),
                 Ins("mov", <<11, sizeReg>>, 0, ""), Ins("mov", <<12, L(s)>>, 0, ""),
                 Ins("l32r", <<13>>, 0, "@__handle_"), Ins("l32i", <<13, 13>>, 0, ""),
                 Ins("callExt", <<8>>, 4, "@_safeModeError(char*|num|num|num)"),
                 Ins("retw.n", <<>>, 0, ""), Label(ok)>>
  IN  IF ~s.safe \/ ~nd.isPointer \/ nd.dims = <<>> THEN s
      ELSE [PutAll(declareSafeArray(s, nd), check) EXCEPT !.labels = @ + 1]

\* A store of one register where its value was left.
StoreWord(s, base, pos) == PutAt(Unmark(s), Kept(s), Ins("s32i", <<L(s), base>>, pos, ""))
BackToKept(s) == GoTo(s, Kept(s))
EndStore(s, point) == [PopL(Unmark(GoToEnd(s))) EXCEPT !.point = point]

visitstoreLocalVariableNode(s, nd) ==
  LET asAddress == nd.asPointer \/ (nd.isPointer /\ nd.ch = <<>>)
      indexed == nd.ch # <<>> /\ (nd.asPointer \/ ~IsFolded(s, nd, 0))
      p == [s EXCEPT !.point = IF asAddress THEN @ + 1 ELSE @]
      start == CASE ~nd.isPointer -> nd.pos [] nd.isPointer /\ nd.asPointer -> 0
                 [] OTHER -> StartOf(s, nd, 0)
      stored == IF nd.ch # <<>> \/ ~nd.isPointer \/ nd.asPointer
                THEN StoreParts(p, nd.vt, IF nd.isPointer THEN p.point ELSE 1, start)
                ELSE StoreWord(p, IF nd.isPointer THEN p.point ELSE 1, 0)
      back == BackToKept(SwapMarks(Mark(Duplicate(stored))))
      i == IF indexed THEN VisitAs(back, "int", nd.ch[1]) ELSE back
      a == Put(i, IF nd.ch # <<>> \/ nd.asPointer THEN Ins("l32i", <<p.point, 1>>, nd.pos, "")
                  ELSE Ins("addi", <<p.point, 1>>, nd.pos, ""))
  IN  IF ~nd.isPointer THEN stored
      ELSE EndStore(IF indexed THEN PutScaled(a, nd) ELSE a, s.point)

visitstoreLocalVariableNodeAsRegister(s, nd) ==
  PutAt(Unmark(s), Kept(s), IF nd.vt = "float" THEN Ins("rfr", <<nd.reg, F(L(s))>>, 0, "")
                            ELSE Ins("mov", <<nd.reg, L(s)>>, 0, ""))

visitstoreGlobalVariableNode(s, nd) ==
  LET indexed == nd.ch # <<>> /\ ~IsFolded(s, nd, nd.pos)
      p == [Duplicate(s) EXCEPT !.point = 6]
      stored == IF nd.ch # <<>> \/ ~nd.isPointer
                THEN StoreParts(p, nd.vt, 6, StartOf(s, nd, nd.pos))
                ELSE StoreWord(p, 6, nd.pos)
      found(back) == IF indexed THEN FlatOrSingle(back, nd) ELSE back
      checked == emitSafeBoundsCheck(found(BackToKept(SwapMarks(Mark(stored)))), nd, 6)
  IN  EndStore(PutAddress(checked, nd, 6, indexed), s.point)

visitstoreExtGlocalVariableNode(s, nd) ==
  LET folded == IsFolded(s, nd, nd.pos)
      p == [Duplicate(s) EXCEPT !.point = 6]
      bare == nd.isPointer /\ nd.ch = <<>> /\ ~nd.asPointer
      stored == IF ~bare THEN StoreParts(p, nd.vt, 6, StartOf(s, nd, nd.pos))
                ELSE StoreWord(p, 6, nd.pos)
      back(x) == GoTo(x, IF x.sp = <<>> THEN 0 ELSE Head(x.sp))
      found(x) == CASE folded \/ nd.ch = <<>> -> x
                    [] Len(nd.ch) = 1 -> Coerce(VisitUnder(x, nd.ch[1]), "int")
                    [] OTHER -> FlatOrSingle(x, nd)
      checked == emitSafeBoundsCheck(found(back(stored)), nd,
                                     IF nd.isPointer THEN s.point ELSE 1)
      address == IF s.onlyExt
                 THEN <<Ins("mov", <<6, 7>>, 0, "")>> \o Tail(ExtAddress(nd, 6))
                 ELSE AddressOf(IF bare THEN "l32r" ELSE "movExt", "@_ext_" \o nd.name, nd, 6)
      element(a) == IF nd.isPointer /\ nd.ch # <<>> /\ ~folded THEN PutScaled(a, nd) ELSE a
  IN  EndStore(element(PutAll(checked, address)), s.point)

(***************************************************************************)
(* Assignment: the value, then the store.                                   *)
(***************************************************************************)
\* What the value's own reads kept between the statement's start and the
\* value's parts is dropped, so that the address is found before them.
KeepStartAndParts(s, dest) ==
  LET n == Len(s.sp)
      parts == IF Types[dest.vt].size < 1 THEN 1 ELSE Types[dest.vt].size
  IN  IF dest.ch # <<>> /\ dest.vt # "eof" /\ n > parts + 1
      THEN [s EXCEPT !.sp = <<@[1]>> \o SubSeq(@, n - parts + 1, n)] ELSE s

visitassignementNode(s, nd) ==
  LET start == Duplicate(Mark([s EXCEPT !.point = 5, !.sp = <<>>]))
      value == VisitUnder(PushType(start, nd.ch[1].vt), nd.ch[2])
      kept(v) == [KeepStartAndParts(MarkAgain(CoerceToTop(v)), nd.ch[1]) EXCEPT !.point = @ + 1]
      stored(v) == VisitUnder(IF Len(nd.ch) > 1 THEN kept(v) ELSE start, nd.ch[1])
  IN  Restart(PopType(Unmark(PopL(After(value, stored)))))

(***************************************************************************)
(* Calls. Arguments are evaluated from the last to the first into a10 and   *)
(* up; one that a later evaluation would overwrite waits on the stack, and  *)
(* one that is a plain read waits until the others are done.                *)
(***************************************************************************)
Arguments(nd) == nd.ch[3].ch
Parameters(nd) == nd.ch[2].ch
IsCallNode(nd) == nd.k \in {"call", "extCall"}

RECURSIVE largestNestedCall(_)
largestNestedCall(nd) ==
  Max({0} \cup {largestNestedCall(nd.ch[i]) : i \in DOMAIN nd.ch}
          \cup IF IsCallNode(nd) /\ Len(nd.ch) > 2 THEN {Len(Arguments(nd))} ELSE {})

isTrivialArgument(arg) ==
  LET e == IF arg.k = "changeType" /\ Len(arg.ch) = 1 THEN arg.ch[1] ELSE arg
  IN  /\ e.ch = <<>> /\ ~e.isPointer /\ ~e.asPointer /\ e.vt # "float"
      /\ e.k \in {"number", "global", "local", "localReg"}

Trivial(nd, i) == i <= 4 /\ isTrivialArgument(Arguments(nd)[i])
Deferred(nd, i) == Trivial(nd, i) /\ \E j \in 1..(i - 1) : ~Trivial(nd, j)
Held(nd, i) ==
  IF i <= 4 THEN ~Trivial(nd, i)
                 /\ Cardinality({j \in 1..4 : j <= Len(Arguments(nd)) /\ ~Trivial(nd, j)}) >= 2
  ELSE i <= 6 /\ \E j \in 1..(i - 1) : largestNestedCall(Arguments(nd)[j]) > i - 1
InFrame(nd, i) == i \in {5, 6} /\ ~Held(nd, i)

\* Argument i, from 1, once its value is in L(s).
PassArgument(s, nd, i) ==
  LET a == L(s)
      to == 9 + i
      float == ~Arguments(nd)[i].isPointer /\ Parameters(nd)[i].vt = "float"
      slot == (i - 1) * 4 + START_2
  IN  PutAll(s,
        CASE Held(nd, i) ->
               IF float THEN <<Ins("rfr", <<9, F(a)>>, 0, ""), Ins("push", <<9>>, 0, "")>>
               ELSE <<Ins("push", <<a>>, 0, "")>>
          [] InFrame(nd, i) -> <<IF float THEN Ins("ssi", <<F(a), 1>>, slot, "")
                                 ELSE Ins("s32i", <<a, 1>>, slot, "")>>
          [] ~Held(nd, i) /\ ~InFrame(nd, i) /\ float -> <<Ins("rfr", <<to, F(a)>>, 0, "")>>
          [] i > 6 /\ ~float /\ ~Arguments(nd)[i].isPointer ->
               <<Ins("s32i", <<a, 1>>, (i - 7) * 4, "")>>
          [] OTHER -> <<Ins("mov", <<to, a>>, 0, "")>>)

EvaluateArgument(s, nd, i) ==
  LET arg == Arguments(nd)[i]
      typed == CoerceToTop(VisitUnder(PushType(s, Parameters(nd)[i].vt), arg))
  IN  CASE Deferred(nd, i) -> s
        [] ~Deferred(nd, i) /\ arg.isPointer -> PassArgument(VisitUnder(s, arg), nd, i)
        [] OTHER -> PopType(PassArgument(typed, nd, i))

DeferredArgument(s, nd, i) ==
  LET to == PushL(PushType(s, Parameters(nd)[i].vt), 9 + i)
      typed(v) == IF v.vt = "eof" THEN v ELSE TranslateType(v, For(v), v.vt, 9 + i)
  IN  IF Deferred(nd, i) THEN PopType(typed(PopL(Visit(to, Arguments(nd)[i])))) ELSE s

SpilledRegisters(s, n) ==
  LET first == IF L(s) + 1 < 11 THEN 11 ELSE L(s) + 1
  IN  [k \in 1..Max({0, Min({9 + n, 15}) - first + 1}) |-> first + k - 1]

visitCallFunctionTemplate(s, nd, op) ==
  LET n == Len(Arguments(nd))
      spilled == SpilledRegisters(s, Min({n, 6}))
      spill(name, regs) == [k \in DOMAIN regs |-> Ins(name, <<regs[k]>>, 0, "")]
      result == L(s) < 10
      saved == PutAll(s, spill("spill", (IF result THEN <<10>> ELSE <<>>) \o spilled))
      given == Walk(LAMBDA x, i : EvaluateArgument(x, nd, n + 1 - i), saved, 1, n)
      held == SelectSeq([k \in 1..Min({n, 6}) |-> k],
                        LAMBDA i : Held(nd, i) /\ ~Deferred(nd, i))
      popped == PutAll(given, [k \in DOMAIN held |-> Ins("pop", <<9 + held[k]>>, 0, "")])
      all == Walk(LAMBDA x, i : DeferredArgument(x, nd, i), popped, 1, Min({n, 6}))
      framed == SelectSeq([k \in 1..n |-> k], LAMBDA i : InFrame(nd, i))
      loads == [k \in DOMAIN framed |->
                  Ins("l32i", <<9 + framed[k], 1>>, (framed[k] - 1) * 4 + START_2, "")]
      called == PutAll(all, loads \o <<Ins(op, IF op = "callExt" THEN <<8>> ELSE <<>>,
                                           Min({Len(Parameters(nd)), 6}), "@_" \o nd.name)>>
                            \o spill("fill", Reverse(spilled)))
  IN  Mark(TrimMarks([called EXCEPT !.pending = result], Len(s.sp)))

emitPendingResultFill(s) ==
  IF s.pending THEN MarkAgain(Put([s EXCEPT !.pending = FALSE], Ins("fill", <<10>>, 0, "")))
  ELSE s

visitcallFunctionNode(s, nd) ==
  LET t == nd.ch[1].vt
      taken(called) ==
        IF Types[t].size = 0 THEN called
        ELSE Decrease(MarkAgain(Put(called, MoveInto(t, L(called), IF t = "float" THEN 2 ELSE 10))))
  IN  WithType(emitPendingResultFill(taken(visitCallFunctionTemplate(s, nd, "call8"))), nd.vt)

visitextCallFunctionNode(s, nd) ==
  LET t == nd.ch[1].vt
      first(i) == IF i = 1 THEN "" ELSE N(8 * (i - 1))
      part(x, i) == Mark(Put(x, Ins("extui", <<L(x), 10>>, 8, first(i))))
      taken(called) ==
        CASE t = "float" -> Mark(Put(called, Ins("wfr", <<F(L(called)), 10>>, 0, "")))
          [] t = "void" -> Mark(called)
          [] Types[t].size > 1 -> Walk(part, called, 1, Types[t].size)
          [] OTHER -> Mark(Put(called, MoveInto(t, L(called), 10)))
      called == Unmark(visitCallFunctionTemplate(s, nd, "callExt"))
  IN  WithType(Decrease(emitPendingResultFill(taken(called))), nd.vt)

(***************************************************************************)
(* Comparisons and the branches they become.                                *)
(***************************************************************************)
\* What is taken when the comparison holds, and whether its registers are
\* swapped for it.
WhenTrue == "<" :> <<"blt", FALSE>> @@ "==" :> <<"beq", FALSE>> @@ "!=" :> <<"bne", FALSE>>
            @@ ">=" :> <<"bge", FALSE>> @@ ">" :> <<"blt", TRUE>> @@ "<=" :> <<"bge", TRUE>>
Opposite == "blt" :> "bge" @@ "bge" :> "blt" @@ "beq" :> "bne" @@ "bne" :> "beq"
FloatTest == "<" :> <<"olt.s", FALSE>> @@ "==" :> <<"oeq.s", FALSE>> @@ "!=" :> <<"oeq.s", FALSE>>
             @@ ">=" :> <<"ole.s", TRUE>> @@ ">" :> <<"olt.s", TRUE>> @@ "<=" :> <<"ole.s", FALSE>>

\* The values a branch can hold in itself, in the order it numbers them.
B4CONST == <<1, 2, 3, 4, 5, 6, 7, 8, 10, 12, 16, 32, 64, 128, 256>>
isBranchImmediate(val, inverse) ==
  \E i \in DOMAIN B4CONST : IF inverse THEN B4CONST[i] = val + 1 /\ val >= 1
                            ELSE B4CONST[i] = val
valBranchImmediate(val) ==
  IF isBranchImmediate(val, FALSE) THEN CHOOSE i \in DOMAIN B4CONST : B4CONST[i] = val ELSE 0

isLiteralIntOperand(nd) ==
  Len(nd.ch) = 1 /\ nd.ch[1].k = "number" /\ nd.ch[1].vt # "float"
stringToInt(nd) == nd.num % 65536  \* it returns a uint16_t

\* A test's operands, both float if either is; their registers, the line its
\* right one starts at, and whether it is unsigned.
BothFloat(test) ==
  IF \E i \in 1..2 : test.ch[i].vt = "float"
  THEN [test EXCEPT !.ch[1].vt = "float", !.ch[2].vt = "float"] ELSE test

VisitOperands(s, test) ==
  LET left == Visit(s, test.ch[1])
  IN  [s |-> Visit(left, test.ch[2]), numl |-> L(s), leftl |-> L(left),
       rhsPos |-> CurrentPos(left) + 1,
       u |-> IF \E i \in 1..2 : test.ch[i].vt = "uint32" THEN "u" ELSE ""]

\* The branch on integers to label when the test is `holds`; a small literal
\* on the right goes into it and the line that loaded it becomes blank.
PutBranch(v, test, holds, label) ==
  LET w == WhenTrue[test.t]
      op == IF holds THEN w[1] ELSE Opposite[w[1]]
      f == IF isLiteralIntOperand(test.ch[2]) THEN stringToInt(test.ch[2].ch[1]) ELSE 0
      immediate == isLiteralIntOperand(test.ch[2]) /\ isBranchImmediate(f, w[2])
      regs == IF w[2] THEN <<v.leftl, v.numl>> ELSE <<v.numl, v.leftl>>
  IN  IF immediate
      THEN Put(ReplaceLine(v.s, v.rhsPos, Blank),
               Ins((IF w[2] THEN Opposite[op] ELSE op) \o "i", <<v.numl>>,
                   valBranchImmediate(IF w[2] THEN f + 1 ELSE f), label))
      ELSE Put(v.s, Ins(op \o v.u, regs, 0, label))

FloatCompare(v, test) ==
  LET w == FloatTest[test.t]
  IN  Put(v.s, Ins(w[1], IF w[2] THEN <<F(v.leftl), F(v.numl)>> ELSE <<F(v.numl), F(v.leftl)>>,
                   0, "b0"))
BoolBranch(test, holds) == IF holds # (test.t = "!=") THEN "bt" ELSE "bf"

emitTestBranch(s, nd, totalSize, target) ==
  LET test == BothFloat(nd)
      v == VisitOperands(s, test)
      over == <<Ins("j", <<>>, 0, target \o "_end"), Label(target \o "_if")>>
      float == test.ch[2].vt = "float"
      long == totalSize > (IF float THEN 116 ELSE 127)
      label == target \o (IF long THEN "_if" ELSE "_end")
      branch == IF float
                THEN Put(FloatCompare(v, test), Ins(BoolBranch(test, long), <<>>, 0, label))
                ELSE PutBranch(v, test, long, label)
  IN  Increase(PutAll(branch, IF long THEN over ELSE <<>>))

RECURSIVE isTestChain(_), emitTestChain(_, _, _)
isTestChain(nd) ==
  \/ nd.k = "test"
  \/ /\ nd.k = "binOp" /\ nd.t = "&&" /\ Len(nd.ch) = 2
     /\ isTestChain(nd.ch[1]) /\ isTestChain(nd.ch[2])
emitTestChain(s, nd, target) ==
  IF nd.k = "test" THEN PopL(emitTestBranch(Duplicate(s), nd, 0, target))
  ELSE emitTestChain(emitTestChain(s, nd.ch[1], target), nd.ch[2], target)

visitcomparatorNode(s, nd, totalSize, parentTarget) ==
  LET c == nd.ch[1]
      falls == <<Ins("beqz", <<L(s)>>, 0, parentTarget \o "_end")>>
      jumps == <<Ins("bnez", <<L(s)>>, 0, parentTarget \o "_if"),
                 Ins("j", <<>>, 0, parentTarget \o "_end"), Label(parentTarget \o "_if")>>
      branch == IF totalSize > 116 THEN jumps ELSE falls
  IN  CASE isTestChain(c) /\ c.k # "test" -> Increase(emitTestChain(s, c, nd.target))
        [] c.k = "test" -> emitTestBranch(s, c, totalSize, nd.target)
        [] OTHER -> Increase(PutAll(Visit(s, c), branch))

\* A comparison for its value, 1 or 0.
visittestNode(s, nd) ==
  LET test == BothFloat(nd)
      v == VisitOperands(s, test)
      w == WhenTrue[test.t]
      regs == IF w[2] THEN <<v.leftl, v.numl>> ELSE <<v.numl, v.leftl>>
      branch == IF test.ch[2].vt = "float"
                THEN Put(FloatCompare(v, test),
                         Ins(BoolBranch(test, FALSE), <<>>, 0, nd.target \o "_end"))
                ELSE Put(v.s, Ins(Opposite[w[1]] \o v.u, regs, 0, nd.target \o "_end"))
  IN  WithType(Increase(PutAll(branch,
        <<Ins("movi", <<v.numl>>, 1, ""), Ins("j", <<>>, 0, nd.target \o "_end_"),
          Label(nd.target \o "_end"), Ins("movi", <<v.numl>>, 0, ""),
          Label(nd.target \o "_end_")>>)), nd.vt)

RECURSIVE Condition(_)
Condition(nd) == IF nd.k = "comparator" /\ Len(nd.ch) = 1 THEN Condition(nd.ch[1]) ELSE nd

visitternaryIfNode(s, nd) ==
  LET cond == Condition(nd.ch[1])
      otherwise == nd.target \o "_f"
      branch(v) == Put(v, Ins("beqz", <<L(v)>>, 0, otherwise \o "_end"))
      tested == IF isTestChain(cond) THEN emitTestChain(s, cond, otherwise)
                ELSE branch(VisitUnder(s, nd.ch[1]))
      yes(v) == PutAll(VisitUnder(v, nd.ch[2]),
                       <<Ins("j", <<>>, 0, nd.target \o "_end"), Label(otherwise \o "_end")>>)
      no(v) == Put(VisitUnder(v, nd.ch[3]), Label(nd.target \o "_end"))
  IN  WithType(Decrease(Mark(TrimMarks(After(After(tested, yes), no), Len(s.sp)))), nd.vt)

(***************************************************************************)
(* Statements.                                                              *)
(***************************************************************************)
Jump(s, label) == Put(s, Ins("j", <<>>, 0, label))
AtStatement(s) == [s EXCEPT !.point = 5]

visitblockStatementNode(s, nd) ==
  Walk(LAMBDA x, i : Visit(x, nd.ch[i]), Restart(s), 1, Len(nd.ch))
visitstatementNode(s, nd) ==
  Walk(LAMBDA x, i : VisitUnder(x, nd.ch[i]), Restart(AtStatement(s)), 1, Len(nd.ch))

VisitBody(s, nd, first) ==
  PopL(Walk(LAMBDA x, i : Visit(x, nd.ch[i]), Duplicate(s), first, Min({Len(nd.ch), first + 1})))

\* The body first, then the test put in front of it once its size is known.
Resume(s) == GoTo(s, Get(s))

visitifNode(s, nd) ==
  LET back(body) == Duplicate(GoTo(Put(body, Label(nd.target \o "_end")), Get(s)))
      tested(body) ==
        visitcomparatorNode(back(body), nd.ch[1], (Get(body) - Get(s)) * 3, nd.target)
  IN  Resume(PopL(tested(VisitBody(AtStatement(s), nd, 2))))

visitelseNode(s, nd) ==
  LET jump == PutBefore(AtStatement(s), Ins("j", <<>>, 0, nd.target))
  IN  Put(VisitUnder(jump, nd.ch[Min({2, Len(nd.ch)})]), Label(nd.target))

visitwhileNode(s, nd) ==
  LET start == PutAll(AtStatement(s), <<Label(nd.target \o "_while"),
                                        Label(nd.target \o "_continue")>>)
      body == Put(Jump(VisitBody(start, nd, 2), nd.target \o "_while"), Label(nd.target \o "_end"))
      tested(b) == visitcomparatorNode(GoTo(b, Get(start)), nd.ch[1],
                                       (Get(b) - Get(start) - 1) * 3, nd.target)
  IN  IF nd.ch[1].ch[1].k = "number" THEN body ELSE Resume(PopL(tested(body)))

\* The test at the end of the loop, jumping back to bodyLabel while it holds.
visitforConditionRotated(s, test, bodyLabel, distance) ==
  LET v == VisitOperands(s, test)
  IN  IF distance <= 127 THEN PutBranch(v, test, TRUE, bodyLabel)
      ELSE PutAll(PutBranch(v, test, FALSE, bodyLabel \o "_skip"),
                  <<Ins("j", <<>>, 0, bodyLabel), Label(bodyLabel \o "_skip")>>)

\* A for whose test is at its end, the step just done being in s; one whose
\* test is at its start.
TestAtEnd(s, nd, start) ==
  LET tested(x) == visitforConditionRotated(Duplicate(x), nd.ch[2].ch[1], nd.target,
                                            (Get(x) - start) * 3)
  IN  PopL(tested(Put(s, Label("test_" \o nd.target))))
TestAtStart(s, nd, start) ==
  Jump(Resume(PopL(visitcomparatorNode(Duplicate(GoTo(s, start)), nd.ch[2],
                                       (Get(s) - start) * 3, nd.target))), nd.target)

visitforNode(s, nd) ==
  LET n == Len(nd.ch)
      only == n > 0 /\ nd.ch[n].k = "only"
      loop == [nd EXCEPT !.ch = IF only THEN SubSeq(@, 1, n - 1) ELSE @]
      i == VisitUnder(AtStatement(s), nd.ch[1])
      e == IF only THEN [Put(i, Ins("movExt", <<7>>, 0, "@_ext_" \o nd.ch[n].name))
                           EXCEPT !.onlyExt = TRUE] ELSE i
      test == nd.ch[2].ch[1]
      rotated == test.k = "test" /\ test.t \in DOMAIN WhenTrue
                 /\ test.ch[1].vt # "float" /\ test.ch[2].vt # "float"
      labels == (IF rotated THEN <<Ins("j", <<>>, 0, "test_" \o nd.target)>> ELSE <<>>)
                \o <<Label(nd.target)>>
      turn(x) == VisitUnder(Put(VisitBody(x, loop, 4), Label(nd.target \o "_continue")), nd.ch[3])
      tested(x, start) == IF rotated THEN TestAtEnd(x, nd, start) ELSE TestAtStart(x, nd, start)
      looped(start) == tested(turn(start), Get(start))
  IN  [Put(looped(PutAll(e, labels)), Label(nd.target \o "_end"))
        EXCEPT !.onlyExt = IF only THEN FALSE ELSE @]

visitswitchNode(s, nd) ==
  LET body == nd.ch[2]
      cases == SelectSeq(body.ch, LAMBDA c : c.k = "case" /\ c.ch # <<>>)
      otherwise == SelectSeq(body.ch, LAMBDA c : c.k = "case" /\ c.ch = <<>>)
      compared(x, reg, c) == Put(x, Ins("beq", <<reg, L(x)>>, 0, c.target))
      dispatch(x, reg, c) ==
        IF isBranchImmediate(c.ch[1].num, FALSE)
        THEN Put(x, Ins("beqi", <<reg>>, valBranchImmediate(c.ch[1].num), c.target))
        ELSE compared(VisitUnder(x, c.ch[1]), reg, c)
      chosen(v) == Walk(LAMBDA x, i : dispatch(x, L(v), cases[i]),
                        Decrease(TranslateType(v, "int", v.vt, L(v))), 1, Len(cases))
      none == Jump(Increase(chosen(VisitAs(s, "int", nd.ch[1]))),
                   IF otherwise = <<>> THEN nd.target \o "_end" ELSE Top(otherwise, Blank).target)
      trimmed(x) == TrimMarks(x, Min({Len(s.sp), Len(x.sp)}))
  IN  trimmed(Put(Visit(none, body), Label(nd.target \o "_end")))

visitreturnNode(s, nd) ==
  LET given(v) == Put(v, MoveInto(s.rtype, 2, L(v)))
      value(v) == given(TranslateType(v, s.rtype, v.vt, L(v)))
  IN  Put(IF nd.ch = <<>> THEN s ELSE value(VisitAs(s, s.rtype, nd.ch[1])),
          Ins("retw.n", <<>>, 0, ""))

(***************************************************************************)
(* Functions.                                                               *)
(***************************************************************************)
FrameSize(pos) == (pos \div 8 + 1) * 8 + FRAME_RESERVED

\* Arguments with a place in the frame are stored there; from the seventh on
\* they are where the caller stored them, just above the frame.
visitdefInputArgumentsNode(s, nd, frame) ==
  LET arg(x, i) ==
        LET a == nd.ch[i]
            reg == 1 + i
        IN  CASE a.pos < STACK_SIZE -> x
              [] a.pos >= STACK_SIZE /\ reg <= 7 ->
                   Put(x, IF a.isPointer \/ a.vt = "float" THEN Ins("s32i", <<reg, 1>>, a.pos, "")
                          ELSE StoreFrom(a.vt, reg, 1, a.pos))
              [] OTHER ->
                   PutAll(x, <<LoadInto(a.vt, 15, 1, frame + a.pos - nd.ch[7].pos),
                               StoreFrom(a.vt, 15, 1, a.pos)>>)
  IN  Walk(arg, s, 1, Len(nd.ch))

visitdefFunctionNode(s, nd) ==
  LET frame == FrameSize(nd.pos)
      label == PutAll([s EXCEPT !.rtype = nd.ch[1].vt],
                      <<FunctionLabel("@_" \o nd.name), Ins("entry", <<1>>, frame, "")>>)
      args == visitdefInputArgumentsNode(label, nd.ch[2], frame)
      body == Walk(LAMBDA x, i : Visit(x, nd.ch[i]), args, 3, Len(nd.ch))
  IN  Put(body, Ins("retw.n", <<>>, 0, ""))

\* The routine float division calls (_div), put after the functions.
DivisionSteps ==
  <<<<"div0.s", <<3, 2>>, 0>>, <<"nexp01.s", <<4, 2>>, 0>>, <<"const.s", <<5>>, 1>>,
    <<"maddn.s", <<5, 4, 3>>, 0>>, <<"mov.s", <<6, 3>>, 0>>, <<"mov.s", <<7, 2>>, 0>>,
    <<"nexp01.s", <<2, 1>>, 0>>, <<"maddn.s", <<6, 5, 6>>, 0>>, <<"const.s", <<5>>, 1>>,
    <<"const.s", <<0>>, 0>>, <<"neg.s", <<8, 2>>, 0>>, <<"maddn.s", <<5, 4, 6>>, 0>>,
    <<"maddn.s", <<0, 8, 3>>, 0>>, <<"mkdadj.s", <<7, 1>>, 0>>, <<"maddn.s", <<6, 5, 6>>, 0>>,
    <<"maddn.s", <<8, 4, 0>>, 0>>, <<"const.s", <<3>>, 1>>, <<"maddn.s", <<3, 4, 6>>, 0>>,
    <<"maddn.s", <<0, 8, 6>>, 0>>, <<"neg.s", <<2, 2>>, 0>>, <<"maddn.s", <<6, 3, 6>>, 0>>,
    <<"maddn.s", <<2, 4, 0>>, 0>>, <<"addexpm.s", <<0, 7>>, 0>>, <<"addexp.s", <<6, 7>>, 0>>,
    <<"divn.s", <<0, 2, 6>>, 0>>>>
DivisionCode ==
  <<FunctionLabel("@___div(d|d)"), Ins("entry", <<1>>, 16, "")>>
  \o [i \in DOMAIN DivisionSteps |->
       Ins(DivisionSteps[i][1], Rewrite(LAMBDA k : F(DivisionSteps[i][2][k]),
                                        Len(DivisionSteps[i][2])), DivisionSteps[i][3], "")]
  \o <<Ins("retw.n", <<>>, 0, "")>>

\* The globals: their data, and the values given to them set in @__footer,
\* a function of its own.
VisitGlobals(s, program) ==
  Walk(LAMBDA x, i : Visit(x, program[i]),
       [s EXCEPT !.text = <<>>, !.pos = 0, !.it = 0, !.first = FALSE,
                 !.point = 5, !.numl = <<15>>, !.numr = <<15>>], 1, Len(program))

visitprogramNode(s, program) ==
  LET footer(text) ==
        IF Len(text) <= 1 THEN text
        ELSE <<FunctionLabel("@__footer"), Ins("entry", <<1>>, 144, "")>> \o text
             \o <<Ins("retw.n", <<>>, 0, "")>>
      done(v) == [s |-> [v EXCEPT !.text = s.text \o IF v.div THEN DivisionCode ELSE <<>>],
                  footer |-> footer(v.text)]
  IN  done(VisitGlobals(s, program))

Visit(s, nd) ==
  CASE nd.k = "number" -> visitnumberNode(s, nd)
    [] nd.k = "binOp" -> visitbinOpNode(s, nd)
    [] nd.k = "unitary" -> visitunitaryOpNode(s, nd)
    [] nd.k = "changeType" -> visitchangeTypeNode(s, nd)
    [] nd.k = "global" -> visitglobalVariableNode(s, nd)
    [] nd.k = "local" -> visitlocalVariableNode(s, nd)
    [] nd.k = "localReg" -> visitlocalVariableNodeAsRegister(s, nd)
    [] nd.k = "extGlobal" -> visitextGlobalVariableNode(s, nd)
    [] nd.k = "storeLocal" -> visitstoreLocalVariableNode(s, nd)
    [] nd.k = "storeLocalReg" -> visitstoreLocalVariableNodeAsRegister(s, nd)
    [] nd.k = "storeGlobal" -> visitstoreGlobalVariableNode(s, nd)
    [] nd.k = "storeExtGlobal" -> visitstoreExtGlocalVariableNode(s, nd)
    [] nd.k = "call" -> visitcallFunctionNode(s, nd)
    [] nd.k = "extCall" -> visitextCallFunctionNode(s, nd)
    [] nd.k = "test" -> visittestNode(s, nd)
    [] nd.k = "comparator" -> visitcomparatorNode(s, nd, nd.size, nd.target)
    [] nd.k = "ternaryIf" -> visitternaryIfNode(s, nd)
    [] nd.k = "assignement" -> visitassignementNode(s, nd)
    [] nd.k = "statement" -> visitstatementNode(s, nd)
    [] nd.k = "block" -> visitblockStatementNode(s, nd)
    [] nd.k = "if" -> visitifNode(s, nd)
    [] nd.k = "else" -> visitelseNode(s, nd)
    [] nd.k = "while" -> visitwhileNode(s, nd)
    [] nd.k = "for" -> visitforNode(s, nd)
    [] nd.k = "switch" -> visitswitchNode(s, nd)
    [] nd.k = "case" -> Put(s, Label(nd.target))
    [] nd.k = "continue" -> Jump(s, nd.target \o "_continue")
    [] nd.k = "break" -> Jump(s, nd.target \o "_end")
    [] nd.k = "return" -> visitreturnNode(s, nd)
    [] nd.k = "defFunction" -> visitdefFunctionNode(s, nd)
    [] nd.k = "defGlobal" -> visitdefGlobalVariableNode(s, nd)
    [] nd.k = "defExtGlobal" -> visitdefExtGlobalVariableNode(s, nd)
    [] OTHER -> s
=============================================================================
