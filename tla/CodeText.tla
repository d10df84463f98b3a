------------------------------ MODULE CodeText ------------------------------
(***************************************************************************)
(* What the code generator writes with (stackfunctions.h): the text of the  *)
(* functions with the cursor new lines are put after, the positions kept to *)
(* come back to, and the stacks the visitors of visitnode.cpp share, all in *)
(* one record s:                                                            *)
(*   text, pos, it, first   the lines; how many were put in (what get() is  *)
(*                          one less than); the line the cursor is on, from *)
(*                          0, Len(text) past the end; put before the first *)
(*   sp                     the positions kept                              *)
(*   numl, numr             register_numl, register_numr                    *)
(*   types                  globalType, the type an expression is for       *)
(*   point                  point_regnum                                    *)
(*   labels, numbers        for_if_num2, local_var_num                      *)
(*   literals               the constants put in the header                 *)
(*   data                   the labels of the header with their sizes       *)
(*   safe                   safeMode: stores into sized arrays are checked  *)
(*   pending, onlyExt, div  resultFillPending, boolextern,                  *)
(*                          addfloatdivision                                *)
(*   rtype                  the type the function being compiled returns    *)
(*   vt                     the type of the node visited last, as it is     *)
(*                          once visited; "eof" for none given              *)
(***************************************************************************)
EXTENDS AsmLines, TLC

NoText == [text |-> <<>>, pos |-> 0, it |-> 0, first |-> FALSE, sp |-> <<>>,
           numl |-> <<>>, numr |-> <<>>, types |-> <<>>, point |-> 4,
           labels |-> 999, numbers |-> 0, literals |-> <<>>, data |-> <<>>,
           safe |-> FALSE, pending |-> FALSE, onlyExt |-> FALSE, div |-> FALSE,
           rtype |-> "void", vt |-> "eof"]

\* Stack: pop() and get() of an empty one give its default.
Top(stack, default) == IF stack = <<>> THEN default ELSE stack[Len(stack)]
Popped(stack) == IF stack = <<>> THEN stack ELSE SubSeq(stack, 1, Len(stack) - 1)

L(s) == Top(s.numl, 15)                        \* register_numl.get()
R(s) == Top(s.numr, 15)
For(s) == Top(s.types, "int")                  \* globalType.get()
PushL(s, reg) == [s EXCEPT !.numl = Append(@, reg)]
PopL(s) == [s EXCEPT !.numl = Popped(@)]
Duplicate(s) == [s EXCEPT !.numl = IF @ = <<>> THEN <<15, 15>> ELSE Append(@, Top(@, 15))]
Move(s, d) == [s EXCEPT !.numl = Append(Popped(@), L(s) + d)]
Decrease(s) == Move(s, -1)
Increase(s) == Move(s, 1)

\* Mutant: the registers are counted from one.
RestartAtSixteen(s) == [s EXCEPT !.numl = <<16, 16>>, !.numr = <<16, 16>>]

Restart(s) == [s EXCEPT !.numl = <<15, 15>>, !.numr = <<15, 15>>]
PushType(s, t) == [s EXCEPT !.types = Append(@, t)]
PopType(s) == [s EXCEPT !.types = Popped(@)]

Get(s) == s.pos - 1
Keep(s, p) == [s EXCEPT !.sp = Append(@, p)]   \* sp.push()
Mark(s) == Keep(s, Get(s))
Unmark(s) == [s EXCEPT !.sp = Popped(@)]
MarkAgain(s) == Mark(Unmark(s))
Kept(s) == Top(s.sp, 0)
TrimMarks(s, depth) == [s EXCEPT !.sp = SubSeq(@, 1, depth)]
SwapMarks(s) ==
  LET n == Len(s.sp)
  IN  [s EXCEPT !.sp = SubSeq(@, 1, n - 2) \o <<@[n], @[n - 1]>>]

(***************************************************************************)
(* Text: the lines put after the cursor, which ends on the last of them.    *)
(***************************************************************************)
ChildAt(s, p) == IF p \in 0..(Len(s.text) - 1) THEN p ELSE Len(s.text)

PutAll(s, lines) ==
  LET n == Len(s.text)
      at == CASE s.first -> 0
              [] s.it >= n -> n
              [] OTHER -> s.it + 1
  IN  IF lines = <<>> THEN s
      ELSE [s EXCEPT !.text = SubSeq(@, 1, at) \o lines \o SubSeq(@, at + 1, n),
                     !.it = at + Len(lines) - 1, !.pos = @ + Len(lines), !.first = FALSE]

Put(s, line) == PutAll(s, <<line>>)

\* addAfter(pos, line): the cursor then goes where the last line is when the
\* text was written from its start.
PutAt(s, p, line) ==
  LET put == Put([s EXCEPT !.it = ChildAt(s, p), !.first = p < 0], line)
  IN  [put EXCEPT !.it = ChildAt(put, s.pos)]

PutBefore(s, line) ==
  LET n == Len(s.text)
  IN  [s EXCEPT !.text = SubSeq(@, 1, s.it) \o <<line>> \o SubSeq(@, s.it + 1, n),
                !.it = @ + 1, !.pos = @ + 1]

PutNoDouble(s, line) ==
  IF s.it < Len(s.text) /\ s.text[s.it + 1] = line THEN s ELSE Put(s, line)

CurrentPos(s) == IF s.it >= Len(s.text) THEN Len(s.text) - 1 ELSE s.it
Current(s) == s.text[CurrentPos(s) + 1]
ReplaceLine(s, p, line) ==
  IF p \in 0..(Len(s.text) - 1) THEN [s EXCEPT !.text[p + 1] = line] ELSE s
BlankCurrent(s) == ReplaceLine(s, CurrentPos(s), Blank)
GoTo(s, p) == [s EXCEPT !.it = ChildAt(s, p), !.first = p < 0 /\ s.text # <<>>]
GoToEnd(s) == [s EXCEPT !.it = ChildAt(s, Len(s.text) - 1), !.first = FALSE]

(***************************************************************************)
(* What is kept of a type (_varTypes): how each of its parts is loaded and  *)
(* stored, and their sizes.                                                 *)
(***************************************************************************)
TypeOf(load, store, size, total) ==
  [load |-> load, store |-> store, size |-> size, total |-> total]
Types ==
  [t \in {"none", "void", "eof"} |-> TypeOf("", "", 0, 0)]
  @@ [t \in {"uint8", "char", "bool"} |-> TypeOf("l8ui", "s8i", 1, 1)]
  @@ ("uint16" :> TypeOf("l16ui", "s16i", 1, 2))
  @@ ("s_int" :> TypeOf("l16si", "s16i", 1, 2))
  @@ [t \in {"uint32", "int"} |-> TypeOf("l32i", "s32i", 1, 4)]
  @@ ("float" :> TypeOf("lsi", "ssi", 1, 4))
  @@ ("CRGB" :> TypeOf("l8ui", "s8i", 3, 3))

LoadInto(t, reg, base, off) ==
  Ins(Types[t].load, <<IF t = "float" THEN F(reg) ELSE reg, base>>, off, "")
StoreFrom(t, reg, base, off) ==
  Ins(Types[t].store, <<IF t = "float" THEN F(reg) ELSE reg, base>>, off, "")
MoveInto(t, to, from) ==
  IF t = "float" THEN Ins("mov.s", <<F(to), F(from)>>, 0, "")
  ELSE Ins("mov", <<to, from>>, 0, "")

\* translateType(): the value of type `from` in register reg made one of `to`.
TranslateType(s, to, from, reg) ==
  CASE to = "none" \/ from = to -> s
    [] to = "float" -> PutNoDouble(s, Ins("float.s", <<F(reg), reg>>, 0, ""))
    [] from = "float" -> PutNoDouble(s, Ins("trunc.s", <<reg, F(reg)>>, 0, ""))
    [] OTHER -> s
=============================================================================
