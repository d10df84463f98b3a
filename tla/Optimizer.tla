----------------------------- MODULE Optimizer ------------------------------
(***************************************************************************)
(* optimize() and optimizeSpeed(): the peephole passes over the generated   *)
(* text (optimize.cpp). Each pass is a function from a text to a text of    *)
(* the same length, a line it removes becoming blank.                       *)
(***************************************************************************)
EXTENDS AsmLines

Drop(text, i) == [text EXCEPT ![i] = Blank]

(***************************************************************************)
(* Pass 1 of optimize() and of optimizeSpeed(): a load of a register that   *)
(* repeats the last load tracked for it is dropped.                         *)
(***************************************************************************)
BaseOf(last) == IF last.op \in IndirectLoads THEN {last.r[2]} ELSE {}

\* The tracked load may no longer hold: its base is named first by the line,
\* or the line stores where it reads.
LoadMayChange(x, last) ==
  \/ x.r # <<>> /\ x.r[1] \in BaseOf(last)
  \/ StoreMayClobber(x, last)

RepeatedLoad(s, i, reg, loads, Forgets(_, _)) ==
  LET x == s.text[i]
      last == IF LoadMayChange(x, s.last) THEN Blank ELSE s.last
  IN  CASE IsBlank(x) -> s
        [] IsLabel(x) \/ Forgets(x, s.last) -> [s EXCEPT !.last = Blank]
        [] OTHER ->
             IF ~FirstOperandIs(x, reg) THEN [s EXCEPT !.last = last]
             ELSE IF x = last THEN [text |-> Drop(s.text, i), last |-> last]
             ELSE [s EXCEPT !.last = IF x.op \in loads /\ ~SelfBased(x)
                                     THEN x ELSE Blank]

DropRepeatedLoads(text, reg, loads, Forgets(_, _)) ==
  Walk(LAMBDA s, i : RepeatedLoad(s, i, reg, loads, Forgets),
       [text |-> text, last |-> Blank], 1, Len(text)).text

TrackedLoads == {"movi", "movExt"} \cup IndirectLoads

\* optimize(): a call takes with it what was read through a8 and above, a
\* call8 what a8 and above hold.
LowRepeatedLoads(text, reg) ==
  DropRepeatedLoads(text, reg, TrackedLoads, LAMBDA x, last :
    \/ IsCall(x) /\ \E b \in BaseOf(last) : b >= 8
    \/ x.op = "call8" /\ reg >= 8)

\* optimizeSpeed(): any call takes all.
HighRepeatedLoads(text, reg) ==
  DropRepeatedLoads(text, reg, TrackedLoads \cup {"l32r"},
                    LAMBDA x, last : IsCall(x))

(***************************************************************************)
(* Pass 2: a float.s that is repeated before anything is done to what it    *)
(* converts makes the first of the two useless.                             *)
(***************************************************************************)
RepeatedFloat(s, i) ==
  LET x == s.text[i]
      none == [s EXCEPT !.before = 0]
  IN  CASE IsBlank(x) -> s
        [] x.op = "float.s" ->
             IF s.before # 0 /\ x = s.text[s.before]
             THEN [text |-> Drop(s.text, s.before), before |-> 0,
                   source |-> s.source]
             ELSE [s EXCEPT !.before = i, !.source = x.r[2]]
        [] IsLabel(x) \/ IsCall(x) -> [none EXCEPT !.source = -1]
        [] FirstOperandIs(x, s.source) -> [none EXCEPT !.source = -1]
        [] OTHER -> s

DropRepeatedFloats(text) ==
  Walk(RepeatedFloat, [text |-> text, before |-> 0, source |-> -1],
       1, Len(text)).text

(***************************************************************************)
(* Pass 3: `op aX,...; mov aY,aX' becomes `op aY,...'.                      *)
(***************************************************************************)
Foldable == {"mull", "quou", "quos", "sub", "add", "mov", "movi", "l32i",
             "l32r", "l16i", "l16ui", "l8ui", "addi", "movr"}

FoldMove(s, i) ==
  LET x == s.text[i]
      b == s.text[s.before]
      folds == /\ x.op = "mov" /\ s.before # 0
               /\ b.op \in Foldable
               /\ ~(b.r[1] = 2 /\ x.r[1] # 2)      \* a2 returns the result
               /\ b.r[1] = x.r[2]
  IN  IF IsBlank(x) THEN s
      ELSE IF folds
      THEN [text |-> [Drop(s.text, s.before) EXCEPT
                        ![i] = [b EXCEPT !.r[1] = x.r[1]]], before |-> i]
      ELSE [s EXCEPT !.before = i]

FoldMoves(text) ==
  Walk(FoldMove, [text |-> text, before |-> 0], 1, Len(text)).text

(***************************************************************************)
(* Pass 4: what reads a copy reads the original instead, and the copy is    *)
(* dropped once nothing reads it. A copy is the register written (from),    *)
(* the one it copies (to) and the line it is made at.                       *)
(***************************************************************************)
StillRead(text, def, reg, use) ==
  \/ \E j \in (def + 1)..(use - 1) : RegRole(text[j], reg) = "read"
  \/ LET goesOn(x) == ~IsLabel(x) /\ ~IsBranch(x) /\ ~IsJump(x)
         straightTo(j) == \A k \in use..j : goesOn(text[k])
         stop == FirstFrom(LAMBDA j :
                   \/ IsFunctionLabel(text[j])
                   \/ RegRole(text[j], reg) = "read"
                   \/ RegRole(text[j], reg) = "written" /\ straightTo(j),
                   use + 1, Len(text))
     IN  /\ ~LineWritesRegister(text[use], reg)
         /\ stop <= Len(text)
         /\ RegRole(text[stop], reg) = "read"

BlankCopyIfDead(text, def, reg, use) ==
  IF StillRead(text, def, reg, use) THEN text ELSE Drop(text, def)

\* The copies without the last made of those with P.
WithoutLast(copies, P(_)) ==
  {c \in copies : ~(P(c) /\ \A d \in copies : P(d) => d.at <= c.at)}

\* The operands Pass 4 rewrites in a line, by their place.
Rewritten(x) ==
  CASE x.op \in {"beqz", "bnez"} -> <<1>>
    [] x.op \in {"bge", "blt", "beq", "bne"} -> <<1, 2>>
    [] x.op \in {"blti", "bgei", "beqi", "bnei"} -> <<1>>
    [] x.op \in {"neg", "abs", "mov", "sll", "srl", "round.s", "floor.s",
                 "float.s", "l32i", "s32i", "l16i", "l16si", "l16ui", "l8ui",
                 "s8i", "s16i", "addi", "trunc.s"} -> <<2>>
    [] x.op \in {"remu", "rems", "or", "and", "mull", "sub", "add", "quou",
                 "quos", "addx2", "addx4", "addx8", "subx2", "subx4",
                 "subx8"} -> <<2, 3>>
    [] OTHER -> <<>>

Compares == {"bge", "blt", "beq", "bne", "blti", "bgei", "beqi", "bnei"}
DropsItsCopy(x) ==
  x.op \in {"movi", "rsr", "wsr", "ssl"}
           \cup {"neg", "abs", "mov", "sll", "srl", "round.s", "floor.s",
                 "float.s", "l32i", "s32i", "l16i", "l16si", "l16ui", "l8ui",
                 "s8i", "s16i", "addi", "trunc.s", "remu", "rems", "or", "and",
                 "mull", "sub", "add", "quou", "quos", "addx2", "addx4",
                 "addx8", "subx2", "subx4", "subx8"}

\* One operand of line i read through the copy that holds it, if there is one.
\* The line itself is replaced at the end, so it is kept in s.now until then.
ReadThrough(s, i, k) ==
  LET reg == s.now.r[k]
      known == {c \in s.copies : c.from = reg}
      c == CHOOSE d \in known : TRUE
  IN  IF known = {} THEN s
      ELSE [text |-> BlankCopyIfDead(s.text, c.at, reg, i),
            copies |-> IF s.now.op \in Compares THEN s.copies \ {c} ELSE s.copies,
            now |-> [s.now EXCEPT !.r[k] = c.to]]

CopyOf(x, at) == [from |-> x.r[1], to |-> x.r[2], at |-> at]

PropagateCopy(s, i) ==
  LET x == s.text[i]
      dst == IF x.r = <<>> THEN -1 ELSE x.r[1]
      entered ==
        CASE x.op = "movr" ->
               WithoutLast(WithoutLast(s.copies, LAMBDA c : c.to = x.r[2]),
                           LAMBDA c : c.from = dst)
               \cup {CopyOf(x, i)}
          [] IsBranch(x) -> WithoutLast(s.copies, LAMBDA c : c.to = dst)
          [] OTHER -> s.copies
      read == Walk(LAMBDA u, k : ReadThrough(u, i, Rewritten(x)[k]),
                   [text |-> s.text, copies |-> entered, now |-> x],
                   1, Len(Rewritten(x)))
      kept == CASE IsLabel(x) \/ IsCall(x) -> {}
                [] DropsItsCopy(x) -> {c \in read.copies : c.from # dst}
                [] OTHER -> read.copies
      copies == IF x.op = "mov" /\ dst # read.now.r[2]
                THEN kept \cup {CopyOf(read.now, i)} ELSE kept
      written == WrittenRegister(read.now)
  IN  IF IsBlank(x) THEN s
      ELSE IF entered = {} /\ x.op # "mov" THEN [s EXCEPT !.copies = {}]
      ELSE [text |-> [read.text EXCEPT ![i] = read.now],
            copies |-> {c \in copies : /\ c.to \notin written
                                       /\ c.from \in written => c.at = i}]

PropagateCopies(text) ==
  Walk(PropagateCopy, [text |-> text, copies |-> {}], 1, Len(text)).text

(***************************************************************************)
(* Pass 5, a register moved to itself, and Pass 6, a load from where the    *)
(* line before has just stored the same register.                           *)
(***************************************************************************)
DropSelfMoves(text) ==
  Rewrite(LAMBDA i : IF text[i].op = "mov" /\ text[i].r[1] = text[i].r[2]
                     THEN Blank ELSE text[i], Len(text))

StoreOf(load) == CASE load = "l32i" -> "s32i"
                   [] load = "l8ui" -> "s8i"
                   [] load = "lsi" -> "ssi"
                   [] OTHER -> "none"

DropReload(text, i) ==
  IF text[i - 1] = [text[i] EXCEPT !.op = StoreOf(text[i].op)]
  THEN Drop(text, i) ELSE text

DropReloads(text) == Walk(DropReload, text, 2, Len(text))

Optimize(text) ==
  LET pass1 == Walk(LowRepeatedLoads, text, 3, 10)
      pass3 == FoldMoves(DropRepeatedFloats(pass1))
  IN  DropReloads(DropSelfMoves(PropagateCopies(pass3)))

(***************************************************************************)
(* optimizeSpeed(): Pass 2, a return right after a return, and Pass 3, an   *)
(* ssai of what the shift amount register (sar) already holds.              *)
(***************************************************************************)
SecondReturn(s, i) ==
  LET x == s.text[i]
  IN  CASE IsBlank(x) -> s
        [] IsReturn(x) -> [text |-> IF s.returned THEN Drop(s.text, i) ELSE s.text,
                           returned |-> TRUE]
        [] OTHER -> [s EXCEPT !.returned = FALSE]

DropSecondReturns(text) ==
  Walk(SecondReturn, [text |-> text, returned |-> FALSE], 1, Len(text)).text

RepeatedShift(s, i) ==
  LET x == s.text[i]
  IN  CASE x.op = "ssai" -> [text |-> IF x.n = s.sar THEN Drop(s.text, i) ELSE s.text,
                             sar |-> x.n]
        [] IsLabel(x) \/ IsCall(x) \/ x.op \in {"ssl", "ssr", "wsr", "xsr"} ->
             [s EXCEPT !.sar = -1]
        [] OTHER -> s

DropRepeatedShifts(text) ==
  Walk(RepeatedShift, [text |-> text, sar |-> -1], 1, Len(text)).text

OptimizeSpeed(text) ==
  DropRepeatedShifts(DropSecondReturns(Walk(HighRepeatedLoads, text, 11, 15)))
=============================================================================
