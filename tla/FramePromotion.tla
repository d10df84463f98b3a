--------------------------- MODULE FramePromotion ---------------------------
(***************************************************************************)
(* promoteFrameSlots() (optimize.cpp): the stack locals a function uses     *)
(* most move to registers it never names, float ones to float registers     *)
(* stored around its calls, the others to a4..a7, which a call keeps.       *)
(* Here a body is the lines of one function, its label left out.            *)
(***************************************************************************)
EXTENDS AsmLines

START_2 == 32               \* _START_2: below it, arguments past the sixth
PROMOTE_MAX_SLOTS == 64

Mentions(x, reg) == \E k \in DOMAIN x.r : x.r[k] = reg
Named(body, reg) == \E i \in DOMAIN body : Mentions(body[i], reg)

IsBlockBoundary(x) == IsLabel(x) \/ IsBranch(x) \/ IsJump(x) \/ IsCall(x) \/ IsReturn(x)

(***************************************************************************)
(* How much a line counts: 8 times more in each backward jump around it.    *)
(***************************************************************************)
BackwardJumps(body) ==
  LET jumps == {i \in DOMAIN body : IsBranch(body[i]) \/ IsJump(body[i])}
  IN  {<<k, i>> \in {j \in DOMAIN body : IsLabel(body[j])} \X jumps :
         k < i /\ body[k] = Label(body[i].l)}

Weights(body) ==
  LET loops == BackwardJumps(body)
      around(i) == Cardinality({l \in loops : l[1] <= i /\ i <= l[2]})
  IN  [i \in DOMAIN body |-> 8 ^ (IF around(i) > 7 THEN 7 ELSE around(i))]

(***************************************************************************)
(* The frame slots of a body: its word accesses through a1, by offset.      *)
(***************************************************************************)
WordAccess == {"l32i", "s32i", "lsi", "ssi"}
NarrowAccess == {"l8ui", "s8i", "l16ui", "l16si", "s16i"}
FrameAccess(x) ==
  /\ x.op \in WordAccess \cup NarrowAccess
  /\ x.r[2] = 1 /\ x.r[1] # 1
IsWordAccess(x) == x.op \in WordAccess /\ FrameAccess(x)
AccessesSlot(x, off) == IsWordAccess(x) /\ x.n = off

\* Mutant: an address taken of the frame is not looked for.
FrameIsTakenForPlain(body) == TRUE

\* The frame is used only a slot at a time, its address never taken.
FrameIsPlain(body) ==
  \A i \in DOMAIN body :
    Mentions(body[i], 1) => body[i].op = "entry" \/ FrameAccess(body[i])

NarrowAccesses(body) ==
  {i \in DOMAIN body : FrameAccess(body[i]) /\ ~IsWordAccess(body[i])}
Slots(body) == {body[i].n : i \in {k \in DOMAIN body : IsWordAccess(body[k])}}

SlotIsBad(body, off) ==
  \/ off < START_2
  \/ \E other \in Slots(body) \ {off} : Overlap(off, 4, other, 4)
  \/ \E i \in NarrowAccesses(body) : Overlap(off, 4, body[i].n, Width(body[i]))

SlotWeight(body, weight, off) ==
  Walk(LAMBDA sum, i : IF AccessesSlot(body[i], off) THEN sum + weight[i] ELSE sum,
       0, 1, Len(body))

FloatOnly(body, off) ==
  \A i \in DOMAIN body : AccessesSlot(body[i], off) => body[i].op \in {"lsi", "ssi"}

CallWeight(body, weight) ==
  Walk(LAMBDA sum, i : IF IsCall(body[i]) THEN sum + weight[i] ELSE sum,
       0, 1, Len(body))

FirstAccess(body, off) ==
  FirstFrom(LAMBDA i : AccessesSlot(body[i], off), 1, Len(body))

\* The slot of most weight, the first used of those.
Best(body, weights, slots) ==
  CHOOSE off \in slots : \A other \in slots :
    \/ weights[off] > weights[other]
    \/ /\ weights[off] = weights[other]
       /\ FirstAccess(body, off) <= FirstAccess(body, other)

(***************************************************************************)
(* The copies promotion leaves around the float registers it gives out.     *)
(***************************************************************************)
FoldFloatLoad(body, i, regs) ==
  LET x == body[i]
      ft == x.r[1]
      fn == x.r[2]
      ends(y) == IsBlockBoundary(y) \/ LineWritesRegister(y, fn)
      stop == FirstFrom(LAMBDA j : ends(body[j]) \/ FirstOperandIs(body[j], ft),
                        i + 1, Len(body))
      dead == /\ stop <= Len(body) /\ ~ends(body[stop])
              /\ LineWritesRegister(body[stop], ft)
  IN  IF x.op # "mov.s" \/ ft \in regs \/ fn \notin regs THEN body
      ELSE Rewrite(LAMBDA j :
             CASE j \in (i + 1)..(stop - 1) -> RenameRegister(body[j], ft, fn, FALSE)
               [] j = stop /\ dead -> RenameRegister(body[j], ft, fn, TRUE)
               [] j = i /\ dead -> Blank
               [] OTHER -> body[j], Len(body))

FoldFloatStore(body, i, regs) ==
  LET x == body[i]
      fn == x.r[1]
      ft == x.r[2]
      p == LastDownTo(LAMBDA k : ~IsBlank(body[k]), i - 1, 1)
      stop == FirstFrom(LAMBDA j : \/ IsBlockBoundary(body[j])
                                   \/ RegRole(body[j], ft) # "untouched",
                        i + 1, Len(body))
      writes == /\ p > 0
                /\ LineWritesRegister(body[p], ft)
                /\ body[p].op \notin {"lsi", "wfr"}      \* written `xxx.s'
                /\ stop <= Len(body)
                /\ RegRole(body[stop], ft) = "written"
  IN  IF x.op = "mov.s" /\ fn \in regs /\ ft \notin regs /\ writes
      THEN [body EXCEPT ![p].r[1] = fn, ![i] = Blank] ELSE body

FoldFloatCopies(body, regs) ==
  LET loads == Walk(LAMBDA b, i : FoldFloatLoad(b, i, regs), body, 1, Len(body))
  IN  Walk(LAMBDA b, i : FoldFloatStore(b, i, regs), loads, 2, Len(body))

(***************************************************************************)
(* One function. A step gives one register, if it is free and there is a    *)
(* slot worth it: s is the body, the slots left and the float registers     *)
(* given, each with its slot.                                               *)
(***************************************************************************)
AccessAs(body, off, Register(_)) ==
  Rewrite(LAMBDA i : IF AccessesSlot(body[i], off) THEN Register(body[i])
                     ELSE body[i], Len(body))

ToFloatRegister(reg, x) ==
  Ins("mov.s", IF x.op = "lsi" THEN <<x.r[1], reg>> ELSE <<reg, x.r[1]>>, 0, "")

ToRegister(reg, x) ==
  CASE x.op = "l32i" -> Ins("movr", <<x.r[1], reg>>, 0, "")
    [] x.op = "s32i" -> Ins("mov", <<reg, x.r[1]>>, 0, "")
    [] x.op = "lsi" -> Ins("wfr", <<x.r[1], reg>>, 0, "")
    [] x.op = "ssi" -> Ins("rfr", <<reg, x.r[1]>>, 0, "")

GiveFloat(s, reg, weights, worth) ==
  LET best == Best(s.body, weights, s.slots \cap worth)
  IN  IF Named(s.body, reg) \/ s.slots \cap worth = {} THEN s
      ELSE [body |-> AccessAs(s.body, best, LAMBDA x : ToFloatRegister(reg, x)),
            slots |-> s.slots \ {best},
            given |-> Append(s.given, <<reg, best>>)]

Give(s, reg, weights) ==
  LET best == Best(s.body, weights, s.slots)
  IN  IF Named(s.body, reg) \/ s.slots = {} THEN s
      ELSE [s EXCEPT !.body = AccessAs(s.body, best, LAMBDA x : ToRegister(reg, x)),
                     !.slots = @ \ {best}]

\* Every call with the float registers stored before it and loaded after.
AroundCalls(body, given) ==
  LET all(op) == Reverse([k \in DOMAIN given |-> Ins(op, <<given[k][1], 1>>, given[k][2], "")])
  IN  Join(LAMBDA i : IF IsCall(body[i])
                      THEN all("ssi") \o <<body[i]>> \o all("lsi")
                      ELSE <<body[i]>>, Len(body))

PromoteFunction(body) ==
  LET weight == Weights(body)
      weights == [off \in Slots(body) |-> SlotWeight(body, weight, off)]
      good == {off \in Slots(body) : ~SlotIsBad(body, off)}
      worth == {off \in good : /\ FloatOnly(body, off)
                               /\ weights[off] > 2 * CallWeight(body, weight)}
      floats == Walk(LAMBDA s, k : GiveFloat(s, F(k), weights, worth),
                     [body |-> body, slots |-> good, given |-> <<>>], 3, 12)
      all == Walk(LAMBDA s, k : Give(s, k, weights), floats, 4, 7)
      regs == {all.given[k][1] : k \in DOMAIN all.given}
  IN  CASE ~FrameIsPlain(body) -> body
        [] Cardinality(Slots(body)) > PROMOTE_MAX_SLOTS -> body
        [] Cardinality(NarrowAccesses(body)) > PROMOTE_MAX_SLOTS -> body
        [] all.given = <<>> -> all.body
        [] OTHER -> AroundCalls(FoldFloatCopies(all.body, regs), all.given)

PromoteFrameSlots(text) == EachFunction(PromoteFunction, text)
=============================================================================
