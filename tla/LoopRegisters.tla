---------------------------- MODULE LoopRegisters ----------------------------
(***************************************************************************)
(* allocateLoopRegisters() (optimize.cpp): what a loop computes again and   *)
(* again is computed before it, and frame slots and such computations are   *)
(* kept in registers that are free over the lines concerned.                *)
(***************************************************************************)
EXTENDS Tidy

Preserved == INSTANCE CallPreservation          \* for its FoldCopies
START_2 == 32                                   \* _START_2
PROMOTE_MAX_SLOTS == 64
LOOP_MAX_CANDIDATES == 96

(***************************************************************************)
(* hoistInvariantLines(): one line moved as it is before its loop.          *)
(***************************************************************************)
Hoists(flow, loop, at, i) ==
  LET k == loop[1]
      b == loop[2]
      x == flow.def[i]
      loopDef == UNION {flow.def[j] : j \in k..b}
  IN  /\ Invariant(flow.line[i])
      /\ flow.use[i] \cap (loopDef \cup x) = {}
      /\ \A j \in k..b : flow.def[j] \cap x # {} => j = i
      /\ (flow.in[k] \cup flow.in[at]) \cap x = {}
      /\ HasCall(flow, k, b) => x \subseteq 3..7
      /\ x \subseteq 3..15 \cup F(3)..F(15)

\* The lines to move, each with its loop and the line it goes before.
MovesOf(flow, loop, at) ==
  IF at = 0 THEN {}
  ELSE {<<loop, i, at>> : i \in {j \in loop[1]..loop[2] : Hoists(flow, loop, at, j)}}
Moves(flow) ==
  UNION {MovesOf(flow, loop, LoopPreheader(flow, loop[1], loop[2])) : loop \in Loops(flow)}

HoistInvariantLine(flow) ==
  LET first(moves) == CHOOSE m \in moves : \A o \in moves :
                        \/ m[1][1] < o[1][1]
                        \/ m[1][1] = o[1][1] /\ m[2] <= o[2]
      moved(m) == RemoveBlankLines(InsertAt([flow.line EXCEPT ![m[2]] = Blank], m[3],
                                            flow.line[m[2]]))
      after(moves) == IF moves = {} THEN flow.line ELSE moved(first(moves))
  IN  IF InView(flow) THEN after(Moves(flow)) ELSE flow.line

RECURSIVE HoistAll(_, _)
HoistAll(body, turns) ==
  LET hoisted(next) == IF turns = 0 \/ next = body THEN body ELSE HoistAll(next, turns - 1)
  IN  hoisted(HoistInvariantLine(BuildFlow(body)))

(***************************************************************************)
(* packTemporaries(): values of a3..a7 written and read up within a         *)
(* straight run in a loop move to a13..a15.                                 *)
(***************************************************************************)
LastUseInRun(flow, d, x) ==
  LET n == Len(flow.line)
      stop == FirstFrom(LAMBDA k : \/ EntersBlock(flow.line[k]) \/ x \in flow.def[k]
                                   \/ LeavesRun(flow, k), d + 1, n)
      dies == /\ stop <= n
              /\ CASE EntersBlock(flow.line[stop]) -> x \notin flow.in[stop]
                   [] x \in flow.def[stop] -> TRUE
                   [] OTHER -> x \notin flow.out[stop]
      uses == {k \in (d + 1)..stop : ~EntersBlock(flow.line[k]) /\ x \in flow.use[k]}
  IN  IF dies /\ uses # {} THEN Max(uses) ELSE 0

FreeInRun(flow, d, u, reg) ==
  /\ reg \notin flow.use[u]
  /\ \A k \in d..(u - 1) : reg \notin flow.out[k] /\ (k > d => ~Touches(flow, k, reg))

PackedUpTo(s, d, u, x, reg, flow) ==
  [body |-> Rewrite(LAMBDA k :
              CASE k = d -> WithFirst(flow.line[d], reg)
                [] k \in (d + 1)..u /\ Touches(flow, k, x) ->
                     RenameRegister(flow.line[k], x, reg, x \in flow.def[k])
                [] OTHER -> s.body[k], Len(s.body)),
   next |-> u + 1]

PackLine(s, d, flow) ==
  LET x == CHOOSE reg \in flow.def[d] : TRUE
      inLoop == \E b \in d..Len(flow.line) : flow.target[b] \in 1..d
      packed(u, free) == IF u = 0 \/ free = {} THEN s
                         ELSE PackedUpTo(s, d, u, x, Max(free), flow)
      upTo(u) == packed(u, {reg \in 13..15 : FreeInRun(flow, d, u, reg)})
  IN  IF \/ d < s.next \/ flow.def[d] \cap 3..7 = {} \/ x \in flow.use[d]
         \/ flow.line[d].op \in {"fill", "pop"} \/ ~inLoop
      THEN s ELSE upTo(LastUseInRun(flow, d, x))

PackRound(flow) ==
  IF ~InView(flow) THEN flow.line
  ELSE Walk(LAMBDA s, d : PackLine(s, d, flow), [body |-> flow.line, next |-> 1],
            1, Len(flow.line)).body

RECURSIVE PackTemporaries(_, _)
PackTemporaries(body, rounds) ==
  LET packed(next) == IF rounds = 0 \/ next = body THEN body ELSE PackTemporaries(next, rounds - 1)
  IN  packed(PackRound(BuildFlow(body)))

(***************************************************************************)
(* collectSlots(): the frame slots still in memory, in the order they are   *)
(* first used; none when the frame is used in another way.                  *)
(***************************************************************************)
SlotWidth(x) ==
  CASE x.op \in {"l32i", "s32i", "lsi", "ssi"} -> 4
    [] x.op \in {"l8ui", "s8i"} -> 1
    [] x.op \in {"l16ui", "s16i"} -> 2
    [] OTHER -> 0
UsesFrame(flow, i) == i > 1 /\ Touches(flow, i, 1)
FrameIsInView(flow) ==
  \A i \in DOMAIN flow.line : UsesFrame(flow, i) =>
    LET x == flow.line[i]
    IN  x.op \in Loads \cup Stores /\ Len(x.r) = 2 /\ x.r[2] = 1 /\ x.r[1] # 1

StaysInMemory(x, frame) ==
  x.op = "l16si" \/ x.n < START_2 \/ x.n + SlotWidth(x) > frame

UnmovedLines(flow, frame) ==
  {i \in DOMAIN flow.line : UsesFrame(flow, i) /\ StaysInMemory(flow.line[i], frame)}
SlotLines(flow, frame) ==
  {i \in DOMAIN flow.line : UsesFrame(flow, i)} \ UnmovedLines(flow, frame)

WeightOf(flow, S) ==
  Walk(LAMBDA w, i : IF i \in S THEN w + LoopWeight(flow, i) ELSE w, 0, 1, Len(flow.line))

\* The candidate of the lines `slot' of one place in the frame.
SlotCandidate(flow, slot) ==
  LET i == Min(slot)
      width == SlotWidth(flow.line[i])
  IN  [loop |-> 0, off |-> flow.line[i].n, lo |-> i, hi |-> Max(slot),
       width |-> IF \A j \in slot : SlotWidth(flow.line[j]) = width THEN width ELSE -1,
       weight |-> WeightOf(flow, slot), kind |-> Blank, reg |-> -1]

SlotCandidates(flow, at) ==
  LET slot(i) == {j \in at : flow.line[j].n = flow.line[i].n}
  IN  Join(LAMBDA i : IF i \in at /\ i = Min(slot(i)) THEN <<SlotCandidate(flow, slot(i))>>
                      ELSE <<>>, Len(flow.line))

\* Overlapping slots stay in memory. The list is packed in place while it is
\* gone through, so each is compared with what is in the list by then.
Space(c) == IF c.width > 0 THEN c.width ELSE 4

KeepSlot(s, i, flow, frame) ==
  LET c == s.list[i]
      bad == \/ c.width < 0
             \/ \E t \in DOMAIN s.list \ {i} :
                  Overlap(s.list[t].off, Space(s.list[t]), c.off, c.width)
             \/ \E j \in UnmovedLines(flow, frame) :
                  Overlap(flow.line[j].n, Width(flow.line[j]), c.off, c.width)
  IN  IF bad THEN s
      ELSE [list |-> [s.list EXCEPT ![s.kept + 1] = c], kept |-> s.kept + 1]

CollectSlots(flow) ==
  LET frame == flow.line[1].n
      kept(s) == SubSeq(s.list, 1, s.kept)
      packed(all) == Walk(LAMBDA s, i : KeepSlot(s, i, flow, frame),
                          [list |-> all, kept |-> 0], 1, Len(all))
      from(all) == IF Len(all) > LOOP_MAX_CANDIDATES THEN <<>> ELSE kept(packed(all))
  IN  IF ~FrameIsInView(flow) \/ Cardinality(UnmovedLines(flow, frame)) > PROMOTE_MAX_SLOTS
      THEN <<>> ELSE from(SlotCandidates(flow, SlotLines(flow, frame)))

\* Each kept busy over the loops its lines touch.
CollectSlotsOver(flow) ==
  LET busy(c, range) == [c EXCEPT !.lo = range[1], !.hi = range[2]]
      over(slots) == Rewrite(LAMBDA k : busy(slots[k], OverLoops(flow, <<slots[k].lo, slots[k].hi>>)),
                             Len(slots))
  IN  over(CollectSlots(flow))

(***************************************************************************)
(* One candidate for each loop and each kind of line in it that computes    *)
(* the same thing every time.                                               *)
(***************************************************************************)
SameEveryTime(flow, k, b, i) ==
  LET loopDef == UNION {flow.def[j] : j \in k..b}
  IN  /\ Invariant(flow.line[i])
      /\ flow.line[i].op \in Hoistable =>
           flow.use[i] \cap (loopDef \cup flow.def[i]) = {}

CandidatesOf(flow, k, b) ==
  LET same(lines, i) == {j \in lines : Kind(flow.line[j]) = Kind(flow.line[i])}
      candidate(at, lines, i) ==
        [loop |-> k, off |-> 0, width |-> 0, lo |-> at, hi |-> b,
         weight |-> WeightOf(flow, same(lines, i)), kind |-> flow.line[i], reg |-> -1]
      each(at, lines) == Join(LAMBDA i : IF i \in lines /\ i = Min(same(lines, i))
                                         THEN <<candidate(at, lines, i)>> ELSE <<>>, b)
      from(at) == IF at = 0 THEN <<>>
                  ELSE each(at, {i \in k..b : SameEveryTime(flow, k, b, i)})
  IN  from(LoopPreheader(flow, k, b))

\* Sorted by weight, then by length. (What qsort() does of two that are equal
\* is left to the library; here they keep their order.)
Heaviest(all) ==
  LET length(c) == c.hi - c.lo
      comes(a, b) ==
        \/ all[a].weight > all[b].weight
        \/ /\ all[a].weight = all[b].weight
           /\ \/ length(all[a]) > length(all[b])
              \/ length(all[a]) = length(all[b]) /\ a < b
      order == SortSeq(Places(LAMBDA i : TRUE, Len(all)), comes)
  IN  Rewrite(LAMBDA c : all[order[c]], Len(all))

\* The candidates there is room for: the slots first, then by loop.
Candidates(flow) ==
  LET ofLoop(k, ends) == IF ends = {} THEN <<>> ELSE CandidatesOf(flow, k, Max(ends))
      all == CollectSlotsOver(flow)
             \o Join(LAMBDA k : ofLoop(k, {l[2] : l \in {o \in Loops(flow) : o[1] = k}}),
                     Len(flow.line))
  IN  Heaviest(SubSeq(all, 1, Min({Len(all), LOOP_MAX_CANDIDATES})))

(***************************************************************************)
(* allocateFunction(): each candidate in turn gets the first register free  *)
(* over its lines. owner is the candidate a line's computation went to.     *)
(***************************************************************************)
IsHoist(c) == c.loop > 0
Order == <<8, 9, 10, 11, 12, 13, 14, 15, 3, 4, 5, 6, 7>>
FloatOrder == [k \in 1..13 |-> F(k + 2)]
FloatResult(c) == IsHoist(c) /\ IsFloat(c.kind.r[1])

\* Mutant: two candidates clash only when they start on the same line.
ClashesAtStart(list, c, reg) ==
  \E d \in 1..(c - 1) : list[d].reg = reg /\ list[d].lo = list[c].lo

Clashes(list, c, reg) ==
  \E d \in 1..(c - 1) : /\ list[d].reg = reg
                        /\ list[d].lo <= list[c].hi /\ list[c].lo <= list[d].hi

GiveRegister(s, c, flow) ==
  LET x == s.list[c]
      given(free, lines) ==
        IF (IsHoist(x) /\ lines = {}) \/ free = <<>> THEN s
        ELSE [list |-> [s.list EXCEPT ![c].reg = free[1]],
              owner |-> Rewrite(LAMBDA i : IF i \in lines THEN c ELSE s.owner[i],
                                Len(flow.line))]
  IN  given(SelectSeq(IF FloatResult(x) THEN FloatOrder ELSE Order, LAMBDA reg :
              RegisterFreeOver(flow, reg, x.lo, x.hi) /\ ~Clashes(s.list, c, reg)),
            {i \in x.loop..x.hi : /\ IsHoist(x) /\ s.owner[i] = 0
                                  /\ Invariant(flow.line[i])
                                  /\ Kind(flow.line[i]) = Kind(x.kind)})

\* A slot access as a register move; s8i and s16i keep only their bits.
InRegister(x, c) ==
  CASE x.op \in {"l32i", "l8ui", "l16ui"} -> Ins("movr", <<x.r[1], c.reg>>, 0, "")
    [] x.op = "s32i" -> Ins("mov", <<c.reg, x.r[1]>>, 0, "")
    [] x.op \in {"s8i", "s16i"} -> Ins("extui", <<c.reg, x.r[1]>>, 8 * c.width, "")
    [] x.op = "lsi" -> Ins("wfr", <<x.r[1], c.reg>>, 0, "")
    [] x.op = "ssi" -> Ins("rfr", <<c.reg, x.r[1]>>, 0, "")

LineOf(flow, given, i) ==
  LET x == flow.line[i]
      slots == {c \in DOMAIN given.list :
                  /\ ~IsHoist(given.list[c]) /\ given.list[c].reg >= 0
                  /\ UsesFrame(flow, i) /\ given.list[c].off = x.n}
      c == given.list[given.owner[i]]
  IN  CASE given.owner[i] > 0 ->
             Ins(IF FloatResult(c) THEN "mov.s" ELSE "movr", <<x.r[1], c.reg>>, 0, "")
        [] slots # {} -> InRegister(x, given.list[CHOOSE s \in slots : TRUE])
        [] OTHER -> x

HoistedBefore(given, i) ==
  LET here == SelectSeq(given.list, LAMBDA c : IsHoist(c) /\ c.reg >= 0 /\ c.lo = i)
  IN  Reverse([k \in DOMAIN here |-> WithFirst(here[k].kind, here[k].reg)])

AllocateFunction(flow) ==
  LET given(candidates) ==
        Walk(LAMBDA s, c : GiveRegister(s, c, flow),
             [list |-> candidates, owner |-> Rewrite(LAMBDA i : 0, Len(flow.line))],
             1, Len(candidates))
      with(s) == Join(LAMBDA i : HoistedBefore(s, i) \o <<LineOf(flow, s, i)>>, Len(flow.line))
  IN  IF InView(flow) THEN with(given(Candidates(flow))) ELSE flow.line

(***************************************************************************)
(* The whole pass: twice, a float.s of a constant being invariant only once *)
(* the first time has moved its movi out.                                   *)
(***************************************************************************)
TIDY_ROUNDS == 8
HOIST_TURNS == 64

RECURSIVE TidyRounds(_, _, _)
TidyRounds(body, Before(_), rounds) ==
  LET tidied(start, next) == IF next = start THEN start ELSE TidyRounds(next, Before, rounds - 1)
      from(start) == tidied(start, TidyFunction(start))
  IN  IF rounds = 0 THEN body ELSE from(Before(RemoveBlankLines(body)))

AllocateOnce(body) ==
  LET tidied == RemoveBlankLines(TidyRounds(body, LAMBDA b : b, TIDY_ROUNDS))
      packed == PackTemporaries(HoistAll(tidied, HOIST_TURNS), TIDY_ROUNDS)
  IN  TidyRounds(AllocateFunction(BuildFlow(packed)), Preserved!FoldCopies, TIDY_ROUNDS)

AllocateLoopRegisters(text) ==
  EachFunction(LAMBDA body :
    RemoveBlankLines(Walk(LAMBDA b, time : AllocateOnce(b), body, 1, 2)), text)
=============================================================================
