-------------------------- MODULE CallPreservation --------------------------
(***************************************************************************)
(* preserveAcrossCalls() (optimize.cpp): the temporaries a call destroys    *)
(* move to registers it keeps or are saved around it, and the stack of      *)
(* spill, push, fill and pop lines gets its slots in the frame. A body is   *)
(* the lines of one function after its label; its first is the entry.       *)
(***************************************************************************)
EXTENDS AsmLines

FRAME_RESERVED == 32               \* _FRAME_RESERVED
MAX_OFFSET == 1020                 \* the furthest lsi, ssi, l32i, s32i reach

\* kCallClobbered, in its order: a9, a11..a15, f3..f15.
CallClobbered == <<9, 11, 12, 13, 14, 15>> \o [k \in 1..13 |-> F(k + 2)]

\* Mutant: only what the line after the call reads is taken for live.
LiveAcrossNextLine(body, c, reg) ==
  c < Len(body) /\ RegRole(body[c + 1], reg) = "read"

LiveAcross(body, c, reg) ==
  LET stop == FirstFrom(LAMBDA j : \/ IsReturn(body[j])
                                   \/ RegRole(body[j], reg) # "untouched",
                        c + 1, Len(body))
  IN  stop <= Len(body) /\ RegRole(body[stop], reg) = "read"

LiveAcrossCall(body, c) ==
  SelectSeq(CallClobbered, LAMBDA reg : LiveAcross(body, c, reg))

UnusedWindowRegisters(body) ==
  SelectSeq(<<3, 4, 5, 6, 7>>,
            LAMBDA reg : \A i \in 2..Len(body), k \in 1..3 :
                           k \in DOMAIN body[i].r => body[i].r[k] # reg)

(***************************************************************************)
(* renameAcrossCall(): the lines from the one that last wrote reg before    *)
(* the call to the last that reads it after, when those are straight-line   *)
(* code the renaming cannot be seen from: a pair of line numbers, or none.  *)
(***************************************************************************)
LifeAround(body, c, reg, spare) ==
  LET role(j) == RegRole(body[j], reg)
      updates(j) == role(j) = "read" /\ LineWritesRegister(body[j], reg)
      leaves(j) == EndsStraightLine(body[j]) \/ IsCall(body[j])
      sets(j) == updates(j) \/ role(j) = "written"
      begins(def) == def >= 2 /\ ~leaves(def) /\ role(def) = "written"
      ends(stop) == stop <= Len(body) => sets(stop) \/ IsReturn(body[stop])
      last(stop) == IF stop <= Len(body) /\ updates(stop) THEN stop
                    ELSE LastDownTo(LAMBDA j : role(j) = "read", stop - 1, c + 1)
      unused(life) == \A j \in life[1]..life[2] : RegRole(body[j], spare) = "untouched"
      around(life) == IF life[2] > c /\ unused(life) THEN life ELSE <<>>
      between(def, stop) == IF role(c) # "read" /\ begins(def) /\ ends(stop)
                            THEN around(<<def, last(stop)>>) ELSE <<>>
  IN  between(LastDownTo(LAMBDA j : leaves(j) \/ sets(j), c - 1, 2),
              FirstFrom(LAMBDA j : sets(j) \/ (role(j) # "read" /\ leaves(j)),
                        c + 1, Len(body)))

RenameLife(body, life, reg, spare) ==
  Rewrite(LAMBDA j : IF j \in life[1]..life[2]
                     THEN RenameRegister(body[j], reg, spare,
                            j = life[2] /\ LineWritesRegister(body[j], reg))
                     ELSE body[j], Len(body))

\* One turn of the loop that renames the live registers of the call at c: s
\* is the body, the registers still to save, the next of them to try and how
\* many spare ones are taken. The last register takes the renamed one's place.
RenameNext(s, c, spare) ==
  LET reg == s.live[s.next]
      n == Len(s.live)
      renamed(life) ==
        IF life = <<>> THEN [s EXCEPT !.next = @ + 1]
        ELSE [s EXCEPT !.body = RenameLife(s.body, life, reg, spare[s.used + 1]),
                       !.used = @ + 1,
                       !.live = SubSeq([s.live EXCEPT ![s.next] = s.live[n]], 1, n - 1)]
  IN  IF s.next > n \/ s.used = Len(spare) THEN s
      ELSE renamed(IF IsFloat(reg) THEN <<>> ELSE LifeAround(s.body, c, reg, spare[s.used + 1]))

(***************************************************************************)
(* The save and restore of the k-th register left: to a spare register      *)
(* while there is one, else to a slot.                                      *)
(***************************************************************************)
SlotOffset(frame, k) == frame - FRAME_RESERVED + 4 * (k - 1)

Save(reg, k, free, frame) ==
  IF k <= Len(free)
  THEN Ins(IF IsFloat(reg) THEN "rfr" ELSE "mov", <<free[k], reg>>, 0, "")
  ELSE Ins(IF IsFloat(reg) THEN "ssi" ELSE "s32i", <<reg, 1>>,
           SlotOffset(frame, k - Len(free)), "")

Restore(reg, k, free, frame) ==
  IF k <= Len(free)
  THEN Ins(IF IsFloat(reg) THEN "wfr" ELSE "mov", <<reg, free[k]>>, 0, "")
  ELSE Ins(IF IsFloat(reg) THEN "lsi" ELSE "l32i", <<reg, 1>>,
           SlotOffset(frame, k - Len(free)), "")

SaveAround(s, c, frame, spare) ==
  LET free == SubSeq(spare, s.used + 1, Len(spare))
      lines(Line(_, _, _, _)) ==
        Reverse([k \in DOMAIN s.live |-> Line(s.live[k], k, free, frame)])
  IN  SubSeq(s.body, 1, c - 1) \o lines(Save) \o <<s.body[c]>>
      \o lines(Restore) \o SubSeq(s.body, c + 1, Len(s.body))

PreserveCall(body, c, frame, spare, maxSlots) ==
  LET renamed(live) ==
        Walk(LAMBDA u, turn : RenameNext(u, c, spare),
             [body |-> body, live |-> live, next |-> 1, used |-> 0], 1, Len(live))
      preserved(live) == IF live = <<>> \/ Len(live) > maxSlots + Len(spare) THEN body
                         ELSE SaveAround(renamed(live), c, frame, spare)
  IN  preserved(LiveAcrossCall(body, c))

(***************************************************************************)
(* The slots: as many as the call that needs most, then one for each of the *)
(* deepest nesting of spill and push. What is in the caller's frame moves   *)
(* away by what this one grows.                                             *)
(***************************************************************************)
MaxSlots(body, frame, nSpare) ==
  LET needed(c) == Len(LiveAcrossCall(body, c)) - nSpare
      fits == {c \in 2..Len(body) : /\ IsCall(body[c])
                                    /\ SlotOffset(frame, needed(c)) <= MAX_OFFSET}
  IN  Max({0} \cup {needed(c) : c \in fits})

Opens(x) == x.op \in {"spill", "push"}
Closes(x) == x.op \in {"fill", "pop"}

MaxSpill(body) ==
  Walk(LAMBDA s, i :
         CASE Opens(body[i]) -> [depth |-> s.depth + 1,
                                 max |-> Max({s.max, s.depth + 1})]
           [] Closes(body[i]) -> [s EXCEPT !.depth = @ - 1]
           [] OTHER -> s,
       [depth |-> 0, max |-> 0], 2, Len(body)).max

Growth(maxSlots, maxSpill) == (((maxSlots + maxSpill) * 4 + 7) \div 8) * 8

Grown(body, frame, growth) ==
  Rewrite(LAMBDA i :
            CASE i = 1 -> [body[1] EXCEPT !.n = frame + growth]
              [] Len(body[i].r) = 2 /\ body[i].r[2] = 1 /\ body[i].n >= frame ->
                   [body[i] EXCEPT !.n = @ + growth]
              [] OTHER -> body[i],
          Len(body))

SlotOfSpill(s, i, frame, maxSlots) ==
  LET x == s.body[i]
      depth == IF Closes(x) THEN s.depth - 1 ELSE s.depth
      at(op) == Ins(op, <<x.r[1], 1>>, SlotOffset(frame, maxSlots + depth + 1), "")
  IN  CASE Opens(x) -> [body |-> [s.body EXCEPT ![i] = at("s32i")], depth |-> depth + 1]
        [] Closes(x) -> [body |-> [s.body EXCEPT ![i] = at("l32i")], depth |-> depth]
        [] OTHER -> s

(***************************************************************************)
(* The lines this leaves behind: copies of a register to itself and writes  *)
(* nothing reads, deleted until there is none; and copies whose reads can   *)
(* read the original.                                                       *)
(***************************************************************************)
SelfCopy(x) == x.op \in {"mov", "movr", "mov.s"} /\ x.r[1] = x.r[2]

Unread(x, body) ==
  /\ \E reg \in WrittenRegister(x) \ {8} :
       /\ reg \in 3..15
       /\ RegRole(x, reg) = "written"
       /\ \A i \in DOMAIN body : RegRole(body[i], reg) # "read"

RECURSIVE RemoveUnreadWrites(_)
RemoveUnreadWrites(body) ==
  LET removed(kept) == IF kept = body THEN body ELSE RemoveUnreadWrites(kept)
  IN  removed(SelectSeq(body, LAMBDA x : ~SelfCopy(x) /\ ~Unread(x, body)))

FoldCopy(s) ==
  LET body == s.body
      x == body[s.at]
      t == x.r[1]
      src == x.r[2]
      role(k) == RegRole(body[k], t)
      leaves(k) == EndsStraightLine(body[k]) \/ IsCall(body[k])
      reads(stop) == {k \in (s.at + 1)..(stop - 1) : role(k) = "read"}
      changed(stop) == {k \in (s.at + 1)..(stop - 1) : LineWritesRegister(body[k], src)}
      folds(stop) == /\ stop <= Len(body) /\ role(stop) = "written" /\ ~leaves(stop)
                     /\ \A c \in changed(stop), k \in reads(stop) : k <= c
      folded(among) == RemoveAt(Rewrite(LAMBDA k : IF k \in among
                                                   THEN RenameRegister(body[k], t, src, FALSE)
                                                   ELSE body[k], Len(body)), s.at)
      upTo(stop) == IF folds(stop) THEN [s EXCEPT !.body = folded(reads(stop))]
                    ELSE [s EXCEPT !.at = @ + 1]
  IN  CASE s.at > Len(body) -> s
        [] s.at <= Len(body) /\ x.op \in {"mov", "movr"} /\ t # src /\ 1 \notin {t, src} ->
             upTo(FirstFrom(LAMBDA k :
               \/ leaves(k) \/ role(k) = "written"
               \/ FirstOperandIs(body[k], t) /\ body[k].op \notin {"s8i", "s16i", "s32i"},
               s.at + 1, Len(body)))
        [] OTHER -> [s EXCEPT !.at = @ + 1]

FoldCopies(body) ==
  Walk(LAMBDA s, turn : FoldCopy(s), [body |-> body, at |-> 2], 2, Len(body)).body

(***************************************************************************)
(* A function, then the text.                                               *)
(***************************************************************************)
CallPlace(body, k) ==
  CHOOSE c \in DOMAIN body :
    IsCall(body[c]) /\ Cardinality({i \in 1..c : IsCall(body[i])}) = k

Calls(body) == Cardinality({i \in DOMAIN body : IsCall(body[i])})

PreserveFunction(body) ==
  LET frame == body[1].n
      spare == UnusedWindowRegisters(body)
      grown(maxSlots) == Grown(body, frame, Growth(maxSlots, MaxSpill(body)))
      slotted(maxSlots) == Walk(LAMBDA s, i : SlotOfSpill(s, i, frame, maxSlots),
                                [body |-> grown(maxSlots), depth |-> 0], 2, Len(body)).body
      kept(maxSlots) ==
        Walk(LAMBDA b, k : PreserveCall(b, CallPlace(b, k), frame, spare, maxSlots),
             slotted(maxSlots), 1, Calls(body))
  IN  FoldCopies(RemoveUnreadWrites(kept(MaxSlots(body, frame, Len(spare)))))

PreserveAcrossCalls(text) == EachFunction(PreserveFunction, text)
=============================================================================
