-------------------------------- MODULE Tidy --------------------------------
(***************************************************************************)
(* tidyFunction() (optimize.cpp): one round of the cleanups that follow the *)
(* liveness of registers, each on the flow of the body it starts from. A    *)
(* line that goes becomes blank; `gone' are the lines changed so far, which *)
(* the rest of the same cleanup takes for blank.                            *)
(***************************************************************************)
EXTENDS LineFlow

RegisterCopy(x) ==
  /\ x.op \in {"mov", "movr", "mov.s"}
  /\ x.r[1] # x.r[2] /\ 1 \notin Names(x)

WithFirst(x, reg) == [x EXCEPT !.r[1] = reg]

(***************************************************************************)
(* Two lines into one.                                                      *)
(***************************************************************************)
ComputesFirst(x) == x.op \in WritesFirstOperandOnly \ {"fill", "pop"}

\* p computes what the copy x copies, and that dies there.
FoldsCopy(p, x, dies) ==
  /\ RegisterCopy(x) /\ ComputesFirst(p)
  /\ p.r[1] = x.r[2] /\ dies

\* p's result already fits the bits the extui x keeps.
Narrow(p, x) ==
  /\ x.op = "extui" /\ x.l = "" /\ x.n \in {8, 16} /\ FirstOperandIs(p, x.r[2])
  /\ \/ p.op = "l8ui"
     \/ p.op = "l16ui" /\ x.n = 16
     \/ p.op = "movi" /\ p.n \in 0..(2 ^ x.n - 1)
     \/ p.op = "extui" /\ p.n <= x.n

\* movi of a power of two, then a product by it.
PowerOfTwo(v) == CHOOSE k \in 0..30 : 2 ^ k = v
ShiftOf(p, x) ==
  LET other == IF x.r[2] = p.r[1] THEN x.r[3] ELSE x.r[2]
  IN  IF p.n = 1 THEN Ins("mov", <<x.r[1], other>>, 0, "")
      ELSE Ins("slli", <<x.r[1], other>>, PowerOfTwo(p.n), "")
FoldsProduct(p, x, dead) ==
  /\ x.op = "mull" /\ p.op = "movi"
  /\ (x.r[2] = p.r[1]) # (x.r[3] = p.r[1])
  /\ \E k \in 0..30 : 2 ^ k = p.n
  /\ x.r[1] = p.r[1] \/ p.r[1] \in dead

FoldsSum(p, x) ==
  /\ x.op = "addi" /\ p.op = "movi"
  /\ x.r[1] = x.r[2] /\ p.r[1] = x.r[1]
  /\ p.n + x.n \in -2048..2047

FoldPair(s, i, flow) ==
  LET x == s.body[i]
      p == s.body[i - 1]
      dead == (0..31) \ flow.out[i]
      becomes(before, this) ==
        [body |-> [s.body EXCEPT ![i - 1] = before, ![i] = this],
         gone |-> s.gone \cup {i - 1, i}]
  IN  CASE {i - 1, i} \cap s.gone # {} \/ IsBlank(x) \/ IsBlank(p) -> s
        [] RegisterCopy(x) ->
             IF FoldsCopy(p, x, x.r[2] \in dead)
             THEN becomes(WithFirst(p, x.r[1]), Blank) ELSE s
        [] x.op = "extui" ->
             CASE Narrow(p, x) /\ x.r[1] = x.r[2] -> becomes(p, Blank)
               [] Narrow(p, x) /\ x.r[2] \in dead ->
                    becomes(WithFirst(p, x.r[1]), Blank)
               [] OTHER -> s
        [] FoldsProduct(p, x, dead) -> becomes(Blank, ShiftOf(p, x))
        [] FoldsSum(p, x) -> becomes(Blank, [x EXCEPT !.op = "movi", !.r = <<x.r[1]>>,
                                                      !.n = p.n + x.n])
        [] OTHER -> s

FoldPairs(flow) ==
  Walk(LAMBDA s, i : FoldPair(s, i, flow), [body |-> flow.line, gone |-> {}],
       2, Len(flow.line)).body

(***************************************************************************)
(* A copy whose reads are all in the straight run after it: they read the   *)
(* original, and the copy goes.                                             *)
(***************************************************************************)
MayWriteToo(x, reg) ==
  /\ FirstOperandIs(x, reg) /\ reg \notin Def(x) /\ ~IsBranch(x)
  /\ x.op \notin Stores

LeavesRun(flow, k) == flow.target[k] > 0 \/ ~Falls(flow.line[k])
EntersBlock(x) == IsLabel(x) \/ IsCall(x)

\* The lines that read the copy made at line i, when they can read the
\* original: a set of one set, or of none.
ReadsOfCopy(flow, i) ==
  LET t == flow.line[i].r[1]
      src == flow.line[i].r[2]
      n == Len(flow.line)
      read(k) == ~EntersBlock(flow.line[k]) /\ t \in flow.use[k]
      unsafe(k) == read(k) /\ (t \notin Names(flow.line[k]) \/ MayWriteToo(flow.line[k], t))
      ends(k) == EntersBlock(flow.line[k]) \/ t \in flow.def[k]
      dies(k) == CASE EntersBlock(flow.line[k]) -> t \notin flow.in[k]
                   [] t \in flow.def[k] -> TRUE
                   [] OTHER -> t \notin flow.out[k]
      held(reads) == \A k \in reads : \A c \in (i + 1)..(k - 1) : src \notin flow.def[c]
      upTo(stop) ==
        {reads \in {{k \in (i + 1)..stop : read(k)}} :
           /\ stop <= n /\ ~unsafe(stop) /\ dies(stop)
           /\ held(reads) /\ Cardinality(reads) <= 16}
  IN  upTo(FirstFrom(LAMBDA k : ends(k) \/ unsafe(k) \/ LeavesRun(flow, k), i + 1, n))

ReadOriginal(s, i, flow) ==
  LET x == flow.line[i]
      with(reads) ==
        [body |-> Rewrite(LAMBDA k :
                    CASE k = i -> Blank
                      [] k \in reads -> RenameRegister(flow.line[k], x.r[1], x.r[2],
                                                       x.r[1] \in flow.def[k])
                      [] OTHER -> s.body[k], Len(s.body)),
         next |-> Max({i} \cup reads) + 1]
      read(found) == IF found = {} THEN s ELSE with(UNION found)
  IN  IF i < s.next \/ ~RegisterCopy(x) THEN s ELSE read(ReadsOfCopy(flow, i))

ReadOriginals(flow) ==
  Walk(LAMBDA s, i : ReadOriginal(s, i, flow), [body |-> flow.line, next |-> 1],
       1, Len(flow.line) - 1).body

(***************************************************************************)
(* pruneCallSaves(): of the float registers stored right before a call and  *)
(* loaded right after, those not read again; and what is stored right       *)
(* before a call and not loaded right after.                                *)
(***************************************************************************)
SaveOps == {"", "ssi", "s32i", "rfr", "mov"}
RestoreOps == {"", "lsi", "l32i", "wfr", "mov", "movr"}

PruneSave(s, sv, c, flow) ==
  LET x == flow.line[sv]
      before == LastDownTo(LAMBDA j : flow.line[j].op \notin SaveOps, c - 1, 1)
      after == FirstFrom(LAMBDA j : flow.line[j].op \notin RestoreOps,
                         c + 1, Len(flow.line))
      restore == FirstFrom(LAMBDA j : /\ flow.line[j].op = "lsi" /\ flow.line[j].r[2] = 1
                                      /\ flow.line[j].n = x.n /\ j \notin s.gone,
                           c + 1, after - 1)
      found == restore < after
  IN  IF \/ sv <= before \/ sv \in s.gone
         \/ x.op # "ssi" \/ x.r[2] # 1
         \/ found /\ flow.line[restore].r[1] \in flow.out[restore]
      THEN s
      ELSE [body |-> IF found THEN [s.body EXCEPT ![sv] = Blank, ![restore] = Blank]
                     ELSE [s.body EXCEPT ![sv] = Blank],
            gone |-> s.gone \cup {sv} \cup (IF found THEN {restore} ELSE {})]

PruneCallSaves(flow) ==
  Walk(LAMBDA s, c :
         IF IsCall(flow.line[c])
         THEN Walk(LAMBDA u, sv : PruneSave(u, sv, c, flow), s, 1, c - 1) ELSE s,
       [body |-> flow.line, gone |-> {}], 1, Len(flow.line)).body

(***************************************************************************)
(* Computations nothing reads, float stores to slots nothing loads, and a   *)
(* branch over a jump.                                                      *)
(***************************************************************************)
FrameLoad(x) == x.op = "lsi" /\ x.r[2] = 1
Loads == {"l32i", "l16i", "l16ui", "l16si", "l8ui", "lsi", "l32r"}
Pure(x) ==
  /\ x.op \in WritesFirstOperandOnly \ {"fill", "pop", "movExt"}
  /\ x.op \in Loads => FrameLoad(x)
  /\ x.r[1] \in (3..15 \ {8}) \cup (F(3)..F(15))

DropDeadComputations(flow) ==
  Rewrite(LAMBDA i : LET x == flow.line[i]
                     IN  IF Pure(x) /\ x.r[1] \notin flow.out[i] THEN Blank ELSE x,
          Len(flow.line))

DropUnloadedStores(body) ==
  LET inFrame == {i \in 2..Len(body) : 1 \in Names(body[i])}
      plain == \A i \in inFrame : LET x == body[i]
                                  IN  /\ x.op \in Loads \cup Stores
                                      /\ Len(x.r) = 2 /\ x.r[1] # 1
      loaded == {body[i].n : i \in {k \in inFrame : body[k].op \in Loads}}
      useless(i) == /\ i \in inFrame /\ body[i].op = "ssi"
                    /\ \A off \in loaded : ~Overlap(off, 4, body[i].n, 4)
  IN  IF ~plain THEN body
      ELSE Rewrite(LAMBDA i : IF useless(i) THEN Blank ELSE body[i], Len(body))

InverseOf(op) ==
  CASE op = "blt" -> "bge" [] op = "bge" -> "blt" [] op = "bltu" -> "bgeu"
    [] op = "bgeu" -> "bltu" [] op = "beq" -> "bne" [] op = "bne" -> "beq"
    [] op = "blti" -> "bgei" [] op = "bgei" -> "blti" [] op = "beqi" -> "bnei"
    [] op = "bnei" -> "beqi" [] op = "beqz" -> "bnez" [] op = "bnez" -> "beqz"

\* `bge a4,a14,skip; j label_4; skip:' is `blt a4,a14,label_4', the first time.
JumpInBranch(flow) ==
  LET n == Len(flow.line)
      at == FirstFrom(LAMBDA i : /\ IsBranch(flow.line[i]) /\ flow.target[i] = i + 2
                                 /\ IsJump(flow.line[i + 1]), 1, n - 2)
  IN  IF at > n - 2 THEN flow.line
      ELSE [flow.line EXCEPT ![at].op = InverseOf(@), ![at].l = flow.line[at + 1].l,
                             ![at + 1] = Blank]

(***************************************************************************)
(* A round: the first of the cleanups that changes something.               *)
(***************************************************************************)
Tidied(flow) ==
  LET body == flow.line
      others(saves, dead) == CASE saves # body -> saves
                               [] saves = body /\ dead # body -> dead
                               [] OTHER -> JumpInBranch(flow)
      first(pairs, copies) ==
        CASE pairs # body -> pairs
          [] pairs = body /\ copies # body -> copies
          [] OTHER -> others(PruneCallSaves(flow), DropUnloadedStores(DropDeadComputations(flow)))
  IN  IF InView(flow) THEN first(FoldPairs(flow), ReadOriginals(flow)) ELSE body

TidyFunction(body) == Tidied(BuildFlow(body))
=============================================================================
