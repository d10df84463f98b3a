------------------------------ MODULE LineFlow ------------------------------
(***************************************************************************)
(* Control flow and register liveness of one function (buildFlow() and its  *)
(* helpers, optimize.cpp): what allocateLoopRegisters() decides by. A body  *)
(* is the lines of the function after its label, the entry first.           *)
(***************************************************************************)
EXTENDS AsmLines

Names(x) == {x.r[k] : k \in DOMAIN x.r}

\* The registers a line reads and the one it writes. A call reads its
\* arguments and f1 and f2, and is not counted as writing; a return reads a2,
\* f0 and f2.
Use(x) ==
  CASE IsCall(x) -> 10..(9 + x.n) \cup {F(1), F(2)}
    [] IsReturn(x) -> {2, F(0), F(2)}
    [] x.op \in WritesFirstOperandOnly -> {x.r[k] : k \in 2..Len(x.r)}
    [] OTHER -> Names(x)

Def(x) ==
  IF ~IsCall(x) /\ x.op \in WritesFirstOperandOnly THEN {x.r[1]} ELSE {}

\* The line a branch or a jump goes to, 0 for any other line.
Target(body, i) ==
  IF ~IsBranch(body[i]) /\ ~IsJump(body[i]) THEN 0
  ELSE LET at == {k \in DOMAIN body : body[k] = Label(body[i].l)}
       IN  IF at = {} THEN -1 ELSE Min(at)

Falls(x) == ~IsJump(x) /\ ~IsReturn(x)

\* One round of the liveness computation, from the last line to the first.
LiveOutOf(flow, in, i) ==
  (IF Falls(flow.line[i]) /\ i < Len(flow.line) THEN in[i + 1] ELSE {})
  \cup (IF flow.target[i] > 0 THEN in[flow.target[i]] ELSE {})

LiveRound(flow, in) ==
  LET n == Len(flow.line)
  IN  Walk(LAMBDA now, turn :
             LET i == n + 1 - turn
             IN  [now EXCEPT ![i] = flow.use[i] \cup (LiveOutOf(flow, now, i) \ flow.def[i])],
           in, 1, n)

RECURSIVE Settled(_, _)
Settled(flow, in) ==
  LET next == LiveRound(flow, in)
  IN  IF next = in THEN in ELSE Settled(flow, next)

\* The flow of a body; InView is false when a branch leaves the function.
BuildFlow(body) ==
  LET n == Len(body)
      live(flow, in) ==
        flow @@ [in |-> in, out |-> Rewrite(LAMBDA i : LiveOutOf(flow, in, i), n)]
      settled(flow) == live(flow, Settled(flow, Rewrite(LAMBDA i : {}, n)))
  IN  settled([line |-> body,
               target |-> Rewrite(LAMBDA i : Target(body, i), n),
               use |-> Rewrite(LAMBDA i : Use(body[i]), n),
               def |-> Rewrite(LAMBDA i : Def(body[i]), n)])

InView(flow) == \A i \in DOMAIN flow.line : flow.target[i] >= 0

Touches(flow, i, reg) == reg \in flow.use[i] \cup flow.def[i]
HasCall(flow, lo, hi) == \E i \in lo..hi : IsCall(flow.line[i])

\* Weights as in promoteFunction(), from the backward branches of the flow.
LoopWeight(flow, i) ==
  LET around == Cardinality({b \in i..Len(flow.line) :
                               flow.target[b] > 0 /\ flow.target[b] <= i})
  IN  8 ^ (IF around > 7 THEN 7 ELSE around)

\* Whether a register can hold a value of ours from line lo to line hi.
RegisterFreeOver(flow, reg, lo, hi) ==
  /\ HasCall(flow, lo, hi) => reg < 8
  /\ \A i \in lo..hi : reg \notin flow.use[i] \cup flow.def[i]
                                 \cup flow.in[i] \cup flow.out[i]

(***************************************************************************)
(* Loops: a label a later line jumps back to, and the last line that does.  *)
(***************************************************************************)
Loops(flow) ==
  LET back(k) == {b \in k..Len(flow.line) : flow.target[b] = k}
  IN  {<<k, Max(back(k))>> : k \in {j \in DOMAIN flow.line : back(j) # {}}}

\* lo..hi grown over every loop that overlaps it.
RECURSIVE OverLoops(_, _)
OverLoops(flow, range) ==
  LET meets == {b \in range[1]..Len(flow.line) :
                  0 < flow.target[b] /\ flow.target[b] <= b
                  /\ flow.target[b] <= range[2]}
      grown == <<Min({range[1]} \cup {flow.target[b] : b \in meets}),
                 Max({range[2]} \cup meets)>>
  IN  IF grown = range THEN range ELSE OverLoops(flow, grown)

\* The line before which to load what the loop from k to b keeps in a
\* register, when every way into the loop passes there; 0 when none.
LoopPreheader(flow, k, b) ==
  LET p == LastDownTo(LAMBDA i : ~IsBlank(flow.line[i]), k - 1, 1)
      at == CASE p = 0 -> 0
              [] IsJump(flow.line[p]) /\ flow.target[p] \in (k + 1)..b -> p
              [] Falls(flow.line[p]) /\ flow.target[p] = 0 -> k
              [] OTHER -> 0
  IN  IF \E i \in DOMAIN flow.line \ (k..b) :
           i # at /\ flow.target[i] \in k..b
      THEN 0 ELSE at

(***************************************************************************)
(* loopInvariantLoad(): the lines a loop can do once before it. Their kind: *)
(* the line without the register it writes.                                 *)
(***************************************************************************)
Hoistable == {"float.s", "slli", "srli", "srai", "addi", "add", "sub",
              "addx2", "addx4", "addx8", "neg"}
Constants == {"movi", "l32r"}
Invariant(x) == x.op \in Hoistable \cup Constants
Kind(x) == [x EXCEPT !.r = Tail(@)]
=============================================================================
