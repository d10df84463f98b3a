--------------------------- MODULE ScriptEntryProofs ---------------------------
(***************************************************************************)
(* Entering the script and getting out of it, for any depth of nesting:    *)
(* the types, for any number of contexts, and for one context (a task with *)
(* the interrupts of its core) what enterScript() and artiSafeModeError()  *)
(* promise. With two contexts they do not hold: the run entry_two_stacks.  *)
(***************************************************************************)
EXTENDS ScriptEntry, TLAPS

USE EntryAssumption

Points == (Context \X (1 .. MaxDepth)) \cup {NoFrame}

-------------------------------------------------------------------------------
(* What the steps do to a stack.                                           *)

LEMMA FrameMoves ==
    ASSUME NEW f \in Frame, NEW k \in FrameStep
    PROVE  /\ [at |-> k, outer |-> f.outer] \in Frame
           /\ [f EXCEPT !.at = k] = [at |-> k, outer |-> f.outer]
BY DEF Frame

LEMMA ReplaceAt ==
    ASSUME NEW S, NEW s \in Seq(S), NEW n \in 1 .. Len(s), NEW f \in S
    PROVE  /\ [s EXCEPT ![n] = f] \in Seq(S) /\ Len([s EXCEPT ![n] = f]) = Len(s)
           /\ [s EXCEPT ![n] = f][n] = f
           /\ \A i \in 1 .. Len(s) : i # n => [s EXCEPT ![n] = f][i] = s[i]
OBVIOUS

\* What becomes of the stacks when the top frame of c's becomes f.
TopBecomes(c, f) == /\ DOMAIN stack' = Context
                    /\ \A d \in Context : d # c => stack'[d] = stack[d]
                    /\ stack'[c] \in Seq(Frame) /\ Depth(c)' = Depth(c)
                    /\ stack'[c][Depth(c)] = f
                    /\ \A i \in 1 .. Depth(c) - 1 : stack'[c][i] = stack[c][i]

LEMMA TopChanges ==
    ASSUME TypeOK, NEW c \in Context, stack[c] # <<>>, NEW f \in Frame,
           stack' = [stack EXCEPT ![c] = [@ EXCEPT ![Depth(c)] = f]]
    PROVE  TopBecomes(c, f)
<1> DEFINE s == stack[c]
           n == Len(s)
<1>1. s \in Seq(Frame) /\ n \in Nat /\ n # 0
    BY DEF TypeOK
<1>2. [s EXCEPT ![n] = f] \in Seq(Frame) /\ Len([s EXCEPT ![n] = f]) = n
    BY <1>1
<1>3. stack'[c] = [s EXCEPT ![n] = f]
    BY DEF TypeOK, Depth
<1>4. QED BY <1>1, <1>2, <1>3 DEF TypeOK, TopBecomes, Depth

\* A frame keeps its outer unwind point when it moves on.
LEMMA TopMoves ==
    ASSUME TypeOK, NEW c \in Context, stack[c] # <<>>, NEW k \in FrameStep, Moves(c, k)
    PROVE  /\ Top(c) \in Frame
           /\ TopBecomes(c, [at |-> k, outer |-> Top(c).outer])
<1> DEFINE f == [at |-> k, outer |-> Top(c).outer]
<1>0. stack[c] \in Seq(Frame) /\ Depth(c) \in 1 .. Len(stack[c])
    BY DEF TypeOK, Depth
<1>1. Top(c) \in Frame
    BY <1>0 DEF Top
<1>2. f \in Frame /\ [Top(c) EXCEPT !.at = k] = f
    BY <1>1, FrameMoves
<1>3. stack' = [stack EXCEPT ![c] = [@ EXCEPT ![Depth(c)] = [Top(c) EXCEPT !.at = k]]]
    BY DEF Moves, Top
<1>4. QED BY <1>1, <1>2, <1>3, TopChanges

LEMMA Pushed ==
    ASSUME TypeOK, NEW c \in Context, Push(c)
    PROVE  /\ DOMAIN stack' = Context
           /\ \A d \in Context : d # c => stack'[d] = stack[d]
           /\ stack'[c] \in Seq(Frame) /\ Depth(c)' = Depth(c) + 1 /\ Depth(c)' <= MaxDepth
           /\ stack'[c][Depth(c) + 1] = NewFrame
           /\ \A i \in 1 .. Depth(c) : stack'[c][i] = stack[c][i]
<1>1. NewFrame \in Frame
    BY DEF NewFrame, Frame, FrameStep
<1>2. QED BY <1>1 DEF TypeOK, Push, Depth

LEMMA Popped ==
    ASSUME TypeOK, NEW c \in Context, stack[c] # <<>>, Pop(c)
    PROVE  /\ DOMAIN stack' = Context
           /\ \A d \in Context : d # c => stack'[d] = stack[d]
           /\ stack'[c] \in Seq(Frame) /\ Depth(c)' = Depth(c) - 1
           /\ \A i \in 1 .. Depth(c) - 1 : stack'[c][i] = stack[c][i]
<1> DEFINE s == SubSeq(stack[c], 1, Depth(c) - 1)
<1>1. stack[c] \in Seq(Frame) /\ Depth(c) \in 1 .. Len(stack[c]) /\ Depth(c) = Len(stack[c])
    BY DEF TypeOK, Depth
<1>2. s \in Seq(Frame) /\ Len(s) = Depth(c) - 1 /\ \A i \in 1 .. Depth(c) - 1 : s[i] = stack[c][i]
    BY <1>1
<1>3. stack' = [stack EXCEPT ![c] = s]
    BY DEF Pop
<1>4. QED BY <1>1, <1>2, <1>3 DEF TypeOK, Depth

\* A longjmp() drops the frames above the unwind point.
LEMMA Jumped ==
    ASSUME TypeOK, NEW c \in Context, LongJump(c)
    PROVE  /\ DOMAIN stack' = Context
           /\ \A d \in Context : d # c => stack'[d] = stack[d]
           /\ stack'[c] \in Seq(Frame) /\ Depth(c)' = unwind[2]
           /\ unwind[2] \in 1 .. Depth(c)
           /\ stack'[c][unwind[2]] = [at |-> "restore", outer |-> stack[c][unwind[2]].outer]
           /\ \A i \in 1 .. unwind[2] - 1 : stack'[c][i] = stack[c][i]
<1> DEFINE n == unwind[2]
           s == SubSeq(stack[c], 1, n)
           f == [at |-> "restore", outer |-> stack[c][n].outer]
<1>1. n \in 1 .. Depth(c) /\ stack[c] \in Seq(Frame)
    BY DEF LongJump, TypeOK, Depth
<1>2. s \in Seq(Frame) /\ Len(s) = n /\ \A i \in 1 .. n : s[i] = stack[c][i]
    BY <1>1 DEF Depth
<1>3. s[n] \in Frame /\ f \in Frame /\ [s[n] EXCEPT !.at = "restore"] = f
  <2>1. s[n] \in Frame /\ s[n] = stack[c][n] /\ "restore" \in FrameStep
    BY <1>1, <1>2 DEF FrameStep
  <2>2. QED BY <2>1, FrameMoves
<1>4. stack' = [stack EXCEPT ![c] = [s EXCEPT ![n].at = "restore"]]
    BY DEF LongJump
<1>5. [s EXCEPT ![n].at = "restore"] = [s EXCEPT ![n] = [s[n] EXCEPT !.at = "restore"]]
    OBVIOUS
<1>6. stack' = [stack EXCEPT ![c] = [s EXCEPT ![n] = f]]
    BY <1>3, <1>4, <1>5
<1>7. /\ [s EXCEPT ![n] = f] \in Seq(Frame) /\ Len([s EXCEPT ![n] = f]) = n
      /\ [s EXCEPT ![n] = f][n] = f
      /\ \A i \in 1 .. n : i # n => [s EXCEPT ![n] = f][i] = s[i]
  <2>1. n \in 1 .. Len(s)
    BY <1>1, <1>2 DEF Depth
  <2> HIDE DEF n, s, f
  <2>2. QED BY <1>2, <1>3, <2>1, ReplaceAt
<1>8. /\ DOMAIN stack' = Context /\ stack'[c] = [s EXCEPT ![n] = f]
      /\ \A d \in Context : d # c => stack'[d] = stack[d]
    BY <1>6 DEF TypeOK
<1>9. \A i \in 1 .. n - 1 : i \in 1 .. n /\ i # n
  <2>1. n \in Nat
    BY <1>1 DEF Depth
  <2>2. \A m \in Nat : \A i \in 1 .. m - 1 : i \in 1 .. m /\ i # m
    OBVIOUS
  <2>3. QED BY <2>1, <2>2
<1>10. QED BY <1>1, <1>2, <1>7, <1>8, <1>9 DEF Depth

-------------------------------------------------------------------------------
(* Types.                                                                  *)

LEMMA NextTyped == TypeOK /\ [Next]_vars => TypeOK'
<1> SUFFICES ASSUME TypeOK, [Next]_vars PROVE TypeOK'
    OBVIOUS
<1>0. \A c \in Context : stack[c] # <<>> => Top(c) \in Frame /\ Depth(c) \in 1 .. MaxDepth
  <2> SUFFICES ASSUME NEW c \in Context, stack[c] # <<>> PROVE Top(c) \in Frame /\ Depth(c) \in 1 .. MaxDepth
    OBVIOUS
  <2>1. stack[c] \in Seq(Frame) /\ Depth(c) \in 1 .. Len(stack[c]) /\ Depth(c) <= MaxDepth
    BY DEF TypeOK, Depth
  <2>2. QED BY <2>1 DEF Top, Depth
<1>1. ASSUME NEW c \in Context, NEW k \in FrameStep, TopAt(c, k), \E j \in FrameStep : Moves(c, j),
             UNCHANGED host, error' \in BOOLEAN, failed' \subseteq FailedSince, unwind' \in Points
      PROVE  TypeOK'
  <2>1. PICK j \in FrameStep : Moves(c, j)
    BY <1>1
  <2>2. TopBecomes(c, [at |-> j, outer |-> Top(c).outer])
    BY <1>1, <2>1, TopMoves DEF TopAt
  <2>3. QED BY <1>1, <2>2 DEF TypeOK, TopBecomes, Depth, Points
<1>2. ASSUME NEW c \in Context, Push(c), UNCHANGED <<unwind, error>>,
             host' \in [Context -> {"idle", "footer", "function"}]
      PROVE  TypeOK'
  <2>1. failed' \subseteq FailedSince
    BY <1>2 DEF TypeOK, Push
  <2>2. /\ DOMAIN stack' = Context
        /\ \A d \in Context : stack'[d] \in Seq(Frame) /\ Len(stack'[d]) <= MaxDepth
    BY <1>2, Pushed DEF TypeOK, Depth
  <2>3. QED BY <1>2, <2>1, <2>2 DEF TypeOK
<1>3. ASSUME NEW c \in Context, ReadOuter(c) PROVE TypeOK'
  <2> DEFINE f == [at |-> IF unwind = NoFrame THEN "clear" ELSE "arm", outer |-> unwind]
  <2>1. f \in Frame
    BY DEF TypeOK, Frame, FrameStep
  <2>2. stack' = [stack EXCEPT ![c] = [@ EXCEPT ![Depth(c)] = f]] /\ stack[c] # <<>>
    BY <1>3 DEF ReadOuter, TopAt
  <2>3. TopBecomes(c, f)
    BY <2>1, <2>2, TopChanges
  <2>4. QED BY <1>3, <2>3 DEF ReadOuter, TypeOK, TopBecomes, Depth
<1>4. ASSUME NEW c \in Context, Restore(c) PROVE TypeOK'
  <2>1. Pop(c) /\ stack[c] # <<>> /\ Top(c) \in Frame
    BY <1>0, <1>4 DEF Restore, TopAt
  <2>2. /\ DOMAIN stack' = Context
        /\ \A d \in Context : d # c => stack'[d] = stack[d]
        /\ stack'[c] \in Seq(Frame) /\ Depth(c)' = Depth(c) - 1
    BY <2>1, Popped
  <2>3. \A d \in Context : stack'[d] \in Seq(Frame) /\ Len(stack'[d]) <= MaxDepth
    BY <2>2, <1>0, <2>1 DEF TypeOK, Depth
  <2>4. unwind' \in Points
    BY <1>4, <2>1 DEF Restore, Frame, Points
  <2>5. QED BY <1>4, <2>2, <2>3, <2>4 DEF Restore, TypeOK, Points
<1>5. ASSUME NEW c \in Context, LongJump(c) PROVE TypeOK'
  <2>1. /\ DOMAIN stack' = Context
        /\ \A d \in Context : d # c => stack'[d] = stack[d]
        /\ stack'[c] \in Seq(Frame) /\ Depth(c)' = unwind[2] /\ unwind[2] \in 1 .. Depth(c)
    BY <1>5, Jumped
  <2>2. Len(stack'[c]) <= MaxDepth
    BY <2>1 DEF TypeOK, Depth
  <2>3. QED BY <1>5, <2>1, <2>2 DEF LongJump, TypeOK
<1>6. ASSUME NEW c \in Context, ClearError(c) \/ Arm(c) \/ ScriptReturns(c) \/ RecordError(c) \/ ReportError(c)
      PROVE  TypeOK'
  <2>1. \E k \in FrameStep : TopAt(c, k)
    BY <1>6 DEF ClearError, Arm, ScriptReturns, RecordError, ReportError, FrameStep
  <2>2. \E j \in FrameStep : Moves(c, j)
    BY <1>6 DEF ClearError, Arm, ScriptReturns, RecordError, ReportError, FrameStep
  <2>3. Address(c) \in Points
    BY <1>0, <2>1 DEF Address, Points, TopAt
  <2>4. UNCHANGED host /\ error' \in BOOLEAN /\ failed' \subseteq FailedSince /\ unwind' \in Points
    BY <1>6, <2>3 DEF ClearError, Arm, ScriptReturns, RecordError, ReportError, TypeOK, Points
  <2>5. QED BY <1>1, <2>1, <2>2, <2>4
<1>7. ASSUME NEW c \in Context, Reenter(c) \/ CallExecute(c) \/ EnterFooter(c) \/ EnterFunction(c)
      PROVE  TypeOK'
  <2>1. host' \in [Context -> {"idle", "footer", "function"}] /\ UNCHANGED <<unwind, error>>
    BY <1>7 DEF Reenter, CallExecute, EnterFooter, EnterFunction, TypeOK
  <2>2. Push(c) \/ UNCHANGED <<stack, failed>>
    BY <1>7 DEF Reenter, CallExecute, EnterFooter, EnterFunction
  <2>3. QED BY <1>2, <2>1, <2>2 DEF TypeOK
<1>8. CASE UNCHANGED vars
    BY <1>8 DEF TypeOK, vars
<1>9. QED BY <1>3, <1>4, <1>5, <1>6, <1>7, <1>8 DEF Next, Step

\* An unwind point, armed or saved, is the address of a frame, and no stack
\* grows beyond the bound: for any number of contexts.
THEOREM EntryTypeCorrect == Spec => []TypeOK
<1>1. Init => TypeOK
  <2>1. <<>> \in Seq(Frame) /\ Len(<<>>) <= MaxDepth
    OBVIOUS
  <2>2. QED BY <2>1 DEF Init, TypeOK
<1>2. QED BY <1>1, NextTyped, PTL DEF Spec
-------------------------------------------------------------------------------
(* The unwind points.                                                      *)

\* One task, with the interrupts of its core.
OneContext == \E c \in Context : Context = {c}

\* Before it arms, an entry has left the unwind point as it found it; after,
\* it is its own.
Before == {"read", "clear", "arm"}
Armed(f) == f.at \notin Before

\* u is the unwind point that the outermost i entries of c's stack s leave:
\* the address of the innermost one of them that has armed, or none.
Leaves(c, s, i, u) ==
    \/ u = NoFrame /\ \A j \in 1 .. i : ~Armed(s[j])
    \/ \E j \in 1 .. i : u = <<c, j>> /\ Armed(s[j]) /\ \A k \in j + 1 .. i : ~Armed(s[k])

\* The unwind point is what all the entries of s leave, and each of them has
\* saved what those outside it leave.
Nested(c, s, u) ==
    /\ Leaves(c, s, Len(s), u)
    /\ \A i \in 1 .. Len(s) : s[i].at # "read" => Leaves(c, s, i - 1, s[i].outer)

Nesting == \A c \in Context : Nested(c, stack[c], unwind)

\* An entry that is to clear the error has found no unwind point.
ClearsOutside ==
    \A c \in Context : \A i \in 1 .. Len(stack[c]) :
        stack[c][i].at = "clear" => stack[c][i].outer = NoFrame

\* Where the outermost entry of a stack is: it has armed, or returned; it has
\* cleared what an earlier call left, or returned.
OuterArmed(s) == s = <<>> \/ Armed(s[1])
OuterCleared(s) == s = <<>> \/ s[1].at \notin {"read", "clear"}

Errors ==
    \A c \in Context :
        /\ OuterArmed(stack[c]) /\ "run" \in failed => error
        /\ OuterCleared(stack[c]) /\ error => "call" \in failed

EntryInv == TypeOK /\ Nesting /\ ClearsOutside /\ Errors

\* It depends on which of the entries have armed.
LEMMA SameLeaves ==
    ASSUME NEW c, NEW s, NEW r, NEW i \in Nat, NEW u, \A j \in 1 .. i : Armed(r[j]) <=> Armed(s[j])
    PROVE  Leaves(c, s, i, u) <=> Leaves(c, r, i, u)
<1>1. \A j \in 1 .. i : \A k \in j + 1 .. i : k \in 1 .. i
    OBVIOUS
<1>2. QED BY <1>1 DEF Leaves

\* An entry that has armed has left its own address.
LEMMA OwnLeft ==
    ASSUME NEW c, NEW s, NEW n \in Nat \ {0}, NEW u, Armed(s[n])
    PROVE  Leaves(c, s, n, u) <=> u = <<c, n>>
<1>1. ASSUME NEW j \in 1 .. n, j # n PROVE n \in j + 1 .. n
    BY <1>1
<1>2. \A k \in n + 1 .. n : FALSE
    OBVIOUS
<1>3. n \in 1 .. n
    OBVIOUS
<1>4. QED BY <1>1, <1>2, <1>3 DEF Leaves

\* One that has not has left what it found.
LEMMA FoundLeft ==
    ASSUME NEW c, NEW s, NEW n \in Nat \ {0}, NEW u, ~Armed(s[n])
    PROVE  Leaves(c, s, n, u) <=> Leaves(c, s, n - 1, u)
<1>1. 1 .. n = (1 .. n - 1) \cup {n}
    OBVIOUS
<1>2. \A j \in 1 .. n - 1 : j + 1 .. n = (j + 1 .. n - 1) \cup {n}
    OBVIOUS
<1>3. QED BY <1>1, <1>2 DEF Leaves

\* The innermost entry makes a step that does not touch the unwind point; the
\* first one saves it.
LEMMA TopKeepsNested ==
    ASSUME NEW c, NEW s, NEW r, NEW u, Len(s) \in Nat \ {0}, Len(r) = Len(s),
           \A i \in 1 .. Len(s) - 1 : r[i] = s[i],
           Armed(r[Len(s)]) <=> Armed(s[Len(s)]),
           \/ s[Len(s)].at # "read" /\ r[Len(s)].outer = s[Len(s)].outer
           \/ s[Len(s)].at = "read" /\ r[Len(s)].outer = u,
           Nested(c, s, u)
    PROVE  Nested(c, r, u)
<1> DEFINE n == Len(s)
<1>0. \A i \in 1 .. n : i \in 1 .. n - 1 \/ i = n
    OBVIOUS
<1>1. \A i \in 1 .. n : Armed(r[i]) <=> Armed(s[i])
    BY <1>0
<1>2. \A i \in 1 .. n : i - 1 \in Nat /\ \A j \in 1 .. i - 1 : j \in 1 .. n
    OBVIOUS
<1>3. \A i \in 1 .. n : \A v : Leaves(c, s, i - 1, v) <=> Leaves(c, r, i - 1, v)
    BY <1>1, <1>2, SameLeaves
<1>4. Leaves(c, r, n, u)
    BY <1>1, SameLeaves DEF Nested
<1>5. ASSUME NEW i \in 1 .. n, r[i].at # "read" PROVE Leaves(c, r, i - 1, r[i].outer)
  <2>1. CASE i # n
    <3>1. r[i] = s[i]
      BY <2>1, <1>0
    <3>2. QED BY <1>3, <1>5, <3>1 DEF Nested
  <2>2. CASE i = n /\ s[n].at # "read"
      BY <1>3, <2>2 DEF Nested
  <2>3. CASE i = n /\ s[n].at = "read"
    <3>1. Leaves(c, s, n - 1, u)
      BY <2>3, FoundLeft DEF Nested, Armed, Before
    <3>2. QED BY <1>3, <2>3, <3>1
  <2>4. QED BY <2>1, <2>2, <2>3
<1>6. QED BY <1>4, <1>5 DEF Nested

\* It arms.
LEMMA ArmNested ==
    ASSUME NEW c, NEW s, NEW r, NEW u, Len(s) \in Nat \ {0}, Len(r) = Len(s),
           \A i \in 1 .. Len(s) - 1 : r[i] = s[i],
           Armed(r[Len(s)]), s[Len(s)].at # "read", r[Len(s)].outer = s[Len(s)].outer,
           Nested(c, s, u)
    PROVE  Nested(c, r, <<c, Len(s)>>)
<1> DEFINE n == Len(s)
<1>1. Leaves(c, r, n, <<c, n>>)
    BY OwnLeft
<1>2. ASSUME NEW i \in 1 .. n, r[i].at # "read" PROVE Leaves(c, r, i - 1, r[i].outer)
  <2>1. s[i].at # "read" /\ r[i].outer = s[i].outer
    <3>1. i \in 1 .. n - 1 \/ i = n
      OBVIOUS
    <3>2. QED BY <1>2, <3>1
  <2>2. i - 1 \in Nat /\ \A j \in 1 .. i - 1 : Armed(r[j]) <=> Armed(s[j])
    <3>1. i - 1 \in Nat /\ \A j \in 1 .. i - 1 : j \in 1 .. n - 1
      OBVIOUS
    <3>2. QED BY <3>1
  <2>3. QED BY <2>1, <2>2, SameLeaves DEF Nested
<1>3. QED BY <1>1, <1>2 DEF Nested

\* An entry is begun: it has not read the unwind point yet.
LEMMA PushNested ==
    ASSUME NEW c, NEW s, NEW r, NEW u, Len(s) \in Nat, Len(r) = Len(s) + 1,
           \A i \in 1 .. Len(s) : r[i] = s[i], r[Len(s) + 1] = NewFrame, Nested(c, s, u)
    PROVE  Nested(c, r, u)
<1> DEFINE n == Len(s)
<1>1. Leaves(c, r, n, u)
    BY SameLeaves DEF Nested
<1>2. Leaves(c, r, n + 1, u)
  <2>1. n + 1 \in Nat \ {0} /\ (n + 1) - 1 = n /\ ~Armed(r[n + 1])
    BY DEF NewFrame, Armed, Before
  <2>2. QED BY <1>1, <2>1, FoundLeft
<1>3. ASSUME NEW i \in 1 .. n + 1, r[i].at # "read" PROVE Leaves(c, r, i - 1, r[i].outer)
  <2>1. i \in 1 .. n
    BY <1>3 DEF NewFrame
  <2>2. i - 1 \in Nat /\ \A j \in 1 .. i - 1 : j \in 1 .. n
    BY <2>1
  <2>3. QED BY <1>3, <2>1, <2>2, SameLeaves DEF Nested
<1>4. QED BY <1>2, <1>3 DEF Nested

\* It puts back what it had saved, and returns.
LEMMA PopNested ==
    ASSUME NEW c, NEW s, NEW r, NEW u, Len(s) \in Nat \ {0}, Len(r) = Len(s) - 1,
           \A i \in 1 .. Len(s) - 1 : r[i] = s[i], s[Len(s)].at # "read", Nested(c, s, u)
    PROVE  Nested(c, r, s[Len(s)].outer)
<1> DEFINE n == Len(s)
<1>1. n \in 1 .. n /\ n - 1 \in Nat
    OBVIOUS
<1>2. Leaves(c, s, n - 1, s[n].outer)
    BY <1>1 DEF Nested
<1>3. Leaves(c, r, n - 1, s[n].outer)
    BY <1>1, <1>2, SameLeaves
<1>4. ASSUME NEW i \in 1 .. n - 1, r[i].at # "read" PROVE Leaves(c, r, i - 1, r[i].outer)
  <2>1. i \in 1 .. n /\ i - 1 \in Nat /\ \A j \in 1 .. i - 1 : j \in 1 .. n - 1
    OBVIOUS
  <2>2. QED BY <1>4, <2>1, SameLeaves DEF Nested
<1>5. QED BY <1>3, <1>4 DEF Nested

\* What a step does to the stack of the only context decides.
LEMMA OneNesting ==
    ASSUME OneContext, NEW c \in Context, Nested(c, stack[c], unwind)'
    PROVE  Nesting'
BY DEF OneContext, Nesting

LEMMA TopStep ==
    ASSUME OneContext, EntryInv, NEW c \in Context, stack[c] # <<>>, NEW f, TopBecomes(c, f)
    PROVE  /\ Depth(c) = Len(stack[c]) /\ Len(stack[c]) \in Nat \ {0} /\ Len(stack'[c]) = Len(stack[c])
           /\ Nested(c, stack[c], unwind)
           /\ stack'[c][Len(stack[c])] = f /\ Top(c) = stack[c][Len(stack[c])]
           /\ \A i \in 1 .. Len(stack[c]) - 1 : stack'[c][i] = stack[c][i]
<1>1. stack[c] \in Seq(Frame) /\ Nested(c, stack[c], unwind)
    BY DEF EntryInv, TypeOK, Nesting
<1>2. Len(stack[c]) \in Nat \ {0}
    BY <1>1
<1>3. QED BY <1>1, <1>2 DEF TopBecomes, Depth, Top

\* The innermost entry moves on without arming.
LEMMA MovesNesting ==
    ASSUME OneContext, EntryInv, NEW c \in Context, NEW j \in FrameStep, NEW k \in FrameStep,
           TopAt(c, j), Moves(c, k), j # "read", j \in Before <=> k \in Before, UNCHANGED unwind
    PROVE  Nesting'
<1> DEFINE f == [at |-> k, outer |-> Top(c).outer]
<1>1. stack[c] # <<>> /\ Top(c).at = j /\ TopBecomes(c, f)
    BY TopMoves DEF TopAt, EntryInv, Top
<1>2. f.at = k /\ f.outer = Top(c).outer
    OBVIOUS
<1> HIDE DEF f
<1>3. Nested(c, stack'[c], unwind)
    BY <1>1, <1>2, TopStep, TopKeepsNested DEF Armed
<1>4. QED BY <1>3, OneNesting

\* When the innermost entry has armed, the unwind point is its own.
LEMMA OwnUnwind ==
    ASSUME EntryInv, NEW c \in Context, stack[c] # <<>>, Top(c).at \notin Before
    PROVE  unwind = Address(c)
<1>1. Depth(c) = Len(stack[c]) /\ Len(stack[c]) \in Nat \ {0} /\ Nested(c, stack[c], unwind)
    BY DEF EntryInv, TypeOK, Nesting, Depth
<1>2. Armed(stack[c][Len(stack[c])])
    BY <1>1 DEF Armed, Top
<1>3. QED BY <1>1, <1>2, OwnLeft DEF Nested, Address

LEMMA JumpIsOwn ==
    ASSUME EntryInv, NEW c \in Context, LongJump(c)
    PROVE  unwind[2] = Depth(c) /\ stack[c] # <<>> /\ Top(c).at = "jump"
<1>1. stack[c] # <<>> /\ Top(c).at = "jump"
    BY DEF LongJump, TopAt, Top
<1>2. unwind = <<c, Depth(c)>>
    BY <1>1, OwnUnwind DEF Before, Address
<1>3. QED BY <1>1, <1>2

LEMMA InitEntry == Init => EntryInv
<1> SUFFICES ASSUME Init PROVE EntryInv
    OBVIOUS
<1>1. TypeOK
  <2>1. <<>> \in Seq(Frame) /\ Len(<<>>) <= MaxDepth
    OBVIOUS
  <2>2. QED BY <2>1 DEF Init, TypeOK
<1>2. ASSUME NEW c \in Context PROVE Nested(c, stack[c], unwind)
  <2>1. stack[c] = <<>> /\ Len(<<>>) = 0 /\ unwind = NoFrame
    BY DEF Init
  <2>2. \A i \in 1 .. 0 : FALSE
    OBVIOUS
  <2>3. QED BY <2>1, <2>2 DEF Nested, Leaves
<1>3. ClearsOutside
  <2>1. \A i \in 1 .. Len(<<>>) : FALSE
    OBVIOUS
  <2>2. QED BY <2>1 DEF Init, ClearsOutside
<1>4. QED BY <1>1, <1>2, <1>3 DEF Init, EntryInv, Nesting, Errors

LEMMA NextNesting == OneContext /\ EntryInv /\ [Next]_vars => TypeOK' /\ Nesting'
<1> SUFFICES ASSUME OneContext, EntryInv, [Next]_vars PROVE TypeOK' /\ Nesting'
    OBVIOUS
<1>0. TypeOK' /\ TypeOK /\ Nesting
    BY NextTyped DEF EntryInv
<1>1. ASSUME NEW c \in Context, ReadOuter(c) PROVE Nesting'
  <2> DEFINE f == [at |-> IF unwind = NoFrame THEN "clear" ELSE "arm", outer |-> unwind]
  <2>1. f \in Frame
    BY <1>0 DEF TypeOK, Frame, FrameStep
  <2>2. /\ stack' = [stack EXCEPT ![c] = [@ EXCEPT ![Depth(c)] = f]]
        /\ stack[c] # <<>> /\ Top(c).at = "read" /\ unwind' = unwind
    BY <1>1 DEF ReadOuter, TopAt, Top
  <2>3. TopBecomes(c, f)
    BY <1>0, <2>1, <2>2, TopChanges
  <2>4. f.at \in Before /\ f.outer = unwind
    BY DEF Before
  <2> HIDE DEF f
  <2>5. "read" \in Before
    BY DEF Before
  <2>6. Nested(c, stack'[c], unwind)
    BY <2>2, <2>3, <2>4, <2>5, TopStep, TopKeepsNested DEF Armed
  <2>7. QED BY <2>2, <2>6, OneNesting
<1>2. ASSUME NEW c \in Context, ClearError(c) PROVE Nesting'
    BY <1>2, MovesNesting DEF ClearError, FrameStep, Before
<1>3. ASSUME NEW c \in Context, Arm(c) PROVE Nesting'
  <2> DEFINE f == [at |-> "run", outer |-> Top(c).outer]
  <2>1. stack[c] # <<>> /\ Top(c).at = "arm" /\ TopBecomes(c, f) /\ unwind' = <<c, Depth(c)>>
    BY <1>0, <1>3, TopMoves DEF Arm, TopAt, Top, FrameStep, Address
  <2>2. f.at \notin Before /\ f.outer = Top(c).outer
    BY DEF Before
  <2> HIDE DEF f
  <2>3. Nested(c, stack'[c], <<c, Depth(c)>>)
    BY <2>1, <2>2, TopStep, ArmNested DEF Armed
  <2>4. QED BY <2>1, <2>3, OneNesting
<1>4. ASSUME NEW c \in Context, ScriptReturns(c) PROVE Nesting'
    BY <1>4, MovesNesting DEF ScriptReturns, FrameStep, Before
<1>5. ASSUME NEW c \in Context, Restore(c) PROVE Nesting'
  <2>1. stack[c] # <<>> /\ Top(c).at = "restore" /\ Pop(c) /\ unwind' = Top(c).outer
    BY <1>5 DEF Restore, TopAt, Top
  <2>2. /\ stack'[c] \in Seq(Frame) /\ Depth(c)' = Depth(c) - 1
        /\ \A i \in 1 .. Depth(c) - 1 : stack'[c][i] = stack[c][i]
    BY <1>0, <2>1, Popped
  <2>3. /\ Depth(c) = Len(stack[c]) /\ Len(stack[c]) \in Nat \ {0} /\ Nested(c, stack[c], unwind)
        /\ Len(stack'[c]) = Len(stack[c]) - 1
    BY <1>0, <2>1, <2>2 DEF TypeOK, Nesting, Depth
  <2>4. Nested(c, stack'[c], stack[c][Len(stack[c])].outer)
    BY <2>1, <2>2, <2>3, PopNested DEF Top
  <2>5. QED BY <2>1, <2>3, <2>4, OneNesting DEF Top
<1>6. ASSUME NEW c \in Context, RecordError(c) PROVE Nesting'
    BY <1>6, MovesNesting DEF RecordError, FrameStep, Before
<1>7. ASSUME NEW c \in Context, ReportError(c) PROVE Nesting'
    BY <1>7, MovesNesting DEF ReportError, FrameStep, Before
<1>8. ASSUME NEW c \in Context, LongJump(c) PROVE Nesting'
  <2> DEFINE f == [at |-> "restore", outer |-> Top(c).outer]
  <2>1. unwind[2] = Depth(c) /\ stack[c] # <<>> /\ Top(c).at = "jump" /\ unwind' = unwind
    BY <1>8, JumpIsOwn DEF LongJump
  <2>2. TopBecomes(c, f)
    BY <1>0, <1>8, <2>1, Jumped DEF TopBecomes, Top
  <2>3. f.at \notin Before /\ f.outer = Top(c).outer /\ "jump" \notin Before /\ "jump" # "read"
    BY DEF Before
  <2> HIDE DEF f
  <2>4. Nested(c, stack'[c], unwind)
    BY <2>1, <2>2, <2>3, TopStep, TopKeepsNested DEF Armed
  <2>5. QED BY <2>1, <2>4, OneNesting
<1>9. ASSUME NEW c \in Context, Push(c) \/ UNCHANGED stack, UNCHANGED unwind PROVE Nesting'
  <2>1. CASE UNCHANGED stack
    BY <1>0, <1>9, <2>1 DEF Nesting
  <2>2. CASE Push(c)
    <3>1. /\ Depth(c)' = Depth(c) + 1 /\ stack'[c][Depth(c) + 1] = NewFrame
          /\ \A i \in 1 .. Depth(c) : stack'[c][i] = stack[c][i]
      BY <1>0, <2>2, Pushed
    <3>2. Depth(c) = Len(stack[c]) /\ Len(stack[c]) \in Nat /\ Nested(c, stack[c], unwind)
          /\ Len(stack'[c]) = Len(stack[c]) + 1
      BY <1>0, <3>1 DEF TypeOK, Nesting, Depth
    <3>3. Nested(c, stack'[c], unwind)
      BY <3>1, <3>2, PushNested
    <3>4. QED BY <1>9, <3>3, OneNesting
  <2>3. QED BY <1>9, <2>1, <2>2
<1>10. ASSUME NEW c \in Context, Reenter(c) \/ CallExecute(c) \/ EnterFooter(c) \/ EnterFunction(c)
       PROVE  Nesting'
    BY <1>9, <1>10 DEF Reenter, CallExecute, EnterFooter, EnterFunction
<1>11. ASSUME UNCHANGED vars PROVE Nesting'
  <2>1. stack' = stack /\ unwind' = unwind
    BY <1>11 DEF vars
  <2>2. QED BY <1>0, <2>1 DEF Nesting
<1>12. Nesting'
  <2>1. ASSUME NEW c \in Context, Step(c) PROVE Nesting'
    BY <1>1, <1>2, <1>3, <1>4, <1>5, <1>6, <1>7, <1>8, <1>10, <2>1, Zenon DEF Step
  <2>2. QED BY <1>11, <2>1, Zenon DEF Next
<1>13. QED BY <1>0, <1>12

-------------------------------------------------------------------------------
(* The error.                                                              *)

LEMMA OneIsBelow == \A n \in Nat \ {0} : n # 1 => 1 \in 1 .. n - 1
OBVIOUS

\* The outermost entry is the innermost one, or a step leaves it alone.
LEMMA TopOrBelow ==
    ASSUME OneContext, EntryInv, NEW c \in Context, stack[c] # <<>>, NEW f, TopBecomes(c, f)
    PROVE  /\ stack'[c] # <<>>
           /\ \/ Depth(c) = 1 /\ Top(c) = stack[c][1] /\ stack'[c][1] = f
              \/ Depth(c) # 1 /\ stack'[c][1] = stack[c][1]
<1>1. /\ Depth(c) = Len(stack[c]) /\ Len(stack[c]) \in Nat \ {0} /\ Len(stack'[c]) = Len(stack[c])
      /\ stack'[c][Len(stack[c])] = f /\ Top(c) = stack[c][Len(stack[c])]
      /\ \A i \in 1 .. Len(stack[c]) - 1 : stack'[c][i] = stack[c][i]
    BY TopStep
<1>2. stack'[c] # <<>>
  <2>1. stack'[c] \in Seq(Frame)
    BY DEF TopBecomes
  <2>2. QED BY <1>1, <2>1
<1>3. CASE Depth(c) = 1
    BY <1>1, <1>2, <1>3
<1>4. CASE Depth(c) # 1
  <2>1. 1 \in 1 .. Len(stack[c]) - 1
    BY <1>1, <1>4, OneIsBelow
  <2>2. QED BY <1>1, <1>2, <1>4, <2>1
<1>5. QED BY <1>3, <1>4

\* While the outermost entry is armed, no entry is about to clear the error.
LEMMA ArmedOuter ==
    ASSUME OneContext, EntryInv, NEW c \in Context, stack[c] # <<>>, Armed(stack[c][1])
    PROVE  Top(c).at # "clear"
<1> SUFFICES ASSUME Top(c).at = "clear" PROVE FALSE
    OBVIOUS
<1> DEFINE s == stack[c]
           n == Len(s)
<1>1. n \in Nat \ {0} /\ Nested(c, s, unwind) /\ Top(c) = s[n]
    BY DEF EntryInv, TypeOK, Nesting, Top, Depth
<1>2. n \in 1 .. n
    BY <1>1
<1>3. s[n].outer = NoFrame
    BY <1>1, <1>2 DEF EntryInv, ClearsOutside
<1>4. Leaves(c, s, n - 1, NoFrame)
    BY <1>1, <1>2, <1>3 DEF Nested
<1>5. n # 1
    BY <1>1 DEF Armed, Before
<1>6. 1 \in 1 .. n - 1
    BY <1>1, <1>5, OneIsBelow
<1>7. PICK j \in 1 .. n - 1 : NoFrame = <<c, j>>
    BY <1>4, <1>6 DEF Leaves
<1>8. Len(s) <= MaxDepth
    BY DEF EntryInv, TypeOK
<1>9. j \in 1 .. MaxDepth
    BY <1>1, <1>8
<1>10. QED BY <1>7, <1>9

\* The first entry of a stack finds nothing armed.
LEMMA FirstFindsNone ==
    ASSUME EntryInv, NEW c \in Context, Depth(c) = 1, stack[c][1].at = "read"
    PROVE  unwind = NoFrame
<1>1. Len(stack[c]) = 1 /\ Nested(c, stack[c], unwind)
    BY DEF EntryInv, Nesting, Depth
<1>2. Leaves(c, stack[c], 1, unwind) /\ ~Armed(stack[c][1])
    BY <1>1 DEF Nested, Armed, Before
<1>3. \A j \in 1 .. 1 : j = 1
    OBVIOUS
<1>4. QED BY <1>2, <1>3 DEF Leaves

\* What a step does to the stack of the only context decides.
LEMMA OneStack ==
    ASSUME OneContext, NEW c \in Context,
           \A i \in 1 .. Len(stack'[c]) : stack'[c][i].at = "clear" => stack'[c][i].outer = NoFrame,
           OuterArmed(stack'[c]) /\ "run" \in failed' => error',
           OuterCleared(stack'[c]) /\ error' => "call" \in failed'
    PROVE  ClearsOutside' /\ Errors'
BY DEF OneContext, ClearsOutside, Errors

\* The innermost entry makes a step which is not to clearing, or is by an entry
\* that found nothing.
LEMMA TopKeepsClears ==
    ASSUME OneContext, EntryInv, NEW c \in Context, stack[c] # <<>>, NEW f, TopBecomes(c, f),
           f.at = "clear" => f.outer = NoFrame
    PROVE  \A i \in 1 .. Len(stack'[c]) : stack'[c][i].at = "clear" => stack'[c][i].outer = NoFrame
<1>1. /\ Len(stack[c]) \in Nat \ {0} /\ Len(stack'[c]) = Len(stack[c])
      /\ stack'[c][Len(stack[c])] = f
      /\ \A i \in 1 .. Len(stack[c]) - 1 : stack'[c][i] = stack[c][i]
    BY TopStep
<1>2. ASSUME NEW i \in 1 .. Len(stack'[c]), stack'[c][i].at = "clear" PROVE stack'[c][i].outer = NoFrame
  <2>1. i = Len(stack[c]) \/ i \in 1 .. Len(stack[c]) - 1
    BY <1>1
  <2>2. i \in 1 .. Len(stack[c])
    BY <1>1
  <2>3. QED BY <1>1, <1>2, <2>1, <2>2 DEF EntryInv, ClearsOutside
<1>3. QED BY <1>2

LEMMA NextErrors == OneContext /\ EntryInv /\ [Next]_vars => ClearsOutside' /\ Errors'
<1> SUFFICES ASSUME OneContext, EntryInv, [Next]_vars PROVE ClearsOutside' /\ Errors'
    OBVIOUS
<1>0. TypeOK
    BY DEF EntryInv
<1>1. \A c \in Context : /\ OuterArmed(stack[c]) /\ "run" \in failed => error
                         /\ OuterCleared(stack[c]) /\ error => "call" \in failed
    BY DEF EntryInv, Errors
\* A step of the innermost entry that is neither the first nor clears.
<1>2. ASSUME NEW c \in Context, NEW j \in FrameStep, NEW k \in FrameStep, TopAt(c, j), Moves(c, k),
             j \notin {"read", "clear", "arm"}, k \notin {"read", "clear", "arm"},
             \/ UNCHANGED <<error, failed>>
             \/ error' = TRUE /\ failed' = FailedSince
      PROVE  ClearsOutside' /\ Errors'
  <2> DEFINE f == [at |-> k, outer |-> Top(c).outer]
  <2>1. stack[c] # <<>> /\ Top(c).at = j /\ TopBecomes(c, f) /\ f.at = k
    BY <1>0, <1>2, TopMoves DEF TopAt, Top
  <2> HIDE DEF f
  <2>2. /\ stack'[c] # <<>> /\ stack[c] # <<>>
        /\ stack'[c][1] = stack[c][1] \/ (stack[c][1].at = j /\ stack'[c][1].at = k)
    BY <2>1, TopOrBelow
  <2>3. OuterArmed(stack'[c]) => OuterArmed(stack[c])
    BY <1>2, <2>2 DEF OuterArmed, Armed, Before
  <2>4. OuterCleared(stack'[c]) => OuterCleared(stack[c])
    BY <1>2, <2>2 DEF OuterCleared
  <2>5. /\ OuterArmed(stack'[c]) /\ "run" \in failed' => error'
        /\ OuterCleared(stack'[c]) /\ error' => "call" \in failed'
    BY <1>1, <1>2, <2>3, <2>4 DEF FailedSince
  <2>6. QED BY <1>2, <2>1, <2>5, TopKeepsClears, OneStack
<1>3. ASSUME NEW c \in Context, ReadOuter(c) PROVE ClearsOutside' /\ Errors'
  <2> DEFINE f == [at |-> IF unwind = NoFrame THEN "clear" ELSE "arm", outer |-> unwind]
  <2>1. f \in Frame
    BY <1>0 DEF TypeOK, Frame, FrameStep
  <2>2. /\ stack' = [stack EXCEPT ![c] = [@ EXCEPT ![Depth(c)] = f]]
        /\ stack[c] # <<>> /\ Top(c).at = "read" /\ UNCHANGED <<error, failed>>
    BY <1>3 DEF ReadOuter, TopAt, Top
  <2>3. TopBecomes(c, f)
    BY <1>0, <2>1, <2>2, TopChanges
  <2>4. /\ f.at = "clear" => f.outer = NoFrame
        /\ unwind = NoFrame => f.at = "clear"
        /\ f.at \in {"clear", "arm"}
    OBVIOUS
  <2> HIDE DEF f
  <2>5. CASE Depth(c) = 1
    <3>1. stack'[c] # <<>> /\ stack[c][1].at = "read" /\ stack'[c][1] = f
      BY <2>2, <2>3, <2>5, TopOrBelow
    <3>2. f.at = "clear"
      BY <2>4, <2>5, <3>1, FirstFindsNone
    <3>3. ~OuterArmed(stack'[c]) /\ ~OuterCleared(stack'[c])
      BY <3>1, <3>2 DEF OuterArmed, OuterCleared, Armed, Before
    <3>4. QED BY <2>2, <2>3, <2>4, <3>3, TopKeepsClears, OneStack
  <2>6. CASE Depth(c) # 1
    <3>1. stack'[c] # <<>> /\ stack'[c][1] = stack[c][1]
      BY <2>2, <2>3, <2>6, TopOrBelow
    <3>2. /\ OuterArmed(stack'[c]) => OuterArmed(stack[c])
          /\ OuterCleared(stack'[c]) => OuterCleared(stack[c])
      BY <3>1 DEF OuterArmed, OuterCleared
    <3>3. QED BY <1>1, <2>2, <2>3, <2>4, <3>2, TopKeepsClears, OneStack
  <2>7. QED BY <2>5, <2>6
\* It clears: the outermost entry has not armed.
<1>4. ASSUME NEW c \in Context, ClearError(c) PROVE ClearsOutside' /\ Errors'
  <2> DEFINE f == [at |-> "arm", outer |-> Top(c).outer]
  <2>1. /\ stack[c] # <<>> /\ Top(c).at = "clear" /\ TopBecomes(c, f) /\ error' = FALSE /\ failed' = failed
        /\ f.at = "arm"
    BY <1>0, <1>4, TopMoves DEF ClearError, TopAt, Top, FrameStep
  <2> HIDE DEF f
  <2>2. ~Armed(stack[c][1])
    BY <2>1, ArmedOuter
  <2>3. stack'[c] # <<>> /\ (stack'[c][1] = stack[c][1] \/ stack'[c][1] = f)
    BY <2>1, TopOrBelow
  <2>4. ~OuterArmed(stack'[c])
    BY <2>1, <2>2, <2>3 DEF OuterArmed, Armed, Before
  <2>5. QED BY <2>1, <2>4, TopKeepsClears, OneStack
<1>5. ASSUME NEW c \in Context, Arm(c) PROVE ClearsOutside' /\ Errors'
  <2> DEFINE f == [at |-> "run", outer |-> Top(c).outer]
  <2>1. /\ stack[c] # <<>> /\ Top(c).at = "arm" /\ TopBecomes(c, f) /\ error' = error
        /\ failed' = IF Depth(c) = 1 THEN failed \ {"run"} ELSE failed
        /\ f.at = "run"
    BY <1>0, <1>5, TopMoves DEF Arm, TopAt, Top, FrameStep
  <2> HIDE DEF f
  <2>2. CASE Depth(c) = 1
    <3>1. stack[c][1].at = "arm"
      BY <2>1, <2>2, TopOrBelow
    <3>2. OuterCleared(stack[c])
      BY <3>1 DEF OuterCleared
    <3>3. "run" \notin failed' /\ ("call" \in failed => "call" \in failed')
      BY <2>1, <2>2
    <3>4. QED BY <1>1, <2>1, <3>2, <3>3, TopKeepsClears, OneStack
  <2>3. CASE Depth(c) # 1
    <3>1. stack'[c] # <<>> /\ stack'[c][1] = stack[c][1] /\ failed' = failed
      BY <2>1, <2>3, TopOrBelow
    <3>2. /\ OuterArmed(stack'[c]) => OuterArmed(stack[c])
          /\ OuterCleared(stack'[c]) => OuterCleared(stack[c])
      BY <3>1 DEF OuterArmed, OuterCleared
    <3>3. QED BY <1>1, <2>1, <3>1, <3>2, TopKeepsClears, OneStack
  <2>4. QED BY <2>2, <2>3
<1>6. ASSUME NEW c \in Context, Restore(c) PROVE ClearsOutside' /\ Errors'
  <2>1. stack[c] # <<>> /\ Top(c).at = "restore" /\ Pop(c) /\ UNCHANGED <<error, failed>>
    BY <1>6 DEF Restore, TopAt, Top
  <2>2. /\ stack'[c] \in Seq(Frame) /\ Depth(c)' = Depth(c) - 1
        /\ \A i \in 1 .. Depth(c) - 1 : stack'[c][i] = stack[c][i]
    BY <1>0, <2>1, Popped
  <2>3. /\ stack[c] \in Seq(Frame) /\ Depth(c) = Len(stack[c]) /\ Len(stack[c]) \in Nat \ {0}
        /\ Len(stack'[c]) = Len(stack[c]) - 1
    BY <1>0, <2>1, <2>2 DEF TypeOK, Depth
  <2>4. \A i \in 1 .. Len(stack'[c]) : i \in 1 .. Len(stack[c]) /\ stack'[c][i] = stack[c][i]
    <3>1. \A i \in 1 .. Len(stack'[c]) : i \in 1 .. Len(stack[c]) /\ i \in 1 .. Depth(c) - 1
      BY <2>3
    <3>2. QED BY <2>2, <3>1
  <2>5. \A i \in 1 .. Len(stack'[c]) : stack'[c][i].at = "clear" => stack'[c][i].outer = NoFrame
    BY <2>4 DEF EntryInv, ClearsOutside
  <2>6. CASE Depth(c) = 1
    <3>1. stack[c][1].at = "restore"
      BY <2>1, <2>6 DEF Top
    <3>2. OuterArmed(stack[c]) /\ OuterCleared(stack[c])
      BY <3>1 DEF OuterArmed, OuterCleared, Armed, Before
    <3>3. QED BY <1>1, <2>1, <2>5, <3>2, OneStack
  <2>7. CASE Depth(c) # 1
    <3>1. 1 \in 1 .. Len(stack'[c])
      BY <2>3, <2>7, OneIsBelow
    <3>2. stack'[c] # <<>> /\ stack'[c][1] = stack[c][1]
      BY <2>2, <2>3, <2>4, <2>7, <3>1
    <3>3. /\ OuterArmed(stack'[c]) => OuterArmed(stack[c])
          /\ OuterCleared(stack'[c]) => OuterCleared(stack[c])
      BY <3>2 DEF OuterArmed, OuterCleared
    <3>4. QED BY <1>1, <2>1, <2>5, <3>3, OneStack
  <2>8. QED BY <2>6, <2>7
<1>7. ASSUME NEW c \in Context, LongJump(c) PROVE ClearsOutside' /\ Errors'
  <2> DEFINE f == [at |-> "restore", outer |-> Top(c).outer]
  <2>1. /\ unwind[2] = Depth(c) /\ stack[c] # <<>> /\ Top(c).at = "jump" /\ UNCHANGED <<error, failed>>
    BY <1>7, JumpIsOwn DEF LongJump
  <2>2. TopBecomes(c, f) /\ f.at = "restore"
    BY <1>0, <1>7, <2>1, Jumped DEF TopBecomes, Top
  <2> HIDE DEF f
  <2>3. /\ stack'[c] # <<>>
        /\ stack'[c][1] = stack[c][1] \/ (stack[c][1].at = "jump" /\ stack'[c][1].at = "restore")
    BY <2>1, <2>2, TopOrBelow
  <2>4. /\ OuterArmed(stack'[c]) => OuterArmed(stack[c])
        /\ OuterCleared(stack'[c]) => OuterCleared(stack[c])
    BY <2>3 DEF OuterArmed, OuterCleared, Armed, Before
  <2>5. QED BY <1>1, <2>1, <2>2, <2>4, TopKeepsClears, OneStack
\* An entry is made: the outermost, before which nothing has failed, or another.
<1>8. ASSUME NEW c \in Context, Push(c), error' = error PROVE ClearsOutside' /\ Errors'
  <2>1. /\ stack'[c] \in Seq(Frame) /\ Depth(c)' = Depth(c) + 1 /\ stack'[c][Depth(c) + 1] = NewFrame
        /\ \A i \in 1 .. Depth(c) : stack'[c][i] = stack[c][i]
    BY <1>0, <1>8, Pushed
  <2>2. /\ stack[c] \in Seq(Frame) /\ Depth(c) = Len(stack[c]) /\ Len(stack[c]) \in Nat
        /\ Len(stack'[c]) = Len(stack[c]) + 1
    BY <1>0, <2>1 DEF TypeOK, Depth
  <2>3. stack'[c] # <<>>
    BY <2>2
  <2>4. ASSUME NEW i \in 1 .. Len(stack'[c]), stack'[c][i].at = "clear" PROVE stack'[c][i].outer = NoFrame
    <3>1. i \in 1 .. Len(stack[c]) \/ i = Depth(c) + 1
      BY <2>2
    <3>2. NewFrame.at # "clear"
      BY DEF NewFrame
    <3>3. i \in 1 .. Len(stack[c]) /\ stack'[c][i] = stack[c][i]
      BY <2>1, <2>2, <2>4, <3>1, <3>2
    <3>4. QED BY <2>4, <3>3 DEF EntryInv, ClearsOutside
  <2>5. CASE stack[c] = <<>>
    <3>1. stack'[c][1] = NewFrame
      BY <2>1, <2>2, <2>5
    <3>2. ~OuterArmed(stack'[c]) /\ ~OuterCleared(stack'[c])
      BY <2>3, <3>1 DEF OuterArmed, OuterCleared, NewFrame, Armed, Before
    <3>3. QED BY <2>4, <3>2, OneStack
  <2>6. CASE stack[c] # <<>>
    <3>1. 1 \in 1 .. Depth(c)
      BY <2>2, <2>6
    <3>2. stack'[c][1] = stack[c][1]
      BY <2>1, <3>1
    <3>3. failed' = failed
      BY <1>8, <2>6 DEF Push, Outside
    <3>4. /\ OuterArmed(stack'[c]) => OuterArmed(stack[c])
          /\ OuterCleared(stack'[c]) => OuterCleared(stack[c])
      BY <2>3, <3>2 DEF OuterArmed, OuterCleared
    <3>5. QED BY <1>1, <1>8, <2>4, <3>3, <3>4, OneStack
  <2>7. QED BY <2>5, <2>6
<1>9. ASSUME UNCHANGED <<stack, error, failed>> PROVE ClearsOutside' /\ Errors'
    BY <1>9 DEF EntryInv, ClearsOutside, Errors
<1>10. ASSUME NEW c \in Context, ScriptReturns(c) \/ RecordError(c) \/ ReportError(c)
       PROVE  ClearsOutside' /\ Errors'
    BY <1>2, <1>10 DEF ScriptReturns, RecordError, ReportError, FrameStep
<1>11. ASSUME NEW c \in Context, Reenter(c) \/ CallExecute(c) \/ EnterFooter(c) \/ EnterFunction(c)
       PROVE  ClearsOutside' /\ Errors'
  <2>1. error' = error /\ (Push(c) \/ UNCHANGED <<stack, failed>>)
    BY <1>11 DEF Reenter, CallExecute, EnterFooter, EnterFunction
  <2>2. QED BY <1>8, <1>9, <2>1
<1>12. CASE UNCHANGED vars
    BY <1>9, <1>12 DEF vars
<1>13. CASE Next
  <2>1. ASSUME NEW c \in Context, Step(c) PROVE ClearsOutside' /\ Errors'
    BY <1>3, <1>4, <1>5, <1>6, <1>7, <1>10, <1>11, <2>1, Zenon DEF Step
  <2>2. QED BY <1>13, <2>1, Zenon DEF Next
<1>14. QED BY <1>12, <1>13

LEMMA NextEntry == OneContext /\ EntryInv /\ [Next]_vars => EntryInv'
BY NextNesting, NextErrors, Zenon DEF EntryInv

\* EntryInv is inductive.
THEOREM UnwindsStayNested == ASSUME OneContext PROVE Spec => []EntryInv
<1>1. EntryInv /\ [Next]_vars => EntryInv'
    BY NextEntry
<1>2. QED BY InitEntry, <1>1, PTL DEF Spec

-------------------------------------------------------------------------------
(* What it promises to one task.                                           *)

\* While the innermost entry runs the script the unwind point is its own, and
\* none is left to an entry that has returned.
THEOREM UnwindsInnermost == ASSUME OneContext PROVE Spec => []UnwindIsInnermost
<1>1. EntryInv => UnwindIsInnermost
  <2> SUFFICES ASSUME EntryInv PROVE UnwindIsInnermost
    OBVIOUS
  <2>1. ASSUME NEW c \in Context, TopAt(c, "run") \/ TopAt(c, "report") \/ TopAt(c, "jump")
        PROVE  unwind = Address(c)
    BY <2>1, OwnUnwind DEF TopAt, Top, Before
  <2>2. ASSUME unwind # NoFrame PROVE unwind[2] <= Depth(unwind[1])
    <3>1. PICK c \in Context : Nested(c, stack[c], unwind)
      BY DEF OneContext, EntryInv, Nesting
    <3>2. stack[c] \in Seq(Frame)
      BY DEF EntryInv, TypeOK
    <3>3. PICK j \in 1 .. Len(stack[c]) : unwind = <<c, j>>
      BY <2>2, <3>1 DEF Nested, Leaves
    <3>4. unwind[1] = c /\ unwind[2] = j
      BY <3>3
    <3>5. QED BY <3>2, <3>4 DEF Depth
  <2>3. QED BY <2>1, <2>2 DEF UnwindIsInnermost
<1>2. QED BY <1>1, UnwindsStayNested, PTL

\* A failed check never jumps to another stack: what two tasks break in the
\* run entry_two_stacks, one task cannot, however its interrupts nest.
THEOREM JumpsStayOnStack == ASSUME OneContext PROVE Spec => []JumpsOnOwnStack
<1>1. EntryInv => JumpsOnOwnStack
  <2> SUFFICES ASSUME EntryInv, NEW c \in Context, TopAt(c, "jump")
               PROVE  unwind # NoFrame /\ unwind[1] = c
    BY DEF JumpsOnOwnStack
  <2>1. unwind = Address(c)
    BY OwnUnwind DEF TopAt, Top, Before
  <2>2. Depth(c) \in 1 .. MaxDepth
    <3>1. stack[c] \in Seq(Frame) /\ stack[c] # <<>> /\ Len(stack[c]) <= MaxDepth
      BY DEF EntryInv, TypeOK, TopAt
    <3>2. QED BY <3>1 DEF Depth
  <2>3. QED BY <2>1, <2>2 DEF Address
<1>2. QED BY <1>1, UnwindsStayNested, PTL

\* When no entry is left, runtimeError has the error of a check that failed once
\* the outermost call had armed, and none from before that call. The argument is
\* Errors: while the outermost entry is armed an unwind point is (Nesting), so
\* no nested entry clears.
THEOREM ErrorIsOfLastCall == ASSUME OneContext PROVE Spec => []ErrorOfLastCall
<1>1. EntryInv => ErrorOfLastCall
  <2>1. Context # {}
    BY DEF OneContext
  <2>2. QED BY <2>1 DEF EntryInv, Errors, OuterArmed, OuterCleared, ErrorOfLastCall, Outside
<1>2. QED BY <1>1, UnwindsStayNested, PTL

\* A failed check ends the entry it happened in and no other.
THEOREM FailureStays == ASSUME OneContext PROVE Spec => FailureStaysInside
<1>1. ASSUME EntryInv, [Next]_vars
      PROVE  [\A c \in Context : LongJump(c) =>
                 /\ Depth(c)' = Depth(c)
                 /\ \A i \in 1 .. Depth(c) - 1 : stack'[c][i] = stack[c][i]]_vars
  <2> SUFFICES ASSUME NEW c \in Context, LongJump(c)
               PROVE  /\ Depth(c)' = Depth(c)
                      /\ \A i \in 1 .. Depth(c) - 1 : stack'[c][i] = stack[c][i]
    OBVIOUS
  <2>1. QED BY <1>1, JumpIsOwn, Jumped DEF EntryInv
<1>2. QED BY <1>1, UnwindsStayNested, PTL DEF Spec, FailureStaysInside
===============================================================================
