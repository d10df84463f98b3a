---------------------------- MODULE AssemblerProofs ----------------------------
(***************************************************************************)
(* What holds of the assembler for every program: its types, and where it   *)
(* puts labels, globals, slots and strings. LoaderProofs draws from it what *)
(* the runs check of a built and of a loaded script.                       *)
(***************************************************************************)
EXTENDS Assembler, FiniteSetTheorems, NaturalsInduction, WellFoundedInduction, TLAPS

-------------------------------------------------------------------------------
(* Counting, and sums.                                                     *)

LEMMA LeastNumber ==
    ASSUME NEW S, S \subseteq Nat, S # {}
    PROVE  \E i \in S : \A j \in S : i <= j
<1>1. IsWellFoundedOn(OpToRel(<, Nat), Nat)
    BY NatLessThanWellFounded
<1>2. PICK i \in S : \A j \in S : ~(<<j, i>> \in OpToRel(<, Nat))
    BY <1>1, WFMin
<1>3. \A j \in S : ~(j < i)
    BY <1>2 DEF OpToRel
<1>4. QED BY <1>3

\* Counting up to n.
LEMMA UpTo ==
    ASSUME NEW n \in Nat, NEW S, 0 \in S, \A k \in 0 .. n : k \in S /\ k < n => k + 1 \in S
    PROVE  0 .. n \subseteq S
<1> DEFINE Bad == {k \in 0 .. n : k \notin S}
<1>1. SUFFICES ASSUME Bad # {} PROVE FALSE
    OBVIOUS
<1>2. PICK k \in Bad : \A j \in Bad : k <= j
  <2>1. Bad \subseteq Nat
    OBVIOUS
  <2> HIDE DEF Bad
  <2>2. QED BY <1>1, <2>1, LeastNumber
<1>3. k # 0 /\ k - 1 \in 0 .. n /\ k - 1 \notin Bad /\ k - 1 < n
    BY <1>2
<1>4. k - 1 \in S
    BY <1>3
<1>5. (k - 1) + 1 \in S
    BY <1>3, <1>4
<1>6. (k - 1) + 1 = k
    BY <1>2
<1>7. QED BY <1>5, <1>6

\* w is the running sum of the numbers g[1], g[2], .. g[n].
Sums(w, g, n) == w = [k \in 0 .. n |-> IF k = 0 THEN 0 ELSE w[k - 1] + g[k]]

LEMMA SumsExist ==
    ASSUME NEW n \in Nat, NEW g, \A k \in 1 .. n : g[k] \in Nat
    PROVE  \E w \in [0 .. n -> Nat] : Sums(w, g, n)
<1> DEFINE S == {m \in Nat : \E w \in [0 .. m -> Nat] : Sums(w, g, m)}
<1>1. 0 \in S
  <2> DEFINE w == [k \in 0 .. 0 |-> 0]
  <2>1. w \in [0 .. 0 -> Nat] /\ Sums(w, g, 0)
    BY DEF Sums
  <2> HIDE DEF w
  <2>2. QED BY <2>1
<1>2. ASSUME NEW m \in 0 .. n, m \in S, m < n PROVE m + 1 \in S
  <2>1. PICK v \in [0 .. m -> Nat] : Sums(v, g, m)
    BY <1>2
  <2> DEFINE w == [k \in 0 .. m + 1 |-> IF k = m + 1 THEN v[m] + g[m + 1] ELSE v[k]]
  <2>3. w \in [0 .. m + 1 -> Nat]
    BY <1>2
  <2>4. \A k \in 0 .. m + 1 : w[k] = IF k = 0 THEN 0 ELSE w[k - 1] + g[k]
    <3>1. \A k \in 0 .. m : v[k] = IF k = 0 THEN 0 ELSE v[k - 1] + g[k]
      BY <2>1 DEF Sums
    <3>2. QED BY <3>1
  <2> HIDE DEF w
  <2>5. Sums(w, g, m + 1)
    BY <2>3, <2>4 DEF Sums
  <2>6. QED BY <2>3, <2>5
<1>3. 0 .. n \subseteq S
  <2> HIDE DEF S
  <2>1. QED BY <1>1, <1>2, UpTo
<1>4. QED BY <1>3

LEMMA SumsAgree ==
    ASSUME NEW n \in Nat, NEW m \in Nat, NEW g, NEW h, NEW v, NEW w,
           Sums(v, g, n), Sums(w, h, m), NEW p \in Nat, p <= n, p <= m,
           \A k \in 1 .. p : g[k] = h[k]
    PROVE  \A k \in 0 .. p : v[k] = w[k]
<1> DEFINE S == {k \in Nat : v[k] = w[k]}
<1>0. /\ \A k \in 0 .. n : v[k] = IF k = 0 THEN 0 ELSE v[k - 1] + g[k]
      /\ \A k \in 0 .. m : w[k] = IF k = 0 THEN 0 ELSE w[k - 1] + h[k]
    BY DEF Sums
<1>1. 0 \in S
    BY <1>0
<1>2. ASSUME NEW k \in 0 .. p, k \in S, k < p PROVE k + 1 \in S
  <2>1. v[k + 1] = v[k] + g[k + 1] /\ w[k + 1] = w[k] + h[k + 1]
    BY <1>0, <1>2
  <2>2. QED BY <1>2, <2>1
<1>3. 0 .. p \subseteq S
  <2> HIDE DEF S
  <2>1. QED BY <1>1, <1>2, UpTo
<1>4. QED BY <1>3

LEMMA SumsUnique ==
    ASSUME NEW n \in Nat, NEW g, NEW v, NEW w, Sums(v, g, n), Sums(w, g, n)
    PROVE  v = w
<1>1. \A k \in 1 .. n : g[k] = g[k]
    OBVIOUS
<1>2. \A k \in 0 .. n : v[k] = w[k]
    BY <1>1, SumsAgree
<1>3. QED BY <1>2 DEF Sums

\* Running() is the sum that it says it is.
LEMMA RunningSums ==
    ASSUME NEW g, Len(g) \in Nat, \A k \in 1 .. Len(g) : g[k] \in Nat
    PROVE  /\ Running(g) \in [0 .. Len(g) -> Nat]
           /\ Sums(Running(g), g, Len(g))
<1>1. PICK w \in [0 .. Len(g) -> Nat] : Sums(w, g, Len(g))
    BY SumsExist
<1>2. Sums(Running(g), g, Len(g))
    BY <1>1 DEF Running, Sums
<1>3. QED BY <1>1, <1>2, SumsUnique

\* What sums of numbers over a sequence come to.
LEMMA SumTyped ==
    ASSUME NEW g, Len(g) \in Nat, \A k \in 1 .. Len(g) : g[k] \in Nat
    PROVE  Running(g)[Len(g)] \in Nat
BY RunningSums

\* A sum of numbers none of which is above those of another.
LEMMA SumsBelow ==
    ASSUME NEW n \in Nat, NEW g, NEW h, Len(g) = n, Len(h) = n,
           \A k \in 1 .. n : g[k] \in Nat /\ h[k] \in Nat /\ g[k] <= h[k]
    PROVE  Running(g)[n] <= Running(h)[n]
<1> DEFINE v == Running(g)
           w == Running(h)
           S == {k \in Nat : v[k] <= w[k]}
<1>1. /\ v \in [0 .. n -> Nat] /\ w \in [0 .. n -> Nat]
      /\ Sums(v, g, n) /\ Sums(w, h, n)
    BY RunningSums
<1> HIDE DEF v, w
<1>2. v[0] = 0 /\ w[0] = 0
    BY <1>1 DEF Sums
<1>3. \A k \in 0 .. n : k < n => v[k + 1] = v[k] + g[k + 1] /\ w[k + 1] = w[k] + h[k + 1]
    BY <1>1 DEF Sums
<1>4. 0 \in S
    BY <1>2
<1>5. ASSUME NEW k \in 0 .. n, k \in S, k < n PROVE k + 1 \in S
  <2>1. /\ v[k + 1] = v[k] + g[k + 1] /\ w[k + 1] = w[k] + h[k + 1]
        /\ v[k] \in Nat /\ w[k] \in Nat /\ v[k] <= w[k]
        /\ g[k + 1] \in Nat /\ h[k + 1] \in Nat /\ g[k + 1] <= h[k + 1]
    BY <1>1, <1>3, <1>5
  <2>2. QED BY <2>1
<1>6. 0 .. n \subseteq S
  <2> HIDE DEF S
  <2>1. QED BY <1>4, <1>5, UpTo
<1>7. QED BY <1>6 DEF v, w

\* A sum is its first number and the sum of the others.
LEMMA SumsTail ==
    ASSUME NEW n \in Nat, NEW g, NEW h, Len(g) = n + 1, Len(h) = n,
           \A k \in 1 .. n + 1 : g[k] \in Nat, \A k \in 1 .. n : h[k] = g[k + 1]
    PROVE  Running(g)[n + 1] = g[1] + Running(h)[n]
<1> DEFINE v == Running(g)
           w == Running(h)
           S == {k \in Nat : v[k + 1] = g[1] + w[k]}
<1>1. /\ v \in [0 .. n + 1 -> Nat] /\ w \in [0 .. n -> Nat]
      /\ Sums(v, g, n + 1) /\ Sums(w, h, n)
  <2>1. \A k \in 1 .. n : h[k] \in Nat
    OBVIOUS
  <2>2. Running(h) \in [0 .. Len(h) -> Nat] /\ Sums(Running(h), h, Len(h))
    BY <2>1, RunningSums
  <2>3. Running(g) \in [0 .. Len(g) -> Nat] /\ Sums(Running(g), g, Len(g))
    <3>1. Len(g) \in Nat /\ \A k \in 1 .. Len(g) : g[k] \in Nat
      OBVIOUS
    <3>2. QED BY <3>1, RunningSums
  <2>4. QED BY <2>2, <2>3
<1> HIDE DEF v, w
<1>2. v[0] = 0 /\ w[0] = 0
    BY <1>1 DEF Sums
<1>3. \A k \in 0 .. n : /\ v[k + 1] = v[k] + g[k + 1]
                        /\ k < n => w[k + 1] = w[k] + h[k + 1]
  <2>1. ASSUME NEW k \in 0 .. n PROVE v[k + 1] = v[k] + g[k + 1]
    <3>1. k + 1 \in 0 .. n + 1 /\ k + 1 # 0 /\ (k + 1) - 1 = k
      OBVIOUS
    <3>2. QED BY <1>1, <3>1 DEF Sums
  <2>2. ASSUME NEW k \in 0 .. n, k < n PROVE w[k + 1] = w[k] + h[k + 1]
    <3>1. k + 1 \in 0 .. n /\ k + 1 # 0 /\ (k + 1) - 1 = k
      BY <2>2
    <3>2. QED BY <1>1, <3>1 DEF Sums
  <2>3. QED BY <2>1, <2>2
<1>4. 0 \in S
  <2>1. v[0 + 1] = v[0] + g[0 + 1] /\ g[1] \in Nat /\ 0 + 1 = 1
    BY <1>3
  <2> HIDE DEF S
  <2>2. v[1] = g[1] + w[0]
    BY <1>2, <2>1
  <2>3. QED BY <2>1, <2>2 DEF S
<1>5. ASSUME NEW k \in 0 .. n, k \in S, k < n PROVE k + 1 \in S
  <2>1. /\ v[(k + 1) + 1] = v[k + 1] + g[(k + 1) + 1] /\ w[k + 1] = w[k] + h[k + 1]
        /\ h[k + 1] = g[(k + 1) + 1] /\ v[k + 1] = g[1] + w[k]
    BY <1>3, <1>5
  <2>2. w[k] \in Nat /\ g[1] \in Nat /\ g[(k + 1) + 1] \in Nat
    BY <1>1, <1>5
  <2>3. v[(k + 1) + 1] = g[1] + w[k + 1]
    BY <2>1, <2>2
  <2>4. QED BY <1>5, <2>3
<1>6. 0 .. n \subseteq S
  <2> HIDE DEF S
  <2>1. QED BY <1>4, <1>5, UpTo
<1>7. QED BY <1>6 DEF v, w

-------------------------------------------------------------------------------
(* Types.                                                                  *)

LineName == Label \cup {NoLabel} \cup [relax : Nat]

EntryOp == Labelled \cup {"data", "standard", "jump", "jump_32aligned",
                          "function_declaration", "json_binding"}
EntryType == [op : EntryOp, name : LineName, address : Nat, size : Nat, data : Nat,
              bits : Nat, staged : Nat]

LEMMA LineTyped ==
    ASSUME NEW l \in Line
    PROVE  l.op \in Op /\ l.name \in LineName /\ l.n \in Nat /\ l.neg \in BOOLEAN
BY DEF Line, LineName

LEMMA CountNat == ASSUME NEW l \in Line PROVE Count(l) \in Nat
BY LineTyped DEF Count

LEMMA NumberNat ==
    ASSUME NEW t \in Seq(Line), NEW ops
    PROVE  Number(t, ops) \in Nat
<1> DEFINE g == [k \in DOMAIN t |-> IF t[k].op \in ops THEN Count(t[k]) ELSE 0]
<1>1. \A k \in DOMAIN t : t[k] \in Line
    OBVIOUS
<1>2. Len(g) = Len(t) /\ Len(g) \in Nat /\ \A k \in 1 .. Len(g) : g[k] \in Nat
    BY <1>1, CountNat
<1>3. Number(t, ops) = Running(g)[Len(t)]
    BY DEF Number, Total, SumTo
<1> HIDE DEF g
<1>4. QED BY <1>2, <1>3, SumTyped

LEMMA StagingNat == ASSUME NEW t \in Seq(Line) PROVE Staging(t) \in Nat
<1> DEFINE g == [k \in DOMAIN t |-> IF t[k].op = "string" THEN Reserved(t[k].n) ELSE 0]
<1>1. \A k \in DOMAIN t : t[k] \in Line
    OBVIOUS
<1>2. Len(g) = Len(t) /\ Len(g) \in Nat /\ \A k \in 1 .. Len(g) : g[k] \in Nat
    BY <1>1, LineTyped DEF Reserved
<1>3. Staging(t) = Running(g)[Len(t)]
    BY DEF Staging, Total, SumTo
<1> HIDE DEF g
<1>4. QED BY <1>2, <1>3, SumTyped

\* The loop heads of a text are some of its labels.
LEMMA LoopHeadsFinite ==
    ASSUME NEW t \in Seq(Line)
    PROVE  /\ IsFiniteSet(LoopHeads(t))
           /\ \A x \in LoopHeads(t) : \E i \in DOMAIN t : t[i].op = "label" /\ t[i].name = x
<1> DEFINE I == {i \in DOMAIN t :
                    /\ t[i].op = "label"
                    /\ \/ \E j \in DOMAIN t : t[j].op = "jump" /\ GoesTo(t[j], t[i].name)
                       \/ \E j \in i + 1 .. Len(t) : GoesTo(t[j], t[i].name)}
           H == {t[i].name : i \in I}
           f == [i \in I |-> t[i].name]
<1>1. LoopHeads(t) = H
    BY DEF LoopHeads
<1>2. I \subseteq 1 .. Len(t) /\ Len(t) \in Int /\ \A i \in I : t[i].op = "label"
    OBVIOUS
<1> HIDE DEF I
<1>3. IsFiniteSet(I)
  <2>1. IsFiniteSet(1 .. Len(t))
    BY <1>2, FS_Interval
  <2>2. QED BY <1>2, <2>1, FS_Subset
<1>4. f \in Surjection(I, H)
    BY DEF Surjection
<1>5. IsFiniteSet(H)
    BY <1>3, <1>4, FS_Surjection
<1>6. QED BY <1>1, <1>2, <1>5

LEMMA EstimateInt ==
    ASSUME NEW h \in Seq(Line), NEW c \in Seq(Line), NEW f \in Seq(Line), NEW hs, IsFiniteSet(hs)
    PROVE  CodeEstimate(h, c, f, hs) \in Int
<1> DEFINE t == c \o f
           a1 == Number(t, {"aligned"})
           a2 == Number(t, Op)
           a3 == Number(t, {"label"})
           a4 == Number(h, {"bytes", "string"})
           a5 == Number(t, {"callExt"})
           a6 == Cardinality(hs)
<1>1. t \in Seq(Line)
    OBVIOUS
<1> HIDE DEF t
<1>2. a1 \in Nat /\ a2 \in Nat /\ a3 \in Nat /\ a4 \in Nat /\ a5 \in Nat
    BY <1>1, NumberNat, Zenon
<1>3. a6 \in Nat
    BY FS_CardinalityType
<1>4. CodeEstimate(h, c, f, hs) = (a1 + 1) * 4 + (a2 - a3) * 3 + a4 * 4 + a5 * 3 + a6 * 2
    BY Zenon DEF CodeEstimate, t
<1> HIDE DEF a1, a2, a3, a4, a5, a6
<1>5. QED BY <1>2, <1>3, <1>4

LEMMA Word16Range == ASSUME NEW n \in Int PROVE Word16(n) \in Nat /\ Word16(n) <= 65535
BY DEF Word16

\* A line of what is left of a Text: one of the program, one of a relaxed
\* branch, or the label of one.
OfProgram(o, l) ==
    \/ \E j \in DOMAIN o : l = o[j]
    \/ l.op \in {"branch", "jump"}
    \/ l.op = "label" /\ l.name \in [relax : Nat]

\* How many lines of the header are assembled.
Consumed == Len(origin["header"]) - Len(text["header"])

LinesTyped ==
    /\ origin \in Programs
    /\ DOMAIN text = Part
    /\ \A p \in Part : text[p] \in Seq(Line) /\ \A i \in DOMAIN text[p] : OfProgram(origin[p], text[p][i])
    /\ Consumed \in Nat
    /\ \A i \in DOMAIN text["header"] : text["header"][i] = origin["header"][Consumed + i]
    /\ scan \in [part : {"content", "footer"}, old : Seq(Line), at : Nat]
    /\ phase = "relax" => scan.at <= Len(text[scan.part]) + 1
    /\ relaxed \in Nat

Numbers ==
    /\ heads \subseteq Name
    /\ parsed \in Seq(EntryType)
    /\ pos \in [instr : Nat, data : Nat, staged : Nat]
    /\ size \in [instr : Nat, tmp : Nat] /\ size.instr <= 65535 /\ size.tmp <= 65535

Typed == LinesTyped /\ Numbers

LEMMA ProgramTyped ==
    ASSUME NEW p \in Programs
    PROVE  DOMAIN p = Part /\ \A q \in Part : p[q] \in Seq(Line)
BY ProgramAssumption

LEMMA CallsCounted ==
    ASSUME NEW p \in Programs, NEW q \in Part, NEW l, OfProgram(p[q], l), l.op = "callExt"
    PROVE  l.n # 0
BY ProgramAssumption DEF OfProgram

\* A sequence after another.
LEMMA Concatenated ==
    ASSUME NEW S, NEW a \in Seq(S), NEW b \in Seq(S)
    PROVE  /\ a \o b \in Seq(S) /\ Len(a \o b) = Len(a) + Len(b)
           /\ \A k \in DOMAIN a : (a \o b)[k] = a[k]
           /\ \A k \in DOMAIN b : (a \o b)[Len(a) + k] = b[k]
           /\ \A k \in DOMAIN (a \o b) :
                  \/ k \in DOMAIN a /\ (a \o b)[k] = a[k]
                  \/ \E j \in DOMAIN b : k = Len(a) + j /\ (a \o b)[k] = b[j]
<1>1. /\ a \o b \in Seq(S) /\ Len(a \o b) = Len(a) + Len(b) /\ Len(a) \in Nat /\ Len(b) \in Nat
      /\ DOMAIN (a \o b) = 1 .. Len(a) + Len(b) /\ DOMAIN a = 1 .. Len(a) /\ DOMAIN b = 1 .. Len(b)
    OBVIOUS
<1>2. \A k \in 1 .. Len(a) : (a \o b)[k] = a[k]
    OBVIOUS
<1>3. \A k \in 1 .. Len(a) + Len(b) : ~(k <= Len(a)) => (a \o b)[k] = b[k - Len(a)]
    OBVIOUS
<1>4. \A k \in 1 .. Len(b) : (a \o b)[Len(a) + k] = b[k]
  <2> SUFFICES ASSUME NEW k \in 1 .. Len(b) PROVE (a \o b)[Len(a) + k] = b[k]
    OBVIOUS
  <2>1. Len(a) + k \in 1 .. Len(a) + Len(b) /\ ~(Len(a) + k <= Len(a)) /\ (Len(a) + k) - Len(a) = k
    BY <1>1
  <2>2. QED BY <1>3, <2>1
<1>5. ASSUME NEW k \in 1 .. Len(a) + Len(b), k \notin 1 .. Len(a)
      PROVE  \E j \in 1 .. Len(b) : k = Len(a) + j /\ (a \o b)[k] = b[j]
  <2>1. k - Len(a) \in 1 .. Len(b) /\ k = Len(a) + (k - Len(a)) /\ ~(k <= Len(a))
    BY <1>1, <1>5
  <2>2. QED BY <1>3, <2>1
<1>6. QED BY <1>1, <1>2, <1>4, <1>5

\* The lines relaxBranch() puts in.
LEMMA InverseLines ==
    ASSUME NEW l \in Line, NEW c \in Nat
    PROVE  /\ InverseBranch(l, c) \in Seq(Line) /\ Len(InverseBranch(l, c)) = 3
           /\ l.op = "branch" =>
                  \A o : \A j \in DOMAIN InverseBranch(l, c) : OfProgram(o, InverseBranch(l, c)[j])
<1> DEFINE x == [l EXCEPT !.name = Fresh(c), !.neg = ~l.neg]
           y == [op |-> "jump", name |-> l.name, n |-> 0, neg |-> FALSE]
           z == [op |-> "label", name |-> Fresh(c), n |-> 0, neg |-> FALSE]
<1>1. Fresh(c) \in LineName /\ l.name \in LineName /\ Fresh(c) \in [relax : Nat]
    BY LineTyped DEF Fresh, LineName
<1>2. x \in Line /\ x.op = l.op
    BY <1>1 DEF Line, LineName
<1>3. y \in Line /\ y.op = "jump"
    BY <1>1 DEF Line, LineName, Op
<1>4. z \in Line /\ z.op = "label" /\ z.name \in [relax : Nat]
    BY <1>1 DEF Line, LineName, Op
<1>5. InverseBranch(l, c) = <<x, y, z>>
    BY DEF InverseBranch
<1> HIDE DEF x, y, z
<1>6. /\ <<x, y, z>> \in Seq(Line) /\ Len(<<x, y, z>>) = 3
      /\ \A j \in DOMAIN <<x, y, z>> : <<x, y, z>>[j] = x \/ <<x, y, z>>[j] = y \/ <<x, y, z>>[j] = z
    BY <1>2, <1>3, <1>4
<1>7. QED BY <1>2, <1>3, <1>4, <1>5, <1>6 DEF OfProgram

\* A text after relaxBranch(): three lines for one.
LEMMA RelaxedText ==
    ASSUME NEW t \in Seq(Line), NEW i \in DOMAIN t, NEW c \in Nat, NEW o, t[i].op = "branch",
           \A k \in DOMAIN t : OfProgram(o, t[k])
    PROVE  /\ RelaxAt(t, i, c) \in Seq(Line) /\ Len(RelaxAt(t, i, c)) = Len(t) + 2
           /\ \A k \in DOMAIN RelaxAt(t, i, c) : OfProgram(o, RelaxAt(t, i, c)[k])
<1> DEFINE a == SubSeq(t, 1, i - 1)
           b == InverseBranch(t[i], c)
           d == SubSeq(t, i + 1, Len(t))
<1>1. t[i] \in Line /\ i \in 1 .. Len(t) /\ Len(t) \in Nat
    OBVIOUS
<1>2. a \in Seq(Line) /\ Len(a) = i - 1 /\ \A k \in DOMAIN a : k \in DOMAIN t /\ a[k] = t[k]
    BY <1>1
<1>3. d \in Seq(Line) /\ Len(d) = Len(t) - i /\ \A k \in DOMAIN d : i + k \in DOMAIN t /\ d[k] = t[i + k]
    BY <1>1
<1>4. b \in Seq(Line) /\ Len(b) = 3 /\ \A k \in DOMAIN b : OfProgram(o, b[k])
    BY <1>1, InverseLines
<1>5. RelaxAt(t, i, c) = (a \o b) \o d
    BY DEF RelaxAt
<1>6. \A k \in DOMAIN a : OfProgram(o, a[k])
    BY <1>2
<1>7. \A k \in DOMAIN d : OfProgram(o, d[k])
    BY <1>3
<1> HIDE DEF a, b, d
<1> DEFINE e == a \o b
<1>8. e \in Seq(Line) /\ Len(e) = i + 2 /\ \A k \in DOMAIN e : OfProgram(o, e[k])
  <2>1. e \in Seq(Line) /\ Len(e) = Len(a) + Len(b) /\
        \A k \in DOMAIN e : \/ k \in DOMAIN a /\ e[k] = a[k]
                            \/ \E j \in DOMAIN b : k = Len(a) + j /\ e[k] = b[j]
    <3>1. a \in Seq(Line) /\ b \in Seq(Line)
      BY <1>2, <1>4
    <3>2. QED BY <3>1, Concatenated
  <2>2. QED BY <1>1, <1>2, <1>4, <1>6, <2>1
<1> HIDE DEF e
<1> DEFINE r == e \o d
<1>9. r \in Seq(Line) /\ Len(r) = Len(t) + 2 /\ \A k \in DOMAIN r : OfProgram(o, r[k])
  <2>1. r \in Seq(Line) /\ Len(r) = Len(e) + Len(d) /\
        \A k \in DOMAIN r : \/ k \in DOMAIN e /\ r[k] = e[k]
                            \/ \E j \in DOMAIN d : k = Len(e) + j /\ r[k] = d[j]
    <3>1. e \in Seq(Line) /\ d \in Seq(Line)
      BY <1>3, <1>8
    <3>2. QED BY <3>1, Concatenated
  <2>2. Len(r) = Len(t) + 2
    BY <1>1, <1>3, <1>8, <2>1
  <2>3. \A k \in DOMAIN r : OfProgram(o, r[k])
    <3> HIDE DEF r
    <3>1. QED BY <1>7, <1>8, <2>1
  <2>4. QED BY <2>1, <2>2, <2>3
<1>10. RelaxAt(t, i, c) = r
    BY <1>5 DEF e
<1> HIDE DEF r
<1>11. QED BY <1>9, <1>10

LEMMA GreatestNumber ==
    ASSUME NEW n \in Nat, NEW S, S \subseteq 0 .. n, S # {}
    PROVE  \E i \in S : \A j \in S : i >= j
<1> DEFINE D == {n - k : k \in S}
<1>1. D \subseteq Nat /\ D # {}
  <2>1. \A k \in S : n - k \in Nat
    OBVIOUS
  <2>2. D \subseteq Nat
    BY <2>1
  <2>3. QED BY <2>2
<1>2. PICK d \in D : \A j \in D : d <= j
  <2> HIDE DEF D
  <2>1. QED BY <1>1, LeastNumber
<1>3. PICK i \in S : d = n - i
    OBVIOUS
<1>4. \A j \in S : n - i <= n - j
    BY <1>2, <1>3
<1>5. QED BY <1>4

\* The branch that a pass comes to is one of the text.
LEMMA NextBranch ==
    ASSUME NEW t \in Seq(Line), NEW at \in Nat, at <= Len(t) + 1, BranchesBelow(t, at) # {}
    PROVE  LET i == LastOf(BranchesBelow(t, at))
           IN  i \in DOMAIN t /\ i < at /\ t[i].op = "branch"
<1> DEFINE B == BranchesBelow(t, at)
<1>1. B \subseteq 0 .. Len(t) + 1 /\ Len(t) + 1 \in Nat
      /\ \A k \in B : k \in DOMAIN t /\ k < at /\ t[k].op = "branch"
    BY DEF BranchesBelow
<1> HIDE DEF B
<1>2. \E i \in B : \A j \in B : i >= j
    BY <1>1, GreatestNumber DEF B
<1>3. LastOf(B) \in B
    BY <1>2 DEF LastOf
<1>4. QED BY <1>1, <1>3 DEF B

\* Texts, when one of them changes.
LEMMA TextChanges ==
    ASSUME LinesTyped, NEW p \in Part, NEW s \in Seq(Line), \A i \in DOMAIN s : OfProgram(origin[p], s[i]),
           text' = [text EXCEPT ![p] = s], UNCHANGED origin
    PROVE  /\ DOMAIN text' = Part /\ text'[p] = s
           /\ \A q \in Part : q # p => text'[q] = text[q]
           /\ \A q \in Part : text'[q] \in Seq(Line) /\ \A i \in DOMAIN text'[q] : OfProgram(origin'[q], text'[q][i])
BY DEF LinesTyped

LEMMA InitTyped == AsmInit => Typed
<1> SUFFICES ASSUME AsmInit PROVE Typed
    OBVIOUS
<1> USE DEF AsmInit
<1>1. origin \in Programs /\ text = origin
    OBVIOUS
<1>2. DOMAIN origin = Part /\ \A q \in Part : origin[q] \in Seq(Line)
    BY <1>1, ProgramTyped
<1>3. "header" \in Part /\ Len(origin["header"]) \in Nat
    BY <1>2 DEF Part
<1>4. Consumed = 0
    BY <1>1, <1>3 DEF Consumed
<1>5. \A i \in DOMAIN text["header"] : text["header"][i] = origin["header"][Consumed + i]
    BY <1>1, <1>2, <1>3, <1>4
<1>6. scan \in [part : {"content", "footer"}, old : Seq(Line), at : Nat]
    BY DEF NoScan
<1>7. scan.at <= Len(text[scan.part]) + 1
    BY <1>1, <1>2 DEF NoScan, Part
<1>8. LinesTyped
    BY <1>1, <1>2, <1>4, <1>5, <1>6, <1>7 DEF LinesTyped, OfProgram
<1>9. /\ <<>> \in Seq(EntryType) /\ {} \subseteq Name
      /\ [instr |-> 0, data |-> 0, staged |-> 0] \in [instr : Nat, data : Nat, staged : Nat]
      /\ [instr |-> 0, tmp |-> 0] \in [instr : Nat, tmp : Nat]
    OBVIOUS
<1>10. Numbers
  <2>1. heads = {} /\ parsed = <<>> 
        /\ pos = [instr |-> 0, data |-> 0, staged |-> 0] /\ size = [instr |-> 0, tmp |-> 0]
    OBVIOUS
  <2>2. heads \subseteq Name
    BY <1>9, <2>1
  <2>3. parsed \in Seq(EntryType)
    BY <1>9, <2>1
  <2>4. pos \in [instr : Nat, data : Nat, staged : Nat]
    BY <1>9, <2>1
  <2>5. size \in [instr : Nat, tmp : Nat] /\ size.instr <= 65535 /\ size.tmp <= 65535
    BY <1>9, <2>1
  <2>6. QED BY <2>2, <2>3, <2>4, <2>5 DEF Numbers
<1>11. QED BY <1>8, <1>10 DEF Typed

\* The steps that take no line: those of relaxBranches(), and the others.
LEMMA RelaxingTexts ==
    ASSUME LinesTyped, (\E p \in Part : BeginPass(p)) \/ RelaxLine \/ EndPass
    PROVE  LinesTyped'
<1>0. /\ scan.part \in {"content", "footer"} /\ scan.part \in Part /\ scan.at \in Nat
      /\ text[scan.part] \in Seq(Line) /\ UNCHANGED origin
      /\ phase = "relax" /\ scan.at <= Len(text[scan.part]) + 1
    BY DEF LinesTyped, BeginPass, RelaxLine, EndPass, Part
<1>1. ASSUME NEW p \in Part, BeginPass(p) PROVE LinesTyped'
  <2>1. scan' \in [part : {"content", "footer"}, old : Seq(Line), at : Nat]
        /\ scan'.part = p /\ scan'.at = Len(text[p]) + 1
    BY <1>0, <1>1 DEF BeginPass
  <2>2. QED BY <1>1, <2>1 DEF BeginPass, LinesTyped, Consumed
<1>2. CASE EndPass
  <2>1. PICK q \in {"content", "footer"} : scan' = [part |-> q, old |-> <<>>, at |-> 0]
    <3>1. \A q : [NoScan EXCEPT !.part = q] = [part |-> q, old |-> <<>>, at |-> 0]
      BY DEF NoScan
    <3>2. NoScan = [part |-> "content", old |-> <<>>, at |-> 0]
      BY DEF NoScan
    <3>3. \/ scan' = [NoScan EXCEPT !.part = scan.part]
          \/ scan' = [NoScan EXCEPT !.part = "footer"]
          \/ scan' = NoScan
      BY <1>2 DEF EndPass
    <3>4. QED BY <1>0, <3>1, <3>2, <3>3
  <2>2. scan' \in [part : {"content", "footer"}, old : Seq(Line), at : Nat] /\ scan'.at = 0
    BY <2>1
  <2>3. \A p \in Part : Len(text[p]) \in Nat
    BY DEF LinesTyped
  <2>4. scan'.at <= Len(text[scan'.part]) + 1
    BY <2>2, <2>3 DEF Part
  <2>5. QED BY <1>2, <2>2, <2>4 DEF EndPass, LinesTyped, Consumed
<1>3. CASE RelaxLine
  <2> DEFINE p == scan.part
             t == text[p]
             i == LastOf(BranchesBelow(t, scan.at))
  <2>1. /\ BranchesBelow(t, scan.at) # {} /\ scan' = [scan EXCEPT !.at = i] /\ phase' = phase
        /\ \/ text' = [text EXCEPT ![p] = RelaxAt(t, i, relaxed)] /\ relaxed' = relaxed + 1
           \/ UNCHANGED <<text, relaxed>>
    BY <1>3 DEF RelaxLine
  <2>2. i \in DOMAIN t /\ i < scan.at /\ t[i].op = "branch"
    BY <1>0, <2>1, NextBranch
  <2>3. i \in Nat /\ i <= Len(t)
    BY <1>0, <2>2
  <2> HIDE DEF i
  <2>4. scan' \in [part : {"content", "footer"}, old : Seq(Line), at : Nat] /\ scan'.part = p /\ scan'.at = i
    BY <2>1, <2>3 DEF LinesTyped
  <2>5. CASE UNCHANGED <<text, relaxed>>
    <3>1. scan'.at <= Len(text'[scan'.part]) + 1
      BY <1>0, <2>3, <2>4, <2>5
    <3>2. QED BY <1>0, <2>4, <2>5, <3>1 DEF LinesTyped, Consumed
  <2>6. CASE text' = [text EXCEPT ![p] = RelaxAt(t, i, relaxed)] /\ relaxed' = relaxed + 1
    <3> DEFINE r == RelaxAt(t, i, relaxed)
    <3>1. relaxed \in Nat /\ \A k \in DOMAIN t : OfProgram(origin[p], t[k])
      BY <1>0 DEF LinesTyped
    <3>2. /\ r \in Seq(Line) /\ Len(r) = Len(t) + 2
          /\ \A k \in DOMAIN r : OfProgram(origin[p], r[k])
      BY <1>0, <2>2, <3>1, RelaxedText
    <3> HIDE DEF r
    <3>3. text' = [text EXCEPT ![p] = r]
      BY <2>6 DEF r
    <3>4. /\ DOMAIN text' = Part /\ text'[p] = r
          /\ \A q \in Part : q # p => text'[q] = text[q]
          /\ \A q \in Part : text'[q] \in Seq(Line)
                             /\ \A k \in DOMAIN text'[q] : OfProgram(origin'[q], text'[q][k])
      BY <1>0, <3>2, <3>3, TextChanges
    <3>5. text'["header"] = text["header"]
      BY <1>0, <3>4 DEF Part
    <3>6. scan'.at <= Len(text'[scan'.part]) + 1
      BY <1>0, <2>3, <2>4, <3>2, <3>4
    <3>a. Consumed' = Consumed
      BY <1>0, <3>5 DEF Consumed
    <3>b. relaxed' = relaxed + 1
      BY <2>6
    <3>7. Consumed' = Consumed /\ relaxed' \in Nat
      BY <3>1, <3>a, <3>b
    <3>8. QED BY <1>0, <2>4, <3>4, <3>5, <3>6, <3>7 DEF LinesTyped
  <2>7. QED BY <2>1, <2>5, <2>6
<1>4. QED BY <1>1, <1>2, <1>3

\* What reading a line leaves of a Text.
LEMMA Tailed ==
    ASSUME NEW S, NEW s \in Seq(S), s # <<>>
    PROVE  /\ Head(s) = s[1] /\ Head(s) \in S /\ 1 \in DOMAIN s
           /\ Tail(s) \in Seq(S) /\ Len(Tail(s)) = Len(s) - 1
           /\ \A i \in DOMAIN Tail(s) : i + 1 \in DOMAIN s /\ Tail(s)[i] = s[i + 1]
OBVIOUS

LEMMA ReadsLine ==
    ASSUME LinesTyped, NEW ops, Reads(ops)
    PROVE  /\ NextPart \in Part /\ Current \in Line /\ Current.op \in ops
           /\ OfProgram(origin[NextPart], Current)
           /\ NextPart = "header" => /\ Consumed + 1 \in DOMAIN origin["header"]
                                     /\ Current = origin["header"][Consumed + 1]
           /\ text["header"] = <<>> <=> NextPart # "header"
           /\ Consumed' = IF NextPart = "header" THEN Consumed + 1 ELSE Consumed
           /\ LinesTyped'
<1> DEFINE p == NextPart
           s == text[p]
<1>1. p \in Part /\ s # <<>> /\ Current = Head(s) /\ Current.op \in ops
      /\ text' = [text EXCEPT ![p] = Tail(s)] /\ phase = "assemble" /\ phase' = phase
      /\ UNCHANGED <<origin, scan, relaxed>>
    BY DEF Reads, NextPart, Part, Current
<1>2. text["header"] = <<>> <=> p # "header"
    BY DEF NextPart
<1> HIDE DEF p
<1>3. s \in Seq(Line) /\ \A i \in DOMAIN s : OfProgram(origin[p], s[i])
    BY <1>1 DEF LinesTyped
<1> DEFINE r == Tail(s)
<1>4. /\ Head(s) = s[1] /\ Head(s) \in Line /\ 1 \in DOMAIN s
      /\ r \in Seq(Line) /\ Len(r) = Len(s) - 1
      /\ \A i \in DOMAIN r : i + 1 \in DOMAIN s /\ r[i] = s[i + 1]
    BY <1>1, <1>3, Tailed
<1>5. text' = [text EXCEPT ![p] = r]
    BY <1>1
<1> HIDE DEF s, r
<1>6. OfProgram(origin[p], Current) /\ Current \in Line
    BY <1>1, <1>3, <1>4
<1>7. \A i \in DOMAIN r : OfProgram(origin[p], r[i])
    BY <1>3, <1>4
<1>8. /\ DOMAIN text' = Part /\ text'[p] = r
      /\ \A q \in Part : q # p => text'[q] = text[q]
      /\ \A q \in Part : text'[q] \in Seq(Line)
                         /\ \A k \in DOMAIN text'[q] : OfProgram(origin'[q], text'[q][k])
    BY <1>1, <1>4, <1>5, <1>7, TextChanges
<1>9. /\ origin["header"] \in Seq(Line) /\ text["header"] \in Seq(Line) /\ Consumed \in Nat
      /\ \A i \in DOMAIN text["header"] : text["header"][i] = origin["header"][Consumed + i]
    BY ProgramTyped DEF LinesTyped, Part
<1>10. CASE p = "header"
  <2>1. Consumed' = Consumed + 1 /\ Consumed + 1 \in Nat
    BY <1>1, <1>4, <1>8, <1>9, <1>10 DEF Consumed, s
  <2>2. Consumed + 1 \in DOMAIN origin["header"]
    <3>1. Len(s) \in Nat /\ Len(s) # 0 /\ Len(origin["header"]) \in Nat
      BY <1>1, <1>3, <1>4, <1>9
    <3>2. Consumed = Len(origin["header"]) - Len(s)
      BY <1>10 DEF Consumed, s
    <3>3. QED BY <1>9, <3>1, <3>2
  <2>3. Current = origin["header"][Consumed + 1]
    BY <1>1, <1>4, <1>9, <1>10 DEF s
  <2>4. \A i \in DOMAIN text'["header"] : text'["header"][i] = origin'["header"][Consumed' + i]
    <3>1. text'["header"] = r /\ s = text["header"] /\ origin' = origin
      BY <1>1, <1>8, <1>10 DEF s
    <3>2. ASSUME NEW i \in DOMAIN r PROVE r[i] = origin["header"][(Consumed + 1) + i]
      <4>1. i + 1 \in DOMAIN s /\ r[i] = s[i + 1] /\ i \in Int
        BY <1>4
      <4>2. s[i + 1] = origin["header"][Consumed + (i + 1)]
        BY <1>9, <3>1, <4>1
      <4>3. Consumed + (i + 1) = (Consumed + 1) + i
        BY <1>9, <4>1
      <4>4. QED BY <4>1, <4>2, <4>3
    <3>3. QED BY <2>1, <3>1, <3>2
  <2>5. LinesTyped'
    BY <1>1, <1>8, <2>1, <2>4 DEF LinesTyped
  <2>6. QED BY <1>1, <1>2, <1>6, <1>10, <2>1, <2>2, <2>3, <2>5 DEF p
<1>11. CASE p # "header"
  <2>1. text'["header"] = text["header"] /\ Consumed' = Consumed
    BY <1>1, <1>8, <1>11 DEF Consumed, Part
  <2>2. LinesTyped'
    BY <1>1, <1>8, <2>1 DEF LinesTyped
  <2>3. QED BY <1>1, <1>2, <1>6, <1>11, <2>1, <2>2 DEF p
<1>12. QED BY <1>10, <1>11

-------------------------------------------------------------------------------
(* What the lines add to the entries.                                      *)

LEMMA Appended ==
    ASSUME NEW S, NEW s \in Seq(S), NEW e \in S
    PROVE  /\ Append(s, e) \in Seq(S) /\ Len(Append(s, e)) = Len(s) + 1
           /\ \A i \in DOMAIN s : i \in DOMAIN Append(s, e) /\ Append(s, e)[i] = s[i]
           /\ Append(s, e)[Len(s) + 1] = e /\ Len(s) + 1 \in DOMAIN Append(s, e)
           /\ \A i \in DOMAIN Append(s, e) : i \in DOMAIN s \/ i = Len(s) + 1
OBVIOUS

LEMMA EntryTyped ==
    ASSUME NEW op \in EntryOp, NEW l \in Line, NEW address \in Nat, NEW bytes \in Nat
    PROVE  Entry(op, l, address, bytes) \in EntryType
<1>1. l.n \in Nat /\ l.name \in LineName
    BY LineTyped
<1> HIDE DEF LineName, EntryOp
<1>2. QED BY <1>1 DEF Entry, EntryType

\* FindLabel() finds the first labelled entry of the name.
LEMMA Found ==
    ASSUME NEW p \in Seq(EntryType), NEW x
    PROVE  /\ FindLabel(p, x) = 0 <=> \A i \in DOMAIN p : ~(p[i].op \in Labelled /\ p[i].name = x)
           /\ FindLabel(p, x) # 0 =>
                  /\ FindLabel(p, x) \in DOMAIN p
                  /\ p[FindLabel(p, x)].op \in Labelled /\ p[FindLabel(p, x)].name = x
<1> DEFINE S == {i \in DOMAIN p : p[i].op \in Labelled /\ p[i].name = x}
<1>1. S \subseteq Nat /\ 0 \notin S
    OBVIOUS
<1>2. FindLabel(p, x) = IF S = {} THEN 0 ELSE FirstOf(S)
    BY DEF FindLabel
<1>3. S # {} => FirstOf(S) \in S
  <2> HIDE DEF S
  <2>1. S # {} => \E i \in S : \A j \in S : i <= j
    BY <1>1, LeastNumber
  <2>2. QED BY <2>1 DEF FirstOf
<1>4. QED BY <1>1, <1>2, <1>3

\* e with another kind.
OfKind(e, op) == [op |-> op, name |-> e.name, address |-> e.address, size |-> e.size,
                  data |-> e.data, bits |-> e.bits, staged |-> e.staged]

LEMMA KindTyped ==
    ASSUME NEW e \in EntryType, NEW op \in EntryOp
    PROVE  [e EXCEPT !.op = op] = OfKind(e, op) /\ OfKind(e, op) \in EntryType
<1> HIDE DEF LineName, EntryOp
<1>1. QED BY DEF EntryType, OfKind

LEMMA MarkedTyped ==
    ASSUME NEW p \in Seq(EntryType), NEW x, NEW op \in EntryOp
    PROVE  /\ Marked(p, x, op) \in Seq(EntryType) /\ Len(Marked(p, x, op)) = Len(p)
           /\ DOMAIN Marked(p, x, op) = DOMAIN p
           /\ \A i \in DOMAIN p : Marked(p, x, op)[i] =
                  IF i = FindLabel(p, x) THEN OfKind(p[i], op) ELSE p[i]
<1> DEFINE k == FindLabel(p, x)
<1>1. CASE k = 0
  <2>1. Marked(p, x, op) = p /\ \A i \in DOMAIN p : i # k
    BY <1>1 DEF Marked
  <2>2. QED BY <2>1
<1>2. CASE k # 0
  <2>1. k \in DOMAIN p
    BY <1>2, Found
  <2>2. p[k] \in EntryType
    BY <2>1
  <2>3. [p[k] EXCEPT !.op = op] = OfKind(p[k], op) /\ OfKind(p[k], op) \in EntryType
    BY <2>2, KindTyped
  <2>4. Marked(p, x, op) = [p EXCEPT ![k] = [p[k] EXCEPT !.op = op]]
    BY <1>2 DEF Marked
  <2>5. Marked(p, x, op) = [p EXCEPT ![k] = OfKind(p[k], op)]
    BY <2>3, <2>4
  <2> HIDE DEF k
  <2> DEFINE f == OfKind(p[k], op)
  <2>6. f \in EntryType
    BY <2>3
  <2> HIDE DEF f
  <2>7. /\ [p EXCEPT ![k] = f] \in Seq(EntryType) /\ Len([p EXCEPT ![k] = f]) = Len(p)
        /\ DOMAIN [p EXCEPT ![k] = f] = DOMAIN p
        /\ \A i \in DOMAIN p : [p EXCEPT ![k] = f][i] = IF i = k THEN f ELSE p[i]
    BY <2>1, <2>6
  <2>8. QED BY <2>5, <2>7 DEF f, k
<1>3. QED BY <1>1, <1>2

LEMMA PaddingNat == ASSUME NEW a, NEW b, pos.instr \in Nat PROVE Padding(a, b) \in 0 .. 5
BY DEF Padding

-------------------------------------------------------------------------------
(* What GeneratedAssumption says of a line.                                *)

LEMMA Listed ==
    ASSUME NEW t, NEW i \in DOMAIN t, NEW ops, t[i].op \in ops
    PROVE  t[i].name \in NamesOf(t, ops)
BY DEF NamesOf

LEMMA Unlisted ==
    ASSUME NEW t, NEW ops, NEW x \in NamesOf(t, ops)
    PROVE  \E i \in DOMAIN t : t[i].op \in ops /\ t[i].name = x
BY DEF NamesOf

\* Some line of the program has this name and one of these operations.
Names(p, ops) == UNION {NamesOf(p[q], ops) : q \in Part}

LEMMA ListedIn ==
    ASSUME NEW p, NEW q \in Part, NEW i \in DOMAIN p[q], NEW ops, p[q][i].op \in ops
    PROVE  p[q][i].name \in Names(p, ops)
BY Listed DEF Names

LEMMA GeneratedNames ==
    ASSUME NEW p \in Programs
    PROVE  /\ Names(p, Op) \subseteq Label \cup {NoLabel}
           /\ NoLabel \notin Names(p, {"aligned", "label"})
           /\ Names(p, {"label"}) \cap Names(p, {"aligned", "call", "load", "movExt", "callExt"}) = {}
           /\ \A i \in DOMAIN p["header"] :
                  /\ p["header"][i].op \in {"aligned", "bytes", "string", "global", "json"}
                  /\ p["header"][i].op = "aligned" =>
                         i < Len(p["header"]) /\ p["header"][i + 1].op \in {"bytes", "string"}
           /\ NamesOf(p["header"], {"json"}) \subseteq NamesOf(p["header"], {"aligned"})
           /\ \A q \in {"content", "footer"} :
                  /\ NamesOf(p[q], {"bytes", "string", "json"}) = {}
                  /\ NamesOf(p[q], {"aligned"}) \cap Names(p, {"movExt", "callExt"})
                         \subseteq NamesOf(p["header"], {"aligned"})
BY GeneratedAssumption, Zenon DEF GeneratedAssumption, Names

\* A label has a name; a plain one is not that of anything that has to be
\* aligned.
LEMMA LabelsNamed ==
    ASSUME NEW p \in Programs, NEW q \in Part, NEW i \in DOMAIN p[q], IsLabel(p[q][i])
    PROVE  p[q][i].name \in Label
<1>1. p[q][i].name \in Names(p, {"aligned", "label"})
    BY ListedIn DEF IsLabel
<1>2. p[q][i].op \in Op
    BY DEF IsLabel, Op
<1>3. p[q][i].name \in Names(p, Op)
    BY <1>2, ListedIn
<1>4. QED BY <1>1, <1>3, GeneratedNames

LEMMA PlainLabels ==
    ASSUME NEW p \in Programs, NEW q \in Part, NEW i \in DOMAIN p[q], p[q][i].op = "label",
           NEW r \in Part, NEW j \in DOMAIN p[r],
           p[r][j].op \in {"aligned", "call", "load", "movExt", "callExt"}
    PROVE  p[q][i].name # p[r][j].name
<1>1. p[q][i].name \in Names(p, {"label"})
    BY ListedIn
<1>2. p[r][j].name \in Names(p, {"aligned", "call", "load", "movExt", "callExt"})
    BY ListedIn
<1>3. QED BY <1>1, <1>2, GeneratedNames

LEMMA CodeDeclaresNothing ==
    ASSUME NEW p \in Programs, NEW q \in {"content", "footer"}, NEW i \in DOMAIN p[q]
    PROVE  p[q][i].op \notin {"bytes", "string", "json"}
<1>1. NamesOf(p[q], {"bytes", "string", "json"}) = {}
    BY GeneratedNames
<1>2. QED BY <1>1, Listed

LEMMA HostNamesDeclared ==
    ASSUME NEW p \in Programs, NEW q \in {"content", "footer"}, NEW i \in DOMAIN p[q], p[q][i].op = "aligned",
           NEW r \in Part, NEW j \in DOMAIN p[r], p[r][j].op \in {"movExt", "callExt"},
           p[q][i].name = p[r][j].name
    PROVE  \E k \in DOMAIN p["header"] : p["header"][k].op = "aligned" /\ p["header"][k].name = p[q][i].name
<1>1. p[q][i].name \in NamesOf(p[q], {"aligned"})
    BY Listed
<1>2. p[q][i].name \in Names(p, {"movExt", "callExt"})
    BY ListedIn
<1>3. p[q][i].name \in NamesOf(p["header"], {"aligned"})
    BY <1>1, <1>2, GeneratedNames
<1>4. QED BY <1>3, Unlisted

LEMMA JsonDeclared ==
    ASSUME NEW p \in Programs, NEW i \in DOMAIN p["header"], p["header"][i].op = "json"
    PROVE  \E k \in DOMAIN p["header"] : p["header"][k].op = "aligned" /\ p["header"][k].name = p["header"][i].name
<1>1. p["header"][i].name \in NamesOf(p["header"], {"json"})
    BY Listed
<1>2. p["header"][i].name \in NamesOf(p["header"], {"aligned"})
    BY <1>1, GeneratedNames
<1>3. QED BY <1>2, Unlisted

-------------------------------------------------------------------------------
(* What the steps keep of the types.                                       *)

\* A label in what is left of a Text has a name.
LEMMA TextLabel ==
    ASSUME NEW p \in Programs, NEW q \in Part, NEW l, OfProgram(p[q], l), IsLabel(l)
    PROVE  l.name \in Name
<1>1. CASE \E j \in DOMAIN p[q] : l = p[q][j]
    BY <1>1, LabelsNamed DEF Name
<1>2. CASE l.op = "label" /\ l.name \in [relax : Nat]
    BY <1>2 DEF Name
<1>3. QED BY <1>1, <1>2 DEF OfProgram, IsLabel

\* The sizes that Estimate computes.
SizeOf(h, c, f, hs) ==
    LET code == Word16((Word16(CodeEstimate(h, c, f, hs)) \div 8) * 8 + 8)
    IN  [instr |-> code, tmp |-> Word16(code + (Word16(Staging(h)) \div 4) * 4 + 4)]

LEMMA SizesTyped ==
    ASSUME NEW h \in Seq(Line), NEW c \in Seq(Line), NEW f \in Seq(Line), NEW hs, IsFiniteSet(hs)
    PROVE  /\ SizeOf(h, c, f, hs) \in [instr : Nat, tmp : Nat]
           /\ SizeOf(h, c, f, hs).instr <= 65535 /\ SizeOf(h, c, f, hs).tmp <= 65535
<1> DEFINE e == Word16(CodeEstimate(h, c, f, hs))
           g == Word16(Staging(h))
<1>1. CodeEstimate(h, c, f, hs) \in Int /\ Staging(h) \in Int
  <2>1. CodeEstimate(h, c, f, hs) \in Int
    BY EstimateInt
  <2>2. Staging(h) \in Nat
    BY StagingNat
  <2>3. QED BY <2>1, <2>2
<1>a. e \in Nat /\ g \in Nat
    BY <1>1, Word16Range
<1> HIDE DEF e, g
<1>2. (e \div 8) * 8 + 8 \in Int
    BY <1>a
<1> DEFINE code == Word16((e \div 8) * 8 + 8)
<1>3. code \in Nat /\ code <= 65535
    BY <1>2, Word16Range
<1> HIDE DEF code
<1>4. code + (g \div 4) * 4 + 4 \in Int
    BY <1>a, <1>3
<1> DEFINE tmp == Word16(code + (g \div 4) * 4 + 4)
<1>5. tmp \in Nat /\ tmp <= 65535
    BY <1>4, Word16Range
<1>6. SizeOf(h, c, f, hs) = [instr |-> code, tmp |-> tmp]
    BY DEF SizeOf, code, e, g
<1> HIDE DEF tmp
<1>7. QED BY <1>3, <1>5, <1>6

LEMMA EstimateNumbers ==
    ASSUME LinesTyped, Numbers, Estimate
    PROVE  Numbers'
<1>1. text["header"] \in Seq(Line) /\ text["content"] \in Seq(Line) /\ text["footer"] \in Seq(Line)
    BY DEF LinesTyped, Part
<1>2. ASSUME NEW q \in {"content", "footer"}, NEW x \in LoopHeads(text[q]) PROVE x \in Name
  <2>1. PICK i \in DOMAIN text[q] : text[q][i].op = "label" /\ text[q][i].name = x
    BY <1>1, LoopHeadsFinite
  <2>2. OfProgram(origin[q], text[q][i]) /\ origin \in Programs /\ q \in Part
    BY DEF LinesTyped, Part
  <2>3. QED BY <2>1, <2>2, TextLabel DEF IsLabel
<1>3. IsFiniteSet(heads')
  <2>1. IsFiniteSet(LoopHeads(text["content"])) /\ IsFiniteSet(LoopHeads(text["footer"]))
    BY <1>1, LoopHeadsFinite
  <2>2. QED BY <2>1, FS_Union DEF Estimate
<1>4. heads' \subseteq Name
    BY <1>2 DEF Estimate
<1>5. size' \in [instr : Nat, tmp : Nat] /\ size'.instr <= 65535 /\ size'.tmp <= 65535
  <2>1. PICK h, c, f, hs : /\ h = text["header"] /\ c = text["content"] /\ f = text["footer"]
                           /\ hs = heads'
    OBVIOUS
  <2>2. IsFiniteSet(hs)
    BY <1>3, <2>1
  <2>3. /\ SizeOf(h, c, f, hs) \in [instr : Nat, tmp : Nat]
        /\ SizeOf(h, c, f, hs).instr <= 65535 /\ SizeOf(h, c, f, hs).tmp <= 65535
    <3>1. h \in Seq(Line) /\ c \in Seq(Line) /\ f \in Seq(Line)
      BY <1>1, <2>1
    <3>2. QED BY <2>2, <3>1, SizesTyped
  <2>4. size' = SizeOf(h, c, f, hs)
    BY <2>1 DEF Estimate, SizeOf
  <2>5. QED BY <2>3, <2>4
<1>6. UNCHANGED <<parsed, pos>>
    BY DEF Estimate
<1>7. QED BY <1>4, <1>5, <1>6 DEF Numbers

\* What AssembleLabel adds.
LabelEntry == Entry("label", Current, pos.instr + Padding(Current.op = "aligned", Current.name \in heads), 0)

LEMMA LabelNumbers ==
    ASSUME LinesTyped, Numbers, AssembleLabel
    PROVE  Numbers' /\ LabelEntry \in EntryType
<1>1. Current \in Line
    BY ReadsLine DEF AssembleLabel
<1>2. pos.instr \in Nat /\ parsed \in Seq(EntryType) /\ pos \in [instr : Nat, data : Nat, staged : Nat]
    BY DEF Numbers
<1> DEFINE address == pos.instr + Padding(Current.op = "aligned", Current.name \in heads)
<1>3. address \in Nat
    BY <1>2, PaddingNat
<1>4. LabelEntry = Entry("label", Current, address, 0)
    BY DEF LabelEntry
<1>5. UNCHANGED <<heads, size>>
    BY DEF AssembleLabel, Reads
<1>6. \/ bad' = TRUE /\ UNCHANGED <<parsed, pos>>
      \/ /\ parsed' = Append(parsed, LabelEntry)
         /\ pos' = [pos EXCEPT !.instr = address]
         /\ UNCHANGED bad
    BY <1>4 DEF AssembleLabel, Refused
<1> HIDE DEF address
<1>7. LabelEntry \in EntryType
    BY <1>1, <1>3, <1>4, EntryTyped DEF EntryOp, Labelled
<1>8. Append(parsed, LabelEntry) \in Seq(EntryType)
    BY <1>2, <1>7, Appended
<1>9. [pos EXCEPT !.instr = address] \in [instr : Nat, data : Nat, staged : Nat]
    BY <1>2, <1>3
<1>10. parsed' \in Seq(EntryType) /\ pos' \in [instr : Nat, data : Nat, staged : Nat]
    BY <1>2, <1>6, <1>8, <1>9
<1>11. QED BY <1>5, <1>7, <1>10 DEF Numbers

\* e with a place in the data memory.
WithData(e, a) == [op |-> "data_label", name |-> e.name, address |-> e.address, size |-> e.size,
                   data |-> a, bits |-> e.bits, staged |-> e.staged]

LEMMA Replaced ==
    ASSUME NEW S, NEW p \in Seq(S), NEW k \in DOMAIN p, NEW f \in S
    PROVE  /\ [p EXCEPT ![k] = f] \in Seq(S) /\ Len([p EXCEPT ![k] = f]) = Len(p)
           /\ DOMAIN [p EXCEPT ![k] = f] = DOMAIN p
           /\ \A i \in DOMAIN p : [p EXCEPT ![k] = f][i] = IF i = k THEN f ELSE p[i]
OBVIOUS

LEMMA DataLabelTyped ==
    ASSUME NEW p \in Seq(EntryType), NEW k \in DOMAIN p, NEW a \in Nat
    PROVE  /\ [p EXCEPT ![k].op = "data_label", ![k].data = a] = [p EXCEPT ![k] = WithData(p[k], a)]
           /\ WithData(p[k], a) \in EntryType
<1> HIDE DEF LineName
<1>1. p[k] \in EntryType
    OBVIOUS
<1>2. WithData(p[k], a) \in EntryType
    BY <1>1 DEF EntryType, WithData, EntryOp, Labelled
<1>3. [[p[k] EXCEPT !.op = "data_label"] EXCEPT !.data = a] = WithData(p[k], a)
  <2>1. [p[k] EXCEPT !.op = "data_label"] = OfKind(p[k], "data_label")
    BY <1>1, KindTyped DEF EntryOp, Labelled
  <2>2. [OfKind(p[k], "data_label") EXCEPT !.data = a] = WithData(p[k], a)
    BY DEF OfKind, WithData
  <2>3. QED BY <2>1, <2>2
<1> HIDE DEF EntryType
<1>4. [p EXCEPT ![k].op = "data_label", ![k].data = a]
          = [p EXCEPT ![k] = [[p[k] EXCEPT !.op = "data_label"] EXCEPT !.data = a]]
    BY <1>1
<1>5. QED BY <1>2, <1>3, <1>4

\* e, staged after s bytes of strings.
StagedAfter(e, s) == [op |-> e.op, name |-> e.name, address |-> e.address, size |-> e.size,
                      data |-> e.data, bits |-> e.bits, staged |-> s]

LEMMA StagedTyped ==
    ASSUME NEW e \in EntryType, NEW s \in Nat
    PROVE  [e EXCEPT !.staged = s] = StagedAfter(e, s) /\ StagedAfter(e, s) \in EntryType
<1> HIDE DEF LineName, EntryOp
<1>1. QED BY DEF EntryType, StagedAfter

\* What AssembleData makes of the label before the line, and of its string.
DataAddress == Align4(pos.data)
DataValue == StagedAfter(Entry("data", Current, DataAddress, Word16(Reserved(Current.n))), pos.staged)

NothingToReserve == Len(parsed) = 0 \/ parsed[Len(parsed)].op # "label"

LEMMA DataNumbers ==
    ASSUME LinesTyped, Numbers, AssembleData
    PROVE  /\ Numbers' /\ DataAddress \in Nat /\ DataAddress >= pos.data /\ DataValue \in EntryType
           /\ UNCHANGED <<heads, size>>
           /\ \/ bad' = TRUE /\ UNCHANGED <<parsed, pos>> /\ NothingToReserve
              \/ /\ Len(parsed) \in DOMAIN parsed /\ parsed[Len(parsed)].op = "label"
                 /\ WithData(parsed[Len(parsed)], DataAddress) \in EntryType
                 /\ LET label == [parsed EXCEPT ![Len(parsed)] = WithData(parsed[Len(parsed)], DataAddress)]
                    IN  /\ label \in Seq(EntryType)
                        /\ parsed' = IF Current.op = "string" THEN Append(label, DataValue) ELSE label
                 /\ pos' = [instr |-> pos.instr + 4, data |-> DataAddress + Reserved(Current.n),
                            staged |-> pos.staged + IF Current.op = "string"
                                                    THEN Word16(Reserved(Current.n)) ELSE 0]
                 /\ bad' = bad
<1>1. Current \in Line /\ Current.n \in Nat
    BY ReadsLine, LineTyped DEF AssembleData
<1>2. /\ pos.instr \in Nat /\ pos.data \in Nat /\ pos.staged \in Nat
      /\ parsed \in Seq(EntryType) /\ Len(parsed) \in Nat
    BY DEF Numbers
<1>3. DataAddress \in Nat /\ DataAddress >= pos.data
    BY <1>2 DEF DataAddress, Align4
<1>4. Reserved(Current.n) \in Nat
    BY <1>1 DEF Reserved
<1>5. Word16(Reserved(Current.n)) \in Nat
    BY <1>4, Word16Range
<1>6. Entry("data", Current, DataAddress, Word16(Reserved(Current.n))) \in EntryType
  <2>1. "data" \in EntryOp
    BY DEF EntryOp
  <2>2. QED BY <1>1, <1>3, <1>5, <2>1, EntryTyped
<1>7. DataValue \in EntryType
    BY <1>2, <1>6, StagedTyped DEF DataValue
<1>8. [Entry("data", Current, DataAddress, Word16(Reserved(Current.n))) EXCEPT !.staged = pos.staged] = DataValue
    BY <1>2, <1>6, StagedTyped DEF DataValue
<1>9. UNCHANGED <<heads, size>>
    BY DEF AssembleData, Reads
<1>10. CASE Len(parsed) = 0 \/ parsed[Len(parsed)].op # "label"
  <2>1. bad' = TRUE /\ UNCHANGED <<parsed, pos>> /\ NothingToReserve
    BY <1>10 DEF AssembleData, Refused, NothingToReserve
  <2>2. QED BY <1>3, <1>7, <1>9, <2>1 DEF Numbers
<1>11. CASE Len(parsed) # 0 /\ parsed[Len(parsed)].op = "label"
  <2> DEFINE k == Len(parsed)
             f == WithData(parsed[k], DataAddress)
             label == [parsed EXCEPT ![k] = f]
             p == [instr |-> pos.instr + 4, data |-> DataAddress + Reserved(Current.n),
                   staged |-> pos.staged + IF Current.op = "string" THEN Word16(Reserved(Current.n)) ELSE 0]
  <2>1. k \in DOMAIN parsed
    BY <1>2, <1>11
  <2>2. /\ [parsed EXCEPT ![k].op = "data_label", ![k].data = DataAddress] = label
        /\ f \in EntryType
    BY <1>2, <1>3, <2>1, DataLabelTyped
  <2>3. /\ parsed' = IF Current.op = "string"
                     THEN Append([parsed EXCEPT ![k].op = "data_label", ![k].data = DataAddress],
                                 [Entry("data", Current, DataAddress, Word16(Reserved(Current.n)))
                                     EXCEPT !.staged = pos.staged])
                     ELSE [parsed EXCEPT ![k].op = "data_label", ![k].data = DataAddress]
        /\ pos' = p /\ bad' = bad
    BY <1>11 DEF AssembleData, DataAddress
  <2> HIDE DEF f, label, p
  <2>4. parsed' = IF Current.op = "string" THEN Append(label, DataValue) ELSE label
    <3>1. CASE Current.op = "string"
      <4>1. parsed' = Append([parsed EXCEPT ![k].op = "data_label", ![k].data = DataAddress],
                             [Entry("data", Current, DataAddress, Word16(Reserved(Current.n)))
                                 EXCEPT !.staged = pos.staged])
        BY <2>3, <3>1
      <4>2. parsed' = Append(label, DataValue)
        BY <1>8, <2>2, <4>1
      <4>3. QED BY <3>1, <4>2
    <3>2. CASE Current.op # "string"
      <4>1. parsed' = [parsed EXCEPT ![k].op = "data_label", ![k].data = DataAddress]
        BY <2>3, <3>2
      <4>2. QED BY <2>2, <3>2, <4>1
    <3>3. QED BY <3>1, <3>2
  <2>5. label \in Seq(EntryType)
    BY <1>2, <2>1, <2>2, Replaced DEF label
  <2>6. p \in [instr : Nat, data : Nat, staged : Nat]
    BY <1>2, <1>3, <1>4, <1>5 DEF p
  <2>7. Append(label, DataValue) \in Seq(EntryType)
    BY <1>7, <2>5, Appended
  <2>8. parsed' \in Seq(EntryType)
    BY <2>4, <2>5, <2>7
  <2>9. pos' \in [instr : Nat, data : Nat, staged : Nat]
    BY <2>3, <2>6
  <2>10. Numbers'
    BY <1>9, <2>8, <2>9 DEF Numbers
  <2>11. QED BY <1>3, <1>7, <1>9, <1>11, <2>1, <2>2, <2>3, <2>4, <2>5, <2>10 DEF label, f, p
<1>12. QED BY <1>10, <1>11

\* What AssembleInstr adds, and what it marks before.
InstrEntry == Entry(Kind(Current.op), Current, pos.instr, Emitted(Current))
InstrMarked ==
    IF Current.op = "movExt" THEN Marked(parsed, Current.name, "external_var_label") ELSE parsed
InstrOps == {"code", "narrow", "branch", "jump", "call", "load", "movExt", "global", "json"}

LEMMA InstrNumbers ==
    ASSUME LinesTyped, Numbers, AssembleInstr
    PROVE  /\ Numbers' /\ InstrEntry \in EntryType /\ InstrMarked \in Seq(EntryType)
           /\ UNCHANGED <<heads, size, bad>>
           /\ Current.op \in InstrOps
           /\ Emitted(Current) \in Nat
           /\ parsed' = Append(InstrMarked, InstrEntry)
           /\ pos' = [pos EXCEPT !.instr = pos.instr + Emitted(Current)]
<1>1. Current \in Line /\ Current.n \in Nat
    BY ReadsLine, LineTyped DEF AssembleInstr
<1>2. Current.op \in InstrOps
    BY DEF AssembleInstr, Reads, Current, InstrOps
<1>3. /\ pos.instr \in Nat /\ pos \in [instr : Nat, data : Nat, staged : Nat]
      /\ parsed \in Seq(EntryType)
    BY DEF Numbers
<1>4. Emitted(Current) \in Nat
    BY <1>1 DEF Emitted
<1>5. Kind(Current.op) \in EntryOp
    BY <1>2 DEF Kind, InstrOps, EntryOp
<1>6. InstrEntry \in EntryType
    BY <1>1, <1>3, <1>4, <1>5, EntryTyped DEF InstrEntry
<1>7. InstrMarked \in Seq(EntryType)
  <2>1. "external_var_label" \in EntryOp
    BY DEF EntryOp, Labelled
  <2>2. QED BY <1>3, <2>1, MarkedTyped DEF InstrMarked
<1>8. Append(InstrMarked, InstrEntry) \in Seq(EntryType)
    BY <1>6, <1>7, Appended
<1>9. /\ parsed' = Append(InstrMarked, InstrEntry)
      /\ pos' = [pos EXCEPT !.instr = pos.instr + Emitted(Current)]
      /\ UNCHANGED <<heads, size, bad>>
    BY DEF AssembleInstr, InstrMarked, InstrEntry, Reads
<1>10. pos' \in [instr : Nat, data : Nat, staged : Nat]
    BY <1>3, <1>4, <1>9
<1>11. parsed' \in Seq(EntryType)
    BY <1>8, <1>9
<1>12. Numbers'
    BY <1>9, <1>10, <1>11 DEF Numbers
<1>13. QED BY <1>2, <1>4, <1>6, <1>7, <1>9, <1>12

\* What AssembleCall adds.
CallMarked == Marked(parsed, Current.name, "external_call")
LoadEntry == Entry("jump_32aligned", Current, pos.instr, 3)
CallEntry == Entry("standard", Current, pos.instr + 3, 6 * Current.n - 3)

LEMMA CallNumbers ==
    ASSUME LinesTyped, Numbers, AssembleCall
    PROVE  /\ Numbers' /\ LoadEntry \in EntryType /\ CallEntry \in EntryType
           /\ CallMarked \in Seq(EntryType)
           /\ UNCHANGED <<heads, size, bad>>
           /\ Current.op = "callExt"
           /\ parsed' = Append(Append(CallMarked, LoadEntry), CallEntry)
           /\ pos' = [pos EXCEPT !.instr = pos.instr + 6 * Current.n]
<1>1. Current \in Line /\ Current.n \in Nat /\ OfProgram(origin[NextPart], Current) /\ NextPart \in Part
    BY ReadsLine, LineTyped DEF AssembleCall
<1>2. Current.op = "callExt"
    BY DEF AssembleCall, Reads, Current
<1>3. /\ pos.instr \in Nat /\ pos \in [instr : Nat, data : Nat, staged : Nat]
      /\ parsed \in Seq(EntryType)
    BY DEF Numbers
<1>4. 6 * Current.n - 3 \in Nat
  <2>1. origin \in Programs
    BY DEF LinesTyped
  <2>2. Current.n # 0
    BY <1>1, <1>2, <2>1, CallsCounted
  <2>3. QED BY <1>1, <2>2
<1>5. "jump_32aligned" \in EntryOp /\ "standard" \in EntryOp /\ "external_call" \in EntryOp
    BY DEF EntryOp, Labelled
<1>6. LoadEntry \in EntryType
    BY <1>1, <1>3, <1>5, EntryTyped DEF LoadEntry
<1>7. CallEntry \in EntryType
  <2>1. pos.instr + 3 \in Nat
    BY <1>3
  <2>2. QED BY <1>1, <1>4, <1>5, <2>1, EntryTyped DEF CallEntry
<1>8. CallMarked \in Seq(EntryType)
    BY <1>3, <1>5, MarkedTyped DEF CallMarked
<1>9. /\ parsed' = CallMarked \o <<LoadEntry, CallEntry>>
      /\ pos' = [pos EXCEPT !.instr = pos.instr + 6 * Current.n]
      /\ UNCHANGED <<heads, size, bad>>
    BY DEF AssembleCall, CallMarked, LoadEntry, CallEntry, Reads
<1>10. CallMarked \o <<LoadEntry, CallEntry>> = Append(Append(CallMarked, LoadEntry), CallEntry)
    BY <1>6, <1>7, <1>8
<1>11. Append(Append(CallMarked, LoadEntry), CallEntry) \in Seq(EntryType)
    BY <1>6, <1>7, <1>8, Appended
<1>12. pos' \in [instr : Nat, data : Nat, staged : Nat]
  <2> DEFINE n == pos.instr + 6 * Current.n
  <2>1. n \in Nat
    BY <1>1, <1>3
  <2>2. pos' = [pos EXCEPT !.instr = n]
    BY <1>9
  <2> HIDE DEF n
  <2>3. QED BY <1>3, <2>1, <2>2
<1>13. parsed' \in Seq(EntryType)
    BY <1>9, <1>10, <1>11
<1>14. Numbers'
    BY <1>9, <1>12, <1>13 DEF Numbers
<1>15. QED BY <1>2, <1>6, <1>7, <1>8, <1>9, <1>10, <1>14

-------------------------------------------------------------------------------
(* Every step keeps the types.                                             *)

Relaxes == (\E p \in Part : BeginPass(p)) \/ RelaxLine \/ EndPass
Finishes == EndAssembly \/ CheckRange \/ CalculateJump \/ CreateBinaryHeader

LEMMA AsmSteps ==
    AsmNext <=> \/ Relaxes \/ Estimate \/ AssembleLabel \/ AssembleData \/ AssembleInstr
                \/ AssembleCall \/ Finishes
BY DEF AsmNext, Relaxes, Finishes

LEMMA OtherNumbers ==
    ASSUME Numbers, Relaxes \/ Finishes
    PROVE  UNCHANGED <<heads, parsed, pos, size, bad>> /\ Numbers'
<1>1. UNCHANGED <<heads, parsed, pos, size, bad>>
  <2>1. CASE Relaxes
    BY <2>1 DEF Relaxes, BeginPass, RelaxLine, EndPass
  <2>2. CASE Finishes
    BY <2>2 DEF Finishes, EndAssembly, CheckRange, CalculateJump, CreateBinaryHeader
  <2>3. QED BY <2>1, <2>2
<1>2. QED BY <1>1 DEF Numbers

\* What touches neither the Texts nor what was made of them keeps their types.
LEMMA SameTexts ==
    ASSUME LinesTyped, UNCHANGED <<origin, text, scan, relaxed>>, phase' # "relax"
    PROVE  LinesTyped'
BY DEF LinesTyped, Consumed

LEMMA LaterTexts ==
    ASSUME LinesTyped, Estimate \/ Finishes
    PROVE  LinesTyped'
<1>1. UNCHANGED <<origin, text, scan, relaxed>> /\ phase' # "relax"
  <2>1. CASE Estimate
    BY <2>1 DEF Estimate
  <2>2. CASE Finishes
    BY <2>2 DEF Finishes, EndAssembly, CheckRange, CalculateJump, CreateBinaryHeader
  <2>3. QED BY <2>1, <2>2
<1>2. QED BY <1>1, SameTexts

\* The types are an invariant of the assembler.
LEMMA NextTyped == ASSUME Typed, AsmNext PROVE Typed'
<1>1. LinesTyped /\ Numbers
    BY DEF Typed
<1>2. CASE Relaxes \/ Finishes
  <2>1. LinesTyped'
    <3>1. CASE Relaxes
      BY <1>1, <3>1, RelaxingTexts DEF Relaxes
    <3>2. CASE Finishes
      BY <1>1, <3>2, LaterTexts
    <3>3. QED BY <1>2, <3>1, <3>2
  <2>2. Numbers'
    BY <1>1, <1>2, OtherNumbers
  <2>3. QED BY <2>1, <2>2 DEF Typed
<1>3. CASE Estimate
  <2>1. LinesTyped'
    BY <1>1, <1>3, LaterTexts
  <2>2. QED BY <1>1, <1>3, <2>1, EstimateNumbers DEF Typed
<1>4. CASE AssembleLabel
  <2>1. LinesTyped'
    BY <1>1, <1>4, ReadsLine DEF AssembleLabel
  <2>2. QED BY <1>1, <1>4, <2>1, LabelNumbers DEF Typed
<1>5. CASE AssembleData
  <2>1. LinesTyped'
    BY <1>1, <1>5, ReadsLine DEF AssembleData
  <2>2. QED BY <1>1, <1>5, <2>1, DataNumbers DEF Typed
<1>6. CASE AssembleInstr
  <2>1. LinesTyped'
    BY <1>1, <1>6, ReadsLine DEF AssembleInstr
  <2>2. QED BY <1>1, <1>6, <2>1, InstrNumbers DEF Typed
<1>7. CASE AssembleCall
  <2>1. LinesTyped'
    BY <1>1, <1>7, ReadsLine DEF AssembleCall
  <2>2. QED BY <1>1, <1>7, <2>1, CallNumbers DEF Typed
<1>8. QED BY <1>2, <1>3, <1>4, <1>5, <1>6, <1>7, AsmSteps

-------------------------------------------------------------------------------
(* Where labels, slots, globals and strings are.                           *)

\* The names of labels that need not be aligned, and those the header declares.
Plain == Names(origin, {"label"}) \cup [relax : Nat]
Declared == NamesOf(origin["header"], {"aligned"})
HeaderDone == text["header"] = <<>>

\* A function or a global is on a word boundary, what calls or loads it names
\* no other label, and a loop's first instruction is inside one word.
Sound(e, plain, hs) ==
    /\ e.op \in Labelled /\ e.name \notin plain => e.address % 4 = 0
    /\ e.op \in Slotted \cup {"jump_32aligned"} => e.name \notin plain
    /\ e.op = "label" /\ e.name \in hs => e.address % 4 \in {0, 1}
AllSound(p, plain, hs) == \A i \in DOMAIN p : Sound(p[i], plain, hs)

LaidOut ==
    /\ phase \in {"relax", "estimate"} => parsed = <<>> /\ Consumed = 0
    /\ AllSound(parsed, Plain, heads)
    /\ ~HeaderDone => \A i \in DOMAIN parsed : parsed[i].op \in Labelled => parsed[i].name \notin Plain

\* The slots are the first words of the code, in the order of their labels: while
\* the header is assembled nothing else is emitted, and the only label that is
\* not a slot yet is the last entry, whose bytes are on the next line.
SlotOf(p, i) == Cardinality({j \in 1 .. i - 1 : p[j].op \in Slotted})
SlotsIn(p) == \A i \in DOMAIN p : p[i].op \in Slotted => p[i].address = 4 * SlotOf(p, i)
Slots ==
    /\ SlotsIn(parsed)
    /\ ~HeaderDone => /\ pos.instr = 4 * SlotOf(parsed, Len(parsed) + 1)
                      /\ \A i \in DOMAIN parsed : parsed[i].op = "label" =>
                             /\ i = Len(parsed) /\ parsed[i].address = pos.instr
                             /\ Consumed # 0 /\ origin["header"][Consumed].op = "aligned"
                             /\ parsed[i].name = origin["header"][Consumed].name

\* No two labels have one name, and each is the program's or a relaxed branch's;
\* what the header declares has a label, a slot once the header is assembled.
UniqueIn(p) ==
    \A i, k \in DOMAIN p :
        p[i].op \in Labelled /\ p[k].op \in Labelled /\ p[i].name = p[k].name => i = k
NamedIn(p, names) == \A i \in DOMAIN p : p[i].op \in Labelled => p[i].name \in names
Labels ==
    /\ UniqueIn(parsed)
    /\ NamedIn(parsed, Plain \cup Names(origin, {"aligned"}))
    /\ \A j \in 1 .. Consumed : origin["header"][j].op = "aligned" =>
           FindLabel(parsed, origin["header"][j].name) # 0
    /\ HeaderDone => \A i \in DOMAIN parsed : parsed[i].op = "label" => parsed[i].name \notin Declared

\* Strings are staged one after the other, in the order of their entries.
StringBytes(p) == [k \in DOMAIN p |-> IF p[k].op = "data" THEN p[k].size ELSE 0]
StagedIn(p) == \A i \in DOMAIN p : p[i].op = "data" => p[i].staged = Running(StringBytes(p))[i - 1]
Staged == StagedIn(parsed) /\ pos.staged = Running(StringBytes(parsed))[Len(parsed)]

\* The globals that the header has declared so far have their bytes, apart from
\* each other; a JSON variable is one the header lists.
Reservation(j) == origin["header"][j].op \in {"bytes", "string"}
Declares(j) == origin["header"][j - 1].name
Place(j) == parsed[FindLabel(parsed, Declares(j))].data
HasBytes(j) ==
    /\ j > 1 /\ FindLabel(parsed, Declares(j)) # 0
    /\ parsed[FindLabel(parsed, Declares(j))].op # "label"
    /\ Place(j) + origin["header"][j].n <= pos.data
ReservedApart ==
    ~bad => \A j \in 1 .. Consumed : Reservation(j) =>
        /\ HasBytes(j)
        /\ \A k \in 1 .. Consumed : Reservation(k) /\ j < k =>
               Place(j) + origin["header"][j].n <= Place(k)
JsonListed ==
    \A i \in DOMAIN parsed : parsed[i].op = "json_binding" =>
        parsed[i].name \in NamesOf(origin["header"], {"json"})
Reserves == ReservedApart /\ JsonListed

\* What the program's assumption says of the line that is read.
LEMMA ReadNames ==
    ASSUME LinesTyped, NEW ops, Reads(ops)
    PROVE  /\ Current.op \in {"aligned", "call", "load", "movExt", "callExt"} => Current.name \notin Plain
           /\ Current.op = "label" => Current.name \in Plain
           /\ Current.op = "aligned" => Current.name \in Names(origin, {"aligned"})
           /\ Current.op \in {"bytes", "string", "json"} => NextPart = "header"
           /\ NextPart = "header" => Current.op \in {"aligned", "bytes", "string", "global", "json"}
<1>1. /\ NextPart \in Part /\ OfProgram(origin[NextPart], Current)
      /\ NextPart = "header" => /\ Consumed + 1 \in DOMAIN origin["header"]
                                /\ Current = origin["header"][Consumed + 1]
    BY ReadsLine
<1>2. origin \in Programs
    BY DEF LinesTyped
<1> DEFINE q == NextPart
<1>3. CASE \E j \in DOMAIN origin[q] : Current = origin[q][j]
  <2>1. PICK j \in DOMAIN origin[q] : Current = origin[q][j]
    BY <1>3
  <2> HIDE DEF q
  <2>2. Current.op \in {"aligned", "call", "load", "movExt", "callExt"} => Current.name \notin Plain
    <3> SUFFICES ASSUME Current.op \in {"aligned", "call", "load", "movExt", "callExt"}
                 PROVE  Current.name \notin Plain
      OBVIOUS
    <3>1. Current.name \notin Names(origin, {"label"})
      <4>1. Current.name \in Names(origin, {"aligned", "call", "load", "movExt", "callExt"})
        BY <1>1, <2>1, ListedIn DEF q
      <4>2. QED BY <1>2, <4>1, GeneratedNames
    <3>2. Current.name \in Label \cup {NoLabel}
      <4>1. Current.op \in Op
        BY DEF Op
      <4>2. Current.name \in Names(origin, Op)
        BY <1>1, <2>1, <4>1, ListedIn DEF q
      <4>3. QED BY <1>2, <4>2, GeneratedNames
    <3>3. Current.name \notin [relax : Nat]
      BY <3>2, ProgramAssumption
    <3>4. QED BY <3>1, <3>3 DEF Plain
  <2>3. Current.op = "label" => Current.name \in Plain
    BY <1>1, <2>1, ListedIn DEF Plain, q
  <2>4. Current.op = "aligned" => Current.name \in Names(origin, {"aligned"})
    BY <1>1, <2>1, ListedIn DEF q
  <2>5. Current.op \in {"bytes", "string", "json"} => NextPart = "header"
    BY <1>1, <1>2, <2>1, CodeDeclaresNothing DEF q, Part
  <2>6. NextPart = "header" => Current.op \in {"aligned", "bytes", "string", "global", "json"}
    BY <1>1, <1>2, GeneratedNames
  <2>7. QED BY <2>2, <2>3, <2>4, <2>5, <2>6
<1>4. CASE Current.op \in {"branch", "jump"} \/ (Current.op = "label" /\ Current.name \in [relax : Nat])
  <2>1. NextPart = "header" => Current.op \in {"aligned", "bytes", "string", "global", "json"}
    BY <1>1, <1>2, GeneratedNames
  <2>2. Current.op = "label" => Current.name \in Plain
    BY <1>4 DEF Plain
  <2>3. QED BY <1>4, <2>1, <2>2
<1>5. QED BY <1>1, <1>3, <1>4 DEF OfProgram, q

LEMMA AppendSound ==
    ASSUME NEW p \in Seq(EntryType), NEW e \in EntryType, NEW plain, NEW hs,
           AllSound(p, plain, hs), Sound(e, plain, hs)
    PROVE  AllSound(Append(p, e), plain, hs)
<1>1. /\ \A i \in DOMAIN p : Append(p, e)[i] = p[i]
      /\ Append(p, e)[Len(p) + 1] = e
      /\ \A i \in DOMAIN Append(p, e) : i \in DOMAIN p \/ i = Len(p) + 1
    BY Appended
<1>2. ASSUME NEW i \in DOMAIN Append(p, e) PROVE Sound(Append(p, e)[i], plain, hs)
  <2>1. CASE i \in DOMAIN p
    BY <1>1, <2>1 DEF AllSound
  <2>2. CASE i = Len(p) + 1
    BY <1>1, <2>2
  <2>3. QED BY <1>1, <2>1, <2>2
<1>3. QED BY <1>2 DEF AllSound

\* Something aligned stays so as another kind of reference.
LEMMA KindSound ==
    ASSUME NEW e \in EntryType, NEW op \in Slotted, NEW plain, NEW hs, Sound(e, plain, hs),
           e.op \in Labelled, e.name \notin plain
    PROVE  Sound(OfKind(e, op), plain, hs)
BY DEF Sound, OfKind, Slotted

LEMMA MarkedSound ==
    ASSUME NEW p \in Seq(EntryType), NEW x, NEW op \in Slotted, NEW plain, NEW hs,
           AllSound(p, plain, hs), x \notin plain
    PROVE  AllSound(Marked(p, x, op), plain, hs)
<1> DEFINE k == FindLabel(p, x)
<1>1. op \in EntryOp
    BY DEF Slotted, EntryOp, Labelled
<1>2. /\ DOMAIN Marked(p, x, op) = DOMAIN p
      /\ \A i \in DOMAIN p : Marked(p, x, op)[i] = IF i = k THEN OfKind(p[i], op) ELSE p[i]
    BY <1>1, MarkedTyped
<1>3. ASSUME NEW i \in DOMAIN p PROVE Sound(Marked(p, x, op)[i], plain, hs)
  <2>1. Sound(p[i], plain, hs)
    BY DEF AllSound
  <2>2. CASE i # k
    BY <1>2, <2>1, <2>2
  <2>3. CASE i = k
    <3>1. k # 0 /\ p[i] \in EntryType
      BY <2>3
    <3>2. p[i].op \in Labelled /\ p[i].name = x
      BY <2>3, <3>1, Found
    <3>3. Sound(OfKind(p[i], op), plain, hs)
      BY <2>1, <3>1, <3>2, KindSound
    <3>4. Marked(p, x, op)[i] = OfKind(p[i], op)
      BY <1>2, <2>3
    <3>5. QED BY <3>3, <3>4
  <2>4. QED BY <2>2, <2>3
<1>4. QED BY <1>2, <1>3 DEF AllSound

LEMMA ReadsHeader ==
    ASSUME LinesTyped, NEW ops, Reads(ops)
    PROVE  /\ HeaderDone => HeaderDone'
           /\ HeaderDone <=> NextPart # "header"
           /\ UNCHANGED <<Plain, Declared, origin, heads, size, phase>> /\ phase = "assemble"
<1>1. /\ origin' = origin /\ text' = [text EXCEPT ![NextPart] = Tail(text[NextPart])]
      /\ UNCHANGED <<heads, size, phase>> /\ phase = "assemble"
    BY DEF Reads
<1>2. HeaderDone <=> NextPart # "header"
    BY ReadsLine DEF HeaderDone
<1>3. HeaderDone => HeaderDone'
    BY <1>1, <1>2 DEF HeaderDone, LinesTyped
<1>4. UNCHANGED <<Plain, Declared>>
    BY <1>1 DEF Plain, Declared, Names
<1>5. QED BY <1>1, <1>2, <1>3, <1>4

LEMMA PaddingAligns ==
    ASSUME pos.instr \in Nat, NEW align \in BOOLEAN, NEW noCross \in BOOLEAN
    PROVE  /\ align => (pos.instr + Padding(align, noCross)) % 4 = 0
           /\ noCross /\ ~align => (pos.instr + Padding(align, noCross)) % 4 \in {0, 1}
           /\ pos.instr % 4 = 0 => Padding(align, noCross) = 0
BY DEF Padding

LEMMA LabelLaidOut ==
    ASSUME LinesTyped, Numbers, LaidOut, AssembleLabel
    PROVE  LaidOut'
<1>1. /\ HeaderDone => HeaderDone'
      /\ HeaderDone <=> NextPart # "header"
      /\ UNCHANGED <<Plain, heads, phase>> /\ phase = "assemble"
    BY ReadsHeader DEF AssembleLabel
<1>2. CASE parsed' = parsed
  <2>1. AllSound(parsed', Plain', heads')
    BY <1>1, <1>2 DEF LaidOut
  <2>2. QED BY <1>1, <1>2, <2>1 DEF LaidOut
<1>3. CASE parsed' = Append(parsed, LabelEntry)
  <2>1. /\ Current \in Line /\ Current.op \in {"aligned", "label"}
        /\ Current.op = "aligned" => Current.name \notin Plain
        /\ Current.op = "label" => Current.name \in Plain
        /\ NextPart = "header" => Current.op # "label"
    BY ReadsLine, ReadNames DEF AssembleLabel
  <2>2. parsed \in Seq(EntryType) /\ pos.instr \in Nat /\ LabelEntry \in EntryType
    BY LabelNumbers DEF Numbers
  <2> DEFINE align == Current.op = "aligned"
             noCross == Current.name \in heads
  <2>3. LabelEntry.op = "label" /\ LabelEntry.name = Current.name
        /\ LabelEntry.address = pos.instr + Padding(align, noCross)
    BY DEF LabelEntry, Entry
  <2>4. /\ align => LabelEntry.address % 4 = 0
        /\ noCross /\ ~align => LabelEntry.address % 4 \in {0, 1}
    <3>1. align \in BOOLEAN /\ noCross \in BOOLEAN
      OBVIOUS
    <3> HIDE DEF align, noCross
    <3>2. /\ align => (pos.instr + Padding(align, noCross)) % 4 = 0
          /\ noCross /\ ~align => (pos.instr + Padding(align, noCross)) % 4 \in {0, 1}
      BY <2>2, <3>1, PaddingAligns
    <3>3. QED BY <2>3, <3>2
  <2>5. Sound(LabelEntry, Plain, heads)
    BY <2>1, <2>3, <2>4 DEF Sound, Slotted
  <2>6. AllSound(parsed', Plain', heads')
    BY <1>1, <1>3, <2>2, <2>5, AppendSound DEF LaidOut
  <2>7. ~HeaderDone' => \A i \in DOMAIN parsed' : parsed'[i].op \in Labelled => parsed'[i].name \notin Plain'
    BY <1>1, <1>3, <2>1, <2>2, <2>3, Appended DEF LaidOut
  <2>8. QED BY <1>1, <2>6, <2>7 DEF LaidOut
<1>4. QED BY <1>2, <1>3 DEF AssembleLabel, Refused, LabelEntry

LEMMA ReplacedSound ==
    ASSUME NEW p \in Seq(EntryType), NEW k \in DOMAIN p, NEW e \in EntryType, NEW plain, NEW hs,
           AllSound(p, plain, hs), Sound(e, plain, hs)
    PROVE  AllSound([p EXCEPT ![k] = e], plain, hs)
<1>1. /\ DOMAIN [p EXCEPT ![k] = e] = DOMAIN p
      /\ \A i \in DOMAIN p : [p EXCEPT ![k] = e][i] = IF i = k THEN e ELSE p[i]
    BY Replaced
<1>2. QED BY <1>1 DEF AllSound

LEMMA DataLaidOut ==
    ASSUME LinesTyped, Numbers, LaidOut, AssembleData
    PROVE  LaidOut'
<1>1. /\ NextPart = "header" /\ ~HeaderDone
      /\ UNCHANGED <<Plain, heads, phase>> /\ phase = "assemble"
  <2>1. Current.op \in {"bytes", "string"}
    BY ReadsLine DEF AssembleData
  <2>2. NextPart = "header"
    BY <2>1, ReadNames DEF AssembleData
  <2>3. QED BY <2>2, ReadsHeader DEF AssembleData
<1>2. CASE parsed' = parsed
  <2>1. AllSound(parsed', Plain', heads')
    BY <1>1, <1>2 DEF LaidOut
  <2>2. QED BY <1>1, <1>2, <2>1 DEF LaidOut
<1> DEFINE k == Len(parsed)
           f == WithData(parsed[k], DataAddress)
           label == [parsed EXCEPT ![k] = f]
<1>3. CASE /\ k \in DOMAIN parsed /\ parsed[k].op = "label" /\ f \in EntryType /\ label \in Seq(EntryType)
           /\ parsed' = IF Current.op = "string" THEN Append(label, DataValue) ELSE label
  <2>1. parsed \in Seq(EntryType)
    BY DEF Numbers
  <2>2. f.op = "data_label" /\ f.name = parsed[k].name /\ f.address = parsed[k].address
    BY DEF WithData
  <2>3. /\ Sound(parsed[k], Plain, heads) /\ parsed[k].name \notin Plain
        /\ \A i \in DOMAIN parsed : parsed[i].op \in Labelled => parsed[i].name \notin Plain
    BY <1>1, <1>3 DEF LaidOut, AllSound, Labelled
  <2>4. Sound(f, Plain, heads)
    BY <1>3, <2>2, <2>3 DEF Sound, Slotted, Labelled
  <2> HIDE DEF f
  <2>5. AllSound(label, Plain, heads)
    BY <1>3, <2>1, <2>4, ReplacedSound DEF LaidOut
  <2>6. /\ DOMAIN label = DOMAIN parsed
        /\ \A i \in DOMAIN parsed : label[i] = IF i = k THEN f ELSE parsed[i]
    BY <1>3, <2>1, Replaced
  <2>7. \A i \in DOMAIN label : label[i].op \in Labelled => label[i].name \notin Plain
    <3> HIDE DEF label, k
    <3>1. QED BY <2>2, <2>3, <2>6
  <2> HIDE DEF label, k
  <2>8. DataValue \in EntryType /\ DataValue.op = "data"
    BY DataNumbers DEF DataValue, StagedAfter, Entry
  <2>9. Sound(DataValue, Plain, heads)
    BY <2>8 DEF Sound, Slotted, Labelled
  <2>10. AllSound(Append(label, DataValue), Plain, heads)
    BY <1>3, <2>5, <2>8, <2>9, AppendSound
  <2>11. \A i \in DOMAIN Append(label, DataValue) :
             Append(label, DataValue)[i].op \in Labelled => Append(label, DataValue)[i].name \notin Plain
    BY <1>3, <2>7, <2>8, Appended DEF Labelled
  <2>12. AllSound(parsed', Plain', heads')
    BY <1>1, <1>3, <2>5, <2>10
  <2>13. \A i \in DOMAIN parsed' : parsed'[i].op \in Labelled => parsed'[i].name \notin Plain'
    BY <1>1, <1>3, <2>7, <2>11
  <2>14. QED BY <1>1, <2>12, <2>13 DEF LaidOut
<1>4. QED BY <1>2, <1>3, DataNumbers

\* What a line adds that is not a label is not where a function begins.
LEMMA InstrLaidOut ==
    ASSUME LinesTyped, Numbers, LaidOut, AssembleInstr
    PROVE  LaidOut'
<1>1. /\ HeaderDone => HeaderDone'
      /\ HeaderDone <=> NextPart # "header"
      /\ UNCHANGED <<Plain, heads, phase>> /\ phase = "assemble"
    BY ReadsHeader DEF AssembleInstr
<1>2. /\ Current \in Line /\ Current.op \in InstrOps
      /\ Current.op \in {"call", "load", "movExt"} => Current.name \notin Plain
      /\ NextPart = "header" => Current.op # "movExt"
    BY ReadsLine, ReadNames, InstrNumbers DEF AssembleInstr
<1>3. /\ InstrEntry \in EntryType /\ InstrMarked \in Seq(EntryType) /\ parsed \in Seq(EntryType)
      /\ parsed' = Append(InstrMarked, InstrEntry)
    BY InstrNumbers DEF Numbers
<1>4. InstrEntry.op = Kind(Current.op) /\ InstrEntry.name = Current.name
    BY DEF InstrEntry, Entry
<1>5. /\ InstrEntry.op \notin Labelled /\ InstrEntry.op \notin Slotted
      /\ InstrEntry.op = "jump_32aligned" => Current.op \in {"call", "load", "movExt"}
    BY <1>2, <1>4 DEF Kind, Labelled, Slotted, InstrOps
<1>6. Sound(InstrEntry, Plain, heads)
    BY <1>2, <1>4, <1>5 DEF Sound, Labelled
<1>7. AllSound(parsed, Plain, heads)
    BY DEF LaidOut
<1>8. AllSound(InstrMarked, Plain, heads)
    BY <1>2, <1>3, <1>7, MarkedSound DEF InstrMarked, Slotted
<1>9. AllSound(parsed', Plain', heads')
    BY <1>1, <1>3, <1>6, <1>8, AppendSound
<1>10. ~HeaderDone' => \A i \in DOMAIN parsed' : parsed'[i].op \in Labelled => parsed'[i].name \notin Plain'
  <2> SUFFICES ASSUME ~HeaderDone'
               PROVE  \A i \in DOMAIN parsed' : parsed'[i].op \in Labelled => parsed'[i].name \notin Plain'
    OBVIOUS
  <2>1. \A i \in DOMAIN parsed : parsed[i].op \in Labelled => parsed[i].name \notin Plain
    BY <1>1 DEF LaidOut
  <2>2. parsed' = Append(parsed, InstrEntry)
    BY <1>1, <1>2, <1>3 DEF InstrMarked
  <2>3. QED BY <1>1, <1>3, <1>5, <2>1, <2>2, Appended
<1>11. QED BY <1>1, <1>9, <1>10 DEF LaidOut

LEMMA CallLaidOut ==
    ASSUME LinesTyped, Numbers, LaidOut, AssembleCall
    PROVE  LaidOut'
<1>1. /\ HeaderDone => HeaderDone'
      /\ HeaderDone <=> NextPart # "header"
      /\ UNCHANGED <<Plain, heads, phase>> /\ phase = "assemble"
    BY ReadsHeader DEF AssembleCall
<1>2. /\ Current.op = "callExt" /\ Current.name \notin Plain /\ NextPart # "header"
    BY CallNumbers, ReadNames DEF AssembleCall
<1>3. /\ LoadEntry \in EntryType /\ CallEntry \in EntryType /\ CallMarked \in Seq(EntryType)
      /\ parsed \in Seq(EntryType)
      /\ parsed' = Append(Append(CallMarked, LoadEntry), CallEntry)
  <2>1. parsed \in Seq(EntryType)
    BY DEF Numbers
  <2>2. QED BY <2>1, CallNumbers
<1>4. /\ LoadEntry.op = "jump_32aligned" /\ LoadEntry.name = Current.name
      /\ CallEntry.op = "standard"
    BY DEF LoadEntry, CallEntry, Entry
<1>5. Sound(LoadEntry, Plain, heads) /\ Sound(CallEntry, Plain, heads)
    BY <1>2, <1>4 DEF Sound, Labelled, Slotted
<1>6. AllSound(parsed, Plain, heads)
    BY DEF LaidOut
<1>7. AllSound(CallMarked, Plain, heads)
    BY <1>2, <1>3, <1>6, MarkedSound DEF CallMarked, Slotted
<1>8. Append(CallMarked, LoadEntry) \in Seq(EntryType)
    BY <1>3, Appended
<1>9. AllSound(Append(CallMarked, LoadEntry), Plain, heads)
    BY <1>3, <1>5, <1>7, AppendSound
<1>10. AllSound(parsed', Plain', heads')
    BY <1>1, <1>3, <1>5, <1>8, <1>9, AppendSound
<1>11. QED BY <1>1, <1>2, <1>10 DEF LaidOut

\* The steps that assemble no line change no entry, and leave the header alone.
LEMMA OtherEntries ==
    ASSUME LinesTyped, Numbers, Relaxes \/ Estimate \/ Finishes
    PROVE  /\ UNCHANGED <<origin, parsed, pos, Plain, Declared, Consumed, HeaderDone>>
           /\ phase' \in {"relax", "estimate"} => phase \in {"relax", "estimate"}
           /\ heads' = heads \/ phase \in {"relax", "estimate"}
           /\ bad' = bad
<1>1. /\ UNCHANGED <<origin, parsed, pos, bad>>
      /\ phase' \in {"relax", "estimate"} => phase \in {"relax", "estimate"}
      /\ heads' = heads \/ phase \in {"relax", "estimate"}
  <2>1. CASE Relaxes
    BY <2>1 DEF Relaxes, BeginPass, RelaxLine, EndPass
  <2>2. CASE Estimate
    BY <2>2 DEF Estimate
  <2>3. CASE Finishes
    BY <2>3 DEF Finishes, EndAssembly, CheckRange, CalculateJump, CreateBinaryHeader
  <2>4. QED BY <2>1, <2>2, <2>3
<1>2. text'["header"] = text["header"]
  <2>1. scan.part \in {"content", "footer"}
    BY DEF LinesTyped
  <2>2. CASE RelaxLine
    <3>1. text' = text \/ \E x : text' = [text EXCEPT ![scan.part] = x]
      BY <2>2 DEF RelaxLine
    <3>2. DOMAIN text = Part /\ "header" \in Part
      BY DEF LinesTyped, Part
    <3>3. QED BY <2>1, <3>1, <3>2
  <2>3. CASE ~RelaxLine
    BY <2>3 DEF Relaxes, BeginPass, EndPass, Estimate, Finishes, EndAssembly, CheckRange, CalculateJump,
                CreateBinaryHeader
  <2>4. QED BY <2>2, <2>3
<1>3. QED BY <1>1, <1>2 DEF Plain, Declared, Names, Consumed, HeaderDone

LEMMA NextLaidOut == ASSUME LinesTyped, Numbers, LaidOut, AsmNext PROVE LaidOut'
<1>1. CASE Relaxes \/ Estimate \/ Finishes
  <2>1. /\ UNCHANGED <<parsed, Plain, Consumed, HeaderDone>>
        /\ phase' \in {"relax", "estimate"} => phase \in {"relax", "estimate"}
        /\ heads' = heads \/ phase \in {"relax", "estimate"}
    BY <1>1, OtherEntries
  <2>2. CASE heads' = heads
    <3>1. AllSound(parsed', Plain', heads')
      BY <2>1, <2>2 DEF LaidOut
    <3>2. QED BY <2>1, <3>1 DEF LaidOut
  <2>3. CASE phase \in {"relax", "estimate"}
    <3>1. parsed' = <<>>
      BY <2>1, <2>3 DEF LaidOut
    <3>2. DOMAIN parsed' = {}
      BY <3>1
    <3>3. AllSound(parsed', Plain', heads')
      BY <3>2 DEF AllSound
    <3>4. QED BY <2>1, <3>1, <3>2, <3>3 DEF LaidOut
  <2>4. QED BY <2>1, <2>2, <2>3
<1>2. CASE AssembleLabel
  BY <1>2, LabelLaidOut
<1>3. CASE AssembleData
  BY <1>3, DataLaidOut
<1>4. CASE AssembleInstr
  BY <1>4, InstrLaidOut
<1>5. CASE AssembleCall
  BY <1>5, CallLaidOut
<1>6. QED BY <1>1, <1>2, <1>3, <1>4, <1>5, AsmSteps

LEMMA InitLaidOut == AsmInit => LaidOut
<1> SUFFICES ASSUME AsmInit PROVE LaidOut
    OBVIOUS
<1>1. parsed = <<>> /\ DOMAIN parsed = {}
    BY DEF AsmInit
<1>2. Consumed = 0
  <2>1. LinesTyped /\ text = origin
    BY InitTyped DEF AsmInit, Typed
  <2>2. Len(text["header"]) \in Nat
    BY <2>1 DEF LinesTyped, Part
  <2>3. QED BY <2>1, <2>2 DEF Consumed
<1>3. QED BY <1>1, <1>2 DEF LaidOut, AllSound

LEMMA LaidOutAligned == ASSUME Numbers, LaidOut PROVE Aligned
<1>1. ASSUME NEW i \in DOMAIN parsed
      PROVE  /\ parsed[i].op \in Slotted => parsed[i].address % 4 = 0
             /\ parsed[i].op = "label" /\ parsed[i].name \in heads => parsed[i].address % 4 \in {0, 1}
    BY DEF LaidOut, AllSound, Sound, Slotted, Labelled
<1>2. ASSUME NEW i \in DOMAIN parsed, parsed[i].op = "jump_32aligned", FindLabel(parsed, parsed[i].name) # 0
      PROVE  parsed[FindLabel(parsed, parsed[i].name)].address % 4 = 0
  <2>1. parsed \in Seq(EntryType)
    BY DEF Numbers
  <2> DEFINE k == FindLabel(parsed, parsed[i].name)
  <2>2. k \in DOMAIN parsed /\ parsed[k].op \in Labelled /\ parsed[k].name = parsed[i].name
    BY <1>2, <2>1, Found
  <2>3. parsed[i].name \notin Plain
    BY <1>2 DEF LaidOut, AllSound, Sound
  <2>4. Sound(parsed[k], Plain, heads)
    BY <2>2 DEF LaidOut, AllSound
  <2>5. QED BY <2>2, <2>3, <2>4 DEF Sound
<1>3. QED BY <1>1, <1>2 DEF Aligned

-------------------------------------------------------------------------------
(* Counting slots.                                                         *)

LEMMA SlotsCounted ==
    ASSUME NEW p, NEW i \in Nat
    PROVE  IsFiniteSet({j \in 1 .. i - 1 : p[j].op \in Slotted}) /\ SlotOf(p, i) \in Nat
<1>1. IsFiniteSet(1 .. i - 1)
    BY FS_Interval
<1>2. IsFiniteSet({j \in 1 .. i - 1 : p[j].op \in Slotted})
    BY <1>1, FS_Subset
<1>3. QED BY <1>2, FS_CardinalityType DEF SlotOf

LEMMA SlotsNext ==
    ASSUME NEW p, NEW i \in Nat, i # 0
    PROVE  SlotOf(p, i + 1) = IF p[i].op \in Slotted THEN SlotOf(p, i) + 1 ELSE SlotOf(p, i)
<1> DEFINE S == {j \in 1 .. i - 1 : p[j].op \in Slotted}
           T == {j \in 1 .. (i + 1) - 1 : p[j].op \in Slotted}
<1>1. IsFiniteSet(S) /\ i \notin S
  <2>1. IsFiniteSet(S)
    BY SlotsCounted
  <2>2. i \notin S
    OBVIOUS
  <2>3. QED BY <2>1, <2>2
<1>2. T = IF p[i].op \in Slotted THEN S \cup {i} ELSE S
    OBVIOUS
<1>3. SlotOf(p, i) = Cardinality(S) /\ SlotOf(p, i + 1) = Cardinality(T)
    BY DEF SlotOf
<1> HIDE DEF S, T
<1>4. Cardinality(S \cup {i}) = Cardinality(S) + 1
    BY <1>1, FS_AddElement
<1>5. QED BY <1>2, <1>3, <1>4

LEMMA SlotsAgree ==
    ASSUME NEW p, NEW r, NEW i \in Nat,
           \A j \in 1 .. i - 1 : p[j].op \in Slotted <=> r[j].op \in Slotted
    PROVE  SlotOf(r, i) = SlotOf(p, i)
<1>1. {j \in 1 .. i - 1 : p[j].op \in Slotted} = {j \in 1 .. i - 1 : r[j].op \in Slotted}
    OBVIOUS
<1>2. QED BY <1>1 DEF SlotOf

LEMMA SlotsGrow ==
    ASSUME NEW p, NEW i \in Nat, NEW k \in Nat, 0 < i, i < k, p[i].op \in Slotted
    PROVE  SlotOf(p, i) < SlotOf(p, k)
<1> DEFINE S == {j \in 1 .. i - 1 : p[j].op \in Slotted}
           T == {j \in 1 .. k - 1 : p[j].op \in Slotted}
<1>1. IsFiniteSet(S) /\ IsFiniteSet(T) /\ i \notin S /\ S \cup {i} \subseteq T
  <2>1. IsFiniteSet(S) /\ IsFiniteSet(T)
    BY SlotsCounted
  <2>2. i \notin S /\ S \cup {i} \subseteq T
    OBVIOUS
  <2>3. QED BY <2>1, <2>2
<1>2. SlotOf(p, i) = Cardinality(S) /\ SlotOf(p, k) = Cardinality(T)
    BY DEF SlotOf
<1> HIDE DEF S, T
<1>3. Cardinality(S \cup {i}) = Cardinality(S) + 1 /\ Cardinality(S) \in Nat
    BY <1>1, FS_AddElement, FS_CardinalityType
<1>4. Cardinality(S \cup {i}) <= Cardinality(T) /\ Cardinality(T) \in Nat
    BY <1>1, FS_Subset, FS_CardinalityType
<1>5. QED BY <1>2, <1>3, <1>4

\* Each slot is that of one entry.
LEMMA SlotsDiffer ==
    ASSUME NEW p, NEW i \in Nat \ {0}, NEW k \in Nat \ {0}, p[i].op \in Slotted, p[k].op \in Slotted,
           SlotOf(p, i) = SlotOf(p, k)
    PROVE  i = k
<1>1. SlotOf(p, i) \in Nat /\ SlotOf(p, k) \in Nat
    BY SlotsCounted
<1>2. ~(i < k) /\ ~(k < i)
    BY <1>1, SlotsGrow
<1>3. QED BY <1>2

-------------------------------------------------------------------------------
(* What a reference adds: labels become slots only where they are already. *)

\* r is p with other kinds of slots.
Refined(p, r) ==
    /\ r \in Seq(EntryType) /\ Len(r) = Len(p) /\ DOMAIN r = DOMAIN p
    /\ \A i \in DOMAIN p :
           \/ r[i] = p[i]
           \/ p[i].op \in Slotted /\ r[i].op \in Slotted /\ r[i] = OfKind(p[i], r[i].op)

LEMMA RefinedEntry ==
    ASSUME NEW p, NEW r, Refined(p, r), NEW i \in DOMAIN p
    PROVE  /\ p[i].op \in Slotted <=> r[i].op \in Slotted
           /\ p[i].op \in Labelled <=> r[i].op \in Labelled
           /\ \A op \in EntryOp \ Slotted : p[i].op = op <=> r[i].op = op
           /\ r[i].name = p[i].name /\ r[i].address = p[i].address /\ r[i].size = p[i].size
           /\ r[i].data = p[i].data /\ r[i].staged = p[i].staged
<1>1. CASE r[i] = p[i]
    BY <1>1
<1>2. CASE p[i].op \in Slotted /\ r[i].op \in Slotted /\ r[i] = OfKind(p[i], r[i].op)
  <2>1. p[i].op \in Labelled /\ r[i].op \in Labelled
    BY <1>2 DEF Slotted, Labelled
  <2>2. /\ r[i].name = p[i].name /\ r[i].address = p[i].address /\ r[i].size = p[i].size
        /\ r[i].data = p[i].data /\ r[i].staged = p[i].staged
    BY <1>2 DEF OfKind
  <2>3. QED BY <1>2, <2>1, <2>2
<1>3. QED BY <1>1, <1>2 DEF Refined

LEMMA MarkedRefined ==
    ASSUME NEW p \in Seq(EntryType), NEW x, NEW op \in Slotted,
           FindLabel(p, x) # 0 => p[FindLabel(p, x)].op \in Slotted
    PROVE  Refined(p, Marked(p, x, op))
<1> DEFINE k == FindLabel(p, x)
           r == Marked(p, x, op)
<1>1. op \in EntryOp
    BY DEF Slotted, EntryOp, Labelled
<1>2. /\ r \in Seq(EntryType) /\ Len(r) = Len(p) /\ DOMAIN r = DOMAIN p
      /\ \A i \in DOMAIN p : r[i] = IF i = k THEN OfKind(p[i], op) ELSE p[i]
    BY <1>1, MarkedTyped
<1> HIDE DEF r
<1>3. ASSUME NEW i \in DOMAIN p
      PROVE  \/ r[i] = p[i]
             \/ p[i].op \in Slotted /\ r[i].op \in Slotted /\ r[i] = OfKind(p[i], r[i].op)
  <2>1. CASE i # k
    BY <1>2, <2>1
  <2>2. CASE i = k
    <3>1. r[i] = OfKind(p[i], op) /\ p[i].op \in Slotted
      BY <1>2, <2>2
    <3>2. r[i].op = op
      BY <3>1 DEF OfKind
    <3>3. QED BY <3>1, <3>2
  <2>3. QED BY <2>1, <2>2
<1>4. QED BY <1>2, <1>3 DEF Refined, r

LEMMA RefinedSame == ASSUME NEW p \in Seq(EntryType) PROVE Refined(p, p)
BY DEF Refined

LEMMA RefinedSlots ==
    ASSUME NEW p \in Seq(EntryType), NEW r, Refined(p, r)
    PROVE  /\ \A i \in 1 .. Len(p) + 1 : SlotOf(r, i) = SlotOf(p, i)
           /\ SlotsIn(p) => SlotsIn(r)
<1>1. Len(p) \in Nat /\ DOMAIN p = 1 .. Len(p) /\ DOMAIN r = DOMAIN p
    BY DEF Refined
<1>2. ASSUME NEW i \in 1 .. Len(p) + 1 PROVE SlotOf(r, i) = SlotOf(p, i)
  <2>1. \A j \in 1 .. i - 1 : p[j].op \in Slotted <=> r[j].op \in Slotted
    BY <1>1, RefinedEntry
  <2>2. i \in Nat
    BY <1>1
  <2>3. QED BY <2>1, <2>2, SlotsAgree
<1>3. ASSUME SlotsIn(p), NEW i \in DOMAIN r, r[i].op \in Slotted PROVE r[i].address = 4 * SlotOf(r, i)
  <2>1. i \in DOMAIN p /\ i \in 1 .. Len(p) + 1
    BY <1>1
  <2>2. p[i].op \in Slotted /\ r[i].address = p[i].address
    BY <1>3, <2>1, RefinedEntry
  <2>3. QED BY <1>2, <1>3, <2>1, <2>2 DEF SlotsIn
<1>4. QED BY <1>2, <1>3 DEF SlotsIn

LEMMA RefinedNames ==
    ASSUME NEW p \in Seq(EntryType), NEW r, Refined(p, r), NEW names
    PROVE  /\ UniqueIn(p) => UniqueIn(r)
           /\ NamedIn(p, names) => NamedIn(r, names)
           /\ \A x : FindLabel(r, x) = FindLabel(p, x)
<1>1. /\ DOMAIN r = DOMAIN p
      /\ \A i \in DOMAIN p : r[i].name = p[i].name /\ (p[i].op \in Labelled <=> r[i].op \in Labelled)
  <2>1. DOMAIN r = DOMAIN p
    BY DEF Refined
  <2>2. QED BY <2>1, RefinedEntry
<1>2. ASSUME NEW x PROVE FindLabel(r, x) = FindLabel(p, x)
  <2>1. {i \in DOMAIN r : r[i].op \in Labelled /\ r[i].name = x}
            = {i \in DOMAIN p : p[i].op \in Labelled /\ p[i].name = x}
    BY <1>1
  <2>2. QED BY <2>1 DEF FindLabel
<1>3. QED BY <1>1, <1>2 DEF UniqueIn, NamedIn

LEMMA RefinedStaged ==
    ASSUME NEW p \in Seq(EntryType), NEW r, Refined(p, r)
    PROVE  StringBytes(r) = StringBytes(p) /\ (StagedIn(p) => StagedIn(r))
<1>1. /\ DOMAIN r = DOMAIN p
      /\ \A i \in DOMAIN p : /\ r[i].size = p[i].size /\ r[i].staged = p[i].staged
                             /\ p[i].op = "data" <=> r[i].op = "data"
    BY RefinedEntry DEF Refined, EntryOp, Slotted
<1>2. StringBytes(r) = StringBytes(p)
    BY <1>1 DEF StringBytes
<1>3. QED BY <1>1, <1>2 DEF StagedIn

-------------------------------------------------------------------------------
(* What an entry adds.                                                     *)

LEMMA AppendSlots ==
    ASSUME NEW p \in Seq(EntryType), NEW e \in EntryType, e.op \notin Slotted
    PROVE  /\ \A i \in 1 .. Len(p) + 1 : SlotOf(Append(p, e), i) = SlotOf(p, i)
           /\ SlotOf(Append(p, e), Len(p) + 2) = SlotOf(p, Len(p) + 1)
           /\ SlotsIn(p) => SlotsIn(Append(p, e))
<1> DEFINE r == Append(p, e)
<1>1. /\ Len(p) \in Nat /\ DOMAIN p = 1 .. Len(p)
      /\ \A i \in DOMAIN p : r[i] = p[i]
      /\ r[Len(p) + 1] = e
      /\ \A i \in DOMAIN r : i \in DOMAIN p \/ i = Len(p) + 1
    BY Appended
<1> HIDE DEF r
<1>2. ASSUME NEW i \in 1 .. Len(p) + 1 PROVE SlotOf(r, i) = SlotOf(p, i)
  <2>1. \A j \in 1 .. i - 1 : p[j].op \in Slotted <=> r[j].op \in Slotted
    BY <1>1
  <2>2. i \in Nat
    BY <1>1
  <2>3. QED BY <2>1, <2>2, SlotsAgree
<1>3. SlotOf(r, Len(p) + 2) = SlotOf(p, Len(p) + 1)
  <2>1. Len(p) + 1 \in Nat /\ Len(p) + 1 # 0 /\ (Len(p) + 1) + 1 = Len(p) + 2 /\ Len(p) + 1 \in 1 .. Len(p) + 1
    BY <1>1
  <2>2. SlotOf(r, (Len(p) + 1) + 1) = SlotOf(r, Len(p) + 1)
    BY <1>1, <2>1, SlotsNext
  <2>3. QED BY <1>2, <2>1, <2>2
<1>4. ASSUME SlotsIn(p), NEW i \in DOMAIN r, r[i].op \in Slotted PROVE r[i].address = 4 * SlotOf(r, i)
  <2>1. i \in DOMAIN p
    BY <1>1, <1>4
  <2>2. i \in 1 .. Len(p) + 1 /\ r[i] = p[i]
    BY <1>1, <2>1
  <2>3. QED BY <1>2, <1>4, <2>1, <2>2 DEF SlotsIn
<1>5. QED BY <1>2, <1>3, <1>4 DEF SlotsIn, r

\* The label found is the one there is.
LEMMA FoundOnly ==
    ASSUME NEW p \in Seq(EntryType), UniqueIn(p), NEW k \in DOMAIN p, p[k].op \in Labelled
    PROVE  FindLabel(p, p[k].name) = k
<1>1. FindLabel(p, p[k].name) # 0
    BY Found
<1>2. FindLabel(p, p[k].name) \in DOMAIN p /\ p[FindLabel(p, p[k].name)].op \in Labelled
      /\ p[FindLabel(p, p[k].name)].name = p[k].name
    BY <1>1, Found
<1>3. QED BY <1>2 DEF UniqueIn

LEMMA AppendNames ==
    ASSUME NEW p \in Seq(EntryType), NEW e \in EntryType, NEW names,
           e.op \in Labelled => FindLabel(p, e.name) = 0 /\ e.name \in names
    PROVE  /\ UniqueIn(p) => UniqueIn(Append(p, e))
           /\ NamedIn(p, names) => NamedIn(Append(p, e), names)
           /\ UniqueIn(p) => \A x : FindLabel(p, x) # 0 => FindLabel(Append(p, e), x) = FindLabel(p, x)
           /\ UniqueIn(p) /\ e.op \in Labelled => FindLabel(Append(p, e), e.name) = Len(p) + 1
<1> DEFINE r == Append(p, e)
<1>1. /\ r \in Seq(EntryType) /\ Len(p) + 1 \in DOMAIN r
      /\ \A i \in DOMAIN p : i \in DOMAIN r /\ r[i] = p[i]
      /\ r[Len(p) + 1] = e
      /\ \A i \in DOMAIN r : i \in DOMAIN p \/ i = Len(p) + 1
    BY Appended
<1> HIDE DEF r
<1>2. e.op \in Labelled => \A i \in DOMAIN p : ~(p[i].op \in Labelled /\ p[i].name = e.name)
    BY Found
<1>3. ASSUME UniqueIn(p) PROVE UniqueIn(r)
    BY <1>1, <1>2, <1>3 DEF UniqueIn
<1>4. ASSUME NamedIn(p, names) PROVE NamedIn(r, names)
    BY <1>1, <1>4 DEF NamedIn
<1>5. ASSUME UniqueIn(p), NEW x, FindLabel(p, x) # 0 PROVE FindLabel(r, x) = FindLabel(p, x)
  <2> DEFINE k == FindLabel(p, x)
  <2>1. k \in DOMAIN p /\ p[k].op \in Labelled /\ p[k].name = x
    BY <1>5, Found
  <2> HIDE DEF k
  <2>2. k \in DOMAIN r /\ r[k].op \in Labelled /\ r[k].name = x
    BY <1>1, <2>1
  <2>3. FindLabel(r, r[k].name) = k
    BY <1>1, <1>3, <1>5, <2>2, FoundOnly
  <2>4. QED BY <2>2, <2>3 DEF k
<1>6. ASSUME UniqueIn(p), e.op \in Labelled PROVE FindLabel(r, e.name) = Len(p) + 1
    BY <1>1, <1>3, <1>6, FoundOnly
<1>7. QED BY <1>3, <1>4, <1>5, <1>6 DEF r

LEMMA BytesTyped ==
    ASSUME NEW p \in Seq(EntryType)
    PROVE  /\ Len(StringBytes(p)) = Len(p) /\ Len(p) \in Nat
           /\ \A k \in 1 .. Len(p) : StringBytes(p)[k] \in Nat
           /\ Running(StringBytes(p)) \in [0 .. Len(p) -> Nat]
           /\ Sums(Running(StringBytes(p)), StringBytes(p), Len(p))
<1> DEFINE g == StringBytes(p)
<1>1. \A k \in DOMAIN p : p[k].size \in Nat
  <2>1. \A k \in DOMAIN p : p[k] \in EntryType
    OBVIOUS
  <2>2. \A e \in EntryType : e.size \in Nat
    BY DEF EntryType
  <2>3. QED BY <2>1, <2>2
<1>2. Len(g) = Len(p) /\ Len(p) \in Nat /\ \A k \in 1 .. Len(p) : g[k] \in Nat
    BY <1>1 DEF StringBytes
<1> HIDE DEF g
<1>3. Running(g) \in [0 .. Len(g) -> Nat] /\ Sums(Running(g), g, Len(g))
    BY <1>2, RunningSums
<1>4. QED BY <1>2, <1>3 DEF g

LEMMA AppendStaged ==
    ASSUME NEW p \in Seq(EntryType), NEW e \in EntryType,
           e.op = "data" => e.staged = Running(StringBytes(p))[Len(p)]
    PROVE  /\ StagedIn(p) => StagedIn(Append(p, e))
           /\ Running(StringBytes(Append(p, e)))[Len(p) + 1]
                  = Running(StringBytes(p))[Len(p)] + IF e.op = "data" THEN e.size ELSE 0
<1> DEFINE r == Append(p, e)
           g == StringBytes(p)
           h == StringBytes(r)
           v == Running(g)
           w == Running(h)
<1>1. /\ r \in Seq(EntryType) /\ Len(r) = Len(p) + 1 /\ Len(p) \in Nat
      /\ \A i \in DOMAIN p : i \in DOMAIN r /\ r[i] = p[i]
      /\ r[Len(p) + 1] = e /\ Len(p) + 1 \in DOMAIN r
      /\ \A i \in DOMAIN r : i \in DOMAIN p \/ i = Len(p) + 1
    BY Appended
<1> HIDE DEF r
<1>2. \A k \in 1 .. Len(p) : g[k] = h[k]
    BY <1>1 DEF StringBytes
<1>3. h[Len(p) + 1] = IF e.op = "data" THEN e.size ELSE 0
    BY <1>1 DEF StringBytes
<1>4. Sums(v, g, Len(p)) /\ Sums(w, h, Len(r))
    BY <1>1, BytesTyped
<1> HIDE DEF g, h, v, w
<1>5. \A k \in 0 .. Len(p) : v[k] = w[k]
    BY <1>1, <1>2, <1>4, SumsAgree
<1>6. w[Len(p) + 1] = w[(Len(p) + 1) - 1] + h[Len(p) + 1]
  <2>1. \A k \in 0 .. Len(r) : w[k] = IF k = 0 THEN 0 ELSE w[k - 1] + h[k]
    BY <1>4 DEF Sums
  <2>2. Len(p) + 1 \in 0 .. Len(r) /\ Len(p) + 1 # 0
    BY <1>1
  <2>3. QED BY <2>1, <2>2
<1>7. w[Len(p) + 1] = v[Len(p)] + h[Len(p) + 1]
  <2>1. (Len(p) + 1) - 1 = Len(p) /\ Len(p) \in 0 .. Len(p)
    BY <1>1
  <2>2. QED BY <1>5, <1>6, <2>1
<1>8. ASSUME StagedIn(p), NEW i \in DOMAIN r, r[i].op = "data" PROVE r[i].staged = w[i - 1]
  <2>1. CASE i \in DOMAIN p
    <3>1. i - 1 \in 0 .. Len(p)
      BY <1>1, <2>1
    <3>2. p[i].op = "data" /\ r[i].staged = p[i].staged
      BY <1>1, <1>8, <2>1
    <3>3. QED BY <1>5, <1>8, <2>1, <3>1, <3>2 DEF StagedIn, v, g
  <2>2. CASE i = Len(p) + 1
    <3>1. e.staged = v[Len(p)] /\ i - 1 = Len(p) /\ Len(p) \in 0 .. Len(p)
      BY <1>1, <1>8, <2>2 DEF v, g
    <3>2. QED BY <1>1, <1>5, <2>2, <3>1
  <2>3. QED BY <1>1, <1>8, <2>1, <2>2
<1>9. StagedIn(p) => StagedIn(r)
    BY <1>8 DEF StagedIn, w, h
<1>10. QED BY <1>3, <1>7, <1>9 DEF r, g, h, v, w

-------------------------------------------------------------------------------
(* What the lines add.                                                     *)

\* A name that a movExt or a callExt marks is that of a slot.
LEMMA MarksSlot ==
    ASSUME LinesTyped, Numbers, Labels, NEW ops, Reads(ops), Current.op \in {"movExt", "callExt"},
           FindLabel(parsed, Current.name) # 0
    PROVE  parsed[FindLabel(parsed, Current.name)].op \in Slotted
<1> DEFINE k == FindLabel(parsed, Current.name)
<1>1. /\ parsed \in Seq(EntryType) /\ k \in DOMAIN parsed
      /\ parsed[k].op \in Labelled /\ parsed[k].name = Current.name
    BY Found DEF Numbers
<1>2. /\ Current.name \notin Plain /\ NextPart # "header" /\ NextPart \in Part /\ HeaderDone
      /\ OfProgram(origin[NextPart], Current) /\ origin \in Programs
    BY ReadsLine, ReadNames, ReadsHeader DEF LinesTyped
<1>3. PICK j \in DOMAIN origin[NextPart] : Current = origin[NextPart][j]
    BY <1>2 DEF OfProgram
<1>4. Current.name \notin Declared => Current.name \notin Names(origin, {"aligned"})
  <2> SUFFICES ASSUME Current.name \in Names(origin, {"aligned"}) PROVE Current.name \in Declared
    OBVIOUS
  <2>1. PICK q \in Part : Current.name \in NamesOf(origin[q], {"aligned"})
    BY DEF Names
  <2>2. CASE q = "header"
    BY <2>1, <2>2 DEF Declared
  <2>3. CASE q # "header"
    <3>1. PICK i \in DOMAIN origin[q] : origin[q][i].op = "aligned" /\ origin[q][i].name = Current.name
      BY <2>1, Unlisted
    <3>2. q \in {"content", "footer"}
      BY <2>3 DEF Part
    <3>3. \E m \in DOMAIN origin["header"] :
              origin["header"][m].op = "aligned" /\ origin["header"][m].name = origin[q][i].name
      BY <1>2, <1>3, <3>1, <3>2, HostNamesDeclared
    <3>4. QED BY <3>1, <3>3, Listed DEF Declared
  <2>4. QED BY <2>2, <2>3
<1>5. Current.name \in Declared
    BY <1>1, <1>2, <1>4 DEF Labels, NamedIn
<1>6. parsed[k].op # "label"
    BY <1>1, <1>2, <1>5 DEF Labels
<1>7. QED BY <1>1, <1>6 DEF Labelled, Slotted

LEMMA InstrRefines ==
    ASSUME LinesTyped, Numbers, Labels, AssembleInstr
    PROVE  Refined(parsed, InstrMarked) /\ InstrEntry.op \notin Labelled \cup {"data"}
<1>1. parsed \in Seq(EntryType) /\ Current.op \in InstrOps
    BY InstrNumbers DEF Numbers
<1>2. InstrEntry.op = Kind(Current.op)
    BY DEF InstrEntry, Entry
<1>3. InstrEntry.op \notin Labelled \cup {"data"}
    BY <1>1, <1>2 DEF Kind, Labelled, InstrOps
<1>4. CASE Current.op = "movExt"
  <2>1. "external_var_label" \in Slotted
    BY DEF Slotted
  <2>2. FindLabel(parsed, Current.name) # 0 => parsed[FindLabel(parsed, Current.name)].op \in Slotted
    BY <1>4, MarksSlot DEF AssembleInstr
  <2>3. Refined(parsed, Marked(parsed, Current.name, "external_var_label"))
    BY <1>1, <2>1, <2>2, MarkedRefined
  <2>4. QED BY <1>3, <1>4, <2>3 DEF InstrMarked
<1>5. CASE Current.op # "movExt"
    BY <1>1, <1>3, <1>5, RefinedSame DEF InstrMarked
<1>6. QED BY <1>4, <1>5

LEMMA CallRefines ==
    ASSUME LinesTyped, Numbers, Labels, AssembleCall
    PROVE  /\ Refined(parsed, CallMarked)
           /\ LoadEntry.op \notin Labelled \cup {"data"} /\ CallEntry.op \notin Labelled \cup {"data"}
<1>1. parsed \in Seq(EntryType) /\ Current.op = "callExt" /\ "external_call" \in Slotted
    BY CallNumbers DEF Numbers, Slotted
<1>2. LoadEntry.op = "jump_32aligned" /\ CallEntry.op = "standard"
    BY DEF LoadEntry, CallEntry, Entry
<1>3. FindLabel(parsed, Current.name) # 0 => parsed[FindLabel(parsed, Current.name)].op \in Slotted
    BY <1>1, MarksSlot DEF AssembleCall
<1>4. Refined(parsed, CallMarked)
    BY <1>1, <1>3, MarkedRefined DEF CallMarked
<1>5. QED BY <1>2, <1>4 DEF Labelled

\* The label that a reservation turns into a slot.
Reserving(p, a) == [p EXCEPT ![Len(p)] = WithData(p[Len(p)], a)]

LEMMA ReservedSlot ==
    ASSUME NEW p \in Seq(EntryType), Len(p) \in DOMAIN p, p[Len(p)].op = "label", NEW a \in Nat,
           NEW r, r = Reserving(p, a)
    PROVE  /\ r \in Seq(EntryType) /\ Len(r) = Len(p) /\ DOMAIN r = DOMAIN p
           /\ \A i \in DOMAIN p : i # Len(p) => r[i] = p[i]
           /\ r[Len(p)].op = "data_label" /\ r[Len(p)].name = p[Len(p)].name /\ r[Len(p)].data = a
           /\ StringBytes(r) = StringBytes(p) /\ (StagedIn(p) => StagedIn(r))
           /\ UniqueIn(p) => UniqueIn(r)
           /\ \A names : NamedIn(p, names) => NamedIn(r, names)
           /\ \A x : FindLabel(r, x) = FindLabel(p, x)
           /\ SlotOf(r, Len(p) + 1) = SlotOf(p, Len(p) + 1) + 1
           /\ SlotsIn(p) /\ p[Len(p)].address = 4 * SlotOf(p, Len(p) + 1) => SlotsIn(r)
<1> DEFINE k == Len(p)
           f == WithData(p[k], a)
<1>1. f \in EntryType /\ k \in Nat /\ k # 0 /\ DOMAIN p = 1 .. k
  <2>1. f \in EntryType
    BY DataLabelTyped
  <2>2. k \in Nat /\ k # 0 /\ DOMAIN p = 1 .. k
    OBVIOUS
  <2>3. QED BY <2>1, <2>2
<1>2. /\ f.op = "data_label" /\ f.name = p[k].name /\ f.data = a /\ f.address = p[k].address
    BY DEF WithData
<1> HIDE DEF f
<1>3. /\ r \in Seq(EntryType) /\ Len(r) = Len(p) /\ DOMAIN r = DOMAIN p
      /\ \A i \in DOMAIN p : r[i] = IF i = k THEN f ELSE p[i]
  <2>1. r = [p EXCEPT ![k] = f]
    BY DEF f, Reserving
  <2>2. QED BY <1>1, <2>1, Replaced
<1> HIDE DEF k
<1>4. /\ k \in DOMAIN p /\ p[k].op = "label" /\ Len(p) = k
      /\ \A i \in DOMAIN p : i # k => r[i] = p[i]
      /\ r[k].op = "data_label" /\ r[k].name = p[k].name /\ r[k].data = a /\ r[k].address = p[k].address
    BY <1>2, <1>3 DEF k
<1>5. \A i \in DOMAIN p : r[i].name = p[i].name /\ (r[i].op \in Labelled <=> p[i].op \in Labelled)
    BY <1>4 DEF Labelled
<1>6. StringBytes(r) = StringBytes(p)
    BY <1>3, <1>4 DEF StringBytes
<1>7. StagedIn(p) => StagedIn(r)
    BY <1>3, <1>4, <1>6 DEF StagedIn
<1>8. UniqueIn(p) => UniqueIn(r)
    BY <1>3, <1>5 DEF UniqueIn
<1>9. \A names : NamedIn(p, names) => NamedIn(r, names)
    BY <1>3, <1>5 DEF NamedIn
<1>10. ASSUME NEW x PROVE FindLabel(r, x) = FindLabel(p, x)
  <2>1. {i \in DOMAIN r : r[i].op \in Labelled /\ r[i].name = x}
            = {i \in DOMAIN p : p[i].op \in Labelled /\ p[i].name = x}
    BY <1>3, <1>5
  <2>2. QED BY <2>1 DEF FindLabel
<1>11. ASSUME NEW i \in 1 .. k PROVE SlotOf(r, i) = SlotOf(p, i)
  <2>1. \A j \in 1 .. i - 1 : p[j].op \in Slotted <=> r[j].op \in Slotted
    BY <1>1, <1>4
  <2>2. i \in Nat
    OBVIOUS
  <2>3. QED BY <2>1, <2>2, SlotsAgree
<1>12. SlotOf(r, k + 1) = SlotOf(r, k) + 1 /\ SlotOf(p, k + 1) = SlotOf(p, k)
    BY <1>1, <1>4, SlotsNext DEF Slotted
<1>13. SlotOf(r, k + 1) = SlotOf(p, k + 1) + 1
  <2>1. k \in 1 .. k
    BY <1>1
  <2>2. SlotOf(r, k) = SlotOf(p, k)
    BY <1>11, <2>1
  <2>3. QED BY <1>12, <2>2
<1>14. ASSUME SlotsIn(p), p[k].address = 4 * SlotOf(p, k + 1), NEW i \in DOMAIN r, r[i].op \in Slotted
       PROVE  r[i].address = 4 * SlotOf(r, i)
  <2>1. CASE i = k
    BY <1>1, <1>4, <1>11, <1>12, <1>14, <2>1
  <2>2. CASE i # k
    <3>1. i \in DOMAIN p /\ i \in 1 .. k /\ r[i] = p[i]
      BY <1>1, <1>3, <1>4, <1>14, <2>2
    <3>2. QED BY <1>11, <1>14, <3>1 DEF SlotsIn
  <2>3. QED BY <2>1, <2>2
<1>15. SlotsIn(p) /\ p[k].address = 4 * SlotOf(p, k + 1) => SlotsIn(r)
    BY <1>14 DEF SlotsIn
<1>16. QED BY <1>3, <1>4, <1>6, <1>7, <1>8, <1>9, <1>10, <1>13, <1>15 DEF k

\* What AssembleData does, when it is not refused.
DataLabels == Reserving(parsed, DataAddress)

LEMMA DataStep ==
    ASSUME LinesTyped, Numbers, AssembleData
    PROVE  \/ bad' = TRUE /\ UNCHANGED <<parsed, pos>> /\ NothingToReserve
           \/ /\ Len(parsed) \in DOMAIN parsed /\ parsed[Len(parsed)].op = "label"
              /\ DataLabels \in Seq(EntryType) /\ DataAddress \in Nat
              /\ \/ Current.op # "string" /\ parsed' = DataLabels /\ pos'.staged = pos.staged
                 \/ /\ Current.op = "string" /\ parsed' = Append(DataLabels, DataValue)
                    /\ pos'.staged = pos.staged + DataValue.size
              /\ DataValue \in EntryType /\ DataValue.op = "data" /\ DataValue.staged = pos.staged
              /\ pos'.instr = pos.instr + 4 /\ pos'.data = DataAddress + Reserved(Current.n)
              /\ bad' = bad
<1>1. DataValue.op = "data" /\ DataValue.staged = pos.staged /\ DataValue.size = Word16(Reserved(Current.n))
    BY DEF DataValue, StagedAfter, Entry
<1>2. pos.staged \in Nat /\ pos.staged + 0 = pos.staged /\ DataAddress \in Nat /\ DataValue \in EntryType
  <2>1. pos.staged \in Nat /\ pos.staged + 0 = pos.staged
    BY DEF Numbers
  <2>2. QED BY <2>1, DataNumbers
<1> DEFINE p == [instr |-> pos.instr + 4, data |-> DataAddress + Reserved(Current.n),
                 staged |-> pos.staged + IF Current.op = "string" THEN Word16(Reserved(Current.n)) ELSE 0]
<1>3. \/ bad' = TRUE /\ UNCHANGED <<parsed, pos>> /\ NothingToReserve
      \/ /\ Len(parsed) \in DOMAIN parsed /\ parsed[Len(parsed)].op = "label"
         /\ DataLabels \in Seq(EntryType)
         /\ parsed' = IF Current.op = "string" THEN Append(DataLabels, DataValue) ELSE DataLabels
         /\ pos' = p /\ bad' = bad
  <2> HIDE DEF p
  <2>1. QED BY DataNumbers DEF DataLabels, Reserving, p
<1>4. CASE bad' = TRUE /\ UNCHANGED <<parsed, pos>> /\ NothingToReserve
    BY <1>4
<1>5. CASE /\ Len(parsed) \in DOMAIN parsed /\ parsed[Len(parsed)].op = "label"
           /\ DataLabels \in Seq(EntryType)
           /\ parsed' = IF Current.op = "string" THEN Append(DataLabels, DataValue) ELSE DataLabels
           /\ pos' = p /\ bad' = bad
  <2>1. /\ pos'.instr = pos.instr + 4 /\ pos'.data = DataAddress + Reserved(Current.n)
        /\ Current.op = "string" => pos'.staged = pos.staged + DataValue.size
        /\ Current.op # "string" => pos'.staged = pos.staged
    BY <1>1, <1>2, <1>5
  <2> HIDE DEF p
  <2>2. QED BY <1>1, <1>2, <1>5, <2>1
<1>6. QED BY <1>3, <1>4, <1>5

LEMMA NextStaged == ASSUME LinesTyped, Numbers, Labels, Staged, AsmNext PROVE Staged'
<1>0. /\ parsed \in Seq(EntryType) /\ pos.instr \in Nat /\ pos.staged \in Nat
      /\ pos \in [instr : Nat, data : Nat, staged : Nat]
      /\ StagedIn(parsed) /\ pos.staged = Running(StringBytes(parsed))[Len(parsed)]
    BY DEF Numbers, Staged
<1>1. CASE UNCHANGED <<parsed, pos>>
    BY <1>1 DEF Staged
<1>2. CASE Relaxes \/ Estimate \/ Finishes
    BY <1>1, <1>2, OtherEntries
<1>3. CASE AssembleLabel /\ ~(UNCHANGED <<parsed, pos>>)
  <2>1. LabelEntry \in EntryType /\ LabelEntry.op = "label"
    BY <1>3, LabelNumbers DEF LabelEntry, Entry
  <2>2. parsed' = Append(parsed, LabelEntry) /\ pos'.staged = pos.staged
    BY <1>0, <1>3 DEF AssembleLabel, Refused, LabelEntry
  <2>3. Len(parsed') = Len(parsed) + 1
    BY <1>0, <2>1, <2>2
  <2>4. /\ StagedIn(parsed')
        /\ Running(StringBytes(parsed'))[Len(parsed) + 1] = Running(StringBytes(parsed))[Len(parsed)] + 0
    BY <1>0, <2>1, <2>2, AppendStaged
  <2>5. QED BY <1>0, <2>2, <2>3, <2>4 DEF Staged
<1>4. CASE AssembleData /\ ~(UNCHANGED <<parsed, pos>>)
  <2>1. /\ Len(parsed) \in DOMAIN parsed /\ parsed[Len(parsed)].op = "label"
        /\ DataLabels \in Seq(EntryType) /\ DataAddress \in Nat
        /\ DataValue \in EntryType /\ DataValue.op = "data" /\ DataValue.staged = pos.staged
        /\ \/ Current.op # "string" /\ parsed' = DataLabels /\ pos'.staged = pos.staged
           \/ /\ Current.op = "string" /\ parsed' = Append(DataLabels, DataValue)
              /\ pos'.staged = pos.staged + DataValue.size
    BY <1>4, DataStep
  <2>2. /\ StringBytes(DataLabels) = StringBytes(parsed) /\ StagedIn(DataLabels)
        /\ Len(DataLabels) = Len(parsed)
    BY <1>0, <2>1, ReservedSlot DEF DataLabels
  <2>3. CASE parsed' = DataLabels /\ pos'.staged = pos.staged
    BY <1>0, <2>2, <2>3 DEF Staged
  <2>4. CASE parsed' = Append(DataLabels, DataValue) /\ pos'.staged = pos.staged + DataValue.size
    <3>1. Len(parsed') = Len(parsed) + 1
      BY <2>1, <2>2, <2>4
    <3>2. /\ StagedIn(parsed')
          /\ Running(StringBytes(parsed'))[Len(parsed) + 1]
                 = Running(StringBytes(parsed))[Len(parsed)] + DataValue.size
      BY <1>0, <2>1, <2>2, <2>4, AppendStaged
    <3>3. QED BY <1>0, <2>4, <3>1, <3>2 DEF Staged
  <2>5. QED BY <2>1, <2>3, <2>4
<1>5. CASE AssembleInstr
  <2>1. /\ Refined(parsed, InstrMarked) /\ InstrEntry.op # "data" /\ InstrEntry \in EntryType
        /\ parsed' = Append(InstrMarked, InstrEntry) /\ pos'.staged = pos.staged
    BY <1>0, <1>5, InstrRefines, InstrNumbers
  <2>2. /\ InstrMarked \in Seq(EntryType) /\ Len(InstrMarked) = Len(parsed)
        /\ StringBytes(InstrMarked) = StringBytes(parsed) /\ StagedIn(InstrMarked)
    BY <1>0, <2>1, RefinedStaged DEF Refined
  <2>3. Len(parsed') = Len(parsed) + 1
    BY <2>1, <2>2
  <2>4. /\ StagedIn(parsed')
        /\ Running(StringBytes(parsed'))[Len(parsed) + 1] = Running(StringBytes(parsed))[Len(parsed)] + 0
    BY <2>1, <2>2, AppendStaged
  <2>5. QED BY <1>0, <2>1, <2>3, <2>4 DEF Staged
<1>6. CASE AssembleCall
  <2>1. /\ Refined(parsed, CallMarked) /\ LoadEntry.op # "data" /\ CallEntry.op # "data"
        /\ LoadEntry \in EntryType /\ CallEntry \in EntryType
        /\ parsed' = Append(Append(CallMarked, LoadEntry), CallEntry) /\ pos'.staged = pos.staged
    BY <1>0, <1>6, CallRefines, CallNumbers
  <2>2. /\ CallMarked \in Seq(EntryType) /\ Len(CallMarked) = Len(parsed) /\ Len(parsed) \in Nat
        /\ StringBytes(CallMarked) = StringBytes(parsed) /\ StagedIn(CallMarked)
    <3>1. CallMarked \in Seq(EntryType) /\ Len(CallMarked) = Len(parsed)
      BY <2>1 DEF Refined
    <3>2. StringBytes(CallMarked) = StringBytes(parsed) /\ StagedIn(CallMarked)
      BY <1>0, <2>1, RefinedStaged
    <3>3. QED BY <1>0, <3>1, <3>2
  <2> DEFINE m == Append(CallMarked, LoadEntry)
  <2>3. m \in Seq(EntryType) /\ Len(m) = Len(parsed) + 1
    BY <2>1, <2>2
  <2>4. StagedIn(m) /\ Running(StringBytes(m))[Len(m)] = Running(StringBytes(parsed))[Len(parsed)] + 0
    BY <2>1, <2>2, <2>3, AppendStaged
  <2>5. parsed' = Append(m, CallEntry)
    BY <2>1
  <2> HIDE DEF m
  <2>6. Len(parsed') = Len(m) + 1
    BY <2>1, <2>3, <2>5
  <2>7. /\ StagedIn(parsed')
        /\ Running(StringBytes(parsed'))[Len(m) + 1] = Running(StringBytes(m))[Len(m)] + 0
    BY <2>1, <2>3, <2>4, <2>5, AppendStaged
  <2>8. QED BY <1>0, <2>1, <2>4, <2>6, <2>7 DEF Staged
<1>7. QED BY <1>1, <1>2, <1>3, <1>4, <1>5, <1>6, AsmSteps

\* While the header is assembled, a label waits for its bytes only.
LEMMA NoLabelWaits ==
    ASSUME LinesTyped, Slots, NEW ops, Reads(ops), NextPart = "header", Current.op \notin {"bytes", "string"}
    PROVE  \A i \in DOMAIN parsed : parsed[i].op # "label"
<1>1. /\ ~HeaderDone /\ Consumed + 1 \in DOMAIN origin["header"] /\ Consumed \in Nat
      /\ Current = origin["header"][Consumed + 1] /\ origin \in Programs
    BY ReadsHeader, ReadsLine DEF LinesTyped
<1>2. ASSUME NEW i \in DOMAIN parsed, parsed[i].op = "label" PROVE FALSE
  <2>1. Consumed # 0 /\ origin["header"][Consumed].op = "aligned"
    BY <1>1, <1>2 DEF Slots
  <2>2. origin["header"] \in Seq(Line)
    BY <1>1, ProgramTyped DEF Part
  <2>3. Consumed \in DOMAIN origin["header"]
    BY <1>1, <2>1, <2>2
  <2>4. origin["header"][Consumed + 1].op \in {"bytes", "string"}
    BY <1>1, <2>1, <2>3, GeneratedNames
  <2>5. QED BY <1>1, <2>4
<1>3. QED BY <1>2

\* While the header is assembled, a label is a slot after its bytes.
LEMMA HeaderLabels ==
    ASSUME LinesTyped, Numbers, Slots, Labels, AssembleData \/ (AssembleInstr /\ NextPart = "header")
    PROVE  \A i \in DOMAIN parsed' : parsed'[i].op # "label"
<1>1. parsed \in Seq(EntryType) /\ origin \in Programs
    BY DEF Numbers, LinesTyped
<1>2. CASE AssembleData
  <2>1. ~HeaderDone
    <3>1. Current.op \in {"bytes", "string"}
      BY <1>2, ReadsLine DEF AssembleData
    <3>2. NextPart = "header"
      BY <1>2, <3>1, ReadNames DEF AssembleData
    <3>3. QED BY <1>2, <3>2, ReadsHeader DEF AssembleData
  <2>2. \A i \in DOMAIN parsed : parsed[i].op = "label" => i = Len(parsed)
    BY <2>1 DEF Slots
  <2>3. CASE UNCHANGED parsed /\ NothingToReserve
    BY <1>1, <2>2, <2>3 DEF NothingToReserve
  <2>4. CASE ~(UNCHANGED parsed /\ NothingToReserve)
    <3>1. /\ Len(parsed) \in DOMAIN parsed /\ parsed[Len(parsed)].op = "label"
          /\ DataLabels \in Seq(EntryType) /\ DataAddress \in Nat
          /\ DataValue \in EntryType /\ DataValue.op = "data"
          /\ parsed' = DataLabels \/ parsed' = Append(DataLabels, DataValue)
      BY <1>2, <2>4, DataStep
    <3>2. /\ DOMAIN DataLabels = DOMAIN parsed
          /\ \A i \in DOMAIN parsed : i # Len(parsed) => DataLabels[i] = parsed[i]
          /\ DataLabels[Len(parsed)].op = "data_label"
      BY <1>1, <3>1, ReservedSlot DEF DataLabels
    <3>3. \A i \in DOMAIN DataLabels : DataLabels[i].op # "label"
      BY <2>2, <3>2
    <3>4. \A i \in DOMAIN Append(DataLabels, DataValue) : Append(DataLabels, DataValue)[i].op # "label"
      BY <3>1, <3>3, Appended
    <3>5. QED BY <3>1, <3>3, <3>4
  <2>5. QED BY <2>3, <2>4
<1>3. CASE AssembleInstr /\ NextPart = "header"
  <2>1. Current.op \notin {"bytes", "string"}
    BY <1>3, InstrNumbers DEF InstrOps
  <2>2. \A i \in DOMAIN parsed : parsed[i].op # "label"
    BY <1>3, <2>1, NoLabelWaits DEF AssembleInstr
  <2>3. /\ Refined(parsed, InstrMarked) /\ InstrEntry.op # "label" /\ InstrEntry \in EntryType
        /\ InstrMarked \in Seq(EntryType) /\ parsed' = Append(InstrMarked, InstrEntry)
    BY <1>3, InstrRefines, InstrNumbers DEF Labelled
  <2>4. \A i \in DOMAIN InstrMarked : InstrMarked[i].op # "label"
    <3>1. DOMAIN InstrMarked = DOMAIN parsed /\ "label" \in EntryOp \ Slotted
      BY <2>3 DEF Refined, EntryOp, Labelled, Slotted
    <3>2. QED BY <2>2, <2>3, <3>1, RefinedEntry
  <2>5. QED BY <2>3, <2>4, Appended
<1>4. QED BY <1>2, <1>3

\* The labels of the header's names, after a line.
LEMMA DeclaredFound ==
    ASSUME LinesTyped, Labels, NEW ops, Reads(ops),
           \A x : FindLabel(parsed, x) # 0 => FindLabel(parsed', x) # 0,
           Current.op = "aligned" => FindLabel(parsed', Current.name) # 0
    PROVE  \A j \in 1 .. Consumed' : origin'["header"][j].op = "aligned" =>
               FindLabel(parsed', origin'["header"][j].name) # 0
<1>1. /\ origin' = origin /\ Consumed \in Nat
      /\ Consumed' = IF NextPart = "header" THEN Consumed + 1 ELSE Consumed
      /\ NextPart = "header" => Current = origin["header"][Consumed + 1]
    BY ReadsHeader, ReadsLine DEF LinesTyped
<1>2. ASSUME NEW j \in 1 .. Consumed', origin["header"][j].op = "aligned"
      PROVE  FindLabel(parsed', origin["header"][j].name) # 0
  <2>1. CASE j \in 1 .. Consumed
    BY <1>2, <2>1 DEF Labels
  <2>2. CASE j \notin 1 .. Consumed
    <3>1. NextPart = "header" /\ j = Consumed + 1
      BY <1>1, <1>2, <2>2
    <3>2. QED BY <1>1, <1>2, <3>1
  <2>3. QED BY <2>1, <2>2
<1>3. QED BY <1>1, <1>2

\* The last line of the header is no label.
LEMMA HeaderGoesOn ==
    ASSUME LinesTyped, NEW ops, Reads(ops), NextPart = "header", Current.op \in {"aligned", "label"}
    PROVE  ~HeaderDone'
<1>1. /\ Consumed + 1 \in DOMAIN origin["header"] /\ Current = origin["header"][Consumed + 1]
      /\ Consumed' = Consumed + 1 /\ origin' = origin /\ LinesTyped'
      /\ origin \in Programs /\ Consumed \in Nat
    BY ReadsLine, ReadsHeader DEF LinesTyped
<1>2. Current.op = "aligned"
    BY ReadNames
<1>3. Consumed + 1 < Len(origin["header"]) /\ origin["header"] \in Seq(Line)
    BY <1>1, <1>2, GeneratedNames, ProgramTyped DEF Part
<1>4. text'["header"] \in Seq(Line) /\ Consumed' = Len(origin["header"]) - Len(text'["header"])
    BY <1>1 DEF LinesTyped, Consumed, Part
<1>5. Len(text'["header"]) # 0
  <2> DEFINE h == Len(origin["header"])
             t == Len(text'["header"])
             c == Consumed'
  <2>1. h \in Nat /\ t \in Nat /\ Consumed + 1 < h
    BY <1>3, <1>4
  <2>2. c = Consumed + 1 /\ c = h - t /\ Consumed \in Nat
    BY <1>1, <1>4
  <2> HIDE DEF h, t, c
  <2>3. t # 0
    BY <2>1, <2>2
  <2>4. QED BY <2>3 DEF t
<1>6. QED BY <1>5 DEF HeaderDone

\* A line that refers to a label adds none.
LEMMA Referenced ==
    ASSUME NEW p \in Seq(EntryType), NEW m, Refined(p, m), NEW e \in EntryType, e.op \notin Labelled
    PROVE  /\ Append(m, e) \in Seq(EntryType)
           /\ UniqueIn(p) => UniqueIn(Append(m, e))
           /\ \A names : NamedIn(p, names) => NamedIn(Append(m, e), names)
           /\ UniqueIn(p) => \A x : FindLabel(p, x) # 0 => FindLabel(Append(m, e), x) = FindLabel(p, x)
           /\ \A i \in DOMAIN Append(m, e) : Append(m, e)[i].op = "label" =>
                  i \in DOMAIN p /\ p[i].op = "label" /\ Append(m, e)[i].name = p[i].name
<1>1. m \in Seq(EntryType) /\ DOMAIN m = DOMAIN p
    BY DEF Refined
<1>2. /\ UniqueIn(p) => UniqueIn(m)
      /\ \A names : NamedIn(p, names) => NamedIn(m, names)
      /\ \A x : FindLabel(m, x) = FindLabel(p, x)
    BY RefinedNames
<1>3. /\ UniqueIn(m) => UniqueIn(Append(m, e))
      /\ \A names : NamedIn(m, names) => NamedIn(Append(m, e), names)
      /\ UniqueIn(m) => \A x : FindLabel(m, x) # 0 => FindLabel(Append(m, e), x) = FindLabel(m, x)
    BY <1>1, AppendNames
<1>4. ASSUME NEW i \in DOMAIN Append(m, e), Append(m, e)[i].op = "label"
      PROVE  i \in DOMAIN p /\ p[i].op = "label" /\ Append(m, e)[i].name = p[i].name
  <2>1. e.op # "label"
    BY DEF Labelled
  <2>2. i \in DOMAIN m /\ Append(m, e)[i] = m[i]
    BY <1>1, <1>4, <2>1, Appended
  <2>3. "label" \in EntryOp \ Slotted
    BY DEF EntryOp, Labelled, Slotted
  <2>4. QED BY <1>1, <1>4, <2>2, <2>3, RefinedEntry
<1>5. Append(m, e) \in Seq(EntryType)
    BY <1>1, Appended
<1>6. QED BY <1>2, <1>3, <1>4, <1>5

LEMMA LabelsAfterLabel ==
    ASSUME LinesTyped, Numbers, Labels, AssembleLabel
    PROVE  Labels'
<1> DEFINE names == Plain \cup Names(origin, {"aligned"})
<1>1. /\ parsed \in Seq(EntryType) /\ LabelEntry \in EntryType
      /\ UniqueIn(parsed) /\ NamedIn(parsed, names)
    BY LabelNumbers DEF Numbers, Labels
<1>2. /\ UNCHANGED <<Plain, Declared, origin>> /\ (HeaderDone <=> NextPart # "header")
      /\ Current.op \in {"aligned", "label"}
    BY ReadsHeader, ReadsLine DEF AssembleLabel
<1>3. names' = names
    BY <1>2 DEF Names
<1>4. HeaderDone' => HeaderDone
    BY <1>2, HeaderGoesOn DEF AssembleLabel
<1>5. CASE FindLabel(parsed, Current.name) # 0
  <2>1. parsed' = parsed
    BY <1>5 DEF AssembleLabel, Refused
  <2>2. \A j \in 1 .. Consumed' : origin'["header"][j].op = "aligned" =>
            FindLabel(parsed', origin'["header"][j].name) # 0
    BY <1>5, <2>1, DeclaredFound DEF AssembleLabel
  <2>3. QED BY <1>1, <1>2, <1>3, <1>4, <2>1, <2>2 DEF Labels
<1>6. CASE FindLabel(parsed, Current.name) = 0
  <2>1. parsed' = Append(parsed, LabelEntry) /\ LabelEntry.op = "label" /\ LabelEntry.name = Current.name
    BY <1>6 DEF AssembleLabel, LabelEntry, Entry
  <2>2. Current.name \in names
    BY <1>2, ReadNames DEF AssembleLabel
  <2> HIDE DEF names
  <2>3. /\ UniqueIn(parsed') /\ NamedIn(parsed', names)
        /\ \A x : FindLabel(parsed, x) # 0 => FindLabel(parsed', x) = FindLabel(parsed, x)
        /\ FindLabel(parsed', Current.name) = Len(parsed) + 1
    BY <1>1, <1>6, <2>1, <2>2, AppendNames DEF Labelled
  <2>4. Len(parsed) + 1 # 0
    BY <1>1
  <2>5. \A j \in 1 .. Consumed' : origin'["header"][j].op = "aligned" =>
            FindLabel(parsed', origin'["header"][j].name) # 0
    BY <2>3, <2>4, DeclaredFound DEF AssembleLabel
  <2>6. ASSUME HeaderDone', NEW i \in DOMAIN parsed', parsed'[i].op = "label"
        PROVE  parsed'[i].name \notin Declared
    <3>1. CASE i \in DOMAIN parsed
      BY <1>1, <1>4, <2>1, <2>6, <3>1, Appended DEF Labels
    <3>2. CASE i = Len(parsed) + 1
      <4>1. parsed'[i].name = Current.name
        BY <1>1, <2>1, <3>2, Appended
      <4>2. ASSUME Current.name \in Declared PROVE FALSE
        <5>1. PICK j \in DOMAIN origin["header"] :
                  origin["header"][j].op = "aligned" /\ origin["header"][j].name = Current.name
          BY <4>2, Unlisted DEF Declared
        <5>2. origin["header"] \in Seq(Line) /\ Consumed = Len(origin["header"])
          <6>1. origin["header"] \in Seq(Line)
            BY ProgramTyped DEF LinesTyped, Part
          <6>2. Len(text["header"]) = 0
            BY <1>4, <2>6 DEF HeaderDone
          <6>3. QED BY <6>1, <6>2 DEF Consumed
        <5>3. j \in 1 .. Consumed
          BY <5>2
        <5>4. QED BY <1>6, <5>1, <5>3 DEF Labels
      <4>3. QED BY <4>1, <4>2
    <3>3. QED BY <1>1, <2>1, <2>6, <3>1, <3>2, Appended
  <2>7. QED BY <1>2, <1>3, <2>3, <2>5, <2>6 DEF Labels, names
<1>7. QED BY <1>5, <1>6

LEMMA NextLabels == ASSUME LinesTyped, Numbers, Slots, Labels, AsmNext PROVE Labels'
<1> DEFINE names == Plain \cup Names(origin, {"aligned"})
<1>1. parsed \in Seq(EntryType) /\ UniqueIn(parsed) /\ NamedIn(parsed, names)
    BY DEF Numbers, Labels
<1>2. CASE Relaxes \/ Estimate \/ Finishes
  <2>1. UNCHANGED <<origin, parsed, Plain, Declared, Consumed, HeaderDone>>
    BY <1>2, OtherEntries
  <2>2. Names(origin, {"aligned"})' = Names(origin, {"aligned"})
    BY <2>1 DEF Names
  <2>3. QED BY <2>1, <2>2 DEF Labels
<1>3. CASE AssembleLabel
    BY <1>3, LabelsAfterLabel
<1>4. CASE AssembleData
  <2>1. UNCHANGED <<Plain, Declared, origin>> /\ Current.op \in {"bytes", "string"}
    BY <1>4, ReadsHeader, ReadsLine DEF AssembleData
  <2>2. names' = names
    BY <2>1 DEF Names
  <2>3. \A i \in DOMAIN parsed' : parsed'[i].op # "label"
    BY <1>4, HeaderLabels
  <2>4. /\ UniqueIn(parsed') /\ NamedIn(parsed', names)
        /\ \A x : FindLabel(parsed, x) # 0 => FindLabel(parsed', x) # 0
    <3>1. CASE UNCHANGED parsed
      BY <1>1, <3>1
    <3>2. CASE ~(UNCHANGED parsed)
      <4>1. /\ Len(parsed) \in DOMAIN parsed /\ parsed[Len(parsed)].op = "label"
            /\ DataLabels \in Seq(EntryType) /\ DataAddress \in Nat
            /\ DataValue \in EntryType /\ DataValue.op = "data"
            /\ parsed' = DataLabels \/ parsed' = Append(DataLabels, DataValue)
        BY <1>4, <3>2, DataStep
      <4>2. /\ UniqueIn(DataLabels) /\ \A x : FindLabel(DataLabels, x) = FindLabel(parsed, x)
            /\ NamedIn(DataLabels, names)
        BY <1>1, <4>1, ReservedSlot DEF DataLabels
      <4>3. CASE parsed' = DataLabels
        BY <4>2, <4>3
      <4>4. CASE parsed' = Append(DataLabels, DataValue)
        <5>1. DataValue.op \notin Labelled
          BY <4>1 DEF Labelled
        <5>2. Refined(DataLabels, DataLabels)
          BY <4>1, RefinedSame
        <5> HIDE DEF names
        <5>3. QED BY <4>1, <4>2, <4>4, <5>1, <5>2, Referenced
      <4>5. QED BY <4>1, <4>3, <4>4
    <3>3. QED BY <3>1, <3>2
  <2>5. \A j \in 1 .. Consumed' : origin'["header"][j].op = "aligned" =>
            FindLabel(parsed', origin'["header"][j].name) # 0
    BY <1>4, <2>1, <2>4, DeclaredFound DEF AssembleData
  <2>6. QED BY <2>1, <2>2, <2>3, <2>4, <2>5 DEF Labels
<1>5. CASE AssembleInstr
  <2>1. /\ UNCHANGED <<Plain, Declared, origin>> /\ (HeaderDone <=> NextPart # "header")
        /\ Current.op \in InstrOps
    BY <1>5, ReadsHeader, InstrNumbers DEF AssembleInstr
  <2>2. names' = names
    BY <2>1 DEF Names
  <2>3. /\ Refined(parsed, InstrMarked) /\ InstrEntry.op \notin Labelled /\ InstrEntry \in EntryType
        /\ parsed' = Append(InstrMarked, InstrEntry)
    BY <1>5, InstrRefines, InstrNumbers
  <2> HIDE DEF names
  <2>4. /\ UniqueIn(parsed') /\ NamedIn(parsed', names)
        /\ \A x : FindLabel(parsed, x) # 0 => FindLabel(parsed', x) = FindLabel(parsed, x)
        /\ \A i \in DOMAIN parsed' : parsed'[i].op = "label" =>
               i \in DOMAIN parsed /\ parsed[i].op = "label" /\ parsed'[i].name = parsed[i].name
    BY <1>1, <2>3, Referenced
  <2>5. \A j \in 1 .. Consumed' : origin'["header"][j].op = "aligned" =>
            FindLabel(parsed', origin'["header"][j].name) # 0
    <3>1. Current.op # "aligned" /\ \A x : FindLabel(parsed, x) # 0 => FindLabel(parsed', x) # 0
      BY <2>1, <2>4 DEF InstrOps
    <3>2. QED BY <1>5, <3>1, DeclaredFound DEF AssembleInstr
  <2>6. CASE NextPart = "header"
    <3>1. \A i \in DOMAIN parsed' : parsed'[i].op # "label"
      BY <1>5, <2>6, HeaderLabels
    <3>2. QED BY <2>1, <2>2, <2>4, <2>5, <3>1 DEF Labels, names
  <2>7. CASE NextPart # "header"
    <3>1. \A i \in DOMAIN parsed' : parsed'[i].op = "label" => parsed'[i].name \notin Declared'
      BY <2>1, <2>4, <2>7 DEF Labels
    <3>2. QED BY <2>1, <2>2, <2>4, <2>5, <3>1 DEF Labels, names
  <2>8. QED BY <2>6, <2>7
<1>6. CASE AssembleCall
  <2>1. /\ UNCHANGED <<Plain, Declared, origin>> /\ (HeaderDone <=> NextPart # "header")
        /\ Current.op = "callExt" /\ NextPart # "header"
    BY <1>6, ReadsHeader, CallNumbers, ReadNames DEF AssembleCall
  <2>2. names' = names
    BY <2>1 DEF Names
  <2>3. /\ Refined(parsed, CallMarked)
        /\ LoadEntry.op \notin Labelled /\ CallEntry.op \notin Labelled
        /\ LoadEntry \in EntryType /\ CallEntry \in EntryType
        /\ parsed' = Append(Append(CallMarked, LoadEntry), CallEntry)
    BY <1>6, CallRefines, CallNumbers
  <2> DEFINE m == Append(CallMarked, LoadEntry)
  <2>4. parsed' = Append(m, CallEntry)
    BY <2>3
  <2> HIDE DEF names
  <2>5. /\ m \in Seq(EntryType) /\ UniqueIn(m) /\ NamedIn(m, names)
        /\ \A x : FindLabel(parsed, x) # 0 => FindLabel(m, x) = FindLabel(parsed, x)
        /\ \A i \in DOMAIN m : m[i].op = "label" =>
               i \in DOMAIN parsed /\ parsed[i].op = "label" /\ m[i].name = parsed[i].name
    BY <1>1, <2>3, Referenced
  <2> HIDE DEF m
  <2>6. Refined(m, m)
    BY <2>5, RefinedSame
  <2>7. /\ UniqueIn(parsed') /\ NamedIn(parsed', names)
        /\ \A x : FindLabel(m, x) # 0 => FindLabel(parsed', x) = FindLabel(m, x)
        /\ \A i \in DOMAIN parsed' : parsed'[i].op = "label" =>
               i \in DOMAIN m /\ m[i].op = "label" /\ parsed'[i].name = m[i].name
    BY <2>3, <2>4, <2>5, <2>6, Referenced
  <2>8. \A j \in 1 .. Consumed' : origin'["header"][j].op = "aligned" =>
            FindLabel(parsed', origin'["header"][j].name) # 0
    <3>1. Current.op # "aligned" /\ \A x : FindLabel(parsed, x) # 0 => FindLabel(parsed', x) # 0
      BY <2>1, <2>5, <2>7
    <3>2. QED BY <1>6, <3>1, DeclaredFound DEF AssembleCall
  <2>9. \A i \in DOMAIN parsed' : parsed'[i].op = "label" => parsed'[i].name \notin Declared'
    BY <2>1, <2>5, <2>7 DEF Labels
  <2>10. QED BY <2>1, <2>2, <2>7, <2>8, <2>9 DEF Labels, names
<1>7. QED BY <1>2, <1>3, <1>4, <1>5, <1>6, AsmSteps

LEMMA ReferencedSlots ==
    ASSUME NEW p \in Seq(EntryType), NEW m, Refined(p, m), NEW e \in EntryType, e.op \notin Slotted
    PROVE  /\ Append(m, e) \in Seq(EntryType)
           /\ SlotsIn(p) => SlotsIn(Append(m, e))
           /\ Len(Append(m, e)) = Len(p) + 1
           /\ SlotOf(Append(m, e), Len(p) + 2) = SlotOf(p, Len(p) + 1)
<1>1. m \in Seq(EntryType) /\ Len(m) = Len(p) /\ Len(p) \in Nat
    BY DEF Refined
<1>2. /\ \A i \in 1 .. Len(p) + 1 : SlotOf(m, i) = SlotOf(p, i)
      /\ SlotsIn(p) => SlotsIn(m)
    BY RefinedSlots
<1>3. /\ SlotOf(Append(m, e), Len(m) + 2) = SlotOf(m, Len(m) + 1)
      /\ SlotsIn(m) => SlotsIn(Append(m, e))
    BY <1>1, AppendSlots
<1>4. Append(m, e) \in Seq(EntryType) /\ Len(Append(m, e)) = Len(m) + 1
    BY <1>1, Appended
<1>5. Len(p) + 1 \in 1 .. Len(p) + 1
    BY <1>1
<1>6. QED BY <1>1, <1>2, <1>3, <1>4, <1>5

LEMMA SlotsAfterLabel ==
    ASSUME LinesTyped, Numbers, Slots, AssembleLabel
    PROVE  Slots'
<1>1. /\ parsed \in Seq(EntryType) /\ LabelEntry \in EntryType /\ pos.instr \in Nat
      /\ pos \in [instr : Nat, data : Nat, staged : Nat] /\ SlotsIn(parsed)
    BY LabelNumbers DEF Numbers, Slots
<1>2. /\ HeaderDone => HeaderDone'
      /\ HeaderDone <=> NextPart # "header"
      /\ Current.op \in {"aligned", "label"} /\ origin' = origin
    BY ReadsHeader, ReadsLine DEF AssembleLabel
<1>3. CASE UNCHANGED <<parsed, pos>>
  <2>1. CASE HeaderDone'
    BY <1>1, <1>3, <2>1 DEF Slots
  <2>2. CASE ~HeaderDone'
    <3>1. \A i \in DOMAIN parsed : parsed[i].op # "label"
      BY <1>2, <2>2, NoLabelWaits DEF AssembleLabel
    <3>2. pos.instr = 4 * SlotOf(parsed, Len(parsed) + 1)
      BY <1>2, <2>2 DEF Slots
    <3>3. QED BY <1>1, <1>3, <3>1, <3>2 DEF Slots
  <2>3. QED BY <2>1, <2>2
<1>4. CASE ~UNCHANGED <<parsed, pos>>
  <2>1. /\ parsed' = Append(parsed, LabelEntry) /\ pos' = [pos EXCEPT !.instr = LabelEntry.address]
        /\ LabelEntry.op = "label" /\ LabelEntry.name = Current.name
        /\ LabelEntry.address = pos.instr + Padding(Current.op = "aligned", Current.name \in heads)
    BY <1>4 DEF AssembleLabel, LabelEntry, Entry, Refused
  <2>2. /\ SlotsIn(parsed') /\ parsed' \in Seq(EntryType)
        /\ SlotOf(parsed', Len(parsed') + 1) = SlotOf(parsed, Len(parsed) + 1)
    <3>1. Refined(parsed, parsed) /\ LabelEntry.op \notin Slotted
      BY <1>1, <2>1, RefinedSame DEF Slotted
    <3>2. /\ SlotsIn(parsed') /\ parsed' \in Seq(EntryType) /\ Len(parsed') = Len(parsed) + 1
          /\ SlotOf(parsed', Len(parsed) + 2) = SlotOf(parsed, Len(parsed) + 1)
      BY <1>1, <2>1, <3>1, ReferencedSlots
    <3>3. Len(parsed') + 1 = Len(parsed) + 2
      BY <1>1, <3>2
    <3>4. QED BY <3>2, <3>3
  <2>3. CASE HeaderDone'
    BY <2>2, <2>3 DEF Slots
  <2>4. CASE ~HeaderDone'
    <3>1. \A i \in DOMAIN parsed : parsed[i].op # "label"
      BY <1>2, <2>4, NoLabelWaits DEF AssembleLabel
    <3>2. pos.instr = 4 * SlotOf(parsed, Len(parsed) + 1) /\ SlotOf(parsed, Len(parsed) + 1) \in Nat
      <4>1. Len(parsed) + 1 \in Nat
        BY <1>1
      <4>2. QED BY <1>2, <2>4, <4>1, SlotsCounted DEF Slots
    <3>3. LabelEntry.address = pos.instr /\ pos'.instr = pos.instr
      <4> DEFINE align == Current.op = "aligned"
                 noCross == Current.name \in heads
      <4>1. align \in BOOLEAN /\ noCross \in BOOLEAN
        OBVIOUS
      <4>2. pos.instr % 4 = 0
        BY <3>2
      <4>3. LabelEntry.address = pos.instr + Padding(align, noCross)
        BY <2>1
      <4> HIDE DEF align, noCross
      <4>4. Padding(align, noCross) = 0
        BY <1>1, <4>1, <4>2, PaddingAligns
      <4>5. QED BY <1>1, <2>1, <4>3, <4>4
    <3>4. /\ Consumed' = Consumed + 1 /\ Consumed \in Nat
          /\ Current = origin["header"][Consumed + 1] /\ Current.op = "aligned"
      BY <1>2, <2>4, ReadsLine, ReadNames DEF AssembleLabel, LinesTyped
    <3>5. /\ Len(parsed') = Len(parsed) + 1
          /\ \A i \in DOMAIN parsed' : parsed'[i].op = "label" => i = Len(parsed')
          /\ parsed'[Len(parsed')] = LabelEntry
      BY <1>1, <2>1, <3>1, Appended
    <3>6. Consumed' # 0 /\ origin'["header"][Consumed'] = Current
      BY <1>2, <3>4
    <3>7. QED BY <2>1, <2>2, <3>2, <3>3, <3>4, <3>5, <3>6 DEF Slots
  <2>5. QED BY <2>3, <2>4
<1>5. QED BY <1>3, <1>4

LEMMA NextSlots == ASSUME LinesTyped, Numbers, Slots, Labels, AsmNext PROVE Slots'
<1>1. /\ parsed \in Seq(EntryType) /\ Len(parsed) \in Nat
      /\ pos.instr \in Nat /\ SlotsIn(parsed)
    BY DEF Numbers, Slots
<1>2. CASE Relaxes \/ Estimate \/ Finishes
  <2>1. UNCHANGED <<origin, parsed, pos, Consumed, HeaderDone>>
    BY <1>2, OtherEntries
  <2>2. QED BY <2>1 DEF Slots
<1>3. CASE AssembleLabel
    BY <1>3, SlotsAfterLabel
<1>4. CASE AssembleData
  <2>1. ~HeaderDone
    <3>1. Current.op \in {"bytes", "string"}
      BY <1>4, ReadsLine DEF AssembleData
    <3>2. QED BY <1>4, <3>1, ReadNames, ReadsHeader DEF AssembleData
  <2>2. \A i \in DOMAIN parsed' : parsed'[i].op # "label"
    BY <1>4, HeaderLabels
  <2>3. pos.instr = 4 * SlotOf(parsed, Len(parsed) + 1)
    BY <2>1 DEF Slots
  <2>4. SlotsIn(parsed') /\ pos'.instr = 4 * SlotOf(parsed', Len(parsed') + 1)
    <3>1. CASE UNCHANGED <<parsed, pos>>
      BY <1>1, <2>3, <3>1
    <3>2. CASE ~(UNCHANGED <<parsed, pos>>)
      <4>1. /\ Len(parsed) \in DOMAIN parsed /\ parsed[Len(parsed)].op = "label"
            /\ DataLabels \in Seq(EntryType) /\ DataAddress \in Nat
            /\ DataValue \in EntryType /\ DataValue.op = "data"
            /\ parsed' = DataLabels \/ parsed' = Append(DataLabels, DataValue)
            /\ pos'.instr = pos.instr + 4
        BY <1>4, <3>2, DataStep
      <4>2. parsed[Len(parsed)].address = 4 * SlotOf(parsed, Len(parsed) + 1)
        BY <2>1, <2>3, <4>1 DEF Slots
      <4>3. /\ SlotsIn(DataLabels) /\ Len(DataLabels) = Len(parsed)
            /\ SlotOf(DataLabels, Len(parsed) + 1) = SlotOf(parsed, Len(parsed) + 1) + 1
        BY <1>1, <4>1, <4>2, ReservedSlot DEF DataLabels
      <4>4. SlotsIn(parsed') /\ SlotOf(parsed', Len(parsed') + 1) = SlotOf(DataLabels, Len(DataLabels) + 1)
        <5>1. CASE parsed' = DataLabels
          BY <4>3, <5>1
        <5>2. CASE parsed' = Append(DataLabels, DataValue)
          <6>1. Refined(DataLabels, DataLabels) /\ DataValue.op \notin Slotted
            BY <4>1, RefinedSame DEF Slotted
          <6>2. /\ SlotsIn(parsed') /\ Len(parsed') = Len(DataLabels) + 1
                /\ SlotOf(parsed', Len(DataLabels) + 2) = SlotOf(DataLabels, Len(DataLabels) + 1)
            BY <4>1, <4>3, <5>2, <6>1, ReferencedSlots
          <6>3. Len(parsed') + 1 = Len(DataLabels) + 2
            BY <1>1, <4>3, <6>2
          <6>4. QED BY <6>2, <6>3
        <5>3. QED BY <4>1, <5>1, <5>2
      <4>5. SlotOf(parsed, Len(parsed) + 1) \in Nat
        <5>1. Len(parsed) + 1 \in Nat
          BY <1>1
        <5>2. QED BY <5>1, SlotsCounted
      <4>6. SlotOf(parsed', Len(parsed') + 1) = SlotOf(parsed, Len(parsed) + 1) + 1
        BY <4>3, <4>4
      <4> DEFINE s == SlotOf(parsed, Len(parsed) + 1)
      <4> HIDE DEF s
      <4>7. 4 * (s + 1) = 4 * s + 4
        BY <4>5 DEF s
      <4>8. QED BY <2>3, <4>1, <4>4, <4>6, <4>7 DEF s
    <3>3. QED BY <3>1, <3>2
  <2>5. QED BY <2>2, <2>4 DEF Slots
<1>5. CASE AssembleInstr
  <2>1. /\ HeaderDone => HeaderDone'
        /\ HeaderDone <=> NextPart # "header"
    BY <1>5, ReadsHeader DEF AssembleInstr
  <2>2. /\ Refined(parsed, InstrMarked) /\ InstrEntry.op \notin Slotted /\ InstrEntry \in EntryType
        /\ parsed' = Append(InstrMarked, InstrEntry)
    BY <1>5, InstrRefines, InstrNumbers DEF Slotted, Labelled
  <2>3. SlotsIn(parsed') /\ SlotOf(parsed', Len(parsed') + 1) = SlotOf(parsed, Len(parsed) + 1)
    <3>1. /\ SlotsIn(parsed') /\ Len(parsed') = Len(parsed) + 1
          /\ SlotOf(parsed', Len(parsed) + 2) = SlotOf(parsed, Len(parsed) + 1)
      BY <1>1, <2>2, ReferencedSlots
    <3>2. Len(parsed') + 1 = Len(parsed) + 2
      BY <1>1, <3>1
    <3>3. QED BY <3>1, <3>2
  <2>4. CASE HeaderDone
    BY <2>1, <2>3, <2>4 DEF Slots
  <2>5. CASE ~HeaderDone
    <3>1. \A i \in DOMAIN parsed' : parsed'[i].op # "label"
      BY <1>5, <2>1, <2>5, HeaderLabels
    <3>2. Current.op \in {"global", "json"}
      <4>1. Current.op \in InstrOps /\ Current.op \in {"aligned", "bytes", "string", "global", "json"}
        BY <1>5, <2>1, <2>5, ReadNames, InstrNumbers DEF AssembleInstr
      <4>2. QED BY <4>1 DEF InstrOps
    <3>3. pos'.instr = pos.instr
      <4>1. Emitted(Current) = 0
        BY <3>2 DEF Emitted
      <4>2. pos' = [pos EXCEPT !.instr = @ + Emitted(Current)] /\ pos \in [instr : Nat, data : Nat, staged : Nat]
        BY <1>5 DEF AssembleInstr, Numbers
      <4>3. QED BY <1>1, <4>1, <4>2
    <3>4. pos.instr = 4 * SlotOf(parsed, Len(parsed) + 1)
      BY <2>5 DEF Slots
    <3>5. QED BY <2>3, <3>1, <3>3, <3>4 DEF Slots
  <2>6. QED BY <2>4, <2>5
<1>6. CASE AssembleCall
  <2>1. HeaderDone'
    BY <1>6, ReadsHeader, CallNumbers, ReadNames DEF AssembleCall
  <2>2. /\ Refined(parsed, CallMarked)
        /\ LoadEntry.op \notin Slotted /\ CallEntry.op \notin Slotted
        /\ LoadEntry \in EntryType /\ CallEntry \in EntryType
        /\ parsed' = Append(Append(CallMarked, LoadEntry), CallEntry)
    BY <1>6, CallRefines, CallNumbers DEF Slotted, Labelled
  <2> DEFINE m == Append(CallMarked, LoadEntry)
  <2>3. parsed' = Append(m, CallEntry)
    BY <2>2
  <2>4. m \in Seq(EntryType) /\ SlotsIn(m)
    BY <1>1, <2>2, ReferencedSlots
  <2> HIDE DEF m
  <2>5. Refined(m, m)
    BY <2>4, RefinedSame
  <2>6. SlotsIn(parsed')
    BY <2>2, <2>3, <2>4, <2>5, ReferencedSlots
  <2>7. QED BY <2>1, <2>6 DEF Slots
<1>7. QED BY <1>2, <1>3, <1>4, <1>5, <1>6, AsmSteps

\* Before a program is assembled there is no entry.
LEMMA InitPlaced == AsmInit => Slots /\ Labels /\ Staged
<1> SUFFICES ASSUME AsmInit PROVE Slots /\ Labels /\ Staged
    OBVIOUS
<1>1. parsed = <<>> /\ DOMAIN parsed = {} /\ Len(parsed) = 0 /\ parsed \in Seq(EntryType)
      /\ pos.instr = 0 /\ pos.staged = 0
    BY DEF AsmInit
<1>2. Consumed = 0
    BY InitLaidOut DEF AsmInit, LaidOut
<1>3. SlotOf(parsed, Len(parsed) + 1) = 0
  <2>1. {j \in 1 .. (Len(parsed) + 1) - 1 : parsed[j].op \in Slotted} = {}
    BY <1>1
  <2>2. QED BY <2>1, FS_EmptySet DEF SlotOf
<1>4. Slots
    BY <1>1, <1>3 DEF Slots, SlotsIn
<1>5. Labels
    BY <1>1, <1>2 DEF Labels, UniqueIn, NamedIn
<1>6. Staged
  <2>1. Running(StringBytes(parsed))[0] = 0
    <3>1. Sums(Running(StringBytes(parsed)), StringBytes(parsed), 0)
      BY <1>1, BytesTyped
    <3>2. 0 \in 0 .. 0
      OBVIOUS
    <3>3. QED BY <3>1, <3>2 DEF Sums
  <2>2. QED BY <1>1, <2>1 DEF Staged, StagedIn
<1>7. QED BY <1>4, <1>5, <1>6

-------------------------------------------------------------------------------
(* Where the globals are.                                                  *)

\* The labels of p are where they were in r, and so are their data.
Stays(p, r) ==
    \A x : FindLabel(p, x) # 0 =>
        /\ FindLabel(r, x) = FindLabel(p, x)
        /\ r[FindLabel(p, x)].data = p[FindLabel(p, x)].data
        /\ p[FindLabel(p, x)].op # "label" => r[FindLabel(p, x)].op # "label"

\* What is reserved stays so after a line that reserves nothing.
LEMMA ReservedStays ==
    ASSUME LinesTyped, ReservedApart, NEW ops, Reads(ops), Current.op \notin {"bytes", "string"},
           bad' = bad, pos'.data = pos.data, Stays(parsed, parsed')
    PROVE  ReservedApart'
<1>1. /\ origin' = origin /\ Consumed \in Nat
      /\ Consumed' = IF NextPart = "header" THEN Consumed + 1 ELSE Consumed
      /\ NextPart = "header" => Current = origin["header"][Consumed + 1]
    BY ReadsHeader, ReadsLine DEF LinesTyped
<1>2. ASSUME NEW j \in 1 .. Consumed', Reservation(j) PROVE j \in 1 .. Consumed
  <2>1. ~(NextPart = "header" /\ j = Consumed + 1)
    BY <1>1, <1>2 DEF Reservation
  <2>2. QED BY <1>1, <2>1
<1>3. ASSUME ~bad, NEW j \in 1 .. Consumed, Reservation(j)
      PROVE  j > 1 /\ FindLabel(parsed, Declares(j)) # 0 /\ HasBytes(j)
  <2>1. HasBytes(j)
    BY <1>3 DEF ReservedApart
  <2>2. QED BY <2>1 DEF HasBytes
<1>4. ASSUME ~bad, NEW j \in 1 .. Consumed, Reservation(j)
      PROVE  Place(j)' = Place(j) /\ Declares(j)' = Declares(j) /\ HasBytes(j)'
  <2>1. Declares(j)' = Declares(j)
    BY <1>1 DEF Declares
  <2>2. Place(j)' = Place(j)
    BY <1>3, <1>4, <2>1 DEF Place, Stays
  <2>3. FindLabel(parsed', Declares(j)) = FindLabel(parsed, Declares(j))
    BY <1>3, <1>4 DEF Stays
  <2>4. HasBytes(j)'
    BY <1>1, <1>3, <1>4, <2>1, <2>2, <2>3 DEF HasBytes, Stays
  <2>5. QED BY <2>1, <2>2, <2>4
<1>5. ASSUME ~bad', NEW j \in 1 .. Consumed', Reservation(j)'
      PROVE  /\ HasBytes(j)'
             /\ \A k \in 1 .. Consumed' : Reservation(k)' /\ j < k =>
                    Place(j)' + origin'["header"][j].n <= Place(k)'
  <2>1. ~bad /\ Reservation(j) /\ j \in 1 .. Consumed
    BY <1>1, <1>2, <1>5 DEF Reservation
  <2>2. ASSUME NEW k \in 1 .. Consumed', Reservation(k)', j < k
        PROVE  Place(j)' + origin'["header"][j].n <= Place(k)'
    <3>1. Reservation(k) /\ k \in 1 .. Consumed
      BY <1>1, <1>2, <2>2 DEF Reservation
    <3>2. Place(j) + origin["header"][j].n <= Place(k)
      BY <2>1, <2>2, <3>1 DEF ReservedApart
    <3>3. QED BY <1>1, <1>4, <2>1, <3>1, <3>2
  <2>3. QED BY <1>4, <2>1, <2>2
<1>6. QED BY <1>5 DEF ReservedApart

\* A line that refers to a label keeps where everything is.
LEMMA ReferredStays ==
    ASSUME NEW p \in Seq(EntryType), UniqueIn(p), NEW m, Refined(p, m), NEW e \in EntryType,
           e.op \notin Labelled
    PROVE  Stays(p, Append(m, e))
<1> SUFFICES ASSUME NEW x, FindLabel(p, x) # 0
             PROVE  /\ FindLabel(Append(m, e), x) = FindLabel(p, x)
                    /\ Append(m, e)[FindLabel(p, x)].data = p[FindLabel(p, x)].data
                    /\ p[FindLabel(p, x)].op # "label" => Append(m, e)[FindLabel(p, x)].op # "label"
    BY DEF Stays
<1> DEFINE k == FindLabel(p, x)
<1>1. FindLabel(Append(m, e), x) = k
    BY Referenced
<1>2. k \in DOMAIN p
    BY Found
<1> HIDE DEF k
<1>3. m \in Seq(EntryType) /\ DOMAIN m = DOMAIN p
    BY DEF Refined
<1>4. Append(m, e)[k] = m[k]
    BY <1>2, <1>3, Appended
<1>5. m[k].data = p[k].data /\ (p[k].op = "label" <=> m[k].op = "label")
    BY <1>2, RefinedEntry DEF EntryOp, Labelled, Slotted
<1>6. QED BY <1>1, <1>4, <1>5 DEF k

LEMMA ReservesAfterData ==
    ASSUME LinesTyped, Numbers, Slots, Labels, ReservedApart, AssembleData, bad' = bad, ~bad
    PROVE  ReservedApart'
<1>1. /\ origin' = origin /\ Consumed \in Nat /\ Consumed' = Consumed + 1
      /\ Current = origin["header"][Consumed + 1] /\ Current \in Line /\ ~HeaderDone
      /\ Current.op \in {"bytes", "string"}
  <2>1. Current.op \in {"bytes", "string"}
    BY ReadsLine DEF AssembleData
  <2>2. NextPart = "header"
    BY <2>1, ReadNames DEF AssembleData
  <2>3. QED BY <2>1, <2>2, ReadsHeader, ReadsLine DEF AssembleData, LinesTyped
<1>2. parsed \in Seq(EntryType) /\ pos.data \in Nat /\ UniqueIn(parsed)
    BY DEF Numbers, Labels
<1>3. CASE UNCHANGED <<parsed, pos>> /\ NothingToReserve /\ bad' = TRUE
    BY <1>3
<1>4. CASE ~(UNCHANGED <<parsed, pos>> /\ NothingToReserve /\ bad' = TRUE)
  <2> DEFINE last == Len(parsed)
  <2>0. PICK here : here = Consumed + 1
    OBVIOUS
  <2>1. /\ last \in DOMAIN parsed /\ parsed[last].op = "label"
        /\ DataLabels \in Seq(EntryType) /\ DataAddress \in Nat
        /\ DataValue \in EntryType /\ DataValue.op = "data"
        /\ parsed' = DataLabels \/ parsed' = Append(DataLabels, DataValue)
        /\ pos'.data = DataAddress + Reserved(Current.n)
    BY <1>4, DataStep
  <2>2. /\ DOMAIN DataLabels = DOMAIN parsed
        /\ \A i \in DOMAIN parsed : i # last => DataLabels[i] = parsed[i]
        /\ DataLabels[last].op = "data_label" /\ DataLabels[last].data = DataAddress
        /\ UniqueIn(DataLabels)
        /\ \A x : FindLabel(DataLabels, x) = FindLabel(parsed, x)
    BY <1>2, <2>1, ReservedSlot DEF DataLabels
  <2>3. ASSUME NEW x, FindLabel(parsed, x) # 0
        PROVE  LET k == FindLabel(parsed, x)
               IN  FindLabel(parsed', x) = k /\ parsed'[k] = DataLabels[k] /\ k \in DOMAIN parsed
    <3>1. FindLabel(parsed, x) \in DOMAIN parsed
      BY <1>2, <2>3, Found
    <3>2. CASE parsed' = DataLabels
      BY <2>2, <3>1, <3>2
    <3>3. CASE parsed' = Append(DataLabels, DataValue)
      <4>1. DataValue.op \notin Labelled
        BY <2>1 DEF Labelled
      <4>2. FindLabel(parsed', x) = FindLabel(DataLabels, x)
        BY <2>1, <2>2, <2>3, <3>3, <4>1, AppendNames
      <4>3. parsed'[FindLabel(parsed, x)] = DataLabels[FindLabel(parsed, x)]
        BY <2>1, <2>2, <3>1, <3>3, Appended
      <4>4. QED BY <2>2, <3>1, <4>2, <4>3
    <3>4. QED BY <2>1, <3>2, <3>3
  <2>4. DataAddress >= pos.data
    BY <1>2 DEF DataAddress, Align4
  <2>5. Reserved(Current.n) \in Nat /\ Reserved(Current.n) > Current.n /\ Current.n \in Nat
    <3>1. Current.n \in Nat
      BY <1>1, LineTyped
    <3>2. QED BY <3>1 DEF Reserved
  <2>6. Consumed # 0 /\ parsed[last].name = origin["header"][Consumed].name
    BY <1>1, <2>1 DEF Slots
  <2>7. FindLabel(parsed, parsed[last].name) = last /\ last # 0
    <3>1. parsed[last].op \in Labelled
      BY <2>1 DEF Labelled
    <3>2. QED BY <1>2, <2>1, <3>1, FoundOnly
  <2> HIDE DEF last
  <2>8. /\ Declares(here)' = Declares(here) /\ FindLabel(parsed', Declares(here)) = last
        /\ Place(here)' = DataAddress /\ HasBytes(here)'
    <3>1. here \in Int /\ here > 1 /\ here - 1 = Consumed
      <4>1. Consumed \in Nat /\ Consumed # 0
        BY <1>1, <2>6
      <4>2. QED BY <2>0, <4>1
    <3>2. Declares(here) = parsed[last].name /\ Declares(here)' = Declares(here)
      BY <1>1, <2>6, <3>1 DEF Declares
    <3>3. /\ FindLabel(parsed', Declares(here)) = last /\ parsed'[last] = DataLabels[last]
      BY <2>3, <2>7, <3>2
    <3>4. Place(here)' = DataAddress
      BY <2>2, <3>2, <3>3 DEF Place
    <3>5. DataAddress + Current.n <= pos'.data
      BY <2>1, <2>5
    <3>6. QED BY <1>1, <2>2, <2>7, <3>1, <3>2, <3>3, <3>4, <3>5 DEF HasBytes
  <2>9. ASSUME NEW j \in 1 .. Consumed, Reservation(j)
        PROVE  /\ Place(j)' = Place(j) /\ HasBytes(j)' /\ Place(j) + origin["header"][j].n <= pos.data
               /\ Place(j) + origin["header"][j].n \in Nat
    <3>1. HasBytes(j)
      BY <2>9 DEF ReservedApart
    <3>2. Declares(j)' = Declares(j)
      BY <1>1 DEF Declares
    <3> DEFINE k == FindLabel(parsed, Declares(j))
    <3>3. k # 0 /\ parsed[k].op # "label" /\ j > 1 /\ Place(j) + origin["header"][j].n <= pos.data
      BY <3>1 DEF HasBytes
    <3>4. k # last
      BY <2>1, <3>3
    <3>5. FindLabel(parsed', Declares(j)) = k /\ parsed'[k] = parsed[k]
      BY <2>2, <2>3, <3>3, <3>4
    <3>6. Place(j)' = Place(j)
      BY <3>2, <3>5 DEF Place
    <3>7. Place(j) \in Nat /\ origin["header"][j].n \in Nat
      <4>1. k \in DOMAIN parsed
        BY <2>3, <3>3
      <4>2. parsed[k] \in EntryType
        BY <1>2, <4>1
      <4>3. Place(j) \in Nat
        BY <4>2 DEF Place, EntryType
      <4>4. origin["header"] \in Seq(Line) /\ j \in DOMAIN origin["header"]
        <5>1. origin["header"] \in Seq(Line) /\ Consumed + 1 \in DOMAIN origin["header"]
          BY <1>1, ReadsLine, ReadNames, ProgramTyped DEF AssembleData, LinesTyped, Part
        <5>2. QED BY <1>1, <5>1
      <4>5. origin["header"][j] \in Line
        BY <4>4
      <4>6. QED BY <4>3, <4>5, LineTyped
    <3> DEFINE end == Place(j) + origin["header"][j].n
               bytes == Reserved(Current.n)
    <3>a. end \in Nat /\ end <= pos.data
      BY <3>3, <3>7
    <3>b. pos'.data = DataAddress + bytes /\ bytes \in Nat
      BY <2>1, <2>5
    <3> HIDE DEF k, end, bytes
    <3>c. end <= pos'.data
      BY <1>2, <2>1, <2>4, <3>a, <3>b
    <3>8. Place(j) + origin["header"][j].n <= pos'.data
      BY <3>c DEF end
    <3>9. HasBytes(j)'
      BY <1>1, <3>2, <3>3, <3>5, <3>6, <3>8 DEF HasBytes
    <3>10. QED BY <3>3, <3>6, <3>9, <3>a DEF end
  <2>10. \A j \in 1 .. Consumed' : j \in 1 .. Consumed \/ j = here
    BY <1>1, <2>0
  <2>11. ASSUME NEW j \in 1 .. Consumed', Reservation(j)' PROVE HasBytes(j)'
    <3>1. Reservation(j)
      BY <1>1, <2>11 DEF Reservation
    <3>2. QED BY <2>8, <2>9, <2>10, <3>1
  <2>12. ASSUME NEW j \in 1 .. Consumed', Reservation(j)', NEW k \in 1 .. Consumed', Reservation(k)', j < k
         PROVE  Place(j)' + origin'["header"][j].n <= Place(k)'
    <3>1. Reservation(j) /\ Reservation(k)
      BY <1>1, <2>12 DEF Reservation
    <3>2. j \in 1 .. Consumed
      BY <1>1, <2>12
    <3>3. Place(j)' = Place(j) /\ Place(j) + origin["header"][j].n <= pos.data
      BY <2>9, <3>1, <3>2
    <3>4. CASE k \in 1 .. Consumed
      BY <1>1, <2>9, <2>12, <3>1, <3>2, <3>3, <3>4 DEF ReservedApart
    <3>5. CASE k = here
      <4>1. Place(j) + origin["header"][j].n \in Int
        BY <2>9, <3>1, <3>2
      <4>2. QED BY <1>1, <1>2, <2>1, <2>4, <2>8, <3>3, <3>5, <4>1
    <3>6. QED BY <2>10, <3>4, <3>5
  <2>13. QED BY <2>11, <2>12 DEF ReservedApart
<1>5. QED BY <1>3, <1>4

LEMMA JsonAppended ==
    ASSUME NEW p \in Seq(EntryType), NEW m, Refined(p, m), NEW e \in EntryType, NEW names,
           e.op = "json_binding" => e.name \in names,
           \A i \in DOMAIN p : p[i].op = "json_binding" => p[i].name \in names
    PROVE  \A i \in DOMAIN Append(m, e) :
               Append(m, e)[i].op = "json_binding" => Append(m, e)[i].name \in names
<1>1. m \in Seq(EntryType) /\ DOMAIN m = DOMAIN p /\ "json_binding" \in EntryOp \ Slotted
    BY DEF Refined, EntryOp, Slotted
<1>2. \A i \in DOMAIN m : m[i].op = "json_binding" => m[i].name \in names
    BY <1>1, RefinedEntry
<1>3. QED BY <1>1, <1>2, Appended

LEMMA NextJson == ASSUME LinesTyped, Numbers, Labels, JsonListed, AsmNext PROVE JsonListed'
<1> DEFINE names == NamesOf(origin["header"], {"json"})
<1>1. parsed \in Seq(EntryType) /\ \A i \in DOMAIN parsed : parsed[i].op = "json_binding" => parsed[i].name \in names
    BY DEF Numbers, JsonListed
<1>2. Refined(parsed, parsed)
    BY <1>1, RefinedSame
<1>3. CASE Relaxes \/ Estimate \/ Finishes
  <2>1. UNCHANGED <<origin, parsed>>
    BY <1>3, OtherEntries
  <2>2. QED BY <2>1 DEF JsonListed
<1>4. CASE AssembleLabel
  <2>1. origin' = origin
    BY <1>4, ReadsHeader DEF AssembleLabel
  <2>2. CASE parsed' = parsed
    BY <2>1, <2>2 DEF JsonListed
  <2>3. CASE parsed' # parsed
    <3>1. parsed' = Append(parsed, LabelEntry) /\ LabelEntry.op = "label" /\ LabelEntry \in EntryType
      BY <1>4, <2>3, LabelNumbers DEF AssembleLabel, Refused, LabelEntry, Entry
    <3> HIDE DEF names
    <3>2. \A i \in DOMAIN parsed' : parsed'[i].op = "json_binding" => parsed'[i].name \in names
      BY <1>1, <1>2, <3>1, JsonAppended
    <3>3. QED BY <2>1, <3>2 DEF JsonListed, names
  <2>4. QED BY <2>2, <2>3
<1>5. CASE AssembleData
  <2>1. origin' = origin
    BY <1>5, ReadsHeader DEF AssembleData
  <2>2. CASE parsed' = parsed
    BY <2>1, <2>2 DEF JsonListed
  <2>3. CASE parsed' # parsed
    <3>1. /\ Len(parsed) \in DOMAIN parsed /\ parsed[Len(parsed)].op = "label"
          /\ DataLabels \in Seq(EntryType) /\ DataAddress \in Nat
          /\ DataValue \in EntryType /\ DataValue.op = "data"
          /\ parsed' = DataLabels \/ parsed' = Append(DataLabels, DataValue)
      BY <1>5, <2>3, DataStep
    <3>2. /\ DOMAIN DataLabels = DOMAIN parsed
          /\ \A i \in DOMAIN parsed : i # Len(parsed) => DataLabels[i] = parsed[i]
          /\ DataLabels[Len(parsed)].op = "data_label"
      BY <1>1, <3>1, ReservedSlot DEF DataLabels
    <3> HIDE DEF names
    <3>3. \A i \in DOMAIN DataLabels : DataLabels[i].op = "json_binding" => DataLabels[i].name \in names
      BY <1>1, <3>2
    <3>4. Refined(DataLabels, DataLabels)
      BY <3>1, RefinedSame
    <3>5. \A i \in DOMAIN Append(DataLabels, DataValue) :
              Append(DataLabels, DataValue)[i].op = "json_binding" => Append(DataLabels, DataValue)[i].name \in names
      BY <3>1, <3>3, <3>4, JsonAppended
    <3>6. QED BY <2>1, <3>1, <3>3, <3>5 DEF JsonListed, names
  <2>4. QED BY <2>2, <2>3
<1>6. CASE AssembleInstr
  <2>1. origin' = origin /\ Current.op \in InstrOps
    BY <1>6, ReadsHeader, InstrNumbers DEF AssembleInstr
  <2>2. /\ Refined(parsed, InstrMarked) /\ InstrEntry \in EntryType
        /\ parsed' = Append(InstrMarked, InstrEntry)
        /\ InstrEntry.op = Kind(Current.op) /\ InstrEntry.name = Current.name
    BY <1>6, InstrRefines, InstrNumbers DEF InstrEntry, Entry
  <2>3. InstrEntry.op = "json_binding" => InstrEntry.name \in names
    <3> SUFFICES ASSUME InstrEntry.op = "json_binding" PROVE Current.name \in names
      BY <2>2
    <3>1. Current.op = "json"
      BY <2>1, <2>2 DEF Kind, InstrOps
    <3>2. Consumed + 1 \in DOMAIN origin["header"] /\ Current = origin["header"][Consumed + 1]
      BY <1>6, <3>1, ReadNames, ReadsLine DEF AssembleInstr
    <3>3. QED BY <3>1, <3>2, Listed
  <2> HIDE DEF names
  <2>4. \A i \in DOMAIN parsed' : parsed'[i].op = "json_binding" => parsed'[i].name \in names
    BY <1>1, <2>2, <2>3, JsonAppended
  <2>5. QED BY <2>1, <2>4 DEF JsonListed, names
<1>7. CASE AssembleCall
  <2>1. origin' = origin
    BY <1>7, ReadsHeader DEF AssembleCall
  <2>2. /\ Refined(parsed, CallMarked) /\ LoadEntry \in EntryType /\ CallEntry \in EntryType
        /\ parsed' = Append(Append(CallMarked, LoadEntry), CallEntry)
        /\ LoadEntry.op = "jump_32aligned" /\ CallEntry.op = "standard"
    BY <1>7, CallRefines, CallNumbers DEF LoadEntry, CallEntry, Entry
  <2> DEFINE m == Append(CallMarked, LoadEntry)
  <2> HIDE DEF names
  <2>3. m \in Seq(EntryType) /\ \A i \in DOMAIN m : m[i].op = "json_binding" => m[i].name \in names
    BY <1>1, <2>2, Appended, JsonAppended DEF Refined
  <2>4. parsed' = Append(m, CallEntry)
    BY <2>2
  <2> HIDE DEF m
  <2>5. Refined(m, m)
    BY <2>3, RefinedSame
  <2>6. \A i \in DOMAIN parsed' : parsed'[i].op = "json_binding" => parsed'[i].name \in names
    BY <2>2, <2>3, <2>4, <2>5, JsonAppended
  <2>7. QED BY <2>1, <2>6 DEF JsonListed, names
<1>8. QED BY <1>3, <1>4, <1>5, <1>6, <1>7, AsmSteps

LEMMA NextReserved ==
    ASSUME LinesTyped, Numbers, Slots, Labels, ReservedApart, AsmNext
    PROVE  ReservedApart'
<1>1. parsed \in Seq(EntryType) /\ UniqueIn(parsed) /\ pos \in [instr : Nat, data : Nat, staged : Nat]
    BY DEF Numbers, Labels
<1>2. CASE Relaxes \/ Estimate \/ Finishes
  <2>1. UNCHANGED <<origin, parsed, pos, Consumed, bad>>
    BY <1>2, OtherEntries
  <2>2. QED BY <2>1 DEF ReservedApart, Reservation, HasBytes, Place, Declares
<1>3. CASE bad' = TRUE
    BY <1>3 DEF ReservedApart
<1>4. CASE AssembleLabel /\ bad' # TRUE
  <2>1. /\ parsed' = Append(parsed, LabelEntry) /\ FindLabel(parsed, LabelEntry.name) = 0
        /\ LabelEntry \in EntryType /\ pos'.data = pos.data /\ bad' = bad
    BY <1>1, <1>4, LabelNumbers DEF AssembleLabel, Refused, LabelEntry, Entry
  <2>2. Current.op \notin {"bytes", "string"}
    BY <1>4, ReadsLine DEF AssembleLabel
  <2>3. \A x : FindLabel(parsed, x) # 0 => FindLabel(parsed', x) = FindLabel(parsed, x)
    <3>1. LabelEntry.op \in Labelled => FindLabel(parsed, LabelEntry.name) = 0 /\ LabelEntry.name \in {LabelEntry.name}
      BY <2>1
    <3>2. QED BY <1>1, <2>1, <3>1, AppendNames
  <2>4. Stays(parsed, parsed')
  <3> SUFFICES ASSUME NEW x, FindLabel(parsed, x) # 0
               PROVE  /\ FindLabel(parsed', x) = FindLabel(parsed, x)
                      /\ parsed'[FindLabel(parsed, x)] = parsed[FindLabel(parsed, x)]
    BY DEF Stays
  <3>1. FindLabel(parsed, x) \in DOMAIN parsed
    BY <1>1, Found
  <3>2. QED BY <1>1, <2>1, <2>3, <3>1, Appended
  <2>5. QED BY <1>4, <2>1, <2>2, <2>4, ReservedStays DEF AssembleLabel
<1>5. CASE AssembleData /\ bad' # TRUE
  <2>1. CASE ~bad
    BY <1>5, <2>1, DataStep, ReservesAfterData
  <2>2. CASE bad
    BY <1>5, <2>2, DataStep DEF ReservedApart
  <2>3. QED BY <2>1, <2>2
<1>6. CASE AssembleInstr
  <2>1. /\ Refined(parsed, InstrMarked) /\ InstrEntry.op \notin Labelled /\ InstrEntry \in EntryType
        /\ parsed' = Append(InstrMarked, InstrEntry) /\ Current.op \notin {"bytes", "string"}
    BY <1>6, InstrRefines, InstrNumbers DEF InstrOps
  <2>2. bad' = bad /\ pos'.data = pos.data
    BY <1>1, <1>6 DEF AssembleInstr
  <2>3. Stays(parsed, parsed')
    BY <1>1, <2>1, ReferredStays
  <2>4. QED BY <1>6, <2>1, <2>2, <2>3, ReservedStays DEF AssembleInstr
<1>7. CASE AssembleCall
  <2>1. /\ Refined(parsed, CallMarked)
        /\ LoadEntry.op \notin Labelled /\ CallEntry.op \notin Labelled
        /\ LoadEntry \in EntryType /\ CallEntry \in EntryType
        /\ parsed' = Append(Append(CallMarked, LoadEntry), CallEntry) /\ Current.op \notin {"bytes", "string"}
    BY <1>7, CallRefines, CallNumbers
  <2>2. bad' = bad /\ pos'.data = pos.data
    BY <1>1, <1>7 DEF AssembleCall
  <2> DEFINE m == Append(CallMarked, LoadEntry)
  <2>3. m \in Seq(EntryType) /\ UniqueIn(m)
    BY <1>1, <2>1, Referenced
  <2>4. Stays(parsed, m)
    BY <1>1, <2>1, ReferredStays
  <2>5. parsed' = Append(m, CallEntry)
    BY <2>1
  <2> HIDE DEF m
  <2>6. Refined(m, m)
    BY <2>3, RefinedSame
  <2>7. Stays(m, parsed')
    BY <2>1, <2>3, <2>5, <2>6, ReferredStays
  <2>8. Stays(parsed, parsed')
    BY <2>4, <2>7 DEF Stays
  <2>9. QED BY <1>7, <2>1, <2>2, <2>8, ReservedStays DEF AssembleCall
<1>8. QED BY <1>2, <1>3, <1>4, <1>5, <1>6, <1>7, AsmSteps

LEMMA InitReserves == AsmInit => Reserves
<1> SUFFICES ASSUME AsmInit PROVE Reserves
    OBVIOUS
<1>1. DOMAIN parsed = {} /\ Consumed = 0
    BY InitLaidOut DEF AsmInit, LaidOut
<1>2. QED BY <1>1 DEF Reserves, ReservedApart, JsonListed

-------------------------------------------------------------------------------
(* The code fits the buffer that the estimate allocates.                   *)

\* What the first line counts for.
LEMMA NumberTail ==
    ASSUME NEW t \in Seq(Line), t # <<>>, NEW ops
    PROVE  Number(t, ops) = (IF Head(t).op \in ops THEN Count(Head(t)) ELSE 0) + Number(Tail(t), ops)
<1> DEFINE r == Tail(t)
           n == Len(r)
           g == [k \in DOMAIN t |-> IF t[k].op \in ops THEN Count(t[k]) ELSE 0]
           h == [k \in DOMAIN r |-> IF r[k].op \in ops THEN Count(r[k]) ELSE 0]
<1>1. /\ Head(t) = t[1] /\ 1 \in DOMAIN t /\ r \in Seq(Line) /\ n = Len(t) - 1
      /\ \A i \in DOMAIN r : i + 1 \in DOMAIN t /\ r[i] = t[i + 1]
    BY Tailed
<1>2. Number(t, ops) = Running(g)[Len(t)] /\ Number(r, ops) = Running(h)[n]
    BY DEF Number, Total, SumTo
<1> HIDE DEF r
<1>3. n \in Nat /\ Len(t) = n + 1 /\ DOMAIN t = 1 .. n + 1 /\ DOMAIN r = 1 .. n
    BY <1>1
<1> HIDE DEF n
<1>4. Len(g) = n + 1 /\ Len(h) = n
    BY <1>3
<1>5. \A k \in 1 .. n + 1 : g[k] \in Nat
  <2>1. \A k \in DOMAIN t : t[k] \in Line
    OBVIOUS
  <2>2. QED BY <1>3, <2>1, CountNat
<1>6. \A k \in 1 .. n : h[k] = g[k + 1]
    BY <1>1, <1>3
<1>7. g[1] = IF Head(t).op \in ops THEN Count(Head(t)) ELSE 0
    BY <1>1
<1> HIDE DEF g, h
<1>8. Running(g)[n + 1] = g[1] + Running(h)[n]
    BY <1>3, <1>4, <1>5, <1>6, SumsTail
<1>9. QED BY <1>2, <1>3, <1>7, <1>8 DEF r

LEMMA StagingTail ==
    ASSUME NEW t \in Seq(Line), t # <<>>
    PROVE  Staging(t) = (IF Head(t).op = "string" THEN Reserved(Head(t).n) ELSE 0) + Staging(Tail(t))
<1> DEFINE r == Tail(t)
           n == Len(r)
           g == [k \in DOMAIN t |-> IF t[k].op = "string" THEN Reserved(t[k].n) ELSE 0]
           h == [k \in DOMAIN r |-> IF r[k].op = "string" THEN Reserved(r[k].n) ELSE 0]
<1>1. /\ Head(t) = t[1] /\ 1 \in DOMAIN t /\ r \in Seq(Line) /\ n = Len(t) - 1
      /\ \A i \in DOMAIN r : i + 1 \in DOMAIN t /\ r[i] = t[i + 1]
    BY Tailed
<1>2. Staging(t) = Running(g)[Len(t)] /\ Staging(r) = Running(h)[n]
    BY DEF Staging, Total, SumTo
<1> HIDE DEF r
<1>3. n \in Nat /\ Len(t) = n + 1 /\ DOMAIN t = 1 .. n + 1 /\ DOMAIN r = 1 .. n
    BY <1>1
<1> HIDE DEF n
<1>4. Len(g) = n + 1 /\ Len(h) = n
    BY <1>3
<1>5. \A k \in 1 .. n + 1 : g[k] \in Nat
  <2>1. \A k \in DOMAIN t : t[k].n \in Nat
    BY LineTyped
  <2>2. QED BY <1>3, <2>1 DEF Reserved
<1>6. \A k \in 1 .. n : h[k] = g[k + 1]
    BY <1>1, <1>3
<1>7. g[1] = IF Head(t).op = "string" THEN Reserved(Head(t).n) ELSE 0
    BY <1>1
<1> HIDE DEF g, h
<1>8. Running(g)[n + 1] = g[1] + Running(h)[n]
    BY <1>3, <1>4, <1>5, <1>6, SumsTail
<1>9. QED BY <1>2, <1>3, <1>7, <1>8 DEF r

\* Lines of more kinds count for more.
LEMMA NumberBelow ==
    ASSUME NEW t \in Seq(Line), NEW ops, NEW more, ops \subseteq more
    PROVE  Number(t, ops) <= Number(t, more)
<1> DEFINE n == Len(t)
           g == [k \in DOMAIN t |-> IF t[k].op \in ops THEN Count(t[k]) ELSE 0]
           h == [k \in DOMAIN t |-> IF t[k].op \in more THEN Count(t[k]) ELSE 0]
<1>1. n \in Nat /\ Len(g) = n /\ Len(h) = n /\ DOMAIN t = 1 .. n
    OBVIOUS
<1>2. \A k \in 1 .. n : g[k] \in Nat /\ h[k] \in Nat /\ g[k] <= h[k]
  <2>1. \A k \in DOMAIN t : Count(t[k]) \in Nat
    BY CountNat
  <2>2. QED BY <1>1, <2>1
<1>3. Number(t, ops) = Running(g)[n] /\ Number(t, more) = Running(h)[n]
    BY DEF Number, Total, SumTo
<1> HIDE DEF n, g, h
<1>4. QED BY <1>1, <1>2, <1>3, SumsBelow

\* What the estimate counts for the lines of code and footer, and for one.
NeedOf(t) == Number(t, {"aligned"}) * 4 + (Number(t, Op) - Number(t, {"label"})) * 3
             + Number(t, {"callExt"}) * 3
NeedLine(l) ==
    CASE l.op = "aligned" -> 7
      [] l.op = "label"   -> 0
      [] l.op = "callExt" -> 6 * l.n
      [] l.op = "code"    -> 3 * l.n
      [] OTHER            -> 3

LEMMA NeedNat == ASSUME NEW t \in Seq(Line) PROVE NeedOf(t) \in Nat
<1> DEFINE a1 == Number(t, {"aligned"})
           a2 == Number(t, Op)
           a3 == Number(t, {"label"})
           a4 == Number(t, {"callExt"})
<1>1. a1 \in Nat /\ a2 \in Nat /\ a3 \in Nat /\ a4 \in Nat
    BY NumberNat, Zenon
<1>2. a3 <= a2
  <2>1. {"label"} \subseteq Op
    BY DEF Op
  <2>2. QED BY <2>1, NumberBelow
<1>3. NeedOf(t) = a1 * 4 + (a2 - a3) * 3 + a4 * 3
    BY Zenon DEF NeedOf
<1> HIDE DEF a1, a2, a3, a4
<1>4. QED BY <1>1, <1>2, <1>3

LEMMA NeedTail ==
    ASSUME NEW t \in Seq(Line), t # <<>>
    PROVE  NeedOf(t) = NeedLine(Head(t)) + NeedOf(Tail(t))
<1> DEFINE l == Head(t)
           r == Tail(t)
           one(ops) == IF l.op \in ops THEN Count(l) ELSE 0
           a1 == Number(t, {"aligned"})
           a2 == Number(t, Op)
           a3 == Number(t, {"label"})
           a4 == Number(t, {"callExt"})
           b1 == Number(r, {"aligned"})
           b2 == Number(r, Op)
           b3 == Number(r, {"label"})
           b4 == Number(r, {"callExt"})
           c1 == one({"aligned"})
           c2 == one(Op)
           c3 == one({"label"})
           c4 == one({"callExt"})
<1>1. l \in Line /\ r \in Seq(Line)
    BY Tailed
<1>2. b1 \in Nat /\ b2 \in Nat /\ b3 \in Nat /\ b4 \in Nat
    BY <1>1, NumberNat, Zenon
<1>3. a1 = c1 + b1 /\ a2 = c2 + b2 /\ a3 = c3 + b3 /\ a4 = c4 + b4
    BY NumberTail, Zenon
<1>4. NeedOf(t) = a1 * 4 + (a2 - a3) * 3 + a4 * 3 /\ NeedOf(r) = b1 * 4 + (b2 - b3) * 3 + b4 * 3
    BY Zenon DEF NeedOf
<1> HIDE DEF a1, a2, a3, a4, b1, b2, b3, b4, r
<1>5. l.n \in Nat /\ l.op \in Op
    BY <1>1, LineTyped
<1> HIDE DEF l
<1>6. /\ c1 \in Nat /\ c2 \in Nat /\ c3 \in Nat /\ c4 \in Nat
      /\ NeedLine(l) = c1 * 4 + (c2 - c3) * 3 + c4 * 3
    BY <1>5 DEF NeedLine, Count, Op
<1> HIDE DEF c1, c2, c3, c4
<1>7. NeedOf(t) = NeedLine(l) + NeedOf(r)
    BY <1>2, <1>3, <1>4, <1>6
<1>8. QED BY <1>7 DEF l, r

-------------------------------------------------------------------------------
(* What is left of the buffer.                                             *)

\* The lines left to assemble after the header, the loop heads whose label is
\* still to come, and the room that the estimate counted for all of them: what
\* is taken and what is left never exceed it.
CodeLines == text["content"] \o text["footer"]
Unfound == {x \in heads : FindLabel(parsed, x) = 0}
HeaderNeed == Number(text["header"], {"bytes", "string"})
CodeRoom == pos.instr + NeedOf(CodeLines) + 4 * HeaderNeed + 2 * Cardinality(Unfound) <= size.instr
StagingRoom == size.instr + pos.staged + Staging(text["header"]) <= size.tmp
Room ==
    IF phase \in {"relax", "estimate"} THEN pos.instr = 0 /\ pos.staged = 0 /\ parsed = <<>>
    ELSE IsFiniteSet(heads) /\ CodeRoom /\ StagingRoom

LEMMA NeedsNat ==
    ASSUME LinesTyped
    PROVE  NeedOf(CodeLines) \in Nat /\ HeaderNeed \in Nat /\ Staging(text["header"]) \in Nat
<1>1. text["header"] \in Seq(Line) /\ text["content"] \in Seq(Line) /\ text["footer"] \in Seq(Line)
    BY DEF LinesTyped, Part
<1>2. CodeLines \in Seq(Line)
    BY <1>1 DEF CodeLines
<1>3. NeedOf(CodeLines) \in Nat
    BY <1>2, NeedNat
<1>4. HeaderNeed \in Nat /\ Staging(text["header"]) \in Nat
    BY <1>1, NumberNat, StagingNat DEF HeaderNeed
<1>5. QED BY <1>3, <1>4

LEMMA UnfoundNat ==
    ASSUME IsFiniteSet(heads)
    PROVE  IsFiniteSet(Unfound) /\ Cardinality(Unfound) \in Nat
<1>1. Unfound \subseteq heads
    BY DEF Unfound
<1>2. IsFiniteSet(Unfound)
    BY <1>1, FS_Subset
<1>3. QED BY <1>2, FS_CardinalityType

\* What a line that is read counted for.
LEMMA ReadNeeds ==
    ASSUME LinesTyped, NEW ops, Reads(ops)
    PROVE  /\ NextPart = "header" =>
                  /\ NeedOf(CodeLines)' = NeedOf(CodeLines)
                  /\ HeaderNeed = (IF Current.op \in {"bytes", "string"} THEN 1 ELSE 0) + HeaderNeed'
                  /\ Staging(text["header"])
                         = (IF Current.op = "string" THEN Reserved(Current.n) ELSE 0)
                           + Staging(text'["header"])
           /\ NextPart # "header" =>
                  /\ NeedOf(CodeLines) = NeedLine(Current) + NeedOf(CodeLines)'
                  /\ HeaderNeed' = HeaderNeed
                  /\ Staging(text'["header"]) = Staging(text["header"])
<1>1. /\ text["header"] \in Seq(Line) /\ text["content"] \in Seq(Line) /\ text["footer"] \in Seq(Line)
      /\ DOMAIN text = Part
    BY DEF LinesTyped, Part
<1>2. /\ text[NextPart] # <<>> /\ Current = Head(text[NextPart])
      /\ text' = [text EXCEPT ![NextPart] = Tail(text[NextPart])]
    BY DEF Reads, Current
<1>3. CASE NextPart = "header"
  <2>1. /\ text'["header"] = Tail(text["header"]) /\ text'["content"] = text["content"]
        /\ text'["footer"] = text["footer"]
    BY <1>1, <1>2, <1>3 DEF Part
  <2>2. CodeLines' = CodeLines
    BY <2>1 DEF CodeLines
  <2>3. PICK t : t = text["header"]
    OBVIOUS
  <2>4. t \in Seq(Line) /\ t # <<>> /\ Current = Head(t) /\ text'["header"] = Tail(t)
    BY <1>1, <1>2, <1>3, <2>1, <2>3
  <2>5. HeaderNeed = (IF Current.op \in {"bytes", "string"} THEN Count(Current) ELSE 0) + HeaderNeed'
    <3>1. Number(t, {"bytes", "string"})
              = (IF Head(t).op \in {"bytes", "string"} THEN Count(Head(t)) ELSE 0)
                + Number(Tail(t), {"bytes", "string"})
      BY <2>4, NumberTail
    <3>2. QED BY <2>3, <2>4, <3>1 DEF HeaderNeed
  <2>6. Current.op \in {"bytes", "string"} => Count(Current) = 1
    BY DEF Count
  <2>7. Staging(t) = (IF Head(t).op = "string" THEN Reserved(Head(t).n) ELSE 0) + Staging(Tail(t))
    BY <2>4, StagingTail
  <2>8. NeedOf(CodeLines)' = NeedOf(CodeLines)
    BY <2>2
  <2>9. QED BY <1>3, <2>3, <2>4, <2>5, <2>6, <2>7, <2>8
<1>4. CASE NextPart # "header"
  <2>1. NextPart = IF text["content"] # <<>> THEN "content" ELSE "footer"
    BY <1>4 DEF NextPart
  <2>2. text'["header"] = text["header"]
    BY <1>1, <1>2, <2>1 DEF Part
  <2>3. CodeLines \in Seq(Line) /\ CodeLines # <<>> /\ Current = Head(CodeLines)
        /\ CodeLines' = Tail(CodeLines)
    <3>1. CASE text["content"] # <<>>
      <4>1. PICK c, f : c = text["content"] /\ f = text["footer"]
        OBVIOUS
      <4>2. /\ Current = Head(c) /\ text'["content"] = Tail(c) /\ text'["footer"] = f
            /\ c \in Seq(Line) /\ f \in Seq(Line) /\ c # <<>>
        BY <1>1, <1>2, <2>1, <3>1, <4>1 DEF Part
      <4>3. c \o f \in Seq(Line) /\ c \o f # <<>> /\ Head(c \o f) = Head(c)
        BY <4>2
      <4>4. Tail(c \o f) = Tail(c) \o f
        BY <4>2
      <4>5. QED BY <4>1, <4>2, <4>3, <4>4 DEF CodeLines
    <3>2. CASE text["content"] = <<>>
      <4>1. PICK f : f = text["footer"]
        OBVIOUS
      <4>2. /\ Current = Head(f) /\ text'["content"] = <<>> /\ text'["footer"] = Tail(f)
            /\ f \in Seq(Line) /\ f # <<>>
        BY <1>1, <1>2, <2>1, <3>2, <4>1 DEF Part
      <4>3. <<>> \o f = f /\ <<>> \o Tail(f) = Tail(f)
        BY <4>2
      <4>4. QED BY <3>2, <4>1, <4>2, <4>3 DEF CodeLines
    <3>3. QED BY <3>1, <3>2
  <2>4. PICK t : t = CodeLines
    OBVIOUS
  <2>5. NeedOf(t) = NeedLine(Head(t)) + NeedOf(Tail(t))
    BY <2>3, <2>4, NeedTail
  <2>6. NeedOf(CodeLines)' = NeedOf(Tail(t))
    BY <2>3, <2>4
  <2>7. HeaderNeed' = HeaderNeed
    BY <2>2 DEF HeaderNeed
  <2>8. QED BY <1>4, <2>2, <2>3, <2>4, <2>5, <2>6, <2>7
<1>5. QED BY <1>3, <1>4

\* The labels of p are labels of r.
KeepsFound(p, r) == \A x : FindLabel(p, x) # 0 => FindLabel(r, x) # 0

LEMMA AppendKeepsFound ==
    ASSUME NEW p \in Seq(EntryType), NEW e \in EntryType
    PROVE  /\ KeepsFound(p, Append(p, e))
           /\ e.op \in Labelled => FindLabel(Append(p, e), e.name) # 0
<1> DEFINE r == Append(p, e)
<1>1. /\ r \in Seq(EntryType) /\ Len(p) + 1 \in DOMAIN r /\ r[Len(p) + 1] = e
      /\ \A i \in DOMAIN p : i \in DOMAIN r /\ r[i] = p[i]
    BY Appended
<1> HIDE DEF r
<1>2. ASSUME NEW x, FindLabel(p, x) # 0 PROVE FindLabel(r, x) # 0
  <2>1. PICK i \in DOMAIN p : p[i].op \in Labelled /\ p[i].name = x
    BY <1>2, Found
  <2>2. i \in DOMAIN r /\ r[i].op \in Labelled /\ r[i].name = x
    BY <1>1, <2>1
  <2>3. QED BY <1>1, <2>2, Found
<1>3. e.op \in Labelled => FindLabel(r, e.name) # 0
    BY <1>1, Found
<1>4. QED BY <1>2, <1>3 DEF KeepsFound, r

LEMMA FewerUnfound ==
    ASSUME IsFiniteSet(heads), heads' = heads, KeepsFound(parsed, parsed')
    PROVE  /\ Cardinality(Unfound') \in Nat /\ Cardinality(Unfound) \in Nat
           /\ Cardinality(Unfound') <= Cardinality(Unfound)
           /\ \A x \in Unfound : x \notin Unfound' => Cardinality(Unfound') <= Cardinality(Unfound) - 1
<1>1. PICK U, V : U = Unfound /\ V = Unfound'
    OBVIOUS
<1>2. V \subseteq U
    BY <1>1 DEF Unfound, KeepsFound
<1>3. IsFiniteSet(U) /\ Cardinality(U) \in Nat
    BY <1>1, UnfoundNat
<1>4. IsFiniteSet(V) /\ Cardinality(V) <= Cardinality(U)
    BY <1>2, <1>3, FS_Subset
<1>5. Cardinality(V) \in Nat
    BY <1>4, FS_CardinalityType
<1>6. ASSUME NEW x \in U, x \notin V PROVE Cardinality(V) <= Cardinality(U) - 1
  <2>1. V \subseteq U \ {x} /\ IsFiniteSet(U \ {x}) /\ Cardinality(U \ {x}) = Cardinality(U) - 1
    BY <1>2, <1>3, <1>6, FS_RemoveElement
  <2>2. QED BY <2>1, FS_Subset
<1>7. QED BY <1>1, <1>3, <1>4, <1>5, <1>6

\* A line that takes no more than was counted for it leaves room for the others.
LEMMA RoomKept ==
    ASSUME LinesTyped, Numbers, Room, NEW ops, Reads(ops), NEW d \in Nat, NEW s \in Nat,
           pos'.instr = pos.instr + d, pos'.staged = pos.staged + s,
           KeepsFound(parsed, parsed'),
           NextPart = "header" =>
               /\ d <= IF Current.op \in {"bytes", "string"} THEN 4 ELSE 0
               /\ s <= IF Current.op = "string" THEN Reserved(Current.n) ELSE 0,
           NextPart # "header" =>
               /\ s = 0
               /\ \/ d <= NeedLine(Current)
                  \/ d <= NeedLine(Current) + 2 /\ \E x \in Unfound : x \notin Unfound'
    PROVE  Room'
<1>1. /\ UNCHANGED <<heads, size, phase>> /\ phase = "assemble"
      /\ LinesTyped' /\ Current \in Line
    BY ReadsLine, ReadsHeader
<1>2. IsFiniteSet(heads) /\ CodeRoom /\ StagingRoom
    BY <1>1 DEF Room
<1>3. /\ pos.instr \in Nat /\ pos.staged \in Nat /\ size.instr \in Nat /\ size.tmp \in Nat
    BY DEF Numbers
<1>4. PICK a, b, c, A, B, C, u, v :
          /\ a = NeedOf(CodeLines) /\ b = HeaderNeed /\ c = Staging(text["header"])
          /\ A = NeedOf(CodeLines)' /\ B = HeaderNeed' /\ C = Staging(text'["header"])
          /\ u = Cardinality(Unfound) /\ v = Cardinality(Unfound')
    OBVIOUS
<1>5. a \in Nat /\ b \in Nat /\ c \in Nat
    BY <1>4, NeedsNat
<1>6. A \in Nat /\ B \in Nat /\ C \in Nat
  <2>1. /\ text'["header"] \in Seq(Line) /\ text'["content"] \in Seq(Line)
        /\ text'["footer"] \in Seq(Line)
    BY <1>1 DEF LinesTyped, Part
  <2>2. CodeLines' \in Seq(Line)
    BY <2>1 DEF CodeLines
  <2>3. NeedOf(CodeLines)' \in Nat
    <3>1. PICK t : t = CodeLines'
      OBVIOUS
    <3>2. NeedOf(t) \in Nat
      BY <2>2, <3>1, NeedNat
    <3>3. QED BY <3>1, <3>2
  <2>4. HeaderNeed' \in Nat /\ Staging(text'["header"]) \in Nat
    BY <2>1, NumberNat, StagingNat DEF HeaderNeed
  <2>5. QED BY <1>4, <2>3, <2>4
<1>7. u \in Nat /\ v \in Nat /\ v <= u /\ ((\E x \in Unfound : x \notin Unfound') => v <= u - 1)
    BY <1>1, <1>2, <1>4, FewerUnfound
<1>8. pos.instr + a + 4 * b + 2 * u <= size.instr /\ size.instr + pos.staged + c <= size.tmp
    BY <1>2, <1>4 DEF CodeRoom, StagingRoom
<1>9. Current.n \in Nat /\ Reserved(Current.n) \in Nat
    BY <1>1, LineTyped DEF Reserved
<1>10. pos'.instr + A + 4 * B + 2 * v <= size.instr /\ size.instr + pos'.staged + C <= size.tmp
  <2>1. CASE NextPart = "header"
    <3>1. /\ A = a
          /\ b = (IF Current.op \in {"bytes", "string"} THEN 1 ELSE 0) + B
          /\ c = (IF Current.op = "string" THEN Reserved(Current.n) ELSE 0) + C
      BY <1>4, <2>1, ReadNeeds
    <3>2. /\ d <= IF Current.op \in {"bytes", "string"} THEN 4 ELSE 0
          /\ s <= IF Current.op = "string" THEN Reserved(Current.n) ELSE 0
      BY <2>1
    <3>3. PICK n : n = Reserved(Current.n)
      OBVIOUS
    <3>4. d + 4 * B <= 4 * b /\ s + C <= c
      BY <1>5, <1>6, <1>9, <3>1, <3>2, <3>3
    <3>5. QED BY <1>3, <1>5, <1>6, <1>7, <1>8, <3>1, <3>4
  <2>2. CASE NextPart # "header"
    <3>1. a = NeedLine(Current) + A /\ B = b /\ C = c
      BY <1>4, <2>2, ReadNeeds
    <3>2. PICK n : n = NeedLine(Current)
      OBVIOUS
    <3>3. n \in Nat
      BY <1>9, <3>2 DEF NeedLine
    <3>4. s = 0 /\ (d <= n \/ (d <= n + 2 /\ v <= u - 1))
      BY <1>7, <2>2, <3>2
    <3>5. d + A + 2 * v <= a + 2 * u
      BY <1>5, <1>6, <1>7, <3>1, <3>2, <3>3, <3>4
    <3>6. QED BY <1>3, <1>5, <1>6, <1>7, <1>8, <3>1, <3>4, <3>5
  <2>3. QED BY <2>1, <2>2
<1>11. CodeRoom' /\ StagingRoom'
  <2>1. pos'.instr + NeedOf(CodeLines)' + 4 * HeaderNeed' + 2 * Cardinality(Unfound') <= size'.instr
    BY <1>1, <1>4, <1>10
  <2>2. size'.instr + pos'.staged + Staging(text'["header"]) <= size'.tmp
    BY <1>1, <1>4, <1>10
  <2>3. QED BY <2>1, <2>2 DEF CodeRoom, StagingRoom
<1>12. QED BY <1>1, <1>2, <1>11 DEF Room

\* A refused line takes nothing.
LEMMA RefusedRoom ==
    ASSUME LinesTyped, Numbers, Room, NEW ops, Reads(ops), UNCHANGED <<parsed, pos>>
    PROVE  Room'
<1>1. pos.instr \in Nat /\ pos.staged \in Nat
    BY DEF Numbers
<1>2. pos'.instr = pos.instr + 0 /\ pos'.staged = pos.staged + 0
    BY <1>1
<1>3. KeepsFound(parsed, parsed')
    BY DEF KeepsFound
<1>4. Current.n \in Nat /\ NeedLine(Current) \in Nat
    BY ReadsLine, LineTyped DEF NeedLine
<1>5. /\ 0 \in Nat /\ 0 <= NeedLine(Current)
      /\ 0 <= IF Current.op \in {"bytes", "string"} THEN 4 ELSE 0
      /\ 0 <= IF Current.op = "string" THEN Reserved(Current.n) ELSE 0
    BY <1>4 DEF Reserved
<1>6. QED BY <1>2, <1>3, <1>5, RoomKept

LEMMA LabelRoom ==
    ASSUME LinesTyped, Numbers, Slots, Room, AssembleLabel
    PROVE  Room'
<1>1. CASE UNCHANGED <<parsed, pos>>
    BY <1>1, RefusedRoom DEF AssembleLabel
<1>2. CASE ~UNCHANGED <<parsed, pos>>
  <2> DEFINE align == Current.op = "aligned"
             noCross == Current.name \in heads
  <2>1. /\ parsed' = Append(parsed, LabelEntry) /\ pos' = [pos EXCEPT !.instr = LabelEntry.address]
        /\ LabelEntry.op = "label" /\ LabelEntry.name = Current.name
        /\ LabelEntry.address = pos.instr + Padding(align, noCross)
        /\ FindLabel(parsed, Current.name) = 0
        /\ Reads({"aligned", "label"}) /\ Current.op \in {"aligned", "label"}
    BY <1>2 DEF AssembleLabel, LabelEntry, Entry, Refused, Reads, Current
  <2>2. /\ LabelEntry \in EntryType /\ parsed \in Seq(EntryType) /\ pos.instr \in Nat
        /\ pos.staged \in Nat /\ pos \in [instr : Nat, data : Nat, staged : Nat]
    BY LabelNumbers DEF Numbers
  <2>3. KeepsFound(parsed, parsed') /\ FindLabel(parsed', Current.name) # 0
    BY <2>1, <2>2, AppendKeepsFound DEF Labelled
  <2>4. PICK d : d = Padding(align, noCross)
    OBVIOUS
  <2>5. /\ d \in Nat /\ d <= 5 /\ (~align => d <= 2) /\ (~align /\ ~noCross => d = 0)
        /\ pos.instr % 4 = 0 => d = 0
    BY <2>2, <2>4 DEF Padding
  <2>6. pos'.instr = pos.instr + d /\ pos'.staged = pos.staged + 0
    BY <2>1, <2>2, <2>4
  <2>7. NextPart = "header" => d = 0
    <3>1. SUFFICES ASSUME NextPart = "header" PROVE pos.instr % 4 = 0
      BY <2>5
    <3>2. ~HeaderDone
      BY <2>1, <3>1, ReadsHeader
    <3>3. pos.instr = 4 * SlotOf(parsed, Len(parsed) + 1) /\ SlotOf(parsed, Len(parsed) + 1) \in Nat
      <4>1. Len(parsed) + 1 \in Nat
        BY <2>2
      <4>2. QED BY <3>2, <4>1, SlotsCounted DEF Slots
    <3>4. QED BY <3>3
  <2>8. \/ d <= NeedLine(Current)
        \/ d <= NeedLine(Current) + 2 /\ \E x \in Unfound : x \notin Unfound'
    <3>1. CASE align
      BY <2>5, <3>1 DEF NeedLine
    <3>2. CASE ~align
      <4>1. Current.op = "label" /\ NeedLine(Current) = 0
        BY <2>1, <3>2 DEF NeedLine
      <4>2. CASE ~noCross
        BY <2>5, <3>2, <4>1, <4>2
      <4>3. CASE noCross
        <5>1. Current.name \in Unfound /\ Current.name \notin Unfound'
          BY <2>1, <2>3, <4>3 DEF Unfound
        <5>2. QED BY <2>5, <3>2, <4>1, <5>1
      <4>4. QED BY <4>2, <4>3
    <3>3. QED BY <3>1, <3>2
  <2>9. /\ 0 \in Nat
        /\ 0 <= IF Current.op = "string" THEN Reserved(Current.n) ELSE 0
        /\ 0 <= IF Current.op \in {"bytes", "string"} THEN 4 ELSE 0
    BY <2>1
  <2> HIDE DEF align, noCross
  <2>10. QED BY <2>1, <2>3, <2>5, <2>6, <2>7, <2>8, <2>9, RoomKept
<1>3. QED BY <1>1, <1>2

LEMMA DataRoom ==
    ASSUME LinesTyped, Numbers, Room, AssembleData
    PROVE  Room'
<1>1. CASE UNCHANGED <<parsed, pos>>
    BY <1>1, RefusedRoom DEF AssembleData
<1>2. CASE ~UNCHANGED <<parsed, pos>>
  <2>1. /\ Len(parsed) \in DOMAIN parsed /\ parsed[Len(parsed)].op = "label"
        /\ DataLabels \in Seq(EntryType) /\ DataAddress \in Nat
        /\ \/ Current.op # "string" /\ parsed' = DataLabels /\ pos'.staged = pos.staged
           \/ /\ Current.op = "string" /\ parsed' = Append(DataLabels, DataValue)
              /\ pos'.staged = pos.staged + DataValue.size
        /\ DataValue \in EntryType
        /\ pos'.instr = pos.instr + 4
    BY <1>2, DataStep
  <2>2. /\ Reads({"bytes", "string"}) /\ Current.op \in {"bytes", "string"} /\ NextPart = "header"
        /\ Current \in Line
    BY ReadsLine, ReadNames DEF AssembleData
  <2>3. parsed \in Seq(EntryType) /\ pos.instr \in Nat /\ pos.staged \in Nat
    BY DEF Numbers
  <2>4. \A x : FindLabel(DataLabels, x) = FindLabel(parsed, x)
    BY <2>1, <2>3, ReservedSlot DEF DataLabels
  <2>5. KeepsFound(parsed, parsed')
    <3>1. KeepsFound(DataLabels, Append(DataLabels, DataValue))
      BY <2>1, AppendKeepsFound
    <3>2. QED BY <2>1, <2>4, <3>1 DEF KeepsFound
  <2>6. PICK s : s = IF Current.op = "string" THEN DataValue.size ELSE 0
    OBVIOUS
  <2>7. s \in Nat /\ s <= IF Current.op = "string" THEN Reserved(Current.n) ELSE 0
    <3>1. DataValue.size = Word16(Reserved(Current.n)) /\ Current.n \in Nat
      BY <2>2, LineTyped DEF DataValue, StagedAfter, Entry
    <3>2. PICK n : n = Reserved(Current.n)
      OBVIOUS
    <3>3. n \in Nat
      BY <3>1, <3>2 DEF Reserved
    <3>4. Word16(n) \in Nat /\ Word16(n) <= n
      BY <3>3 DEF Word16
    <3>5. QED BY <2>6, <3>1, <3>2, <3>4
  <2>8. pos'.instr = pos.instr + 4 /\ pos'.staged = pos.staged + s
    BY <2>1, <2>3, <2>6
  <2>9. 4 \in Nat /\ 4 <= IF Current.op \in {"bytes", "string"} THEN 4 ELSE 0
    BY <2>2
  <2>10. QED BY <2>2, <2>5, <2>7, <2>8, <2>9, RoomKept
<1>3. QED BY <1>1, <1>2

LEMMA InstrRoom ==
    ASSUME LinesTyped, Numbers, Labels, Room, AssembleInstr
    PROVE  Room'
<1>1. /\ Reads(InstrOps) /\ Current.op \in InstrOps /\ Current \in Line
      /\ NextPart = "header" => Current.op \in {"global", "json"}
    BY ReadsLine, ReadNames DEF AssembleInstr, InstrOps
<1>2. /\ parsed' = Append(InstrMarked, InstrEntry) /\ InstrEntry \in EntryType
      /\ parsed \in Seq(EntryType) /\ UniqueIn(parsed)
    BY InstrNumbers DEF Numbers, Labels
<1>3. KeepsFound(parsed, parsed')
    BY <1>2, InstrRefines, Referenced DEF KeepsFound
<1>4. PICK d : d = Emitted(Current)
    OBVIOUS
<1>5. Current.n \in Nat
    BY <1>1, LineTyped
<1>6. /\ d \in Nat /\ d <= NeedLine(Current)
      /\ Current.op \in {"global", "json"} => d = 0
    BY <1>1, <1>4, <1>5 DEF Emitted, NeedLine, InstrOps
<1>7. pos'.instr = pos.instr + d /\ pos'.staged = pos.staged + 0
  <2>1. pos \in [instr : Nat, data : Nat, staged : Nat] /\ pos.staged \in Nat
    BY DEF Numbers
  <2>2. pos' = [pos EXCEPT !.instr = pos.instr + d]
    BY <1>4 DEF AssembleInstr
  <2>3. QED BY <2>1, <2>2
<1>8. /\ 0 \in Nat
      /\ 0 <= IF Current.op = "string" THEN Reserved(Current.n) ELSE 0
      /\ 0 <= IF Current.op \in {"bytes", "string"} THEN 4 ELSE 0
    BY <1>1 DEF InstrOps
<1>9. QED BY <1>1, <1>3, <1>6, <1>7, <1>8, RoomKept

LEMMA CallRoom ==
    ASSUME LinesTyped, Numbers, Labels, Room, AssembleCall
    PROVE  Room'
<1>1. Reads({"callExt"}) /\ Current.op = "callExt" /\ NextPart # "header" /\ Current.n \in Nat
    BY CallNumbers, ReadsLine, ReadNames, LineTyped DEF AssembleCall
<1>2. /\ LoadEntry \in EntryType /\ CallEntry \in EntryType
      /\ parsed' = Append(Append(CallMarked, LoadEntry), CallEntry)
      /\ pos' = [pos EXCEPT !.instr = pos.instr + 6 * Current.n]
    BY CallNumbers
<1>3. parsed \in Seq(EntryType) /\ pos \in [instr : Nat, data : Nat, staged : Nat] /\ UniqueIn(parsed)
    BY DEF Numbers, Labels
<1>4. KeepsFound(parsed, parsed')
  <2>1. /\ Append(CallMarked, LoadEntry) \in Seq(EntryType)
        /\ \A x : FindLabel(parsed, x) # 0 => FindLabel(Append(CallMarked, LoadEntry), x) # 0
    BY <1>2, <1>3, CallRefines, Referenced
  <2>2. KeepsFound(Append(CallMarked, LoadEntry), Append(Append(CallMarked, LoadEntry), CallEntry))
    BY <1>2, <2>1, AppendKeepsFound
  <2>3. QED BY <1>2, <2>1, <2>2 DEF KeepsFound
<1>5. PICK d : d = 6 * Current.n
    OBVIOUS
<1>6. d \in Nat /\ d <= NeedLine(Current)
    BY <1>1, <1>5 DEF NeedLine
<1>7. pos'.instr = pos.instr + d /\ pos'.staged = pos.staged + 0
    BY <1>2, <1>3, <1>5
<1>8. QED BY <1>1, <1>4, <1>6, <1>7, RoomKept

\* The estimate of the code, and with it that of the strings, stays within the
\* 16 bits that parseASM() keeps it in (_instr_size, tmp_instr_size).
EstimateFits ==
    LET hs == LoopHeads(text["content"]) \cup LoopHeads(text["footer"])
        code == CodeEstimate(text["header"], text["content"], text["footer"], hs)
    IN  phase = "estimate" => (code \div 8) * 8 + 8 + (Staging(text["header"]) \div 4) * 4 + 4 <= 65535

LEMMA EstimateRoom ==
    ASSUME LinesTyped, Numbers, Room, EstimateFits, Estimate
    PROVE  Room'
<1>1. PICK h, c, f, hs : /\ h = text["header"] /\ c = text["content"] /\ f = text["footer"]
                         /\ hs = LoopHeads(text["content"]) \cup LoopHeads(text["footer"])
    OBVIOUS
<1>2. h \in Seq(Line) /\ c \in Seq(Line) /\ f \in Seq(Line)
    BY <1>1 DEF LinesTyped, Part
<1>3. IsFiniteSet(hs)
  <2>1. IsFiniteSet(LoopHeads(c)) /\ IsFiniteSet(LoopHeads(f))
    BY <1>2, LoopHeadsFinite
  <2>2. QED BY <1>1, <2>1, FS_Union
<1>4. /\ heads' = hs /\ UNCHANGED <<text, parsed, pos>> /\ size' = SizeOf(h, c, f, hs)
      /\ phase = "estimate" /\ phase' = "assemble"
    BY <1>1 DEF Estimate, SizeOf
<1>5. pos.instr = 0 /\ pos.staged = 0 /\ parsed = <<>>
    BY <1>4 DEF Room
<1>6. PICK e, g, a, b, k : /\ e = CodeEstimate(h, c, f, hs) /\ g = Staging(h)
                           /\ a = NeedOf(c \o f) /\ b = Number(h, {"bytes", "string"})
                           /\ k = Cardinality(hs)
    OBVIOUS
<1>7. a \in Nat /\ b \in Nat /\ g \in Nat /\ k \in Nat
  <2>1. c \o f \in Seq(Line)
    BY <1>2
  <2>2. QED BY <1>2, <1>3, <1>6, <2>1, NeedNat, NumberNat, StagingNat, FS_CardinalityType
<1>8. e = a + 4 + 4 * b + 2 * k
  <2> DEFINE t == c \o f
             a1 == Number(t, {"aligned"})
             a2 == Number(t, Op)
             a3 == Number(t, {"label"})
             a4 == Number(t, {"callExt"})
  <2>1. t \in Seq(Line)
    BY <1>2
  <2> HIDE DEF t
  <2>2. a1 \in Nat /\ a2 \in Nat /\ a3 \in Nat /\ a4 \in Nat
    BY <2>1, NumberNat, Zenon
  <2>3. e = (a1 + 1) * 4 + (a2 - a3) * 3 + b * 4 + a4 * 3 + k * 2
    BY <1>6, Zenon DEF CodeEstimate, t
  <2>4. a = a1 * 4 + (a2 - a3) * 3 + a4 * 3
    BY <1>6, Zenon DEF NeedOf, t
  <2> HIDE DEF a1, a2, a3, a4
  <2>5. QED BY <1>7, <2>2, <2>3, <2>4
<1>9. (e \div 8) * 8 + 8 + (g \div 4) * 4 + 4 <= 65535
    BY <1>1, <1>4, <1>6 DEF EstimateFits
<1>10. /\ size'.instr = (e \div 8) * 8 + 8
       /\ size'.tmp = (e \div 8) * 8 + 8 + (g \div 4) * 4 + 4
  <2>1. e \in Nat /\ e <= 65535 /\ g <= 65535
    BY <1>7, <1>8, <1>9
  <2>2. Word16(e) = e /\ Word16(g) = g
    BY <1>7, <2>1 DEF Word16
  <2>3. PICK m, n : m = (e \div 8) * 8 + 8 /\ n = (g \div 4) * 4 + 4
    OBVIOUS
  <2>4. m \in Nat /\ n \in Nat /\ m + n <= 65535
    BY <1>7, <1>9, <2>1, <2>3
  <2>5. Word16(m) = m /\ Word16(m + n) = m + n
    BY <2>4 DEF Word16
  <2>6. SizeOf(h, c, f, hs) = [instr |-> Word16((Word16(e) \div 8) * 8 + 8),
            tmp |-> Word16(Word16((Word16(e) \div 8) * 8 + 8) + (Word16(g) \div 4) * 4 + 4)]
    BY <1>6 DEF SizeOf
  <2>7. m + (g \div 4) * 4 + 4 = m + n
    BY <1>7, <2>3, <2>4
  <2>8. SizeOf(h, c, f, hs) = [instr |-> m, tmp |-> m + n]
    <3>1. Word16((Word16(e) \div 8) * 8 + 8) = m
      BY <2>2, <2>3, <2>5
    <3>2. Word16(Word16((Word16(e) \div 8) * 8 + 8) + (Word16(g) \div 4) * 4 + 4) = m + n
      BY <2>2, <2>5, <2>7, <3>1
    <3>3. QED BY <2>6, <3>1, <3>2
  <2>9. size'.instr = m /\ size'.tmp = m + n
    BY <1>4, <2>8
  <2>10. QED BY <2>3, <2>7, <2>9
<1>11. Cardinality(Unfound') \in Nat /\ Cardinality(Unfound') <= k
  <2>1. PICK U : U = Unfound'
    OBVIOUS
  <2>2. U \subseteq hs
    BY <1>4, <2>1 DEF Unfound
  <2>3. IsFiniteSet(U) /\ Cardinality(U) <= k
    BY <1>3, <1>6, <2>2, FS_Subset
  <2>4. QED BY <2>1, <2>3, FS_CardinalityType
<1>12. e \in Nat /\ e <= (e \div 8) * 8 + 8 /\ g <= (g \div 4) * 4 + 4
    BY <1>7, <1>8
<1>13. NeedOf(CodeLines)' = a /\ HeaderNeed' = b /\ Staging(text'["header"]) = g
  <2>1. CodeLines' = c \o f /\ text' = text
    BY <1>1, <1>4 DEF CodeLines
  <2>2. QED BY <1>1, <1>6, <2>1 DEF HeaderNeed
<1>14. CodeRoom' /\ StagingRoom'
  <2>1. pos'.instr = 0 /\ pos'.staged = 0
    BY <1>4, <1>5
  <2>2. PICK m, n, v : m = (e \div 8) * 8 + 8 /\ n = (g \div 4) * 4 + 4 /\ v = Cardinality(Unfound')
    OBVIOUS
  <2>3. /\ size'.instr = m /\ size'.tmp = m + n /\ m \in Nat /\ n \in Nat
        /\ v \in Nat /\ v <= k /\ e <= m /\ g <= n
    BY <1>7, <1>10, <1>11, <1>12, <2>2
  <2>4. 0 + a + 4 * b + 2 * v <= m /\ m + 0 + g <= m + n
    BY <1>7, <1>8, <2>3
  <2>5. pos'.instr + NeedOf(CodeLines)' + 4 * HeaderNeed' + 2 * Cardinality(Unfound') <= size'.instr
    BY <1>13, <2>1, <2>2, <2>3, <2>4
  <2>6. size'.instr + pos'.staged + Staging(text'["header"]) <= size'.tmp
    BY <1>13, <2>1, <2>2, <2>3, <2>4
  <2>7. QED BY <2>5, <2>6 DEF CodeRoom, StagingRoom
<1>15. QED BY <1>3, <1>4, <1>14 DEF Room

\* What changes neither the lines nor what was made of them leaves the room.
LEMMA SameRoom ==
    ASSUME Room, UNCHANGED <<text, heads, parsed, pos, size>>,
           phase' \in {"relax", "estimate"} <=> phase \in {"relax", "estimate"}
    PROVE  Room'
<1>1. UNCHANGED <<CodeLines, Unfound, HeaderNeed>>
    BY DEF CodeLines, Unfound, HeaderNeed
<1>2. CodeRoom => CodeRoom'
    BY <1>1 DEF CodeRoom
<1>3. StagingRoom => StagingRoom'
    BY DEF StagingRoom
<1>4. QED BY <1>2, <1>3 DEF Room

LEMMA NextRoom ==
    ASSUME LinesTyped, Numbers, Slots, Labels, Room, EstimateFits, AsmNext
    PROVE  Room'
<1>1. CASE Relaxes
  <2>1. /\ UNCHANGED <<parsed, pos>> /\ phase = "relax" /\ phase' \in {"relax", "estimate"}
    BY <1>1 DEF Relaxes, BeginPass, RelaxLine, EndPass
  <2>2. QED BY <2>1 DEF Room
<1>2. CASE Estimate
    BY <1>2, EstimateRoom
<1>3. CASE AssembleLabel
    BY <1>3, LabelRoom
<1>4. CASE AssembleData
    BY <1>4, DataRoom
<1>5. CASE AssembleInstr
    BY <1>5, InstrRoom
<1>6. CASE AssembleCall
    BY <1>6, CallRoom
<1>7. CASE Finishes
  <2>1. /\ UNCHANGED <<text, heads, parsed, pos, size>>
        /\ phase \notin {"relax", "estimate"} /\ phase' \notin {"relax", "estimate"}
    BY <1>7 DEF Finishes, EndAssembly, CheckRange, CalculateJump, CreateBinaryHeader
  <2>2. QED BY <2>1, SameRoom
<1>8. QED BY <1>1, <1>2, <1>3, <1>4, <1>5, <1>6, <1>7, AsmSteps

LEMMA InitRoom == AsmInit => Room
BY DEF AsmInit, Room

\* What room is left is no less than none.
LEMMA RoomFits == ASSUME LinesTyped, Numbers, Room PROVE CodeFits
<1>1. SUFFICES ASSUME phase \notin {"relax", "estimate"}
               PROVE  pos.instr <= size.instr /\ size.instr + pos.staged <= size.tmp
    BY DEF CodeFits
<1>2. IsFiniteSet(heads) /\ CodeRoom /\ StagingRoom
    BY <1>1 DEF Room
<1>3. PICK a, b, c, u : /\ a = NeedOf(CodeLines) /\ b = HeaderNeed /\ c = Staging(text["header"])
                        /\ u = Cardinality(Unfound)
    OBVIOUS
<1>4. a \in Nat /\ b \in Nat /\ c \in Nat /\ u \in Nat
    BY <1>2, <1>3, NeedsNat, UnfoundNat
<1>5. /\ pos.instr \in Nat /\ pos.staged \in Nat /\ size.instr \in Nat /\ size.tmp \in Nat
    BY DEF Numbers
<1>6. pos.instr + a + 4 * b + 2 * u <= size.instr /\ size.instr + pos.staged + c <= size.tmp
    BY <1>2, <1>3 DEF CodeRoom, StagingRoom
<1>7. QED BY <1>4, <1>5, <1>6

-------------------------------------------------------------------------------
(* What relaxBranches() leaves.                                            *)

\* The three lines for a branch.
Opposite(l, c) == [l EXCEPT !.name = Fresh(c), !.neg = ~l.neg]
FarJump(l) == [op |-> "jump", name |-> l.name, n |-> 0, neg |-> FALSE]
FreshLabel(c) == [op |-> "label", name |-> Fresh(c), n |-> 0, neg |-> FALSE]

LEMMA OppositeLine ==
    ASSUME NEW l \in Line, NEW c \in Nat
    PROVE  /\ Opposite(l, c).op = l.op /\ Opposite(l, c).name = Fresh(c)
           /\ Opposite(l, c).n = l.n /\ Opposite(l, c).neg = ~l.neg
<1> HIDE DEF LineName, Op
<1>1. QED BY DEF Opposite, Line

LEMMA RelaxedLines ==
    ASSUME NEW t \in Seq(Line), NEW i \in DOMAIN t, NEW c \in Nat, NEW r, r = RelaxAt(t, i, c)
    PROVE  /\ r \in Seq(Line) /\ Len(r) = Len(t) + 2 /\ DOMAIN r = 1 .. Len(t) + 2
           /\ \A k \in 1 .. i - 1 : r[k] = t[k]
           /\ r[i] = Opposite(t[i], c) /\ r[i + 1] = FarJump(t[i]) /\ r[i + 2] = FreshLabel(c)
           /\ \A k \in i + 1 .. Len(t) : r[k + 2] = t[k]
<1> DEFINE a == SubSeq(t, 1, i - 1)
           b == InverseBranch(t[i], c)
           d == SubSeq(t, i + 1, Len(t))
<1>1. t[i] \in Line /\ i \in 1 .. Len(t) /\ Len(t) \in Nat
    OBVIOUS
<1>2. a \in Seq(Line) /\ Len(a) = i - 1 /\ \A k \in 1 .. i - 1 : a[k] = t[k]
    BY <1>1
<1>3. d \in Seq(Line) /\ Len(d) = Len(t) - i /\ \A k \in 1 .. Len(t) - i : d[k] = t[i + k]
    BY <1>1
<1>4. b = <<Opposite(t[i], c), FarJump(t[i]), FreshLabel(c)>>
    BY DEF InverseBranch, Opposite, FarJump, FreshLabel
<1>5. b \in Seq(Line) /\ Len(b) = 3 /\ b[1] = Opposite(t[i], c) /\ b[2] = FarJump(t[i]) /\ b[3] = FreshLabel(c)
  <2>1. b \in Seq(Line)
    BY <1>1, InverseLines
  <2>2. QED BY <1>4, <2>1
<1>6. r = (a \o b) \o d
    BY DEF RelaxAt
<1> HIDE DEF a, b, d
<1> DEFINE e == a \o b
<1>7. /\ e \in Seq(Line) /\ Len(e) = i + 2
      /\ \A k \in 1 .. i - 1 : e[k] = a[k]
      /\ \A k \in 1 .. 3 : e[(i - 1) + k] = b[k]
  <2>1. DOMAIN a = 1 .. i - 1 /\ DOMAIN b = 1 .. 3
    BY <1>2, <1>5
  <2>2. e \in Seq(Line) /\ Len(e) = Len(a) + Len(b) /\ (\A k \in DOMAIN a : e[k] = a[k])
        /\ \A k \in DOMAIN b : e[Len(a) + k] = b[k]
    <3>1. a \in Seq(Line) /\ b \in Seq(Line)
      BY <1>2, <1>5
    <3>2. QED BY <3>1, Concatenated
  <2>3. QED BY <1>1, <1>2, <1>5, <2>1, <2>2
<1> HIDE DEF e
<1>8. e[i] = b[1] /\ e[i + 1] = b[2] /\ e[i + 2] = b[3]
  <2>1. (i - 1) + 1 = i /\ (i - 1) + 2 = i + 1 /\ (i - 1) + 3 = i + 2
    BY <1>1
  <2>2. 1 \in 1 .. 3 /\ 2 \in 1 .. 3 /\ 3 \in 1 .. 3
    OBVIOUS
  <2>3. e[(i - 1) + 1] = b[1] /\ e[(i - 1) + 2] = b[2] /\ e[(i - 1) + 3] = b[3]
    <3>1. \A k \in 1 .. 3 : e[(i - 1) + k] = b[k]
      BY <1>7
    <3>2. QED BY <2>2, <3>1
  <2>4. QED BY <2>1, <2>3
<1>9. /\ r \in Seq(Line) /\ Len(r) = Len(e) + Len(d)
      /\ \A k \in 1 .. i + 2 : r[k] = e[k]
      /\ \A k \in 1 .. Len(t) - i : r[(i + 2) + k] = d[k]
  <2>1. DOMAIN e = 1 .. i + 2 /\ DOMAIN d = 1 .. Len(t) - i /\ r = e \o d
    BY <1>3, <1>6, <1>7 DEF e
  <2>2. r \in Seq(Line) /\ Len(r) = Len(e) + Len(d) /\ (\A k \in DOMAIN e : r[k] = e[k])
        /\ \A k \in DOMAIN d : r[Len(e) + k] = d[k]
    <3>1. e \in Seq(Line) /\ d \in Seq(Line)
      BY <1>3, <1>7
    <3>2. QED BY <2>1, <3>1, Concatenated
  <2>3. QED BY <1>7, <2>1, <2>2
<1>10. Len(r) = Len(t) + 2 /\ DOMAIN r = 1 .. Len(t) + 2
    BY <1>1, <1>3, <1>7, <1>9
<1>11. ASSUME NEW k \in 1 .. i - 1 PROVE r[k] = t[k]
  <2>1. k \in 1 .. i + 2
    BY <1>1
  <2>2. QED BY <1>2, <1>7, <1>9, <2>1
<1>12. r[i] = e[i] /\ r[i + 1] = e[i + 1] /\ r[i + 2] = e[i + 2]
  <2>1. i \in 1 .. i + 2 /\ i + 1 \in 1 .. i + 2 /\ i + 2 \in 1 .. i + 2
    BY <1>1
  <2>2. QED BY <1>9, <2>1
<1>13. ASSUME NEW k \in i + 1 .. Len(t) PROVE r[k + 2] = t[k]
  <2>1. k - i \in 1 .. Len(t) - i /\ (i + 2) + (k - i) = k + 2 /\ i + (k - i) = k
    BY <1>1
  <2>2. r[(i + 2) + (k - i)] = d[k - i] /\ d[k - i] = t[i + (k - i)]
    BY <1>3, <1>9, <2>1
  <2>3. QED BY <2>1, <2>2
<1>14. QED BY <1>5, <1>8, <1>9, <1>10, <1>11, <1>12, <1>13

\* A text that is the relaxed one of a program's keeps its labels, and has a
\* label for each branch that the program has not.
CodePart == {"content", "footer"}
LabelOps == {"aligned", "label"}
Matched(o, t) ==
    /\ NamesOf(o, LabelOps) \subseteq NamesOf(t, LabelOps)
    /\ NamesOf(t, {"branch"}) \subseteq NamesOf(o, {"branch"}) \cup NamesOf(t, LabelOps)

\* No branch is too far, from line `at` on.
SureFrom(t, at) == \A i \in DOMAIN t : i >= at /\ t[i].op = "branch" => ~TooFar(t, t, i)
Sure(t) == \A i \in DOMAIN t : t[i].op = "branch" => ~TooFar(t, t, i)

\* A pass is past the branches that it has found near enough, unless it has
\* changed the Text; a Text that is done has no other.
PassedSure ==
    phase = "relax" /\ scan.at # 0 =>
        \/ Len(text[scan.part]) > Len(scan.old)
        \/ text[scan.part] = scan.old /\ SureFrom(scan.old, scan.at)
DoneSure ==
    /\ phase = "relax" /\ scan.part = "footer" => Sure(text["content"])
    /\ phase = "estimate" => Sure(text["content"]) /\ Sure(text["footer"])
AllMatched == phase \in {"relax", "estimate"} => \A q \in CodePart : Matched(origin[q], text[q])

LEMMA RelaxedMatched ==
    ASSUME NEW t \in Seq(Line), NEW i \in DOMAIN t, NEW c \in Nat, NEW o, t[i].op = "branch",
           Matched(o, t)
    PROVE  Matched(o, RelaxAt(t, i, c))
<1>1. PICK r : r = RelaxAt(t, i, c)
    OBVIOUS
<1>2. /\ r \in Seq(Line) /\ Len(r) = Len(t) + 2 /\ DOMAIN r = 1 .. Len(t) + 2
      /\ \A k \in 1 .. i - 1 : r[k] = t[k]
      /\ r[i] = Opposite(t[i], c) /\ r[i + 1] = FarJump(t[i]) /\ r[i + 2] = FreshLabel(c)
      /\ \A k \in i + 1 .. Len(t) : r[k + 2] = t[k]
  <2>1. /\ r \in Seq(Line) /\ Len(r) = Len(t) + 2 /\ DOMAIN r = 1 .. Len(t) + 2
        /\ \A k \in 1 .. i - 1 : r[k] = t[k]
        /\ \A k \in i + 1 .. Len(t) : r[k + 2] = t[k]
    BY <1>1, RelaxedLines
  <2>2. r[i] = Opposite(t[i], c)
    BY <1>1, RelaxedLines
  <2>3. r[i + 1] = FarJump(t[i])
    BY <1>1, RelaxedLines
  <2>4. r[i + 2] = FreshLabel(c)
    BY <1>1, RelaxedLines
  <2>5. QED BY <2>1, <2>2, <2>3, <2>4
<1>3. i \in 1 .. Len(t) /\ Len(t) \in Nat /\ DOMAIN t = 1 .. Len(t)
    OBVIOUS
<1>4. ASSUME NEW k \in DOMAIN t, t[k].op \in LabelOps
      PROVE  t[k].name \in NamesOf(r, LabelOps)
  <2>1. k # i
    BY <1>4 DEF LabelOps
  <2>2. CASE k < i
    <3>1. k \in DOMAIN r /\ r[k] = t[k]
      BY <1>2, <1>3, <2>2
    <3>2. QED BY <1>4, <3>1, Listed
  <2>3. CASE k > i
    <3>1. k + 2 \in DOMAIN r /\ r[k + 2] = t[k]
      BY <1>2, <1>3, <2>3
    <3>2. QED BY <1>4, <3>1, Listed
  <2>4. QED BY <1>3, <2>1, <2>2, <2>3
<1>5. NamesOf(t, LabelOps) \subseteq NamesOf(r, LabelOps)
    BY <1>4, Unlisted
<1>6. Fresh(c) \in NamesOf(r, LabelOps)
  <2>1. i + 2 \in DOMAIN r /\ r[i + 2].op \in LabelOps /\ r[i + 2].name = Fresh(c)
    BY <1>2, <1>3 DEF FreshLabel, LabelOps
  <2>2. QED BY <2>1, Listed
<1>7. ASSUME NEW j \in DOMAIN r, r[j].op = "branch"
      PROVE  r[j].name \in NamesOf(t, {"branch"}) \/ r[j].name = Fresh(c)
  <2>1. CASE j < i
    <3>1. j \in DOMAIN t /\ r[j] = t[j]
      BY <1>2, <1>3, <2>1
    <3>2. QED BY <1>7, <3>1, Listed
  <2>2. CASE j = i
    BY <1>2, <1>3, <2>2, OppositeLine
  <2>3. CASE j = i + 1 \/ j = i + 2
    BY <1>2, <1>7, <2>3 DEF FarJump, FreshLabel
  <2>4. CASE j > i + 2
    <3>1. j - 2 \in i + 1 .. Len(t) /\ j - 2 \in DOMAIN t /\ (j - 2) + 2 = j
      BY <1>2, <1>3, <2>4
    <3>2. r[j] = t[j - 2]
      BY <1>2, <3>1
    <3>3. QED BY <1>7, <3>1, <3>2, Listed
  <2>5. QED BY <1>2, <1>3, <2>1, <2>2, <2>3, <2>4
<1>8. NamesOf(r, {"branch"}) \subseteq NamesOf(t, {"branch"}) \cup {Fresh(c)}
    BY <1>7, Unlisted
<1>9. QED BY <1>1, <1>5, <1>6, <1>8 DEF Matched

\* A pass goes past every branch below its place.
LEMMA NoneSkipped ==
    ASSUME NEW t \in Seq(Line), NEW at \in Nat, at <= Len(t) + 1, BranchesBelow(t, at) # {}
    PROVE  \A k \in DOMAIN t : t[k].op = "branch" /\ k < at => k <= LastOf(BranchesBelow(t, at))
<1> DEFINE B == BranchesBelow(t, at)
<1>1. B \subseteq 0 .. Len(t) + 1 /\ Len(t) + 1 \in Nat
      /\ \A k \in DOMAIN t : t[k].op = "branch" /\ k < at => k \in B
    BY DEF BranchesBelow
<1> HIDE DEF B
<1>2. \E i \in B : \A j \in B : i >= j
    BY <1>1, GreatestNumber DEF B
<1>3. LastOf(B) \in B /\ \A j \in B : LastOf(B) >= j
    BY <1>2 DEF LastOf
<1>4. B \subseteq Int
    BY <1>1
<1>5. QED BY <1>1, <1>3, <1>4 DEF B

LEMMA InitSure == AsmInit => AllMatched /\ PassedSure /\ DoneSure
BY DEF AsmInit, AllMatched, PassedSure, DoneSure, Matched, NoScan

LEMMA RelaxSure ==
    ASSUME LinesTyped, AllMatched, PassedSure, DoneSure, Relaxes
    PROVE  (AllMatched /\ PassedSure /\ DoneSure)'
<1>0. /\ scan.part \in CodePart /\ scan.at \in Nat /\ scan.old \in Seq(Line)
      /\ text[scan.part] \in Seq(Line) /\ UNCHANGED origin /\ DOMAIN text = Part
      /\ text["content"] \in Seq(Line) /\ text["footer"] \in Seq(Line)
      /\ phase = "relax" /\ scan.at <= Len(text[scan.part]) + 1 /\ relaxed \in Nat
    BY DEF LinesTyped, Relaxes, BeginPass, RelaxLine, EndPass, Part, CodePart
<1>1. ASSUME NEW p \in Part, BeginPass(p) PROVE (AllMatched /\ PassedSure /\ DoneSure)'
  <2>1. /\ UNCHANGED <<phase, text>> /\ p = scan.part
        /\ scan'.part = p /\ scan'.old = text[p] /\ scan'.at = Len(text[p]) + 1
    BY <1>0, <1>1 DEF BeginPass
  <2>2. SureFrom(text[p], Len(text[p]) + 1)
    BY <1>0, <2>1 DEF SureFrom
  <2>3. PassedSure'
    BY <2>1, <2>2 DEF PassedSure
  <2>4. QED BY <1>0, <2>1, <2>3 DEF AllMatched, DoneSure
<1>2. CASE EndPass
  <2>1. PICK p, t : p = scan.part /\ t = text[p]
    OBVIOUS
  <2>2. /\ UNCHANGED text /\ scan.at # 0 /\ BranchesBelow(t, scan.at) = {}
        /\ \/ phase' = "relax" /\ scan' = [NoScan EXCEPT !.part = p]
           \/ t = scan.old /\ p = "content" /\ phase' = "relax" /\ scan' = [NoScan EXCEPT !.part = "footer"]
           \/ t = scan.old /\ p # "content" /\ phase' = "estimate" /\ scan' = NoScan
    BY <1>0, <1>2, <2>1 DEF EndPass
  <2>3. scan'.at = 0
    BY <2>2 DEF NoScan
  <2>4. \/ phase' = "relax" /\ scan'.part = p
        \/ t = scan.old /\ p = "content" /\ phase' = "relax" /\ scan'.part = "footer"
        \/ t = scan.old /\ p # "content" /\ phase' = "estimate"
    BY <2>2 DEF NoScan
  <2>5. t = scan.old => Sure(t)
    <3>1. SUFFICES ASSUME t = scan.old PROVE Sure(t)
      OBVIOUS
    <3>2. t \in Seq(Line) /\ SureFrom(t, scan.at)
      BY <1>0, <2>1, <2>2, <3>1 DEF PassedSure
    <3>3. \A i \in DOMAIN t : t[i].op = "branch" => i >= scan.at
      BY <1>0, <2>2, <3>2 DEF BranchesBelow
    <3>4. QED BY <3>2, <3>3 DEF SureFrom, Sure
  <2>6. DoneSure'
    BY <1>0, <2>1, <2>2, <2>4, <2>5 DEF DoneSure, CodePart
  <2>7. QED BY <1>0, <2>2, <2>3, <2>6 DEF AllMatched, PassedSure
<1>3. CASE RelaxLine
  <2>1. PICK p, t, i : p = scan.part /\ t = text[p] /\ i = LastOf(BranchesBelow(t, scan.at))
    OBVIOUS
  <2>2. /\ BranchesBelow(t, scan.at) # {} /\ scan' = [scan EXCEPT !.at = i] /\ phase' = phase /\ scan.at # 0
        /\ \/ TooFar(t, scan.old, i) /\ text' = [text EXCEPT ![p] = RelaxAt(t, i, relaxed)]
           \/ ~TooFar(t, scan.old, i) /\ UNCHANGED text
    BY <1>3, <2>1 DEF RelaxLine
  <2>3. t \in Seq(Line) /\ scan.at <= Len(t) + 1 /\ p \in CodePart
    BY <1>0, <2>1
  <2>4. i \in DOMAIN t /\ i < scan.at /\ t[i].op = "branch"
    BY <1>0, <2>1, <2>2, <2>3, NextBranch
  <2>5. \A k \in DOMAIN t : t[k].op = "branch" /\ k < scan.at => k <= i
    BY <1>0, <2>1, <2>2, <2>3, NoneSkipped
  <2>6. scan'.part = p /\ scan'.old = scan.old /\ scan'.at = i /\ phase' = "relax"
    BY <1>0, <2>1, <2>2 DEF LinesTyped
  <2>7. CASE UNCHANGED text /\ ~TooFar(t, scan.old, i)
    <3>1. t = scan.old /\ SureFrom(t, scan.at) => SureFrom(t, i)
      <4>1. SUFFICES ASSUME t = scan.old, SureFrom(t, scan.at), NEW k \in DOMAIN t, k >= i, t[k].op = "branch"
                     PROVE  ~TooFar(t, t, k)
        BY DEF SureFrom
      <4>2. k = i \/ k >= scan.at
        BY <1>0, <2>3, <2>4, <2>5, <4>1
      <4>3. QED BY <2>7, <4>1, <4>2 DEF SureFrom
    <3>2. PassedSure'
      BY <1>0, <2>1, <2>2, <2>6, <2>7, <3>1 DEF PassedSure
    <3>3. QED BY <1>0, <2>1, <2>6, <2>7, <3>2 DEF AllMatched, DoneSure
  <2>8. CASE text' = [text EXCEPT ![p] = RelaxAt(t, i, relaxed)]
    <3>1. PICK r : r = RelaxAt(t, i, relaxed)
      OBVIOUS
    <3>2. Len(r) = Len(t) + 2
      BY <1>0, <2>3, <2>4, <3>1, RelaxedLines
    <3>3. text'[p] = r /\ \A q \in Part : q # p => text'[q] = text[q]
      BY <1>0, <2>3, <2>8, <3>1 DEF CodePart, Part
    <3>4. Matched(origin[p], r)
      BY <1>0, <2>1, <2>3, <2>4, <3>1, RelaxedMatched DEF AllMatched
    <3>5. AllMatched'
      BY <1>0, <2>3, <3>3, <3>4 DEF AllMatched, CodePart, Part
    <3>6. Len(r) > Len(scan.old)
      BY <1>0, <2>1, <2>2, <2>3, <3>2 DEF PassedSure
    <3>7. PassedSure'
      BY <2>6, <3>3, <3>6 DEF PassedSure
    <3>8. DoneSure'
      BY <1>0, <2>1, <2>3, <2>6, <3>3 DEF DoneSure, CodePart, Part
    <3>9. QED BY <3>5, <3>7, <3>8
  <2>9. QED BY <2>2, <2>7, <2>8
<1>4. QED BY <1>1, <1>2, <1>3 DEF Relaxes

-------------------------------------------------------------------------------
(* Distances.                                                              *)

\* w goes up at every step.
LEMMA Rises ==
    ASSUME NEW n \in Nat, NEW w \in [0 .. n -> Nat], \A k \in 1 .. n : w[k - 1] < w[k]
    PROVE  \A j, k \in 0 .. n : j < k => w[j] < w[k]
<1> DEFINE S == {k \in 0 .. n : \A j \in 0 .. n : j < k => w[j] < w[k]}
<1>1. 0 \in S
    OBVIOUS
<1>2. ASSUME NEW k \in 0 .. n, k \in S, k < n PROVE k + 1 \in S
  <2>1. k + 1 \in 0 .. n /\ k + 1 \in 1 .. n /\ (k + 1) - 1 = k
    BY <1>2
  <2>2. w[k] < w[k + 1]
    BY <2>1
  <2>3. ASSUME NEW j \in 0 .. n, j < k + 1 PROVE w[j] < w[k + 1]
    <3>1. j = k \/ j < k
      BY <2>3
    <3>2. j < k => w[j] < w[k]
      BY <1>2
    <3>3. w[j] \in Nat /\ w[k] \in Nat /\ w[k + 1] \in Nat
      BY <2>1
    <3>4. QED BY <2>2, <3>1, <3>2, <3>3
  <2>4. QED BY <2>1, <2>3
<1>3. 0 .. n \subseteq S
  <2> HIDE DEF S
  <2>1. QED BY <1>1, <1>2, UpTo
<1>4. QED BY <1>3

LEMMA StepLess ==
    ASSUME NEW a \in Int, NEW b \in Int, NEW c \in Int, NEW x \in Int, NEW y \in Int, NEW g \in Int,
           a <= b, b - a <= y - x, b <= c, c <= b + g
    PROVE  a <= c /\ c - a <= (y + g) - x
OBVIOUS

\* The numbers of w go up by no more than those of a sum do.
LEMMA RisesLess ==
    ASSUME NEW n \in Nat, NEW m \in 0 .. n, NEW w \in [0 .. n -> Nat], NEW v, NEW g,
           Sums(v, g, n), v \in [0 .. n -> Nat], \A k \in 1 .. n : g[k] \in Nat,
           \A k \in 1 .. m : w[k - 1] <= w[k] /\ w[k] <= w[k - 1] + g[k]
    PROVE  \A j, k \in 0 .. m : j <= k => w[j] <= w[k] /\ w[k] - w[j] <= v[k] - v[j]
<1> SUFFICES ASSUME NEW j \in 0 .. m
             PROVE  \A k \in 0 .. m : j <= k => w[j] <= w[k] /\ w[k] - w[j] <= v[k] - v[j]
    OBVIOUS
<1> DEFINE S == {k \in 0 .. m : j <= k => w[j] <= w[k] /\ w[k] - w[j] <= v[k] - v[j]}
<1>1. 0 \in S
    OBVIOUS
<1>2. ASSUME NEW k \in 0 .. m, k \in S, k < m PROVE k + 1 \in S
  <2>1. k + 1 \in 0 .. m /\ k + 1 \in 1 .. m /\ k + 1 \in 0 .. n /\ k + 1 \in 1 .. n
        /\ (k + 1) - 1 = k /\ k + 1 # 0 /\ k \in 0 .. n /\ j \in 0 .. n
    BY <1>2
  <2>2. w[k] <= w[k + 1] /\ w[k + 1] <= w[k] + g[k + 1]
    BY <2>1
  <2>3. v[k + 1] = v[k] + g[k + 1]
    BY <2>1 DEF Sums
  <2>4. /\ w[j] \in Nat /\ w[k] \in Nat /\ w[k + 1] \in Nat /\ g[k + 1] \in Nat
        /\ v[j] \in Nat /\ v[k] \in Nat /\ v[k + 1] \in Nat
    BY <2>1
  <2>5. j <= k + 1 => j = k + 1 \/ j <= k
    BY <1>2
  <2>6. j <= k => w[j] <= w[k] /\ w[k] - w[j] <= v[k] - v[j]
    BY <1>2
  <2>7. ASSUME j <= k PROVE w[j] <= w[k + 1] /\ w[k + 1] - w[j] <= v[k + 1] - v[j]
    <3>1. w[j] <= w[k] /\ w[k] - w[j] <= v[k] - v[j]
      BY <2>6, <2>7
    <3>2. /\ w[j] \in Int /\ w[k] \in Int /\ w[k + 1] \in Int /\ g[k + 1] \in Int
          /\ v[j] \in Int /\ v[k] \in Int
      BY <2>4
    <3>3. PICK a, b, c, x, y, e : /\ a = w[j] /\ b = w[k] /\ c = w[k + 1]
                                  /\ x = v[j] /\ y = v[k] /\ e = g[k + 1]
      OBVIOUS
    <3>4. a \in Int /\ b \in Int /\ c \in Int /\ x \in Int /\ y \in Int /\ e \in Int
      BY <3>2, <3>3
    <3>5. a <= b /\ b - a <= y - x /\ b <= c /\ c <= b + e
      BY <2>2, <3>1, <3>3
    <3>6. a <= c /\ c - a <= (y + e) - x
      BY <3>4, <3>5, StepLess
    <3>7. w[j] <= w[k + 1] /\ w[k + 1] - w[j] <= (v[k] + g[k + 1]) - v[j]
      BY <3>3, <3>6
    <3>8. QED BY <2>3, <3>7
  <2>8. ASSUME j = k + 1 PROVE w[j] <= w[k + 1] /\ w[k + 1] - w[j] <= v[k + 1] - v[j]
    BY <2>4, <2>8
  <2>9. QED BY <2>1, <2>5, <2>7, <2>8
<1>3. 0 .. m \subseteq S
  <2> HIDE DEF S
  <2>1. m \in Nat
    OBVIOUS
  <2>2. QED BY <1>1, <1>2, <2>1, UpTo
<1>4. QED BY <1>3

\* Every line of a Text is some of the code's.
AllCount(t) == \A k \in DOMAIN t : Count(t[k]) # 0

LEMMA BytesNat == ASSUME NEW l \in Line PROVE MaxLineBytes(l) \in Nat
BY LineTyped DEF MaxLineBytes

LEMMA SumsOfLines ==
    ASSUME NEW t \in Seq(Line)
    PROVE  /\ SumTo(t, Count) \in [0 .. Len(t) -> Nat] /\ SumTo(t, MaxLineBytes) \in [0 .. Len(t) -> Nat]
           /\ Sums(SumTo(t, Count), [k \in DOMAIN t |-> Count(t[k])], Len(t))
           /\ Sums(SumTo(t, MaxLineBytes), [k \in DOMAIN t |-> MaxLineBytes(t[k])], Len(t))
<1> DEFINE g == [k \in DOMAIN t |-> Count(t[k])]
           h == [k \in DOMAIN t |-> MaxLineBytes(t[k])]
<1>1. \A k \in DOMAIN t : Count(t[k]) \in Nat /\ MaxLineBytes(t[k]) \in Nat
    BY CountNat, BytesNat
<1>2. /\ Len(g) = Len(t) /\ Len(h) = Len(t) /\ Len(t) \in Nat
      /\ \A k \in 1 .. Len(t) : g[k] \in Nat /\ h[k] \in Nat
    BY <1>1
<1>3. SumTo(t, Count) = Running(g) /\ SumTo(t, MaxLineBytes) = Running(h)
    BY DEF SumTo
<1> HIDE DEF g, h
<1>4. Running(g) \in [0 .. Len(t) -> Nat] /\ Sums(Running(g), g, Len(t))
    BY <1>2, RunningSums
<1>5. Running(h) \in [0 .. Len(t) -> Nat] /\ Sums(Running(h), h, Len(t))
    BY <1>2, RunningSums
<1>6. QED BY <1>3, <1>4, <1>5 DEF g, h

LEMMA LinesRise ==
    ASSUME NEW t \in Seq(Line), AllCount(t)
    PROVE  \A j, k \in 0 .. Len(t) : j < k => SumTo(t, Count)[j] < SumTo(t, Count)[k]
<1>1. PICK w : w = SumTo(t, Count)
    OBVIOUS
<1>2. PICK n, g : n = Len(t) /\ g = [k \in DOMAIN t |-> Count(t[k])]
    OBVIOUS
<1>3. w \in [0 .. n -> Nat] /\ Sums(w, g, n) /\ n \in Nat
  <2>1. SumTo(t, Count) \in [0 .. Len(t) -> Nat]
    BY SumsOfLines
  <2>2. Sums(SumTo(t, Count), [k \in DOMAIN t |-> Count(t[k])], Len(t))
    BY SumsOfLines
  <2>3. Len(t) \in Nat
    OBVIOUS
  <2>4. QED BY <1>1, <1>2, <2>1, <2>2, <2>3
<1>4. \A k \in 1 .. n : g[k] \in Nat /\ g[k] # 0
  <2>1. \A k \in DOMAIN t : Count(t[k]) \in Nat /\ Count(t[k]) # 0
    BY CountNat DEF AllCount
  <2>2. QED BY <1>2, <2>1
<1>5. ASSUME NEW k \in 1 .. n PROVE w[k - 1] < w[k]
  <2>1. w[k] = w[k - 1] + g[k]
    BY <1>3 DEF Sums
  <2>2. w[k - 1] \in Nat /\ g[k] \in Nat /\ g[k] # 0
    BY <1>3, <1>4
  <2>3. QED BY <2>1, <2>2
<1>6. \A j, k \in 0 .. n : j < k => w[j] < w[k]
    BY <1>3, <1>5, Rises
<1>7. QED BY <1>1, <1>2, <1>6

\* The bound on what is before a line is the sum of those on the lines there.
LEMMA OffsetOf ==
    ASSUME NEW t \in Seq(Line), AllCount(t), NEW i \in DOMAIN t
    PROVE  Offset(t)[SumTo(t, Count)[i - 1]] = SumTo(t, MaxLineBytes)[i - 1]
<1>1. PICK w, v, n : w = SumTo(t, Count) /\ v = SumTo(t, MaxLineBytes) /\ n = Len(t)
    OBVIOUS
<1>2. w \in [0 .. n -> Nat] /\ v \in [0 .. n -> Nat] /\ n \in Nat /\ i \in 1 .. n /\ DOMAIN t = 1 .. n
  <2>1. SumTo(t, Count) \in [0 .. Len(t) -> Nat]
    BY SumsOfLines
  <2>2. SumTo(t, MaxLineBytes) \in [0 .. Len(t) -> Nat]
    BY SumsOfLines
  <2>3. Len(t) \in Nat /\ DOMAIN t = 1 .. Len(t) /\ i \in 1 .. Len(t)
    OBVIOUS
  <2>4. QED BY <1>1, <2>1, <2>2, <2>3
<1>3. \A j, k \in 0 .. n : j < k => w[j] < w[k]
    BY <1>1, LinesRise
<1>4. PICK r : r = w[i - 1]
    OBVIOUS
<1> DEFINE at(k) == w[k - 1] <= r /\ r < w[k]
<1>5. Offset(t) = [x \in 0 .. w[n] - 1 |->
                    LET k == CHOOSE k \in 1 .. n : w[k - 1] <= x /\ x < w[k]
                    IN  v[k - 1] + (x - w[k - 1]) * (MaxLineBytes(t[k]) \div Count(t[k]))]
    BY <1>1 DEF Offset, Total
<1>6. r \in 0 .. w[n] - 1
  <2>1. i - 1 \in 0 .. n /\ n \in 0 .. n /\ i - 1 < n
    BY <1>2
  <2>2. w[i - 1] < w[n] /\ w[i - 1] \in Nat /\ w[n] \in Nat
    BY <1>2, <1>3, <2>1
  <2>3. QED BY <1>4, <2>2
<1>7. at(i)
  <2>1. i - 1 \in 0 .. n /\ i \in 0 .. n /\ i - 1 < i
    BY <1>2
  <2>2. w[i - 1] < w[i] /\ w[i - 1] \in Nat
    BY <1>2, <1>3, <2>1
  <2>3. QED BY <1>4, <2>2
<1>8. ASSUME NEW k \in 1 .. n, at(k) PROVE k = i
  <2>1. k - 1 \in 0 .. n /\ k \in 0 .. n /\ i - 1 \in 0 .. n /\ i \in 0 .. n
    BY <1>2
  <2>2. w[k - 1] \in Nat /\ w[k] \in Nat /\ w[i] \in Nat /\ w[i - 1] \in Nat
    BY <1>2, <2>1
  <2>3. ~(k < i)
    <3>1. SUFFICES ASSUME k < i PROVE FALSE
      OBVIOUS
    <3>2. k = i - 1 \/ k < i - 1
      <4>1. k \in Int /\ i \in Int
        BY <1>2
      <4>2. QED BY <3>1, <4>1
    <3>3. w[k] <= w[i - 1]
      <4>1. k < i - 1 => w[k] < w[i - 1]
        BY <1>3, <2>1
      <4>2. k = i - 1 => w[k] = w[i - 1]
        OBVIOUS
      <4>3. QED BY <2>2, <3>2, <4>1, <4>2
    <3>4. QED BY <1>4, <1>8, <2>2, <3>3
  <2>4. ~(i < k)
    <3>1. SUFFICES ASSUME i < k PROVE FALSE
      OBVIOUS
    <3>2. i = k - 1 \/ i < k - 1
      <4>1. k \in Int /\ i \in Int
        BY <1>2
      <4>2. QED BY <3>1, <4>1
    <3>3. w[i] <= w[k - 1]
      <4>1. i < k - 1 => w[i] < w[k - 1]
        BY <1>3, <2>1
      <4>2. i = k - 1 => w[i] = w[k - 1]
        OBVIOUS
      <4>3. QED BY <2>2, <3>2, <4>1, <4>2
    <3>4. QED BY <1>4, <1>7, <1>8, <2>2, <3>3
  <2>5. k \in Int /\ i \in Int
    BY <1>2
  <2>6. QED BY <2>3, <2>4, <2>5
<1>9. (CHOOSE k \in 1 .. n : at(k)) = i
  <2> HIDE DEF at
  <2>1. QED BY <1>2, <1>7, <1>8
<1>10. Offset(t)[r] = v[i - 1] + (r - w[i - 1]) * (MaxLineBytes(t[i]) \div Count(t[i]))
    BY <1>5, <1>6, <1>9
<1>11. Offset(t)[r] = v[i - 1]
  <2>1. t[i] \in Line
    OBVIOUS
  <2>2. MaxLineBytes(t[i]) \in Nat /\ Count(t[i]) \in Nat /\ Count(t[i]) # 0
    BY <2>1, BytesNat, CountNat DEF AllCount
  <2>3. PICK d : d = MaxLineBytes(t[i]) \div Count(t[i])
    OBVIOUS
  <2>4. d \in Int
    BY <2>2, <2>3
  <2>5. i - 1 \in 0 .. n
    BY <1>2
  <2>6. v[i - 1] \in Nat /\ r \in Nat
    BY <1>2, <1>4, <2>5
  <2>7. Offset(t)[r] = v[i - 1] + (r - w[i - 1]) * d
    BY <1>10, <2>3
  <2>8. r - w[i - 1] = 0
    BY <1>4, <2>6
  <2>9. QED BY <2>4, <2>6, <2>7, <2>8
<1>12. QED BY <1>1, <1>4, <1>11

\* A branch that relaxBranches() leaves has a label of its name near enough.
LEMMA NearLabel ==
    ASSUME NEW t \in Seq(Line), AllCount(t), NEW i \in DOMAIN t, ~TooFar(t, t, i), t[i].n # 0,
           NEW j \in DOMAIN t, IsLabel(t[j]), t[j].name = t[i].name
    PROVE  \E k \in DOMAIN t :
               /\ IsLabel(t[k]) /\ t[k].name = t[i].name
               /\ Abs(SumTo(t, MaxLineBytes)[k - 1] - SumTo(t, MaxLineBytes)[i - 1]) + 12 < 2 ^ (t[i].n - 1)
<1>1. PICK w, v, S : w = SumTo(t, Count) /\ v = SumTo(t, MaxLineBytes) /\ S = LabelsSeen(t, t, i)
    OBVIOUS
<1>2. Len(t) \in Nat /\ DOMAIN t = 1 .. Len(t) /\ v \in [0 .. Len(t) -> Nat]
  <2>1. SumTo(t, MaxLineBytes) \in [0 .. Len(t) -> Nat]
    BY SumsOfLines
  <2>2. QED BY <1>1, <2>1
<1>3. \A a, b \in 0 .. Len(t) : a < b => w[a] < w[b]
    BY <1>1, LinesRise
<1>4. S = {k \in DOMAIN t : IsLabel(t[k]) /\ t[k].name = t[i].name /\ w[k - 1] < w[Len(t)]}
    BY <1>1 DEF LabelsSeen, Total
<1>5. j \in S
  <2>1. j - 1 \in 0 .. Len(t) /\ Len(t) \in 0 .. Len(t) /\ j - 1 < Len(t)
    BY <1>2
  <2>2. QED BY <1>3, <1>4, <2>1
<1>6. PICK k : k = FirstOf(S)
    OBVIOUS
<1>7. k \in S
  <2>1. S \subseteq Nat /\ S # {}
    BY <1>2, <1>4, <1>5
  <2>2. \E a \in S : \A b \in S : a <= b
    BY <2>1, LeastNumber
  <2>3. QED BY <1>6, <2>2 DEF FirstOf
<1>8. k \in DOMAIN t /\ IsLabel(t[k]) /\ t[k].name = t[i].name
    BY <1>4, <1>7
<1>9. Offset(t)[w[k - 1]] = v[k - 1] /\ Offset(t)[w[i - 1]] = v[i - 1]
  <2>1. Offset(t)[w[k - 1]] = v[k - 1]
    BY <1>1, <1>8, OffsetOf
  <2>2. Offset(t)[w[i - 1]] = v[i - 1]
    BY <1>1, OffsetOf
  <2>3. QED BY <2>1, <2>2
<1>10. Distance(t, t, i) = Abs(v[k - 1] - v[i - 1])
    BY <1>1, <1>6, <1>9 DEF Distance
<1>11. ~(Abs(v[k - 1] - v[i - 1]) + 12 >= 2 ^ (t[i].n - 1))
    BY <1>1, <1>5, <1>10 DEF TooFar
<1>12. PICK d : d = Abs(v[k - 1] - v[i - 1])
    OBVIOUS
<1>13. d \in Int
  <2>1. k - 1 \in 0 .. Len(t) /\ i - 1 \in 0 .. Len(t)
    BY <1>2, <1>8
  <2>2. v[k - 1] \in Nat /\ v[i - 1] \in Nat
    BY <1>2, <2>1
  <2>3. QED BY <1>12, <2>2 DEF Abs
<1>14. PICK e : e = 2 ^ (t[i].n - 1)
    OBVIOUS
<1>15. e \in Int
  <2>1. t[i] \in Line
    OBVIOUS
  <2>2. PICK m : m = t[i].n - 1
    OBVIOUS
  <2>3. m \in Nat
    BY <2>1, <2>2, LineTyped
  <2>4. 2 ^ m \in Int
    BY <2>3
  <2>5. QED BY <1>14, <2>2, <2>4
<1>16. d + 12 < e
    BY <1>11, <1>12, <1>13, <1>14, <1>15
<1>17. QED BY <1>1, <1>8, <1>12, <1>14, <1>16

-------------------------------------------------------------------------------
(* Where a line puts what it adds.                                         *)

\* The branches of r are those of p and that of line l, put at `at`.
BranchesFrom(p, r, l, at) ==
    \A j \in DOMAIN r : r[j].bits # 0 =>
        \/ \E i \in DOMAIN p : /\ p[i].bits = r[j].bits /\ p[i].name = r[j].name
                               /\ p[i].address = r[j].address
        \/ l.op = "branch" /\ r[j].name = l.name /\ r[j].bits = l.n /\ r[j].address = at

\* The labels of p are where they were.
LabelsStay(p, r) ==
    \A x : FindLabel(p, x) # 0 =>
        FindLabel(r, x) # 0 /\ r[FindLabel(r, x)].address = p[FindLabel(p, x)].address

LEMMA RefinedStays ==
    ASSUME NEW p \in Seq(EntryType), NEW r, Refined(p, r), NEW l, NEW at
    PROVE  BranchesFrom(p, r, l, at) /\ LabelsStay(p, r)
<1>1. DOMAIN r = DOMAIN p
    BY DEF Refined
<1>2. ASSUME NEW i \in DOMAIN p
      PROVE  p[i].bits = r[i].bits /\ p[i].name = r[i].name /\ p[i].address = r[i].address
    BY DEF Refined, OfKind
<1>3. BranchesFrom(p, r, l, at)
    BY <1>1, <1>2 DEF BranchesFrom
<1>4. ASSUME NEW x, FindLabel(p, x) # 0
      PROVE  FindLabel(r, x) # 0 /\ r[FindLabel(r, x)].address = p[FindLabel(p, x)].address
  <2>1. FindLabel(r, x) = FindLabel(p, x)
    BY RefinedNames
  <2>2. FindLabel(p, x) \in DOMAIN p
    BY <1>4, Found
  <2>3. QED BY <1>2, <1>4, <2>1, <2>2
<1>5. QED BY <1>3, <1>4 DEF LabelsStay

LEMMA AppendStays ==
    ASSUME NEW p \in Seq(EntryType), NEW m \in Seq(EntryType), NEW e \in EntryType, NEW l, NEW at,
           BranchesFrom(p, m, l, at), LabelsStay(p, m), UniqueIn(m),
           e.op \in Labelled => FindLabel(m, e.name) = 0,
           e.bits # 0 => l.op = "branch" /\ e.name = l.name /\ e.bits = l.n /\ e.address = at
    PROVE  /\ BranchesFrom(p, Append(m, e), l, at) /\ LabelsStay(p, Append(m, e))
           /\ Append(m, e) \in Seq(EntryType) /\ UniqueIn(Append(m, e))
           /\ e.op \in Labelled => FindLabel(Append(m, e), e.name) # 0
                                   /\ Append(m, e)[FindLabel(Append(m, e), e.name)] = e
<1> DEFINE r == Append(m, e)
<1>1. /\ r \in Seq(EntryType) /\ \A i \in DOMAIN m : i \in DOMAIN r /\ r[i] = m[i]
      /\ r[Len(m) + 1] = e
      /\ \A i \in DOMAIN r : i \in DOMAIN m \/ i = Len(m) + 1
    BY Appended
<1>2. PICK names : \A i \in DOMAIN m : m[i].op \in Labelled => m[i].name \in names
  <2>1. \A i \in DOMAIN m : m[i].op \in Labelled => m[i].name \in {m[k].name : k \in DOMAIN m}
    OBVIOUS
  <2>2. QED BY <2>1
<1>3. /\ UniqueIn(r)
      /\ \A x : FindLabel(m, x) # 0 => FindLabel(r, x) = FindLabel(m, x)
      /\ e.op \in Labelled => FindLabel(r, e.name) = Len(m) + 1
  <2>1. e.op \in Labelled => FindLabel(m, e.name) = 0 /\ e.name \in {e.name}
    OBVIOUS
  <2>2. QED BY <2>1, AppendNames
<1> HIDE DEF r
<1>4. Len(m) + 1 # 0
    OBVIOUS
<1>5. ASSUME NEW x, FindLabel(p, x) # 0
      PROVE  FindLabel(r, x) # 0 /\ r[FindLabel(r, x)].address = p[FindLabel(p, x)].address
  <2>1. FindLabel(m, x) # 0 /\ m[FindLabel(m, x)].address = p[FindLabel(p, x)].address
    BY <1>5 DEF LabelsStay
  <2>2. FindLabel(m, x) \in DOMAIN m
    BY <2>1, Found
  <2>3. QED BY <1>1, <1>3, <2>1, <2>2
<1>6. LabelsStay(p, r)
    BY <1>5 DEF LabelsStay
<1>7. ASSUME NEW j \in DOMAIN r, r[j].bits # 0
      PROVE  \/ \E i \in DOMAIN p : /\ p[i].bits = r[j].bits /\ p[i].name = r[j].name
                                    /\ p[i].address = r[j].address
             \/ l.op = "branch" /\ r[j].name = l.name /\ r[j].bits = l.n /\ r[j].address = at
  <2>1. CASE j \in DOMAIN m
    BY <1>1, <1>7, <2>1 DEF BranchesFrom
  <2>2. CASE j = Len(m) + 1
    BY <1>1, <1>7, <2>2
  <2>3. QED BY <1>1, <2>1, <2>2
<1>8. BranchesFrom(p, r, l, at)
    BY <1>7 DEF BranchesFrom
<1>9. QED BY <1>1, <1>3, <1>4, <1>6, <1>8 DEF r

\* Reading a line of code moves on by no more than the line's bound, and leaves
\* in place what is already there.
Grows ==
    /\ pos'.instr \in Nat /\ pos.instr <= pos'.instr /\ pos'.instr <= pos.instr + MaxLineBytes(Current)
    /\ BranchesFrom(parsed, parsed', Current, pos.instr)
    /\ LabelsStay(parsed, parsed')
    /\ ~bad' /\ IsLabel(Current) =>
           /\ FindLabel(parsed', Current.name) # 0
           /\ parsed'[FindLabel(parsed', Current.name)].address = pos'.instr
    /\ ~bad' => ~bad

LEMMA SameStays ==
    ASSUME NEW p \in Seq(EntryType), NEW l, NEW at
    PROVE  BranchesFrom(p, p, l, at) /\ LabelsStay(p, p)
BY RefinedSame, RefinedStays

LEMMA LabelGrows ==
    ASSUME LinesTyped, Numbers, Labels, AssembleLabel
    PROVE  Grows
<1>1. /\ parsed \in Seq(EntryType) /\ pos.instr \in Nat /\ UniqueIn(parsed) /\ LabelEntry \in EntryType
      /\ pos \in [instr : Nat, data : Nat, staged : Nat]
    BY LabelNumbers DEF Numbers, Labels
<1>2. Current \in Line /\ Current.op \in {"aligned", "label"}
    BY ReadsLine DEF AssembleLabel
<1>3. BranchesFrom(parsed, parsed, Current, pos.instr) /\ LabelsStay(parsed, parsed)
    BY <1>1, SameStays
<1>4. MaxLineBytes(Current) = IF Current.op = "aligned" THEN 5 ELSE 2
    BY <1>2 DEF MaxLineBytes
<1>5. CASE FindLabel(parsed, Current.name) # 0
  <2>1. bad' = TRUE /\ UNCHANGED <<parsed, pos>>
    BY <1>5 DEF AssembleLabel, Refused
  <2>2. pos'.instr \in Nat /\ pos.instr <= pos'.instr /\ pos'.instr <= pos.instr + MaxLineBytes(Current)
    BY <1>1, <1>4, <2>1
  <2>3. QED BY <1>3, <2>1, <2>2 DEF Grows
<1>6. CASE FindLabel(parsed, Current.name) = 0
  <2>1. PICK d : d = Padding(Current.op = "aligned", Current.name \in heads)
    OBVIOUS
  <2>2. d \in Nat /\ d <= MaxLineBytes(Current)
    BY <1>1, <1>4, <2>1 DEF Padding
  <2>3. /\ parsed' = Append(parsed, LabelEntry) /\ pos' = [pos EXCEPT !.instr = pos.instr + d] /\ bad' = bad
        /\ LabelEntry.op = "label" /\ LabelEntry.name = Current.name /\ LabelEntry.bits = 0
        /\ LabelEntry.address = pos.instr + d
    BY <1>2, <1>6, <2>1 DEF AssembleLabel, LabelEntry, Entry
  <2>4. pos'.instr = pos.instr + d
    BY <1>1, <2>3
  <2>5. pos'.instr \in Nat /\ pos.instr <= pos'.instr /\ pos'.instr <= pos.instr + MaxLineBytes(Current)
    BY <1>1, <1>4, <2>2, <2>4
  <2>6. /\ BranchesFrom(parsed, parsed', Current, pos.instr) /\ LabelsStay(parsed, parsed')
        /\ FindLabel(parsed', Current.name) # 0 /\ parsed'[FindLabel(parsed', Current.name)] = LabelEntry
    <3>1. LabelEntry.op \in Labelled /\ FindLabel(parsed, LabelEntry.name) = 0
      BY <1>6, <2>3 DEF Labelled
    <3>2. PICK l, at, r : l = Current /\ at = pos.instr /\ r = Append(parsed, LabelEntry)
      OBVIOUS
    <3>3. BranchesFrom(parsed, parsed, l, at) /\ LabelsStay(parsed, parsed)
      BY <1>3, <3>2
    <3>4. BranchesFrom(parsed, r, l, at) /\ LabelsStay(parsed, r)
      BY <1>1, <2>3, <3>1, <3>2, <3>3, AppendStays
    <3>5. FindLabel(r, LabelEntry.name) # 0 /\ r[FindLabel(r, LabelEntry.name)] = LabelEntry
      <4>1. PICK e : e = LabelEntry
        OBVIOUS
      <4>2. e \in EntryType /\ e.op \in Labelled /\ FindLabel(parsed, e.name) = 0 /\ e.bits = 0
        BY <1>1, <2>3, <3>1, <4>1
      <4>3. e.op \in Labelled => FindLabel(Append(parsed, e), e.name) # 0
                                 /\ Append(parsed, e)[FindLabel(Append(parsed, e), e.name)] = e
        BY <1>1, <3>3, <4>2, AppendStays
      <4>4. QED BY <3>2, <4>1, <4>2, <4>3
    <3>6. parsed' = r /\ LabelEntry.name = Current.name
      BY <2>3, <3>2
    <3>7. FindLabel(r, Current.name) # 0 /\ r[FindLabel(r, Current.name)] = LabelEntry
      BY <3>5, <3>6
    <3>8. QED BY <3>2, <3>4, <3>6, <3>7
  <2>7. QED BY <2>3, <2>4, <2>5, <2>6 DEF Grows
<1>7. QED BY <1>5, <1>6

LEMMA InstrGrows ==
    ASSUME LinesTyped, Numbers, Labels, AssembleInstr
    PROVE  Grows
<1>1. /\ parsed \in Seq(EntryType) /\ pos.instr \in Nat /\ UniqueIn(parsed) /\ InstrEntry \in EntryType
      /\ InstrMarked \in Seq(EntryType) /\ Current.op \in InstrOps /\ parsed' = Append(InstrMarked, InstrEntry)
      /\ pos \in [instr : Nat, data : Nat, staged : Nat] /\ bad' = bad /\ Emitted(Current) \in Nat
      /\ pos' = [pos EXCEPT !.instr = pos.instr + Emitted(Current)]
    BY InstrNumbers DEF Numbers, Labels
<1>2. Current \in Line /\ Current.n \in Nat
    BY ReadsLine, LineTyped DEF AssembleInstr
<1>3. Refined(parsed, InstrMarked) /\ InstrEntry.op \notin Labelled
    BY InstrRefines
<1>4. /\ BranchesFrom(parsed, InstrMarked, Current, pos.instr) /\ LabelsStay(parsed, InstrMarked)
      /\ UniqueIn(InstrMarked)
    BY <1>1, <1>3, RefinedStays, RefinedNames
<1>5. InstrEntry.bits # 0 => /\ Current.op = "branch" /\ InstrEntry.name = Current.name
                             /\ InstrEntry.bits = Current.n /\ InstrEntry.address = pos.instr
    BY DEF InstrEntry, Entry
<1>6. BranchesFrom(parsed, parsed', Current, pos.instr) /\ LabelsStay(parsed, parsed')
    BY <1>1, <1>3, <1>4, <1>5, AppendStays
<1>7. Emitted(Current) <= MaxLineBytes(Current) /\ MaxLineBytes(Current) \in Nat
    BY <1>1, <1>2 DEF Emitted, MaxLineBytes, InstrOps
<1>8. pos'.instr = pos.instr + Emitted(Current)
    BY <1>1
<1>9. pos'.instr \in Nat /\ pos.instr <= pos'.instr /\ pos'.instr <= pos.instr + MaxLineBytes(Current)
    BY <1>1, <1>7, <1>8
<1>10. ~IsLabel(Current)
    BY <1>1 DEF IsLabel, InstrOps
<1>11. QED BY <1>1, <1>6, <1>9, <1>10 DEF Grows

LEMMA CallGrows ==
    ASSUME LinesTyped, Numbers, Labels, AssembleCall
    PROVE  Grows
<1>1. /\ parsed \in Seq(EntryType) /\ pos.instr \in Nat /\ UniqueIn(parsed)
      /\ LoadEntry \in EntryType /\ CallEntry \in EntryType
      /\ CallMarked \in Seq(EntryType) /\ Current.op = "callExt"
      /\ parsed' = Append(Append(CallMarked, LoadEntry), CallEntry)
      /\ pos \in [instr : Nat, data : Nat, staged : Nat] /\ bad' = bad
      /\ pos' = [pos EXCEPT !.instr = pos.instr + 6 * Current.n]
  <2>1. /\ LoadEntry \in EntryType /\ CallEntry \in EntryType
        /\ CallMarked \in Seq(EntryType) /\ Current.op = "callExt"
        /\ parsed' = Append(Append(CallMarked, LoadEntry), CallEntry) /\ bad' = bad
        /\ pos' = [pos EXCEPT !.instr = pos.instr + 6 * Current.n]
    BY CallNumbers
  <2>2. /\ parsed \in Seq(EntryType) /\ pos.instr \in Nat /\ UniqueIn(parsed)
        /\ pos \in [instr : Nat, data : Nat, staged : Nat]
    BY DEF Numbers, Labels
  <2>3. QED BY <2>1, <2>2
<1>2. Current \in Line /\ Current.n \in Nat
    BY ReadsLine, LineTyped DEF AssembleCall
<1>3. Refined(parsed, CallMarked) /\ LoadEntry.op \notin Labelled /\ CallEntry.op \notin Labelled
    BY CallRefines
<1>4. /\ BranchesFrom(parsed, CallMarked, Current, pos.instr) /\ LabelsStay(parsed, CallMarked)
      /\ UniqueIn(CallMarked)
    BY <1>1, <1>3, RefinedStays, RefinedNames
<1>5. LoadEntry.bits = 0 /\ CallEntry.bits = 0
    BY <1>1 DEF LoadEntry, CallEntry, Entry
<1>6. PICK m : m = Append(CallMarked, LoadEntry)
    OBVIOUS
<1>7. /\ BranchesFrom(parsed, m, Current, pos.instr) /\ LabelsStay(parsed, m)
      /\ m \in Seq(EntryType) /\ UniqueIn(m)
    BY <1>1, <1>3, <1>4, <1>5, <1>6, AppendStays
<1>8. BranchesFrom(parsed, parsed', Current, pos.instr) /\ LabelsStay(parsed, parsed')
    BY <1>1, <1>3, <1>5, <1>6, <1>7, AppendStays
<1>9. MaxLineBytes(Current) = 6 * Current.n
    BY <1>1 DEF MaxLineBytes
<1>10. PICK d : d = 6 * Current.n
    OBVIOUS
<1>11. pos'.instr = pos.instr + d /\ d \in Nat
    BY <1>1, <1>2, <1>10
<1>12. pos'.instr \in Nat /\ pos.instr <= pos'.instr /\ pos'.instr <= pos.instr + MaxLineBytes(Current)
    BY <1>1, <1>9, <1>10, <1>11
<1>13. ~IsLabel(Current)
    BY <1>1 DEF IsLabel
<1>14. QED BY <1>1, <1>8, <1>12, <1>13 DEF Grows

\* A reservation adds no branch.
LEMMA DataBranches ==
    ASSUME LinesTyped, Numbers, AssembleData
    PROVE  \A j \in DOMAIN parsed' : parsed'[j].bits # 0 => \E i \in DOMAIN parsed : parsed[i].bits # 0
<1>1. parsed \in Seq(EntryType)
    BY DEF Numbers
<1>2. CASE UNCHANGED parsed
    BY <1>2
<1>3. CASE ~(UNCHANGED parsed)
  <2>1. /\ Len(parsed) \in DOMAIN parsed /\ parsed[Len(parsed)].op = "label"
        /\ DataLabels \in Seq(EntryType) /\ DataAddress \in Nat
        /\ DataValue \in EntryType
        /\ parsed' = DataLabels \/ parsed' = Append(DataLabels, DataValue)
    BY <1>3, DataStep
  <2>2. DataLabels = [parsed EXCEPT ![Len(parsed)] = WithData(parsed[Len(parsed)], DataAddress)]
    BY DEF DataLabels, Reserving
  <2>3. /\ DOMAIN DataLabels = DOMAIN parsed
        /\ \A i \in DOMAIN parsed : DataLabels[i].bits = parsed[i].bits
    BY <1>1, <2>1, <2>2 DEF WithData
  <2>4. DataValue.bits = 0
    <3>1. Current.op \in {"bytes", "string"}
      BY ReadsLine DEF AssembleData
    <3>2. QED BY <3>1 DEF DataValue, StagedAfter, Entry
  <2>5. CASE parsed' = DataLabels
    BY <2>3, <2>5
  <2>6. CASE parsed' = Append(DataLabels, DataValue)
    BY <2>1, <2>3, <2>4, <2>6, Appended
  <2>7. QED BY <2>1, <2>5, <2>6
<1>4. QED BY <1>2, <1>3

-------------------------------------------------------------------------------
(* Where the relaxed lines are.                                            *)

\* s is what is left of t.
LeftOf(t, s) ==
    s \in Seq(Line) /\ Len(s) <= Len(t) /\ \A i \in DOMAIN s : s[i] = t[(Len(t) - Len(s)) + i]

\* The first m lines of t go from a[0] to a[m], none by more than its bound.
Climbs(t, a, m) ==
    /\ a \in [0 .. Len(t) -> Nat]
    /\ \A k \in 1 .. m : a[k - 1] <= a[k] /\ a[k] <= a[k - 1] + MaxLineBytes(t[k])

Read(L, q) == Len(L[q]) - Len(text[q])

\* The lines L[q] that are assembled begin at A[q][0], A[q][1], .. : the branches
\* among the entries begin where their lines do, and labels end where theirs do.
PlacedAs(L, A) ==
    /\ \A q \in CodePart : LeftOf(L[q], text[q]) /\ Climbs(L[q], A[q], Read(L, q))
    /\ text["header"] # <<>> => Read(L, "content") = 0
    /\ text["header"] # <<>> \/ text["content"] # <<>> => Read(L, "footer") = 0
    /\ \A q \in CodePart : Read(L, q) # 0 /\ (q = "content" => Read(L, "footer") = 0) =>
           A[q][Read(L, q)] = pos.instr
    /\ \A j \in DOMAIN parsed : parsed[j].bits # 0 =>
           \E q \in CodePart : \E i \in 1 .. Read(L, q) :
               /\ L[q][i].op = "branch" /\ L[q][i].name = parsed[j].name
               /\ L[q][i].n = parsed[j].bits /\ A[q][i - 1] = parsed[j].address
    /\ ~bad => \A q \in CodePart : \A k \in 1 .. Read(L, q) : IsLabel(L[q][k]) =>
           /\ FindLabel(parsed, L[q][k].name) # 0
           /\ parsed[FindLabel(parsed, L[q][k].name)].address = A[q][k]

\* The places, when the next line has been read.
After(t, a, m, from, to) ==
    [k \in 0 .. Len(t) |-> IF k = m + 1 THEN to ELSE IF k = m THEN from ELSE a[k]]

LEMMA ClimbsOn ==
    ASSUME NEW t \in Seq(Line), NEW a, NEW m \in Nat, m < Len(t), Climbs(t, a, m),
           NEW from \in Nat, NEW to \in Nat, from <= to, to <= from + MaxLineBytes(t[m + 1]),
           m # 0 => a[m] = from
    PROVE  /\ Climbs(t, After(t, a, m, from, to), m + 1)
           /\ \A k \in 0 .. m : m # 0 => After(t, a, m, from, to)[k] = a[k]
           /\ After(t, a, m, from, to)[m] = from /\ After(t, a, m, from, to)[m + 1] = to
<1>1. PICK n : n = Len(t)
    OBVIOUS
<1>2. n \in Nat /\ m + 1 \in 0 .. n /\ m \in 0 .. n /\ m < n /\ a \in [0 .. n -> Nat]
    BY <1>1 DEF Climbs
<1> DEFINE b == After(t, a, m, from, to)
<1>3. b \in [0 .. n -> Nat]
    BY <1>1, <1>2 DEF After
<1>4. b[m + 1] = to /\ b[m] = from
    BY <1>1, <1>2 DEF After
<1>5. ASSUME NEW k \in 0 .. m, m # 0 PROVE b[k] = a[k]
  <2>1. k \in 0 .. n /\ k # m + 1
    BY <1>2
  <2>2. b[k] = IF k = m THEN from ELSE a[k]
    BY <1>1, <2>1 DEF After
  <2>3. QED BY <1>5, <2>2
<1> HIDE DEF b
<1>6. ASSUME NEW k \in 1 .. m + 1 PROVE b[k - 1] <= b[k] /\ b[k] <= b[k - 1] + MaxLineBytes(t[k])
  <2>1. CASE k = m + 1
    <3>1. k - 1 = m
      BY <1>2, <2>1
    <3>2. QED BY <1>4, <2>1, <3>1
  <2>2. CASE k # m + 1
    <3>1. k \in 1 .. m /\ k \in 0 .. m /\ k - 1 \in 0 .. m /\ m # 0
      BY <1>2, <2>2
    <3>2. b[k] = a[k] /\ b[k - 1] = a[k - 1]
      BY <1>5, <3>1
    <3>3. QED BY <3>1, <3>2 DEF Climbs
  <2>3. QED BY <2>1, <2>2
<1>7. Climbs(t, b, m + 1)
    BY <1>1, <1>3, <1>6 DEF Climbs
<1>8. QED BY <1>4, <1>5, <1>7 DEF b

LEMMA LeftTail ==
    ASSUME NEW t \in Seq(Line), NEW s, LeftOf(t, s), s # <<>>, NEW m, m = Len(t) - Len(s)
    PROVE  /\ m \in Nat /\ m < Len(t) /\ Head(s) = t[m + 1]
           /\ LeftOf(t, Tail(s)) /\ Len(t) - Len(Tail(s)) = m + 1
<1>1. /\ s \in Seq(Line) /\ Len(s) <= Len(t) /\ Len(s) \in Nat /\ Len(t) \in Nat
      /\ \A i \in DOMAIN s : s[i] = t[m + i]
    BY DEF LeftOf
<1>2. /\ Head(s) = s[1] /\ 1 \in DOMAIN s
      /\ Tail(s) \in Seq(Line) /\ Len(Tail(s)) = Len(s) - 1
      /\ \A i \in DOMAIN Tail(s) : i + 1 \in DOMAIN s /\ Tail(s)[i] = s[i + 1]
    BY <1>1, Tailed
<1>3. m \in Nat /\ m < Len(t) /\ Len(t) - Len(Tail(s)) = m + 1
    BY <1>1, <1>2
<1>4. ASSUME NEW i \in DOMAIN Tail(s) PROVE Tail(s)[i] = t[(m + 1) + i]
  <2>1. i \in Nat
    BY <1>2
  <2>2. m + (i + 1) = (m + 1) + i
    BY <1>3, <2>1
  <2>3. QED BY <1>1, <1>2, <2>2
<1>5. LeftOf(t, Tail(s))
  <2>1. Len(Tail(s)) <= Len(t)
    BY <1>1, <1>2
  <2>2. QED BY <1>2, <1>3, <1>4, <2>1 DEF LeftOf
<1>6. QED BY <1>1, <1>2, <1>3, <1>5

LEMMA CodeRead ==
    ASSUME LinesTyped, Numbers, NEW ops, Reads(ops), NextPart # "header", Grows,
           NEW L, \A q \in CodePart : L[q] \in Seq(Line), NEW A, PlacedAs(L, A)
    PROVE  \E B : PlacedAs(L, B)'
<1>1. PICK q : q = NextPart
    OBVIOUS
<1>2. PICK t, s, a, m : t = L[q] /\ s = text[q] /\ a = A[q] /\ m = Len(t) - Len(s)
    OBVIOUS
<1>3. /\ q \in CodePart /\ DOMAIN text = Part /\ s # <<>> /\ Current = Head(s)
      /\ text' = [text EXCEPT ![q] = Tail(s)]
      /\ text["header"] = <<>> /\ (q = "content" <=> text["content"] # <<>>)
    BY <1>1, <1>2 DEF NextPart, CodePart, LinesTyped, Reads, Current
<1>4. q \in Part /\ text'[q] = Tail(s) /\ \A r \in Part : r # q => text'[r] = text[r]
    BY <1>3 DEF Part, CodePart
<1>5. t \in Seq(Line) /\ LeftOf(t, s) /\ Climbs(t, a, m)
    BY <1>2, <1>3 DEF PlacedAs, Read
<1>6. /\ m \in Nat /\ m < Len(t) /\ Current = t[m + 1]
      /\ LeftOf(t, Tail(s)) /\ Len(t) - Len(Tail(s)) = m + 1
    BY <1>2, <1>3, <1>5, LeftTail
<1>7. Read(L, q) = m
    BY <1>2 DEF Read
<1>8. q = "content" => Read(L, "footer") = 0
    BY <1>3 DEF PlacedAs
<1>9. m # 0 => a[m] = pos.instr
    BY <1>2, <1>3, <1>7, <1>8 DEF PlacedAs
<1>10. PICK from, to : from = pos.instr /\ to = pos'.instr
    OBVIOUS
<1>11. from \in Nat /\ to \in Nat /\ from <= to /\ to <= from + MaxLineBytes(t[m + 1])
  <2>1. pos.instr \in Nat
    BY DEF Numbers
  <2>2. /\ pos'.instr \in Nat /\ pos.instr <= pos'.instr
        /\ pos'.instr <= pos.instr + MaxLineBytes(Current)
    BY DEF Grows
  <2>3. Current = t[m + 1]
    BY <1>6
  <2>4. QED BY <1>10, <2>1, <2>2, <2>3
<1>12. PICK b : b = After(t, a, m, from, to)
    OBVIOUS
<1>13. /\ Climbs(t, b, m + 1) /\ (\A k \in 0 .. m : m # 0 => b[k] = a[k])
       /\ b[m] = from /\ b[m + 1] = to
  <2>1. m # 0 => a[m] = from
    BY <1>9, <1>10
  <2>2. m \in Nat /\ m < Len(t)
    BY <1>6
  <2>3. /\ Climbs(t, After(t, a, m, from, to), m + 1)
        /\ \A k \in 0 .. m : m # 0 => After(t, a, m, from, to)[k] = a[k]
        /\ After(t, a, m, from, to)[m] = from /\ After(t, a, m, from, to)[m + 1] = to
    BY <1>5, <1>11, <2>1, <2>2, ClimbsOn
  <2>4. QED BY <1>12, <2>3
<1>14. PICK B : B = [r \in CodePart |-> IF r = q THEN b ELSE A[r]]
    OBVIOUS
<1>15. B[q] = b /\ \A r \in CodePart : r # q => B[r] = A[r]
    BY <1>3, <1>14
<1>16. Read(L, q)' = m + 1 /\ \A r \in CodePart : r # q => Read(L, r)' = Read(L, r)
  <2>1. Read(L, q)' = Len(t) - Len(Tail(s))
    <3>1. PICK z : z = Tail(s)
      OBVIOUS
    <3>2. text'[q] = z /\ L[q] = t
      BY <1>2, <1>4, <3>1
    <3>3. QED BY <3>1, <3>2 DEF Read
  <2>2. ASSUME NEW r \in CodePart, r # q PROVE Read(L, r)' = Read(L, r)
    <3>1. text'[r] = text[r]
      BY <1>4, <2>2 DEF CodePart, Part
    <3>2. QED BY <3>1 DEF Read
  <2>3. QED BY <1>6, <2>1, <2>2
<1>17. ASSUME NEW r \in CodePart PROVE LeftOf(L[r], text'[r]) /\ Climbs(L[r], B[r], Read(L, r)')
  <2>1. CASE r = q
    BY <1>2, <1>4, <1>6, <1>13, <1>15, <1>16, <2>1
  <2>2. CASE r # q
    <3>1. text'[r] = text[r] /\ B[r] = A[r] /\ Read(L, r)' = Read(L, r)
      BY <1>4, <1>15, <1>16, <2>2 DEF CodePart, Part
    <3>2. QED BY <3>1 DEF PlacedAs
  <2>3. QED BY <2>1, <2>2
<1>18. text'["header"] = <<>>
    BY <1>3, <1>4 DEF CodePart, Part
<1>19. text'["content"] # <<>> => Read(L, "footer")' = 0
  <2>1. CASE q = "content"
    BY <1>8, <1>16, <2>1 DEF CodePart
  <2>2. CASE q # "content"
    BY <1>3, <1>4, <2>2 DEF CodePart, Part
  <2>3. QED BY <2>1, <2>2
<1>20. ASSUME NEW r \in CodePart, Read(L, r)' # 0, r = "content" => Read(L, "footer")' = 0
       PROVE  B[r][Read(L, r)'] = pos'.instr
  <2>1. CASE r = q
    BY <1>10, <1>13, <1>15, <1>16, <2>1
  <2>2. CASE r # q
    <3>1. CASE q = "content"
      BY <1>8, <1>16, <1>20, <2>2, <3>1 DEF CodePart
    <3>2. CASE q = "footer"
      <4>1. m + 1 # 0
        BY <1>6
      <4>2. QED BY <1>16, <1>20, <2>2, <3>2, <4>1 DEF CodePart
    <3>3. QED BY <1>3, <3>1, <3>2 DEF CodePart
  <2>3. QED BY <2>1, <2>2
<1>21. ASSUME NEW r \in CodePart, NEW i \in 1 .. Read(L, r)
       PROVE  i \in 1 .. Read(L, r)' /\ B[r][i - 1] = A[r][i - 1] /\ B[r][i] = A[r][i]
  <2>1. CASE r = q
    <3>1. i \in 1 .. m + 1 /\ i - 1 \in 0 .. m /\ i \in 0 .. m /\ m # 0
      BY <1>6, <1>7, <1>21, <2>1
    <3>2. b[i - 1] = a[i - 1] /\ b[i] = a[i]
      BY <1>13, <3>1
    <3>3. QED BY <1>2, <1>15, <1>16, <2>1, <3>1, <3>2
  <2>2. CASE r # q
    BY <1>15, <1>16, <2>2
  <2>3. QED BY <2>1, <2>2
<1>22. m + 1 \in 1 .. Read(L, q)' /\ (m + 1) - 1 = m
    BY <1>6, <1>16
<1>23. ASSUME NEW j \in DOMAIN parsed', parsed'[j].bits # 0
       PROVE  \E r \in CodePart : \E i \in 1 .. Read(L, r)' :
                  /\ L[r][i].op = "branch" /\ L[r][i].name = parsed'[j].name
                  /\ L[r][i].n = parsed'[j].bits /\ B[r][i - 1] = parsed'[j].address
  <2>1. CASE \E i \in DOMAIN parsed : /\ parsed[i].bits = parsed'[j].bits /\ parsed[i].name = parsed'[j].name
                                      /\ parsed[i].address = parsed'[j].address
    <3>1. PICK x \in DOMAIN parsed : /\ parsed[x].bits = parsed'[j].bits /\ parsed[x].name = parsed'[j].name
                                     /\ parsed[x].address = parsed'[j].address
      BY <2>1
    <3>2. PICK r \in CodePart : \E i \in 1 .. Read(L, r) :
              /\ L[r][i].op = "branch" /\ L[r][i].name = parsed[x].name
              /\ L[r][i].n = parsed[x].bits /\ A[r][i - 1] = parsed[x].address
      BY <1>23, <3>1 DEF PlacedAs
    <3>3. PICK i \in 1 .. Read(L, r) :
              /\ L[r][i].op = "branch" /\ L[r][i].name = parsed[x].name
              /\ L[r][i].n = parsed[x].bits /\ A[r][i - 1] = parsed[x].address
      BY <3>2
    <3>4. i \in 1 .. Read(L, r)' /\ B[r][i - 1] = A[r][i - 1]
      BY <1>21
    <3>5. QED BY <3>1, <3>3, <3>4
  <2>2. CASE /\ Current.op = "branch" /\ parsed'[j].name = Current.name
             /\ parsed'[j].bits = Current.n /\ parsed'[j].address = pos.instr
    <3>1. /\ L[q][m + 1].op = "branch" /\ L[q][m + 1].name = parsed'[j].name
          /\ L[q][m + 1].n = parsed'[j].bits /\ B[q][(m + 1) - 1] = parsed'[j].address
      BY <1>2, <1>6, <1>10, <1>13, <1>15, <1>22, <2>2
    <3>2. QED BY <1>3, <1>22, <3>1
  <2>3. QED BY <1>23, <2>1, <2>2 DEF Grows, BranchesFrom
<1>24. ASSUME ~bad', NEW r \in CodePart, NEW k \in 1 .. Read(L, r)', IsLabel(L[r][k])
       PROVE  /\ FindLabel(parsed', L[r][k].name) # 0
              /\ parsed'[FindLabel(parsed', L[r][k].name)].address = B[r][k]
  <2>1. CASE k \in 1 .. Read(L, r)
    <3>1. ~bad
      BY <1>24 DEF Grows
    <3>2. /\ FindLabel(parsed, L[r][k].name) # 0
          /\ parsed[FindLabel(parsed, L[r][k].name)].address = A[r][k]
      BY <1>24, <2>1, <3>1 DEF PlacedAs
    <3>3. B[r][k] = A[r][k]
      BY <1>21, <2>1
    <3>4. QED BY <3>2, <3>3 DEF Grows, LabelsStay
  <2>2. CASE k \notin 1 .. Read(L, r)
    <3>1. r = q /\ k = m + 1
      <4>1. r = q
        BY <1>16, <1>24, <2>2
      <4>2. QED BY <1>6, <1>7, <1>16, <1>24, <2>2, <4>1
    <3>2. L[r][k] = Current /\ B[r][k] = pos'.instr
      BY <1>2, <1>6, <1>10, <1>13, <1>15, <3>1
    <3>3. QED BY <1>24, <3>2 DEF Grows
  <2>3. QED BY <2>1, <2>2
<1>25. PlacedAs(L, B)'
    BY <1>17, <1>18, <1>19, <1>20, <1>23, <1>24 DEF PlacedAs
<1>26. QED BY <1>25

SureLines(L) ==
    \A q \in CodePart : /\ L[q] \in Seq(Line) /\ AllCount(L[q]) /\ Sure(L[q])
                        /\ Matched(origin[q], L[q])

\* While lines are assembled, and after, there are the relaxed lines that they
\* are left of, and the places of those.
Placed == phase \in {"assemble", "check"} => \E L : SureLines(L) /\ \E A : PlacedAs(L, A)

LEMMA AllCounted ==
    ASSUME LinesTyped, NEW q \in Part
    PROVE  AllCount(text[q])
<1>1. ASSUME NEW i \in DOMAIN text[q] PROVE Count(text[q][i]) # 0
  <2>1. PICK l : l = text[q][i]
    OBVIOUS
  <2>2. l \in Line /\ OfProgram(origin[q], l) /\ origin \in Programs
    BY <2>1 DEF LinesTyped
  <2>3. l.op \in {"code", "callExt"} => l.n # 0
    BY <2>2, ProgramAssumption DEF OfProgram
  <2>4. Count(l) # 0
    BY <2>3 DEF Count
  <2>5. QED BY <2>1, <2>4
<1>2. QED BY <1>1 DEF AllCount

LEMMA EstimatePlaced ==
    ASSUME LinesTyped, LaidOut, AllMatched, DoneSure, Estimate
    PROVE  Placed'
<1>1. /\ phase = "estimate" /\ UNCHANGED <<origin, text, parsed>> /\ parsed = <<>>
    BY DEF Estimate, LaidOut
<1>2. PICK L : L = [q \in CodePart |-> text[q]]
    OBVIOUS
<1>3. PICK A : A = [q \in CodePart |-> [k \in 0 .. Len(text[q]) |-> 0]]
    OBVIOUS
<1>4. ASSUME NEW q \in CodePart
      PROVE  /\ L[q] = text[q] /\ text[q] \in Seq(Line) /\ AllCount(text[q]) /\ Sure(text[q])
             /\ Matched(origin[q], text[q])
  <2>1. q \in Part
    BY DEF CodePart, Part
  <2>2. Sure(text[q]) /\ Matched(origin[q], text[q])
    BY <1>1 DEF CodePart, DoneSure, AllMatched
  <2>3. text[q] \in Seq(Line)
    BY <2>1 DEF LinesTyped
  <2>4. QED BY <1>2, <2>1, <2>2, <2>3, AllCounted
<1>5. SureLines(L)'
    BY <1>1, <1>4 DEF SureLines
<1>6. ASSUME NEW q \in CodePart
      PROVE  Read(L, q)' = 0 /\ LeftOf(L[q], text'[q]) /\ Climbs(L[q], A[q], Read(L, q)')
  <2>1. PICK s : s = text[q]
    OBVIOUS
  <2>2. s \in Seq(Line) /\ L[q] = s /\ text'[q] = s /\ Len(s) \in Nat
    BY <1>1, <1>4, <2>1
  <2>3. Read(L, q)' = 0
    BY <2>2 DEF Read
  <2>4. LeftOf(s, s)
    <3>1. \A i \in DOMAIN s : (Len(s) - Len(s)) + i = i
      BY <2>2
    <3>2. QED BY <2>2, <3>1 DEF LeftOf
  <2>5. A[q] \in [0 .. Len(s) -> Nat]
    BY <1>3, <2>1
  <2>6. Climbs(s, A[q], 0)
    BY <2>5 DEF Climbs
  <2>7. QED BY <2>2, <2>3, <2>4, <2>6
<1>7. DOMAIN parsed' = {}
    BY <1>1
<1>8. \A q \in CodePart : \A k : k \notin 1 .. Read(L, q)'
    BY <1>6
<1>9. "content" \in CodePart /\ "footer" \in CodePart
    BY DEF CodePart
<1>10. PlacedAs(L, A)'
    BY <1>6, <1>7, <1>8, <1>9 DEF PlacedAs
<1>11. QED BY <1>5, <1>10 DEF Placed

LEMMA HeaderRead ==
    ASSUME LinesTyped, NEW ops, Reads(ops), NextPart = "header", NEW L, NEW A, PlacedAs(L, A),
           \A j \in DOMAIN parsed' : parsed'[j].bits # 0 => \E i \in DOMAIN parsed : parsed[i].bits # 0
    PROVE  PlacedAs(L, A)'
<1>1. text["header"] # <<>> /\ text' = [text EXCEPT !["header"] = Tail(text["header"])] /\ DOMAIN text = Part
    BY DEF NextPart, Reads, LinesTyped
<1>2. Read(L, "content") = 0 /\ Read(L, "footer") = 0
    BY <1>1 DEF PlacedAs
<1>3. ASSUME NEW q \in CodePart
      PROVE  text'[q] = text[q] /\ Read(L, q)' = 0 /\ Read(L, q) = 0
  <2>1. text'[q] = text[q]
    BY <1>1 DEF CodePart, Part
  <2>2. Read(L, q) = 0
    BY <1>2 DEF CodePart
  <2>3. QED BY <2>1, <2>2 DEF Read
<1>4. \A q \in CodePart : LeftOf(L[q], text'[q]) /\ Climbs(L[q], A[q], Read(L, q)')
    BY <1>3 DEF PlacedAs
<1>5. \A q \in CodePart : \A k : k \notin 1 .. Read(L, q)' /\ k \notin 1 .. Read(L, q)
    BY <1>3
<1>6. \A j \in DOMAIN parsed : ~(parsed[j].bits # 0)
    BY <1>5 DEF PlacedAs
<1>7. \A j \in DOMAIN parsed' : ~(parsed'[j].bits # 0)
    BY <1>6
<1>8. "content" \in CodePart /\ "footer" \in CodePart
    BY DEF CodePart
<1>9. QED BY <1>3, <1>4, <1>5, <1>7, <1>8 DEF PlacedAs

LEMMA ReadPlaced ==
    ASSUME LinesTyped, Numbers, Placed, NEW ops, Reads(ops),
           NextPart # "header" => Grows,
           NextPart = "header" =>
               \A j \in DOMAIN parsed' : parsed'[j].bits # 0 => \E i \in DOMAIN parsed : parsed[i].bits # 0
    PROVE  Placed'
<1>1. phase = "assemble" /\ phase' = phase /\ UNCHANGED origin
    BY DEF Reads
<1>2. PICK L : SureLines(L) /\ \E A : PlacedAs(L, A)
    BY <1>1 DEF Placed
<1>3. PICK A : PlacedAs(L, A)
    BY <1>2
<1>4. SureLines(L)'
    BY <1>1, <1>2 DEF SureLines
<1>5. \E B : PlacedAs(L, B)'
  <2>1. CASE NextPart = "header"
    BY <1>3, <2>1, HeaderRead
  <2>2. CASE NextPart # "header"
    <3>1. \A q \in CodePart : L[q] \in Seq(Line)
      BY <1>2 DEF SureLines
    <3>2. QED BY <1>3, <2>2, <3>1, CodeRead
  <2>3. QED BY <2>1, <2>2
<1>6. QED BY <1>4, <1>5 DEF Placed

LEMMA NextPlaced ==
    ASSUME LinesTyped, Numbers, Labels, LaidOut, AllMatched, DoneSure, Placed, AsmNext
    PROVE  Placed'
<1>1. CASE Relaxes
    BY <1>1 DEF Relaxes, BeginPass, RelaxLine, EndPass, Placed
<1>2. CASE Estimate
    BY <1>2, EstimatePlaced
<1>3. CASE AssembleLabel
  <2>1. Reads({"aligned", "label"}) /\ Current.op \in {"aligned", "label"}
    BY <1>3, ReadsLine DEF AssembleLabel
  <2>2. Grows
    BY <1>3, LabelGrows
  <2>3. \A j \in DOMAIN parsed' : parsed'[j].bits # 0 => \E i \in DOMAIN parsed : parsed[i].bits # 0
    BY <2>1, <2>2 DEF Grows, BranchesFrom
  <2>4. QED BY <2>1, <2>2, <2>3, ReadPlaced
<1>4. CASE AssembleData
  <2>1. Reads({"bytes", "string"}) /\ NextPart = "header"
    <3>1. Reads({"bytes", "string"})
      BY <1>4 DEF AssembleData
    <3>2. Current.op \in {"bytes", "string"}
      BY <3>1, ReadsLine
    <3>3. QED BY <3>1, <3>2, ReadNames
  <2>2. \A j \in DOMAIN parsed' : parsed'[j].bits # 0 => \E i \in DOMAIN parsed : parsed[i].bits # 0
    BY <1>4, DataBranches
  <2>3. QED BY <2>1, <2>2, ReadPlaced
<1>5. CASE AssembleInstr
  <2>1. Reads(InstrOps) /\ Grows
    BY <1>5, InstrGrows DEF AssembleInstr, InstrOps
  <2>2. NextPart = "header" => Current.op # "branch"
    BY <2>1, ReadNames
  <2>3. NextPart = "header" =>
            \A j \in DOMAIN parsed' : parsed'[j].bits # 0 => \E i \in DOMAIN parsed : parsed[i].bits # 0
    BY <2>1, <2>2 DEF Grows, BranchesFrom
  <2>4. QED BY <2>1, <2>3, ReadPlaced
<1>6. CASE AssembleCall
  <2>1. Reads({"callExt"}) /\ Grows
    BY <1>6, CallGrows DEF AssembleCall
  <2>2. Current.op # "branch"
    BY <2>1, ReadsLine
  <2>3. \A j \in DOMAIN parsed' : parsed'[j].bits # 0 => \E i \in DOMAIN parsed : parsed[i].bits # 0
    BY <2>1, <2>2 DEF Grows, BranchesFrom
  <2>4. QED BY <2>1, <2>3, ReadPlaced
<1>7. CASE Finishes
  <2>1. CASE EndAssembly
    <3>1. UNCHANGED <<origin, text, parsed, pos, bad>> /\ phase = "assemble"
      BY <2>1 DEF EndAssembly
    <3>2. PICK L : SureLines(L) /\ \E A : PlacedAs(L, A)
      BY <3>1 DEF Placed
    <3>3. PICK A : PlacedAs(L, A)
      BY <3>2
    <3>4. SureLines(L)'
      BY <3>1, <3>2 DEF SureLines
    <3>5. \A q \in CodePart : Read(L, q)' = Read(L, q)
      BY <3>1 DEF Read
    <3>6. "content" \in CodePart /\ "footer" \in CodePart
      BY DEF CodePart
    <3>7. PlacedAs(L, A)'
      BY <3>1, <3>3, <3>5, <3>6 DEF PlacedAs
    <3>8. QED BY <3>4, <3>7 DEF Placed
  <2>2. CASE CheckRange \/ CalculateJump \/ CreateBinaryHeader
    <3>1. phase' \notin {"assemble", "check"}
      BY <2>2 DEF CheckRange, CalculateJump, CreateBinaryHeader
    <3>2. QED BY <3>1 DEF Placed
  <2>3. QED BY <1>7, <2>1, <2>2 DEF Finishes
<1>8. QED BY <1>1, <1>2, <1>3, <1>4, <1>5, <1>6, <1>7, AsmSteps

\* How far a branch goes to a label that is surely near.
LEMMA ReachNear ==
    ASSUME NEW t \in Seq(Line), NEW a, Climbs(t, a, Len(t)), NEW i \in DOMAIN t, NEW k \in DOMAIN t, i # k,
           IsLabel(t[k]), NEW v, v = SumTo(t, MaxLineBytes), NEW h \in Int,
           Abs(v[k - 1] - v[i - 1]) + 12 < h
    PROVE  -h <= (a[k] - a[i - 1]) - 4 /\ (a[k] - a[i - 1]) - 4 < h
<1>1. PICK n, g : n = Len(t) /\ g = [j \in DOMAIN t |-> MaxLineBytes(t[j])]
    OBVIOUS
<1>2. n \in Nat /\ DOMAIN t = 1 .. n /\ n \in 0 .. n
    BY <1>1
<1>3. v \in [0 .. n -> Nat] /\ Sums(v, g, n)
  <2>1. SumTo(t, MaxLineBytes) \in [0 .. Len(t) -> Nat]
    BY SumsOfLines
  <2>2. Sums(SumTo(t, MaxLineBytes), [j \in DOMAIN t |-> MaxLineBytes(t[j])], Len(t))
    BY SumsOfLines
  <2>3. QED BY <1>1, <2>1, <2>2
<1>4. \A j \in 1 .. n : g[j] \in Nat /\ g[j] = MaxLineBytes(t[j])
  <2>1. \A j \in DOMAIN t : MaxLineBytes(t[j]) \in Nat
    BY BytesNat
  <2>2. QED BY <1>1, <1>2, <2>1
<1>5. /\ a \in [0 .. n -> Nat]
      /\ \A j \in 1 .. n : a[j - 1] <= a[j] /\ a[j] <= a[j - 1] + g[j]
    BY <1>1, <1>4 DEF Climbs
<1>6. \A x, y \in 0 .. n : x <= y => a[x] <= a[y] /\ a[y] - a[x] <= v[y] - v[x]
    BY <1>2, <1>3, <1>4, <1>5, RisesLess
<1>7. i - 1 \in 0 .. n /\ k - 1 \in 0 .. n /\ k \in 0 .. n /\ i \in 1 .. n /\ k \in 1 .. n
    BY <1>2
<1>8. g[k] \in Nat /\ g[k] <= 5
  <2>1. MaxLineBytes(t[k]) = 5 \/ MaxLineBytes(t[k]) = 2
    BY DEF MaxLineBytes, IsLabel
  <2>2. g[k] = 5 \/ g[k] = 2
    BY <1>4, <1>7, <2>1
  <2>3. QED BY <2>2
<1>9. v[k] = v[k - 1] + g[k]
    BY <1>3, <1>7 DEF Sums
<1>10. PICK vi, vk, wk, ai, ak : /\ vi = v[i - 1] /\ vk = v[k - 1] /\ wk = v[k]
                                 /\ ai = a[i - 1] /\ ak = a[k]
    OBVIOUS
<1>11. vi \in Nat /\ vk \in Nat /\ wk \in Nat /\ ai \in Nat /\ ak \in Nat
    BY <1>3, <1>5, <1>7, <1>10
<1>12. vk <= wk /\ wk <= vk + 5
  <2>1. PICK gk : gk = g[k]
    OBVIOUS
  <2>2. gk \in Nat /\ gk <= 5 /\ wk = vk + gk
    BY <1>8, <1>9, <1>10, <2>1
  <2>3. QED BY <1>11, <2>2
<1>13. (vk - vi) + 12 < h /\ (vi - vk) + 12 < h
  <2>1. PICK d : d = vk - vi
    OBVIOUS
  <2>2. d \in Int /\ vi - vk = -d
    BY <1>11, <2>1
  <2>3. Abs(d) + 12 < h
    BY <1>10, <2>1
  <2>4. d + 12 < h /\ -d + 12 < h
    BY <2>2, <2>3 DEF Abs
  <2>5. QED BY <2>1, <2>2, <2>4
<1>14. CASE i < k
  <2>1. i - 1 <= k
    BY <1>7, <1>14
  <2>2. ai <= ak /\ ak - ai <= wk - vi
    BY <1>6, <1>7, <1>10, <2>1
  <2>3. -h <= (ak - ai) - 4 /\ (ak - ai) - 4 < h
    BY <1>11, <1>12, <1>13, <2>2
  <2>4. QED BY <1>10, <2>3
<1>15. CASE k < i
  <2>1. k <= i - 1
    BY <1>7, <1>15
  <2>2. ak <= ai /\ ai - ak <= vi - wk
    BY <1>6, <1>7, <1>10, <2>1
  <2>3. -h <= (ak - ai) - 4 /\ (ak - ai) - 4 < h
    BY <1>11, <1>12, <1>13, <2>2
  <2>4. QED BY <1>10, <2>3
<1>16. QED BY <1>7, <1>14, <1>15

\* A branch that is out of range has no label in its own Text.
LEMMA OutOfText ==
    ASSUME LinesTyped, Numbers, phase = "check", ~bad, \A p \in Part : text[p] = <<>>,
           NEW L, SureLines(L), NEW A, PlacedAs(L, A), NEW j \in DOMAIN parsed, OutOfRange(parsed[j])
    PROVE  \E q \in CodePart :
               /\ parsed[j].name \in NamesOf(L[q], {"branch"})
               /\ parsed[j].name \notin NamesOf(L[q], LabelOps)
<1>1. PICK e : e = parsed[j]
    OBVIOUS
<1>2. e.bits # 0 /\ FindLabel(parsed, e.name) # 0
      /\ (Reach(e) < -(2 ^ (e.bits - 1)) \/ Reach(e) >= 2 ^ (e.bits - 1))
    BY <1>1 DEF OutOfRange
<1>3. PICK q \in CodePart : \E i \in 1 .. Read(L, q) :
          /\ L[q][i].op = "branch" /\ L[q][i].name = e.name
          /\ L[q][i].n = e.bits /\ A[q][i - 1] = e.address
    BY <1>1, <1>2 DEF PlacedAs
<1>4. PICK i \in 1 .. Read(L, q) :
          /\ L[q][i].op = "branch" /\ L[q][i].name = e.name
          /\ L[q][i].n = e.bits /\ A[q][i - 1] = e.address
    BY <1>3
<1>5. PICK t, a : t = L[q] /\ a = A[q]
    OBVIOUS
<1>6. t \in Seq(Line) /\ AllCount(t) /\ Sure(t) /\ Len(t) \in Nat /\ DOMAIN t = 1 .. Len(t)
    BY <1>5 DEF SureLines
<1>7. Read(L, q) = Len(t)
  <2>1. text[q] = <<>>
    BY DEF CodePart, Part
  <2>2. Len(text[q]) = 0
    BY <2>1
  <2>3. QED BY <1>5, <1>6, <2>2 DEF Read
<1>8. i \in DOMAIN t /\ t[i].op = "branch" /\ t[i].name = e.name /\ t[i].n = e.bits /\ a[i - 1] = e.address
    BY <1>4, <1>5, <1>6, <1>7
<1>9. Climbs(t, a, Len(t))
    BY <1>5, <1>7 DEF PlacedAs
<1>10. e.name \in NamesOf(t, {"branch"})
    BY <1>8, Listed
<1>11. ASSUME e.name \in NamesOf(t, LabelOps) PROVE FALSE
  <2>1. PICK x \in DOMAIN t : t[x].op \in LabelOps /\ t[x].name = e.name
    BY <1>11, Unlisted
  <2>2. IsLabel(t[x]) /\ t[x].name = t[i].name
    BY <1>8, <2>1 DEF IsLabel, LabelOps
  <2>3. ~TooFar(t, t, i) /\ t[i].n # 0
    BY <1>2, <1>6, <1>8 DEF Sure
  <2>4. PICK v, h : v = SumTo(t, MaxLineBytes) /\ h = 2 ^ (t[i].n - 1)
    OBVIOUS
  <2>5. PICK k \in DOMAIN t : IsLabel(t[k]) /\ t[k].name = t[i].name /\ Abs(v[k - 1] - v[i - 1]) + 12 < h
    BY <1>6, <1>8, <2>2, <2>3, <2>4, NearLabel
  <2>6. h \in Int
    <3>1. t[i] \in Line
      BY <1>6, <1>8
    <3>2. PICK m : m = t[i].n - 1
      OBVIOUS
    <3>3. m \in Nat
      BY <2>3, <3>1, <3>2, LineTyped
    <3>4. 2 ^ m \in Int
      BY <3>3
    <3>5. QED BY <2>4, <3>2, <3>4
  <2>7. i # k
    BY <1>8, <2>5 DEF IsLabel
  <2>8. -h <= (a[k] - a[i - 1]) - 4 /\ (a[k] - a[i - 1]) - 4 < h
    BY <1>6, <1>8, <1>9, <2>4, <2>5, <2>6, <2>7, ReachNear
  <2>9. parsed[FindLabel(parsed, e.name)].address = a[k]
    <3>1. k \in 1 .. Read(L, q) /\ IsLabel(L[q][k]) /\ L[q][k].name = e.name
      BY <1>5, <1>6, <1>7, <1>8, <2>5
    <3>2. parsed[FindLabel(parsed, L[q][k].name)].address = A[q][k]
      BY <3>1 DEF PlacedAs
    <3>3. QED BY <1>5, <3>1, <3>2
  <2>10. PICK d : d = (a[k] - a[i - 1]) - 4
    OBVIOUS
  <2>11. Reach(e) = d
    BY <1>8, <2>9, <2>10 DEF Reach
  <2>12. d \in Int
    <3>1. a \in [0 .. Len(t) -> Nat] /\ k \in 0 .. Len(t) /\ i - 1 \in 0 .. Len(t)
      BY <1>6, <1>8, <1>9 DEF Climbs
    <3>2. a[k] \in Nat /\ a[i - 1] \in Nat
      BY <3>1
    <3>3. QED BY <2>10, <3>2
  <2>13. d < -h \/ d >= h
    BY <1>2, <1>8, <2>4, <2>11
  <2>14. QED BY <2>6, <2>8, <2>10, <2>12, <2>13
<1>12. QED BY <1>1, <1>5, <1>10, <1>11

LEMMA PlacedReach ==
    ASSUME LinesTyped, Numbers, Placed, phase = "check" => ~bad /\ \A p \in Part : text[p] = <<>>
    PROVE  BranchesReach
<1> SUFFICES ASSUME phase = "check", NEW j \in DOMAIN parsed, OutOfRange(parsed[j])
             PROVE  /\ ~IsFresh(parsed[j].name)
                    /\ \A q \in CodePart :
                           ~ \E b, k \in DOMAIN origin[q] :
                                 /\ origin[q][b].op = "branch" /\ origin[q][b].name = parsed[j].name
                                 /\ IsLabel(origin[q][k]) /\ origin[q][k].name = parsed[j].name
    BY DEF BranchesReach, CodePart
<1>1. PICK x : x = parsed[j].name
    OBVIOUS
<1>2. PICK L : SureLines(L) /\ \E A : PlacedAs(L, A)
    BY DEF Placed
<1>3. PICK A : PlacedAs(L, A)
    BY <1>2
<1>4. PICK q \in CodePart : x \in NamesOf(L[q], {"branch"}) /\ x \notin NamesOf(L[q], LabelOps)
    BY <1>1, <1>2, <1>3, OutOfText
<1>5. Matched(origin[q], L[q])
    BY <1>2 DEF SureLines
<1>6. x \in NamesOf(origin[q], {"branch"}) /\ x \notin NamesOf(origin[q], LabelOps)
    BY <1>4, <1>5 DEF Matched
<1>7. origin \in Programs
    BY DEF LinesTyped
<1>8. ~IsFresh(x)
  <2>1. PICK i \in DOMAIN origin[q] : origin[q][i].op \in {"branch"} /\ origin[q][i].name = x
    BY <1>6, Unlisted
  <2>2. q \in Part /\ origin[q][i].op \in Op
    BY <2>1 DEF CodePart, Part, Op
  <2>3. x \in Names(origin, Op)
    BY <2>1, <2>2, ListedIn
  <2>4. Names(origin, Op) \subseteq Label \cup {NoLabel}
    BY <1>7, GeneratedNames
  <2>5. QED BY <2>3, <2>4 DEF IsFresh
<1>9. ASSUME NEW r \in CodePart, NEW b \in DOMAIN origin[r], NEW k \in DOMAIN origin[r],
             origin[r][b].op = "branch", origin[r][b].name = x, IsLabel(origin[r][k]), origin[r][k].name = x
      PROVE  FALSE
  <2>1. x \in NamesOf(origin[r], {"branch"}) /\ x \in NamesOf(origin[r], LabelOps)
    BY <1>9, Listed DEF LabelOps, IsLabel
  <2>2. r # q
    BY <1>6, <2>1
  <2>3. NamesOf(origin["content"], {"branch"}) \cap NamesOf(origin["footer"], {"branch"}) = {}
    BY <1>7, GeneratedAssumption
  <2>4. QED BY <1>4, <1>6, <2>1, <2>2, <2>3 DEF CodePart
<1>10. QED BY <1>1, <1>8, <1>9

LEMMA InitPlacedLines == AsmInit => Placed
BY DEF AsmInit, Placed

-------------------------------------------------------------------------------
(* Control through relaxed branches.                                       *)

\* t is o with some of its branches relaxed: line j of o is at e[j], alone or
\* followed by what relaxBranch() puts in.
KeptLine(o, t, e, j) == e[j + 1] = e[j] + 1 /\ t[e[j]] = o[j]
ExpandedLine(o, t, e, j) ==
    /\ e[j + 1] = e[j] + 3 /\ o[j].op = "branch"
    /\ \E c \in Nat : /\ t[e[j]] = Opposite(o[j], c) /\ t[e[j] + 1] = FarJump(o[j])
                      /\ t[e[j] + 2] = FreshLabel(c)
Expands(o, t, e) ==
    /\ e \in [1 .. Len(o) + 1 -> Nat]
    /\ e[1] = 1 /\ e[Len(o) + 1] = Len(t) + 1
    /\ \A j \in 1 .. Len(o) : KeptLine(o, t, e, j) \/ ExpandedLine(o, t, e, j)

\* The labels that relaxBranch() has put in have the numbers below n, once each.
FreshOnce(t, n) ==
    /\ \A k \in DOMAIN t : \A c \in Nat : IsLabel(t[k]) /\ t[k].name = Fresh(c) => c < n
    /\ \A j, k \in DOMAIN t : \A c \in Nat :
           IsLabel(t[j]) /\ t[j].name = Fresh(c) /\ IsLabel(t[k]) /\ t[k].name = Fresh(c) => j = k

\* The lines are in the order they were in.
LEMMA PlacesRise ==
    ASSUME NEW o \in Seq(Line), NEW t \in Seq(Line), NEW e, Expands(o, t, e)
    PROVE  \A j, k \in 1 .. Len(o) + 1 : j < k => e[j] < e[k]
<1>1. PICK n : n = Len(o)
    OBVIOUS
<1>2. n \in Nat
    BY <1>1
<1>3. e \in [1 .. n + 1 -> Nat] /\ \A j \in 1 .. n : e[j + 1] = e[j] + 1 \/ e[j + 1] = e[j] + 3
    BY <1>1 DEF Expands, KeptLine, ExpandedLine
<1> DEFINE w == [k \in 0 .. n |-> e[k + 1]]
<1>4. w \in [0 .. n -> Nat]
  <2>1. \A k \in 0 .. n : k + 1 \in 1 .. n + 1
    BY <1>2
  <2>2. \A k \in 0 .. n : e[k + 1] \in Nat
    BY <1>3, <2>1
  <2>3. QED BY <2>2
<1>5. ASSUME NEW k \in 1 .. n PROVE w[k - 1] < w[k]
  <2>1. k - 1 \in 0 .. n /\ k \in 0 .. n /\ (k - 1) + 1 = k /\ k \in 1 .. n + 1
    BY <1>2
  <2>2. w[k - 1] = e[k] /\ w[k] = e[k + 1]
    BY <2>1
  <2>3. e[k] \in Nat
    BY <1>3, <2>1
  <2>4. e[k + 1] = e[k] + 1 \/ e[k + 1] = e[k] + 3
    BY <1>3
  <2> HIDE DEF w
  <2>5. QED BY <2>2, <2>3, <2>4
<1>6. \A j, k \in 0 .. n : j < k => w[j] < w[k]
  <2> HIDE DEF w
  <2>1. QED BY <1>2, <1>4, <1>5, Rises
<1>7. ASSUME NEW j \in 1 .. n + 1, NEW k \in 1 .. n + 1, j < k PROVE e[j] < e[k]
  <2>1. j - 1 \in 0 .. n /\ k - 1 \in 0 .. n /\ j - 1 < k - 1 /\ (j - 1) + 1 = j /\ (k - 1) + 1 = k
    BY <1>2, <1>7
  <2>2. w[j - 1] < w[k - 1]
    BY <1>6, <2>1
  <2>3. w[j - 1] = e[j] /\ w[k - 1] = e[k]
    BY <2>1
  <2>4. QED BY <2>2, <2>3
<1>8. QED BY <1>1, <1>7

\* Every line is in the Text.
LEMMA PlacesIn ==
    ASSUME NEW o \in Seq(Line), NEW t \in Seq(Line), NEW e, Expands(o, t, e), NEW j \in DOMAIN o
    PROVE  /\ e[j] \in DOMAIN t /\ e[j] \in Nat /\ e[j + 1] \in Nat
           /\ ExpandedLine(o, t, e, j) => e[j] + 1 \in DOMAIN t /\ e[j] + 2 \in DOMAIN t
<1>1. PICK n, m : n = Len(o) /\ m = Len(t)
    OBVIOUS
<1>2. n \in Nat /\ m \in Nat /\ j \in 1 .. n /\ DOMAIN t = 1 .. m
    BY <1>1
<1>3. e \in [1 .. n + 1 -> Nat] /\ e[1] = 1 /\ e[n + 1] = m + 1
    BY <1>1 DEF Expands
<1>4. 1 \in 1 .. n + 1 /\ j \in 1 .. n + 1 /\ j + 1 \in 1 .. n + 1 /\ n + 1 \in 1 .. n + 1
    BY <1>2
<1>5. \A a, b \in 1 .. n + 1 : a < b => e[a] < e[b]
    BY <1>1, PlacesRise
<1>6. e[j] \in Nat /\ e[j + 1] \in Nat
    BY <1>3, <1>4
<1>7. e[j] >= 1
  <2>1. j = 1 \/ 1 < j
    BY <1>2
  <2>2. 1 < j => e[1] < e[j]
    BY <1>4, <1>5
  <2>3. QED BY <1>3, <1>6, <2>1, <2>2
<1>8. e[j + 1] <= m + 1
  <2>1. j + 1 = n + 1 \/ j + 1 < n + 1
    BY <1>2
  <2>2. j + 1 < n + 1 => e[j + 1] < e[n + 1]
    BY <1>4, <1>5
  <2>3. QED BY <1>2, <1>3, <1>6, <2>1, <2>2
<1>9. e[j + 1] = e[j] + 1 \/ e[j + 1] = e[j] + 3
    BY <1>1, <1>2 DEF Expands, KeptLine, ExpandedLine
<1>10. e[j] \in DOMAIN t
    BY <1>2, <1>6, <1>7, <1>8, <1>9
<1>11. ASSUME ExpandedLine(o, t, e, j) PROVE e[j] + 1 \in DOMAIN t /\ e[j] + 2 \in DOMAIN t
  <2>1. e[j + 1] = e[j] + 3
    BY <1>11 DEF ExpandedLine
  <2>2. QED BY <1>2, <1>6, <1>7, <1>8, <2>1
<1>12. QED BY <1>6, <1>10, <1>11

\* Every line of t is one of o, or was put in after one.
LEMMA PlaceOf ==
    ASSUME NEW o \in Seq(Line), NEW t \in Seq(Line), NEW e, Expands(o, t, e), NEW i \in DOMAIN t
    PROVE  \E j \in DOMAIN o : i = e[j] \/ (ExpandedLine(o, t, e, j) /\ (i = e[j] + 1 \/ i = e[j] + 2))
<1>1. PICK n, m : n = Len(o) /\ m = Len(t)
    OBVIOUS
<1>2. n \in Nat /\ m \in Nat /\ i \in 1 .. m /\ DOMAIN t = 1 .. m /\ DOMAIN o = 1 .. n
    BY <1>1
<1>3. e \in [1 .. n + 1 -> Nat] /\ e[1] = 1 /\ e[n + 1] = m + 1
    BY <1>1 DEF Expands
<1> DEFINE S == {k \in 1 .. n + 1 : e[k] <= i}
<1>4. S \subseteq 0 .. n + 1 /\ n + 1 \in Nat
    BY <1>2
<1>5. 1 \in S
    BY <1>2, <1>3
<1>6. PICK j \in S : \A k \in S : j >= k
  <2> HIDE DEF S
  <2>1. QED BY <1>4, <1>5, GreatestNumber
<1>7. j \in 1 .. n + 1 /\ e[j] <= i
    BY <1>6
<1>8. j # n + 1
    BY <1>2, <1>3, <1>7
<1>9. j \in 1 .. n /\ j + 1 \in 1 .. n + 1
    BY <1>2, <1>7, <1>8
<1>10. j + 1 \notin S
    BY <1>4, <1>6, <1>9
<1>11. ~(e[j + 1] <= i)
    BY <1>9, <1>10
<1>12. e[j] \in Nat /\ e[j + 1] \in Nat
    BY <1>3, <1>7, <1>9
<1>13. KeptLine(o, t, e, j) \/ ExpandedLine(o, t, e, j)
    BY <1>1, <1>9 DEF Expands
<1> HIDE DEF S
<1>14. CASE KeptLine(o, t, e, j)
  <2>1. e[j + 1] = e[j] + 1
    BY <1>14 DEF KeptLine
  <2>2. i = e[j]
    BY <1>2, <1>7, <1>11, <1>12, <2>1
  <2>3. QED BY <1>2, <1>9, <2>2
<1>15. CASE ExpandedLine(o, t, e, j)
  <2>1. e[j + 1] = e[j] + 3
    BY <1>15 DEF ExpandedLine
  <2>2. i = e[j] \/ i = e[j] + 1 \/ i = e[j] + 2
    BY <1>2, <1>7, <1>11, <1>12, <2>1
  <2>3. QED BY <1>2, <1>9, <1>15, <2>2
<1>16. QED BY <1>13, <1>14, <1>15

\* r is t with line i relaxed under number c.
RelaxesTo(t, i, c, r) ==
    /\ r \in Seq(Line) /\ Len(r) = Len(t) + 2 /\ DOMAIN r = 1 .. Len(t) + 2
    /\ \A k \in 1 .. i - 1 : r[k] = t[k]
    /\ r[i] = Opposite(t[i], c) /\ r[i + 1] = FarJump(t[i]) /\ r[i + 2] = FreshLabel(c)
    /\ \A k \in i + 1 .. Len(t) : r[k + 2] = t[k]

\* relaxBranch() moves up the lines that follow by two.
LEMMA RelaxedTo ==
    ASSUME NEW t \in Seq(Line), NEW i \in DOMAIN t, NEW c \in Nat, NEW r, r = RelaxAt(t, i, c)
    PROVE  RelaxesTo(t, i, c, r)
<1>1. r \in Seq(Line) /\ Len(r) = Len(t) + 2 /\ DOMAIN r = 1 .. Len(t) + 2
    BY RelaxedLines
<1>2. \A k \in 1 .. i - 1 : r[k] = t[k]
    BY RelaxedLines
<1>3. \A k \in i + 1 .. Len(t) : r[k + 2] = t[k]
    BY RelaxedLines
<1>4. r[i] = Opposite(t[i], c)
    BY RelaxedLines
<1>5. r[i + 1] = FarJump(t[i])
    BY RelaxedLines
<1>6. r[i + 2] = FreshLabel(c)
    BY RelaxedLines
<1>7. QED BY <1>1, <1>2, <1>3, <1>4, <1>5, <1>6 DEF RelaxesTo

\* Relaxing a line that was kept.
LEMMA ExpandsOn ==
    ASSUME NEW o \in Seq(Line), NEW t \in Seq(Line), NEW e, Expands(o, t, e), NEW j \in DOMAIN o,
           KeptLine(o, t, e, j), o[j].op = "branch", NEW i \in DOMAIN t, NEW c \in Nat,
           NEW r, r = RelaxAt(t, i, c)
    PROVE  i = e[j] => \E f : Expands(o, r, f)
<1>0. RelaxesTo(t, i, c, r)
    BY RelaxedTo
<1> SUFFICES ASSUME i = e[j] PROVE \E f : Expands(o, r, f)
    OBVIOUS
<1>1. PICK n, m : n = Len(o) /\ m = Len(t)
    OBVIOUS
<1>2. n \in Nat /\ m \in Nat /\ j \in 1 .. n /\ DOMAIN t = 1 .. m /\ DOMAIN o = 1 .. n
    BY <1>1
<1>3. /\ e \in [1 .. n + 1 -> Nat] /\ e[1] = 1 /\ e[n + 1] = m + 1
      /\ \A k \in 1 .. n : KeptLine(o, t, e, k) \/ ExpandedLine(o, t, e, k)
    BY <1>1 DEF Expands
<1>4. \A a, b \in 1 .. n + 1 : a < b => e[a] < e[b]
    BY <1>1, PlacesRise
<1>5. i \in 1 .. m /\ t[i] = o[j] /\ e[j + 1] = i + 1
    BY <1>1, <1>2 DEF KeptLine
<1>6. /\ r \in Seq(Line) /\ Len(r) = m + 2 /\ DOMAIN r = 1 .. m + 2
      /\ \A k \in 1 .. i - 1 : r[k] = t[k]
      /\ \A k \in i + 1 .. m : r[k + 2] = t[k]
      /\ r[i] = Opposite(o[j], c) /\ r[i + 1] = FarJump(o[j]) /\ r[i + 2] = FreshLabel(c)
    BY <1>0, <1>1, <1>5 DEF RelaxesTo
<1> DEFINE f == [k \in 1 .. n + 1 |-> IF k <= j THEN e[k] ELSE e[k] + 2]
<1>10. /\ f \in [1 .. n + 1 -> Nat]
       /\ \A k \in 1 .. n + 1 : k <= j => f[k] = e[k]
       /\ \A k \in 1 .. n + 1 : ~(k <= j) => f[k] = e[k] + 2
  <2>1. \A k \in 1 .. n + 1 : e[k] \in Nat
    BY <1>3
  <2>2. QED BY <2>1
<1> HIDE DEF f
<1>7. o[j].op = "branch"
    OBVIOUS
<1>11. 1 \in 1 .. n + 1 /\ n + 1 \in 1 .. n + 1 /\ 1 <= j /\ ~(n + 1 <= j)
    BY <1>2
<1>12. f[1] = 1
    BY <1>3, <1>10, <1>11
<1>13. f[n + 1] = Len(r) + 1
  <2>1. f[n + 1] = (m + 1) + 2 /\ Len(r) + 1 = (m + 2) + 1
    BY <1>3, <1>6, <1>10, <1>11
  <2>2. QED BY <1>2, <2>1
<1>14. ASSUME NEW k \in 1 .. n PROVE KeptLine(o, r, f, k) \/ ExpandedLine(o, r, f, k)
  <2>1. k \in 1 .. n + 1 /\ k + 1 \in 1 .. n + 1 /\ j \in 1 .. n + 1
    BY <1>2
  <2>2. e[k] \in Nat /\ e[k + 1] \in Nat /\ i \in Nat
    BY <1>1, <1>3, <2>1
  <2>3. k \in DOMAIN o
    BY <1>2
  <2>4. e[k] \in 1 .. m
    BY <1>2, <2>3, PlacesIn
  <2>5. CASE k < j
    <3>1. k <= j /\ k + 1 <= j /\ (k + 1 = j \/ k + 1 < j)
      BY <1>2, <2>5
    <3>2. f[k] = e[k] /\ f[k + 1] = e[k + 1]
      BY <1>10, <2>1, <3>1
    <3>3. e[k] < i /\ e[k + 1] <= i
      <4>1. e[k] < e[j] /\ (k + 1 < j => e[k + 1] < e[j])
        BY <1>4, <2>1, <2>5
      <4>2. QED BY <1>1, <2>2, <3>1, <4>1
    <3>4. r[e[k]] = t[e[k]]
      <4>1. e[k] \in 1 .. i - 1
        BY <2>2, <2>4, <3>3
      <4>2. QED BY <1>6, <4>1
    <3>5. CASE KeptLine(o, t, e, k)
      BY <3>2, <3>4, <3>5 DEF KeptLine
    <3>6. CASE ExpandedLine(o, t, e, k)
      <4>1. e[k + 1] = e[k] + 3 /\ o[k].op = "branch"
        BY <3>6 DEF ExpandedLine
      <4>2. PICK d \in Nat : /\ t[e[k]] = Opposite(o[k], d) /\ t[e[k] + 1] = FarJump(o[k])
                             /\ t[e[k] + 2] = FreshLabel(d)
        BY <3>6 DEF ExpandedLine
      <4>3. e[k] + 1 \in 1 .. i - 1 /\ e[k] + 2 \in 1 .. i - 1
        <5>1. PICK x, y : x = e[k] /\ y = e[k + 1]
          OBVIOUS
        <5>2. x \in Nat /\ x >= 1 /\ y <= i /\ y = x + 3 /\ i \in Nat
          BY <2>2, <2>4, <3>3, <4>1, <5>1
        <5>3. x + 1 \in 1 .. i - 1 /\ x + 2 \in 1 .. i - 1
          BY <5>2
        <5>4. QED BY <5>1, <5>3
      <4>4. r[e[k] + 1] = t[e[k] + 1] /\ r[e[k] + 2] = t[e[k] + 2]
        BY <1>6, <4>3
      <4>5. ExpandedLine(o, r, f, k)
        BY <3>2, <3>4, <4>1, <4>2, <4>4 DEF ExpandedLine
      <4>6. QED BY <4>5
    <3>7. QED BY <1>3, <3>5, <3>6
  <2>6. CASE k = j
    <3>1. f[k] = i /\ f[k + 1] = (i + 1) + 2
      <4>1. k <= j /\ ~(k + 1 <= j)
        BY <1>2, <2>6
      <4>2. f[k] = e[k] /\ f[k + 1] = e[k + 1] + 2
        BY <1>10, <2>1, <4>1
      <4>3. QED BY <1>1, <1>5, <2>6, <4>2
    <3>2. f[k + 1] = f[k] + 3
      BY <2>2, <3>1
    <3>3. ExpandedLine(o, r, f, k)
      BY <1>6, <1>7, <2>6, <3>1, <3>2 DEF ExpandedLine
    <3>4. QED BY <3>3
  <2>7. CASE k > j
    <3>1. ~(k <= j) /\ ~(k + 1 <= j)
      BY <1>2, <2>7
    <3>2. f[k] = e[k] + 2 /\ f[k + 1] = e[k + 1] + 2
      BY <1>10, <2>1, <3>1
    <3>3. i < e[k]
      BY <1>1, <1>4, <2>1, <2>7
    <3>4. r[e[k] + 2] = t[e[k]]
      <4>1. e[k] \in i + 1 .. m
        BY <1>2, <2>2, <2>4, <3>3
      <4>2. QED BY <1>6, <4>1
    <3>5. CASE KeptLine(o, t, e, k)
      <4>1. e[k + 1] = e[k] + 1 /\ t[e[k]] = o[k]
        BY <3>5 DEF KeptLine
      <4>2. f[k + 1] = f[k] + 1
        BY <2>2, <3>2, <4>1
      <4>3. KeptLine(o, r, f, k)
        BY <3>2, <3>4, <4>1, <4>2 DEF KeptLine
      <4>4. QED BY <4>3
    <3>6. CASE ExpandedLine(o, t, e, k)
      <4>1. e[k + 1] = e[k] + 3 /\ o[k].op = "branch"
        BY <3>6 DEF ExpandedLine
      <4>2. PICK d \in Nat : /\ t[e[k]] = Opposite(o[k], d) /\ t[e[k] + 1] = FarJump(o[k])
                             /\ t[e[k] + 2] = FreshLabel(d)
        BY <3>6 DEF ExpandedLine
      <4>3. e[k] + 1 \in DOMAIN t /\ e[k] + 2 \in DOMAIN t
        BY <2>3, <3>6, PlacesIn
      <4>4. e[k] + 1 \in i + 1 .. m /\ e[k] + 2 \in i + 1 .. m
        BY <1>2, <1>5, <2>2, <3>3, <4>3
      <4>5. r[(e[k] + 1) + 2] = t[e[k] + 1] /\ r[(e[k] + 2) + 2] = t[e[k] + 2]
        BY <1>6, <4>4
      <4>6. (e[k] + 1) + 2 = f[k] + 1 /\ (e[k] + 2) + 2 = f[k] + 2
        BY <2>2, <3>2
      <4>7. r[f[k] + 1] = FarJump(o[k]) /\ r[f[k] + 2] = FreshLabel(d) /\ r[f[k]] = Opposite(o[k], d)
        BY <3>2, <3>4, <4>2, <4>5, <4>6
      <4>8. f[k + 1] = f[k] + 3
        BY <2>2, <3>2, <4>1
      <4>9. ExpandedLine(o, r, f, k)
        BY <4>1, <4>7, <4>8 DEF ExpandedLine
      <4>10. QED BY <4>9
    <3>7. QED BY <1>3, <3>5, <3>6
  <2>8. QED BY <1>2, <2>5, <2>6, <2>7
<1>15. Expands(o, r, f)
    BY <1>1, <1>10, <1>12, <1>13, <1>14 DEF Expands
<1>16. QED BY <1>15

\* The counter gives the label of the next branch a number of its own.
LEMMA FreshOnceOn ==
    ASSUME NEW t \in Seq(Line), NEW i \in DOMAIN t, t[i].op = "branch", NEW n \in Nat, FreshOnce(t, n),
           NEW r, r = RelaxAt(t, i, n)
    PROVE  FreshOnce(r, n + 1)
<1>0. RelaxesTo(t, i, n, r)
    BY RelaxedTo
<1>1. PICK m : m = Len(t)
    OBVIOUS
<1>2. m \in Nat /\ DOMAIN t = 1 .. m /\ i \in 1 .. m
    BY <1>1
<1>3. /\ DOMAIN r = 1 .. m + 2
      /\ \A k \in 1 .. i - 1 : r[k] = t[k]
      /\ \A k \in i + 1 .. m : r[k + 2] = t[k]
    BY <1>0, <1>1 DEF RelaxesTo
<1>4. r[i].op = "branch"
  <2>1. r[i] = Opposite(t[i], n)
    BY <1>0 DEF RelaxesTo
  <2>2. t[i] \in Line
    OBVIOUS
  <2>3. QED BY <2>1, <2>2, OppositeLine
<1>5. r[i + 1].op = "jump"
  <2>1. r[i + 1] = FarJump(t[i])
    BY <1>0 DEF RelaxesTo
  <2>2. QED BY <2>1 DEF FarJump
<1>6. r[i + 2].name = Fresh(n)
  <2>1. r[i + 2] = FreshLabel(n)
    BY <1>0 DEF RelaxesTo
  <2>2. QED BY <2>1 DEF FreshLabel
<1>7. \A c, d \in Nat : Fresh(c) = Fresh(d) => c = d
  <2>1. \A c : Fresh(c).relax = c
    BY DEF Fresh
  <2>2. QED BY <2>1
<1>8. ASSUME NEW k \in DOMAIN r, IsLabel(r[k])
      PROVE  \/ k = i + 2
             \/ \E x \in DOMAIN t : r[k] = t[x] /\ ((k < i /\ x = k) \/ (k > i + 2 /\ x = k - 2))
  <2>1. k # i /\ k # i + 1
    BY <1>4, <1>5, <1>8 DEF IsLabel
  <2>2. CASE k < i
    <3>1. k \in DOMAIN t /\ r[k] = t[k]
      BY <1>2, <1>3, <2>2
    <3>2. QED BY <2>2, <3>1
  <2>3. CASE k > i + 2
    <3>1. k - 2 \in i + 1 .. m /\ (k - 2) + 2 = k
      BY <1>2, <1>3, <2>3
    <3>2. r[(k - 2) + 2] = t[k - 2]
      BY <1>3, <3>1
    <3>3. QED BY <1>2, <2>3, <3>1, <3>2
  <2>4. QED BY <1>2, <1>3, <2>1, <2>2, <2>3
<1>9. \A k \in DOMAIN t : IsLabel(t[k]) => t[k].name # Fresh(n)
    BY DEF FreshOnce
<1>10. ASSUME NEW k \in DOMAIN r, NEW c \in Nat, IsLabel(r[k]), r[k].name = Fresh(c) PROVE c < n + 1
  <2>1. CASE k = i + 2
    <3>1. c = n
      BY <1>6, <1>7, <1>10, <2>1
    <3>2. QED BY <3>1
  <2>2. ASSUME NEW x \in DOMAIN t, r[k] = t[x] PROVE c < n + 1
    <3>1. c < n
      BY <1>10, <2>2 DEF FreshOnce
    <3>2. QED BY <3>1
  <2>3. QED BY <1>8, <1>10, <2>1, <2>2
<1>11. ASSUME NEW j \in DOMAIN r, NEW k \in DOMAIN r, NEW c \in Nat, IsLabel(r[j]), r[j].name = Fresh(c),
              IsLabel(r[k]), r[k].name = Fresh(c)
       PROVE  j = k
  <2>1. CASE c = n
    <3>1. j = i + 2
      BY <1>8, <1>9, <1>11, <2>1
    <3>2. k = i + 2
      BY <1>8, <1>9, <1>11, <2>1
    <3>3. QED BY <3>1, <3>2
  <2>2. CASE c # n
    <3>1. j # i + 2 /\ k # i + 2
      BY <1>6, <1>7, <1>11, <2>2
    <3>2. PICK x \in DOMAIN t : r[j] = t[x] /\ ((j < i /\ x = j) \/ (j > i + 2 /\ x = j - 2))
      BY <1>8, <1>11, <3>1
    <3>3. PICK y \in DOMAIN t : r[k] = t[y] /\ ((k < i /\ y = k) \/ (k > i + 2 /\ y = k - 2))
      BY <1>8, <1>11, <3>1
    <3>4. x = y
      BY <1>11, <3>2, <3>3 DEF FreshOnce
    <3>5. QED BY <1>2, <1>3, <3>2, <3>3, <3>4
  <2>3. QED BY <2>1, <2>2
<1>12. QED BY <1>10, <1>11 DEF FreshOnce

\* A branch reaches further than the lines that relaxBranch() puts in are long.
LEMMA BranchReach == ASSUME NEW n \in {8, 12} PROVE 2 ^ (n - 1) \in Int /\ 2 ^ (n - 1) > 18
<1>1. CASE n = 8
  <2>1. n - 1 = 7
    BY <1>1
  <2>2. 2 ^ 7 = 128
    BY Z3
  <2>3. QED BY <2>1, <2>2
<1>2. CASE n = 12
  <2>1. n - 1 = 11
    BY <1>2
  <2>2. 2 ^ 11 = 2048
    BY Z3
  <2>3. QED BY <2>1, <2>2
<1>3. QED BY <1>1, <1>2

LEMMA Between ==
    ASSUME NEW i \in Nat, NEW n \in Nat, i >= 1, i + 2 < n
    PROVE  i + 1 \in 0 .. n - 1 /\ i - 1 \in 0 .. n - 1
OBVIOUS

\* Bounds are the same up to where the lines are.
LEMMA SameLines ==
    ASSUME NEW t \in Seq(Line), NEW s \in Seq(Line), NEW p \in Nat, p <= Len(t), p <= Len(s),
           \A k \in 1 .. p : t[k] = s[k]
    PROVE  \A k \in 0 .. p : SumTo(t, Count)[k] = SumTo(s, Count)[k]
<1>1. PICK g, h, n, m, v, w : /\ g = [k \in DOMAIN t |-> Count(t[k])] /\ h = [k \in DOMAIN s |-> Count(s[k])]
                              /\ n = Len(t) /\ m = Len(s) /\ v = SumTo(t, Count) /\ w = SumTo(s, Count)
    OBVIOUS
<1>2. Sums(v, g, n) /\ Sums(w, h, m)
  <2>1. Sums(SumTo(t, Count), [k \in DOMAIN t |-> Count(t[k])], Len(t))
    BY SumsOfLines
  <2>2. Sums(SumTo(s, Count), [k \in DOMAIN s |-> Count(s[k])], Len(s))
    BY SumsOfLines
  <2>3. QED BY <1>1, <2>1, <2>2
<1>3. n \in Nat /\ m \in Nat /\ p <= n /\ p <= m
    BY <1>1
<1>4. \A k \in 1 .. p : g[k] = h[k]
  <2>1. \A k \in 1 .. p : k \in DOMAIN t /\ k \in DOMAIN s /\ t[k] = s[k]
    BY <1>1, <1>3
  <2>2. QED BY <1>1, <2>1
<1>5. \A k \in 0 .. p : v[k] = w[k]
    BY <1>2, <1>3, <1>4, SumsAgree
<1>6. QED BY <1>1, <1>5

\* A branch that has been relaxed is near its label, in every later pass.
LEMMA NotTwice ==
    ASSUME NEW t \in Seq(Line), NEW old \in Seq(Line), AllCount(old),
           NEW at \in Nat, at <= Len(old) + 1, at <= Len(t) + 1, \A k \in 1 .. at - 1 : t[k] = old[k],
           at = Len(t) + 1 \/ t[at].op = "branch",
           NEW m \in Nat, FreshOnce(t, m), NEW c \in Nat,
           NEW i \in DOMAIN t, i < at, i + 2 \in DOMAIN t,
           t[i].op = "branch", t[i].name = Fresh(c), t[i].n \in {8, 12},
           t[i + 1].op = "jump", t[i + 2] = FreshLabel(c)
    PROVE  ~TooFar(t, old, i)
<1>1. PICK w, u, b, N : /\ w = SumTo(t, Count) /\ u = SumTo(old, Count) /\ b = SumTo(old, MaxLineBytes)
                        /\ N = Len(old)
    OBVIOUS
<1>2. i \in 1 .. Len(t) /\ Len(t) \in Nat /\ i + 2 \in 1 .. Len(t) /\ N \in Nat /\ DOMAIN old = 1 .. N
    BY <1>1
<1>3. t[i + 2].op = "label" /\ t[i + 2].name = Fresh(c)
    BY DEF FreshLabel
<1>4. i + 2 < at
  <2>1. at # i + 1 /\ at # i + 2
    BY <1>2, <1>3
  <2>2. QED BY <1>2, <2>1
<1>5. i \in 1 .. N /\ i + 1 \in 1 .. N /\ i + 2 \in 1 .. N
    BY <1>1, <1>2, <1>4
<1>6. old[i] = t[i] /\ old[i + 1] = t[i + 1]
  <2>1. i \in 1 .. at - 1 /\ i + 1 \in 1 .. at - 1
    BY <1>2, <1>4
  <2>2. QED BY <2>1
<1>7. \A k \in 0 .. at - 1 : w[k] = u[k]
  <2>1. PICK p : p = at - 1
    OBVIOUS
  <2>2. p \in Nat /\ p <= Len(t) /\ p <= Len(old) /\ \A k \in 1 .. p : t[k] = old[k]
    BY <1>1, <1>2, <1>4, <2>1
  <2>3. \A k \in 0 .. p : SumTo(t, Count)[k] = SumTo(old, Count)[k]
    BY <2>2, SameLines
  <2>4. QED BY <1>1, <2>1, <2>3
<1>8. w[i + 1] = u[i + 1] /\ w[i - 1] = u[i - 1]
  <2>1. i + 1 \in 0 .. at - 1 /\ i - 1 \in 0 .. at - 1
    <3>1. i \in Nat /\ i >= 1
      BY <1>2
    <3>2. QED BY <1>4, <3>1, Between
  <2>2. QED BY <1>7, <2>1
<1>9. LabelsSeen(t, old, i) = {i + 2}
  <2>1. \A k \in LabelsSeen(t, old, i) : k \in DOMAIN t /\ IsLabel(t[k]) /\ t[k].name = Fresh(c)
    BY DEF LabelsSeen
  <2>2. IsLabel(t[i + 2])
    BY <1>3 DEF IsLabel
  <2>3. \A k \in LabelsSeen(t, old, i) : k = i + 2
    BY <1>3, <2>1, <2>2 DEF FreshOnce
  <2>4. u[i + 1] < u[N]
    <3>1. i + 1 \in 0 .. N /\ N \in 0 .. N /\ i + 1 < N
      BY <1>2, <1>5
    <3>2. \A j, k \in 0 .. N : j < k => u[j] < u[k]
      BY <1>1, LinesRise
    <3>3. QED BY <3>1, <3>2
  <2>5. SumTo(t, Count)[(i + 2) - 1] < Total(old, Count)
    <3>1. (i + 2) - 1 = i + 1
      BY <1>2
    <3>2. Total(old, Count) = u[N]
      BY <1>1 DEF Total
    <3>3. QED BY <1>1, <1>8, <2>4, <3>1, <3>2
  <2>6. i + 2 \in LabelsSeen(t, old, i)
    BY <1>3, <2>2, <2>5 DEF LabelsSeen
  <2>7. QED BY <2>3, <2>6
<1>10. FirstOf({i + 2}) = i + 2
    BY <1>2 DEF FirstOf
<1>11. Offset(old)[u[i + 1]] = b[i + 1] /\ Offset(old)[u[i - 1]] = b[i - 1]
  <2>1. Offset(old)[SumTo(old, Count)[i - 1]] = SumTo(old, MaxLineBytes)[i - 1]
    BY <1>2, <1>5, OffsetOf
  <2>2. PICK k : k = i + 2
    OBVIOUS
  <2>3. Offset(old)[SumTo(old, Count)[k - 1]] = SumTo(old, MaxLineBytes)[k - 1]
    BY <1>2, <1>5, <2>2, OffsetOf
  <2>4. k - 1 = i + 1
    BY <1>2, <2>2
  <2>5. QED BY <1>1, <2>1, <2>3, <2>4
<1>12. b[i + 1] = b[i - 1] + 6 /\ b[i - 1] \in Nat
  <2>1. PICK h : h = [k \in DOMAIN old |-> MaxLineBytes(old[k])]
    OBVIOUS
  <2>2. Sums(b, h, N)
    <3>1. Sums(SumTo(old, MaxLineBytes), [k \in DOMAIN old |-> MaxLineBytes(old[k])], Len(old))
      BY SumsOfLines
    <3>2. QED BY <1>1, <2>1, <3>1
  <2>3. h[i] = 3 /\ h[i + 1] = 3
    <3>1. MaxLineBytes(t[i]) = 3 /\ MaxLineBytes(t[i + 1]) = 3
      BY DEF MaxLineBytes
    <3>2. h[i] = MaxLineBytes(old[i]) /\ h[i + 1] = MaxLineBytes(old[i + 1])
      BY <1>2, <1>5, <2>1
    <3>3. QED BY <1>6, <3>1, <3>2
  <2>4. b[i] = b[i - 1] + h[i] /\ b[i + 1] = b[i] + h[i + 1]
    <3>1. i # 0 /\ i + 1 # 0 /\ i \in 0 .. N /\ i + 1 \in 0 .. N /\ (i + 1) - 1 = i
      BY <1>5
    <3>2. QED BY <2>2, <3>1 DEF Sums
  <2>5. b[i - 1] \in Nat
    <3>1. SumTo(old, MaxLineBytes) \in [0 .. Len(old) -> Nat]
      BY SumsOfLines
    <3>2. i - 1 \in 0 .. N
      <4>1. i \in Nat /\ i >= 1 /\ i <= N
        BY <1>5
      <4>2. QED BY <1>2, <4>1
    <3>3. QED BY <1>1, <3>1, <3>2
  <2>6. QED BY <2>3, <2>4, <2>5
<1>13. Distance(t, old, i) = 6
  <2>1. Distance(t, old, i) = Abs(b[i + 1] - b[i - 1])
    <3>1. (i + 2) - 1 = i + 1
      BY <1>2
    <3>2. Distance(t, old, i) = Abs(Offset(old)[w[i + 1]] - Offset(old)[w[i - 1]])
      BY <1>1, <1>9, <1>10, <3>1 DEF Distance
    <3>3. QED BY <1>8, <1>11, <3>2
  <2>2. b[i + 1] - b[i - 1] = 6
    BY <1>12
  <2>3. Abs(6) = 6
    BY DEF Abs
  <2>4. QED BY <2>1, <2>2, <2>3
<1>14. PICK z : z = 2 ^ (t[i].n - 1)
    OBVIOUS
<1>15. z \in Int /\ z > 18
    BY <1>14, BranchReach
<1>16. ~(Distance(t, old, i) + 12 >= z)
    BY <1>13, <1>15
<1>17. QED BY <1>14, <1>16 DEF TooFar

\* Each Text is the program's with branches relaxed.
Traced ==
    phase \in {"relax", "estimate"} =>
        \A q \in CodePart : /\ \E e : Expands(origin[q], text[q], e)
                            /\ FreshOnce(text[q], relaxed)

\* What a pass has not come to is as it was when the pass began.
PassKeeps ==
    phase = "relax" /\ scan.at # 0 =>
        /\ AllCount(scan.old)
        /\ scan.at <= Len(scan.old) + 1
        /\ \A k \in 1 .. scan.at - 1 : text[scan.part][k] = scan.old[k]
        /\ scan.at = Len(text[scan.part]) + 1 \/ text[scan.part][scan.at].op = "branch"

\* The names of a program are not those relaxBranch() makes up.
LEMMA OwnNames ==
    ASSUME NEW p \in Programs, NEW q \in Part, NEW i \in DOMAIN p[q]
    PROVE  ~IsFresh(p[q][i].name) /\ \A c \in Nat : p[q][i].name # Fresh(c)
<1>1. p[q] \in Seq(Line)
    BY ProgramTyped
<1>2. p[q][i].op \in Op
    BY <1>1, LineTyped
<1>3. p[q][i].name \in Label \cup {NoLabel}
    BY <1>2, ListedIn, GeneratedNames
<1>4. \A c \in Nat : Fresh(c) \in [relax : Nat]
    BY DEF Fresh
<1>5. \A name \in Label \cup {NoLabel} : name \notin [relax : Nat]
    BY ProgramAssumption
<1>6. QED BY <1>3, <1>4, <1>5 DEF IsFresh

\* Before the first pass no branch has been relaxed.
LEMMA InitTraced == AsmInit => Traced /\ PassKeeps
<1> SUFFICES ASSUME AsmInit PROVE Traced /\ PassKeeps
    OBVIOUS
<1>1. origin \in Programs /\ text = origin /\ relaxed = 0 /\ scan.at = 0
    BY DEF AsmInit, NoScan
<1>2. ASSUME NEW q \in CodePart
      PROVE  (\E e : Expands(origin[q], text[q], e)) /\ FreshOnce(text[q], relaxed)
  <2>1. q \in Part
    BY DEF CodePart, Part
  <2>2. PICK o : o = origin[q]
    OBVIOUS
  <2>3. o \in Seq(Line) /\ text[q] = o
    BY <1>1, <2>1, <2>2, ProgramTyped
  <2> DEFINE e == [k \in 1 .. Len(o) + 1 |-> k]
  <2>4. Expands(o, o, e)
    <3>1. Len(o) \in Nat
      BY <2>3
    <3>2. e \in [1 .. Len(o) + 1 -> Nat] /\ \A k \in 1 .. Len(o) + 1 : e[k] = k
      BY <3>1
    <3> HIDE DEF e
    <3>3. 1 \in 1 .. Len(o) + 1 /\ Len(o) + 1 \in 1 .. Len(o) + 1
      BY <3>1
    <3>4. \A j \in 1 .. Len(o) : KeptLine(o, o, e, j)
      BY <3>1, <3>2 DEF KeptLine
    <3>5. QED BY <3>2, <3>3, <3>4 DEF Expands
  <2>5. \A k \in DOMAIN o : \A c \in Nat : o[k].name # Fresh(c)
    BY <1>1, <2>1, <2>2, OwnNames
  <2>6. FreshOnce(o, relaxed)
    BY <2>5 DEF FreshOnce
  <2> HIDE DEF e
  <2>7. QED BY <2>2, <2>3, <2>4, <2>6
<1>3. Traced
    BY <1>2 DEF Traced
<1>4. QED BY <1>1, <1>3 DEF PassKeeps

\* The branch that a pass relaxes has not been relaxed before.
LEMMA RelaxedOnce ==
    ASSUME LinesTyped, PassKeeps, phase = "relax", scan.at # 0,
           NEW t, t = text[scan.part], NEW o, o = origin[scan.part],
           NEW e, Expands(o, t, e), FreshOnce(t, relaxed),
           NEW i \in DOMAIN t, i < scan.at, t[i].op = "branch", TooFar(t, scan.old, i)
    PROVE  \E j \in DOMAIN o : i = e[j] /\ KeptLine(o, t, e, j) /\ o[j].op = "branch"
<1>1. /\ scan.part \in Part /\ t \in Seq(Line) /\ origin \in Programs /\ scan.old \in Seq(Line) /\ scan.at \in Nat
      /\ relaxed \in Nat /\ scan.at <= Len(t) + 1
    BY DEF LinesTyped, Part
<1>2. o \in Seq(Line)
    BY <1>1, ProgramTyped
<1>3. PICK j \in DOMAIN o : i = e[j] \/ (ExpandedLine(o, t, e, j) /\ (i = e[j] + 1 \/ i = e[j] + 2))
    BY <1>1, <1>2, PlaceOf
<1>4. i = e[j]
  <2>1. SUFFICES ASSUME ExpandedLine(o, t, e, j), i = e[j] + 1 \/ i = e[j] + 2 PROVE FALSE
    BY <1>3
  <2>2. PICK c \in Nat : t[e[j] + 1] = FarJump(o[j]) /\ t[e[j] + 2] = FreshLabel(c)
    BY <2>1 DEF ExpandedLine
  <2>3. t[e[j] + 1].op = "jump" /\ t[e[j] + 2].op = "label"
    BY <2>2 DEF FarJump, FreshLabel
  <2>4. QED BY <2>1, <2>3
<1>5. j \in 1 .. Len(o)
    BY <1>2
<1>6. CASE KeptLine(o, t, e, j)
  <2>1. t[i] = o[j]
    BY <1>4, <1>6 DEF KeptLine
  <2>2. QED BY <1>4, <1>6, <2>1
<1>7. CASE ExpandedLine(o, t, e, j)
  <2>1. o[j].op = "branch" /\ o[j] \in Line /\ o[j].n \in {8, 12}
    <3>1. o[j].op = "branch" /\ o[j] \in Line
      BY <1>2, <1>5, <1>7 DEF ExpandedLine
    <3>2. QED BY <1>1, <3>1, BranchAssumption
  <2>2. PICK c \in Nat : /\ t[e[j]] = Opposite(o[j], c) /\ t[e[j] + 1] = FarJump(o[j])
                         /\ t[e[j] + 2] = FreshLabel(c)
    BY <1>7 DEF ExpandedLine
  <2>3. t[i].name = Fresh(c) /\ t[i].n \in {8, 12}
    BY <1>4, <2>1, <2>2, OppositeLine
  <2>4. t[i + 1].op = "jump" /\ t[i + 2] = FreshLabel(c)
    BY <1>4, <2>2 DEF FarJump
  <2>5. i + 2 \in DOMAIN t
    BY <1>1, <1>2, <1>4, <1>7, PlacesIn
  <2>6. PICK s, at : s = scan.old /\ at = scan.at
    OBVIOUS
  <2>7. /\ AllCount(s) /\ at <= Len(s) + 1 /\ (\A k \in 1 .. at - 1 : t[k] = s[k])
        /\ (at = Len(t) + 1 \/ t[at].op = "branch")
    BY <2>6 DEF PassKeeps
  <2>8. s \in Seq(Line) /\ at \in Nat /\ at <= Len(t) + 1 /\ i < at
    BY <1>1, <2>6
  <2>9. ~TooFar(t, s, i)
    BY <1>1, <2>3, <2>4, <2>5, <2>7, <2>8, NotTwice
  <2>10. QED BY <2>6, <2>9
<1>8. QED BY <1>5, <1>6, <1>7 DEF Expands

\* relaxBranches() does nothing to a Text but relax branches, each at most once.
LEMMA RelaxTraced ==
    ASSUME LinesTyped, Traced, PassKeeps, Relaxes
    PROVE  (Traced /\ PassKeeps)'
<1>0. /\ scan.part \in CodePart /\ scan.at \in Nat /\ scan.old \in Seq(Line)
      /\ text[scan.part] \in Seq(Line) /\ UNCHANGED origin /\ DOMAIN text = Part /\ origin \in Programs
      /\ phase = "relax" /\ scan.at <= Len(text[scan.part]) + 1 /\ relaxed \in Nat
    BY DEF LinesTyped, Relaxes, BeginPass, RelaxLine, EndPass, Part, CodePart
<1>1. ASSUME NEW p \in Part, BeginPass(p) PROVE (Traced /\ PassKeeps)'
  <2>1. /\ UNCHANGED <<phase, text, relaxed>> /\ p = scan.part
        /\ scan'.part = p /\ scan'.old = text[p] /\ scan'.at = Len(text[p]) + 1
    BY <1>0, <1>1 DEF BeginPass
  <2>2. AllCount(text[p])
    BY AllCounted
  <2>3. PassKeeps'
    BY <2>1, <2>2 DEF PassKeeps
  <2>4. Traced'
    BY <1>0, <2>1 DEF Traced
  <2>5. QED BY <2>3, <2>4
<1>2. CASE EndPass
  <2>1. UNCHANGED <<text, relaxed>> /\ scan'.at = 0
    BY <1>2 DEF EndPass, NoScan
  <2>2. PassKeeps'
    BY <2>1 DEF PassKeeps
  <2>3. Traced'
    BY <1>0, <2>1 DEF Traced
  <2>4. QED BY <2>2, <2>3
<1>3. CASE RelaxLine
  <2>1. PICK p, t, i, o : p = scan.part /\ t = text[p] /\ i = LastOf(BranchesBelow(t, scan.at)) /\ o = origin[p]
    OBVIOUS
  <2>2. /\ BranchesBelow(t, scan.at) # {} /\ scan' = [scan EXCEPT !.at = i] /\ phase' = phase /\ scan.at # 0
        /\ \/ /\ TooFar(t, scan.old, i)
              /\ text' = [text EXCEPT ![p] = RelaxAt(t, i, relaxed)]
              /\ relaxed' = relaxed + 1
           \/ ~TooFar(t, scan.old, i) /\ UNCHANGED <<text, relaxed>>
    BY <1>3, <2>1 DEF RelaxLine
  <2>3. t \in Seq(Line) /\ scan.at <= Len(t) + 1 /\ p \in CodePart /\ p \in Part
    BY <1>0, <2>1 DEF CodePart, Part
  <2>4. i \in DOMAIN t /\ i < scan.at /\ t[i].op = "branch"
    BY <1>0, <2>1, <2>2, <2>3, NextBranch
  <2>5. scan'.part = p /\ scan'.old = scan.old /\ scan'.at = i /\ phase' = "relax"
    BY <1>0, <2>1, <2>2 DEF LinesTyped
  <2>6. o \in Seq(Line)
    BY <1>0, <2>1, <2>3, ProgramTyped
  <2>7. i \in Nat /\ i <= Len(scan.old) + 1 /\ AllCount(scan.old)
        /\ \A k \in 1 .. i - 1 : t[k] = scan.old[k]
    <3>1. /\ AllCount(scan.old) /\ scan.at <= Len(scan.old) + 1
          /\ \A k \in 1 .. scan.at - 1 : t[k] = scan.old[k]
      BY <1>0, <2>1, <2>2 DEF PassKeeps
    <3>2. i \in Nat
      BY <2>3, <2>4
    <3>3. \A k \in 1 .. i - 1 : k \in 1 .. scan.at - 1
      BY <1>0, <2>4, <3>2
    <3>4. i <= Len(scan.old) + 1
      BY <1>0, <2>4, <3>1, <3>2
    <3>5. QED BY <3>1, <3>2, <3>3, <3>4
  <2>8. CASE UNCHANGED <<text, relaxed>>
    <3>1. PassKeeps'
      BY <2>1, <2>4, <2>5, <2>7, <2>8 DEF PassKeeps
    <3>2. Traced'
      BY <1>0, <2>5, <2>8 DEF Traced
    <3>3. QED BY <3>1, <3>2
  <2>9. CASE /\ TooFar(t, scan.old, i) /\ relaxed' = relaxed + 1
             /\ text' = [text EXCEPT ![p] = RelaxAt(t, i, relaxed)]
    <3>1. PICK r : r = RelaxAt(t, i, relaxed)
      OBVIOUS
    <3>2. RelaxesTo(t, i, relaxed, r)
      BY <1>0, <2>3, <2>4, <3>1, RelaxedTo
    <3>3. text'[p] = r /\ \A q \in Part : q # p => text'[q] = text[q]
      BY <1>0, <2>3, <2>9, <3>1
    <3>4. PICK e : Expands(o, t, e)
      BY <1>0, <2>1, <2>3 DEF Traced
    <3>5. \A q \in CodePart : FreshOnce(text[q], relaxed)
      BY <1>0 DEF Traced
    <3>6. FreshOnce(t, relaxed)
      BY <2>1, <2>3, <3>5
    <3>7. PICK j \in DOMAIN o : i = e[j] /\ KeptLine(o, t, e, j) /\ o[j].op = "branch"
      <4>1. /\ phase = "relax" /\ scan.at # 0 /\ t = text[scan.part] /\ o = origin[scan.part]
            /\ i < scan.at /\ t[i].op = "branch" /\ TooFar(t, scan.old, i)
        BY <1>0, <2>1, <2>2, <2>4, <2>9
      <4>2. i \in DOMAIN t
        BY <2>4
      <4>3. QED BY <3>4, <3>6, <4>1, <4>2, RelaxedOnce
    <3>8. \E f : Expands(o, r, f)
      BY <1>0, <2>3, <2>4, <2>6, <3>1, <3>4, <3>7, ExpandsOn
    <3>9. FreshOnce(r, relaxed + 1)
      BY <1>0, <2>3, <2>4, <3>1, <3>6, FreshOnceOn
    <3>10. ASSUME NEW q \in CodePart, q # p
           PROVE  (\E f : Expands(origin[q], text'[q], f)) /\ FreshOnce(text'[q], relaxed + 1)
      <4>1. text'[q] = text[q]
        BY <3>3, <3>10 DEF CodePart, Part
      <4>2. \E f : Expands(origin[q], text[q], f)
        BY <1>0 DEF Traced
      <4>3. FreshOnce(text[q], relaxed + 1)
        <5>1. FreshOnce(text[q], relaxed)
          BY <3>5
        <5>2. \A c \in Nat : c < relaxed => c < relaxed + 1
          BY <1>0
        <5>3. QED BY <5>1, <5>2 DEF FreshOnce
      <4>4. QED BY <4>1, <4>2, <4>3
    <3>11. Traced'
      <4>1. \A q \in CodePart : (\E f : Expands(origin[q], text'[q], f)) /\ FreshOnce(text'[q], relaxed + 1)
        BY <2>1, <3>3, <3>8, <3>9, <3>10
      <4>2. QED BY <1>0, <2>9, <4>1 DEF Traced
    <3>12. r[i].op = "branch"
      <4>1. t[i] \in Line
        BY <2>3, <2>4
      <4>2. r[i] = Opposite(t[i], relaxed)
        BY <3>2 DEF RelaxesTo
      <4>3. QED BY <1>0, <2>4, <4>1, <4>2, OppositeLine
    <3>13. \A k \in 1 .. i - 1 : r[k] = scan.old[k]
      BY <2>7, <3>2 DEF RelaxesTo
    <3>14. PassKeeps'
      BY <2>5, <2>7, <3>3, <3>12, <3>13 DEF PassKeeps
    <3>15. QED BY <3>11, <3>14
  <2>10. QED BY <2>2, <2>8, <2>9
<1>4. QED BY <1>1, <1>2, <1>3 DEF Relaxes

\* What is not put in is a line of the program, and what is put in is not.
LEMMA PutIn ==
    ASSUME NEW o \in Seq(Line), NEW t \in Seq(Line), NEW e, Expands(o, t, e), NEW j \in DOMAIN o,
           \A k \in DOMAIN o : ~IsFresh(o[k].name), \A c \in Nat : IsFresh(Fresh(c))
    PROVE  /\ ~Inserted(t, e[j])
           /\ ExpandedLine(o, t, e, j) => Inserted(t, e[j] + 1) /\ Inserted(t, e[j] + 2)
<1>1. j \in 1 .. Len(o) /\ Len(o) \in Nat /\ DOMAIN o = 1 .. Len(o)
    OBVIOUS
<1>2. e[j] \in DOMAIN t /\ e[j] \in Nat /\ e[j + 1] \in Nat
    BY PlacesIn
<1>3. KeptLine(o, t, e, j) \/ ExpandedLine(o, t, e, j)
    BY <1>1 DEF Expands
<1>4. CASE ExpandedLine(o, t, e, j)
  <2>1. PICK c \in Nat : /\ t[e[j]] = Opposite(o[j], c) /\ t[e[j] + 1] = FarJump(o[j])
                         /\ t[e[j] + 2] = FreshLabel(c)
    BY <1>4 DEF ExpandedLine
  <2>2. o[j].op = "branch" /\ o[j] \in Line
    BY <1>1, <1>4 DEF ExpandedLine
  <2>3. t[e[j]].op = "branch" /\ t[e[j]].name = Fresh(c)
    BY <2>1, <2>2, OppositeLine
  <2>4. t[e[j] + 1].op = "jump" /\ t[e[j] + 2].op = "label" /\ t[e[j] + 2].name = Fresh(c)
    BY <2>1 DEF FarJump, FreshLabel
  <2>5. ~Inserted(t, e[j])
    BY <2>3 DEF Inserted
  <2>6. e[j] + 1 > 1 /\ (e[j] + 1) - 1 = e[j]
    BY <1>2
  <2>7. Inserted(t, e[j] + 1)
    BY <2>3, <2>4, <2>6 DEF Inserted
  <2>8. Inserted(t, e[j] + 2)
    BY <2>4 DEF Inserted
  <2>9. QED BY <2>5, <2>7, <2>8
<1>5. CASE KeptLine(o, t, e, j)
  <2>1. t[e[j]] = o[j]
    BY <1>5 DEF KeptLine
  <2>2. ~IsFresh(t[e[j]].name)
    BY <2>1
  <2>3. ASSUME e[j] > 1, t[e[j] - 1].op = "branch", IsFresh(t[e[j] - 1].name) PROVE FALSE
    <3>1. e[j] - 1 \in DOMAIN t
      BY <1>2, <2>3
    <3>2. PICK k \in DOMAIN o : \/ e[j] - 1 = e[k]
                                \/ ExpandedLine(o, t, e, k) /\ (e[j] - 1 = e[k] + 1 \/ e[j] - 1 = e[k] + 2)
      BY <3>1, PlaceOf
    <3>3. CASE e[j] - 1 = e[k] /\ KeptLine(o, t, e, k)
      BY <2>3, <3>3 DEF KeptLine
    <3>4. CASE e[j] - 1 = e[k] /\ ExpandedLine(o, t, e, k)
      <4>1. e[k + 1] = e[k] + 3 /\ e[k] \in Nat
        BY <3>4, PlacesIn DEF ExpandedLine
      <4>2. e[j] = e[k] + 1
        BY <1>2, <3>4, <4>1
      <4>3. k \in 1 .. Len(o) + 1 /\ j \in 1 .. Len(o) + 1 /\ k + 1 \in 1 .. Len(o) + 1
        BY <1>1
      <4>4. \A a, b \in 1 .. Len(o) + 1 : a < b => e[a] < e[b]
        BY PlacesRise
      <4>5. k < j
        <5>1. j < k => e[j] < e[k]
          BY <4>3, <4>4
        <5>2. j # k /\ ~(e[j] < e[k])
          BY <1>2, <4>1, <4>2
        <5>3. QED BY <4>3, <5>1, <5>2
      <4>6. j = k + 1 \/ k + 1 < j
        BY <4>3, <4>5
      <4>7. k + 1 < j => e[k + 1] < e[j]
        BY <4>3, <4>4
      <4>8. QED BY <1>2, <4>1, <4>2, <4>6, <4>7
    <3>5. CASE ExpandedLine(o, t, e, k) /\ (e[j] - 1 = e[k] + 1 \/ e[j] - 1 = e[k] + 2)
      <4>1. PICK c \in Nat : t[e[k] + 1] = FarJump(o[k]) /\ t[e[k] + 2] = FreshLabel(c)
        BY <3>5 DEF ExpandedLine
      <4>2. t[e[k] + 1].op = "jump" /\ t[e[k] + 2].op = "label"
        BY <4>1 DEF FarJump, FreshLabel
      <4>3. QED BY <2>3, <3>5, <4>2
    <3>6. k \in 1 .. Len(o)
      BY <1>1
    <3>7. KeptLine(o, t, e, k) \/ ExpandedLine(o, t, e, k)
      BY <3>6 DEF Expands
    <3>8. QED BY <3>2, <3>3, <3>4, <3>5, <3>7
  <2>4. ~Inserted(t, e[j])
    BY <2>2, <2>3 DEF Inserted
  <2>5. ~ExpandedLine(o, t, e, j)
    BY <1>2, <1>5 DEF KeptLine, ExpandedLine
  <2>6. QED BY <2>4, <2>5
<1>6. QED BY <1>3, <1>4, <1>5

\* Which line of the program a line was.
LEMMA WasPlace ==
    ASSUME NEW o \in Seq(Line), NEW t \in Seq(Line), NEW e, Expands(o, t, e),
           \A k \in DOMAIN o : ~IsFresh(o[k].name), \A c \in Nat : IsFresh(Fresh(c))
    PROVE  \A j \in 1 .. Len(o) + 1 : Was(t, e[j]) = j
<1>1. PICK n : n = Len(o)
    OBVIOUS
<1>2. n \in Nat /\ DOMAIN o = 1 .. n
    BY <1>1
<1>3. /\ e \in [1 .. n + 1 -> Nat] /\ e[1] = 1
      /\ \A j \in 1 .. n : KeptLine(o, t, e, j) \/ ExpandedLine(o, t, e, j)
    BY <1>1 DEF Expands
<1> DEFINE Before(i) == {k \in 1 .. i - 1 : Inserted(t, k)}
           S == {k \in 0 .. n : Cardinality(Before(e[k + 1])) = e[k + 1] - (k + 1)}
<1>4. \A i \in Nat : IsFiniteSet(Before(i)) /\ Cardinality(Before(i)) \in Nat
  <2> SUFFICES ASSUME NEW i \in Nat PROVE IsFiniteSet(Before(i)) /\ Cardinality(Before(i)) \in Nat
    OBVIOUS
  <2>1. IsFiniteSet(1 .. i - 1)
    BY FS_Interval
  <2>2. Before(i) \subseteq 1 .. i - 1
    OBVIOUS
  <2> HIDE DEF Before
  <2>3. IsFiniteSet(Before(i))
    BY <2>1, <2>2, FS_Subset
  <2>4. QED BY <2>3, FS_CardinalityType
<1>5. 0 \in S
  <2>1. Before(1) = {}
    OBVIOUS
  <2>2. Cardinality(Before(1)) = 0
    BY <2>1, FS_EmptySet
  <2> HIDE DEF Before
  <2>3. e[0 + 1] = 1 /\ 0 \in 0 .. n
    BY <1>2, <1>3
  <2>4. QED BY <2>2, <2>3
<1>6. ASSUME NEW k \in 0 .. n, k \in S, k < n PROVE k + 1 \in S
  <2>1. PICK j : j = k + 1
    OBVIOUS
  <2>2. j \in 1 .. n /\ j \in 1 .. n + 1 /\ j + 1 \in 1 .. n + 1 /\ j \in DOMAIN o /\ j \in 0 .. n
    BY <1>2, <1>6, <2>1
  <2>3. PICK x : x = e[j]
    OBVIOUS
  <2>4. x \in Nat /\ x >= 1
    <3>1. e[j] \in DOMAIN t
      BY <2>2, PlacesIn
    <3>2. QED BY <2>3, <3>1
  <2>5. Cardinality(Before(x)) = x - j
    BY <1>6, <2>1, <2>3
  <2>6. ~Inserted(t, x)
    BY <2>2, <2>3, PutIn
  <2>7. CASE KeptLine(o, t, e, j)
    <3>1. e[j + 1] = x + 1
      BY <2>3, <2>7 DEF KeptLine
    <3>2. Before(x + 1) = Before(x)
      <4>1. \A y : y \in 1 .. (x + 1) - 1 <=> y \in 1 .. x - 1 \/ y = x
        BY <2>4
      <4>2. QED BY <2>6, <4>1
    <3> HIDE DEF Before
    <3>3. Cardinality(Before(e[j + 1])) = e[j + 1] - (j + 1)
      BY <2>2, <2>4, <2>5, <3>1, <3>2
    <3>4. QED BY <2>1, <2>2, <3>3
  <2>8. CASE ExpandedLine(o, t, e, j)
    <3>1. e[j + 1] = x + 3
      BY <2>3, <2>8 DEF ExpandedLine
    <3>2. Inserted(t, x + 1) /\ Inserted(t, x + 2)
      BY <2>2, <2>3, <2>8, PutIn
    <3>3. Before(x + 3) = (Before(x) \cup {x + 1}) \cup {x + 2}
      <4>1. \A y : y \in 1 .. (x + 3) - 1 <=> y \in 1 .. x - 1 \/ y = x \/ y = x + 1 \/ y = x + 2
        BY <2>4
      <4>2. QED BY <2>6, <3>2, <4>1
    <3>4. x + 1 \notin Before(x) /\ x + 2 \notin Before(x) \cup {x + 1}
      BY <2>4
    <3>5. PICK B : B = Before(x)
      OBVIOUS
    <3>6. IsFiniteSet(B) /\ Cardinality(B) = x - j
      BY <1>4, <2>4, <2>5, <3>5
    <3> HIDE DEF Before
    <3>7. IsFiniteSet(B \cup {x + 1}) /\ Cardinality(B \cup {x + 1}) = Cardinality(B) + 1
      BY <3>4, <3>5, <3>6, FS_AddElement
    <3>8. Cardinality((B \cup {x + 1}) \cup {x + 2}) = Cardinality(B \cup {x + 1}) + 1
      BY <3>4, <3>5, <3>7, FS_AddElement
    <3>9. Cardinality(Before(e[j + 1])) = ((x - j) + 1) + 1
      BY <3>1, <3>3, <3>5, <3>6, <3>7, <3>8
    <3>10. Cardinality(Before(e[j + 1])) = e[j + 1] - (j + 1)
      BY <2>2, <2>4, <3>1, <3>9
    <3>11. QED BY <2>1, <2>2, <3>10
  <2>9. QED BY <1>3, <2>2, <2>7, <2>8
<1>7. 0 .. n \subseteq S
  <2> HIDE DEF S
  <2>1. QED BY <1>2, <1>5, <1>6, UpTo
<1>8. ASSUME NEW j \in 1 .. n + 1 PROVE Was(t, e[j]) = j
  <2>1. j - 1 \in 0 .. n /\ (j - 1) + 1 = j
    BY <1>2
  <2>2. Cardinality(Before(e[(j - 1) + 1])) = e[(j - 1) + 1] - ((j - 1) + 1)
    BY <1>7, <2>1
  <2>3. Cardinality(Before(e[j])) = e[j] - j
    BY <2>1, <2>2
  <2>4. e[j] \in Nat
    BY <1>3
  <2>5. Was(t, e[j]) = e[j] - Cardinality(Before(e[j]))
    BY DEF Was
  <2> HIDE DEF Before
  <2>6. QED BY <2>3, <2>4, <2>5
<1>9. QED BY <1>1, <1>8

\* The first is the least.
LEMMA FirstIs ==
    ASSUME NEW S, S \subseteq Nat, NEW m \in S, \A k \in S : m <= k
    PROVE  FirstOf(S) = m
<1>1. \A j \in S : (\A k \in S : j <= k) => j = m
    OBVIOUS
<1>2. QED BY <1>1 DEF FirstOf

\* A label of the program is where its line is.
LEMMA LabelPlace ==
    ASSUME NEW o \in Seq(Line), NEW t \in Seq(Line), NEW e, Expands(o, t, e),
           NEW x, ~IsFresh(x), \A c \in Nat : IsFresh(Fresh(c)),
           NEW l \in DOMAIN o, IsLabel(o[l]), o[l].name = x
    PROVE  LabelAt(o, x) \in DOMAIN o /\ LabelAt(t, x) = e[LabelAt(o, x)]
<1> DEFINE M == {k \in DOMAIN o : IsLabel(o[k]) /\ o[k].name = x}
           L == {k \in DOMAIN t : IsLabel(t[k]) /\ t[k].name = x}
<1>1. M \subseteq Nat /\ M # {} /\ L \subseteq Nat
    OBVIOUS
<1>2. PICK m \in M : \A k \in M : m <= k
  <2> HIDE DEF M
  <2>1. QED BY <1>1, LeastNumber
<1>3. ASSUME NEW k \in DOMAIN o, ExpandedLine(o, t, e, k)
      PROVE  ~IsLabel(t[e[k]]) /\ ~IsLabel(t[e[k] + 1]) /\ t[e[k] + 2].name # x
  <2>1. PICK c \in Nat : /\ t[e[k]] = Opposite(o[k], c) /\ t[e[k] + 1] = FarJump(o[k])
                         /\ t[e[k] + 2] = FreshLabel(c)
    BY <1>3 DEF ExpandedLine
  <2>2. o[k].op = "branch" /\ o[k] \in Line
    BY <1>3 DEF ExpandedLine
  <2>3. t[e[k]].op = "branch"
    BY <2>1, <2>2, OppositeLine
  <2>4. t[e[k] + 1].op = "jump" /\ t[e[k] + 2].name = Fresh(c)
    BY <2>1 DEF FarJump, FreshLabel
  <2>5. QED BY <2>3, <2>4 DEF IsLabel
<1>4. \A k \in DOMAIN o : KeptLine(o, t, e, k) \/ ExpandedLine(o, t, e, k)
    BY DEF Expands
<1>5. e[m] \in L
  <2>1. m \in DOMAIN o /\ IsLabel(o[m]) /\ o[m].name = x
    OBVIOUS
  <2>2. ~ExpandedLine(o, t, e, m)
    BY <2>1 DEF ExpandedLine, IsLabel
  <2>3. t[e[m]] = o[m]
    BY <1>4, <2>1, <2>2 DEF KeptLine
  <2>4. e[m] \in DOMAIN t
    BY <2>1, PlacesIn
  <2>5. QED BY <2>1, <2>3, <2>4
<1>6. ASSUME NEW y \in L PROVE e[m] <= y
  <2>1. y \in DOMAIN t /\ IsLabel(t[y]) /\ t[y].name = x
    OBVIOUS
  <2>2. PICK k \in DOMAIN o : y = e[k] \/ (ExpandedLine(o, t, e, k) /\ (y = e[k] + 1 \/ y = e[k] + 2))
    BY <2>1, PlaceOf
  <2>3. ~ExpandedLine(o, t, e, k)
    BY <1>3, <2>1, <2>2
  <2>4. y = e[k] /\ t[y] = o[k]
    BY <1>4, <2>2, <2>3 DEF KeptLine
  <2>5. k \in M
    BY <2>1, <2>4
  <2>6. m <= k
    BY <1>2, <2>5
  <2>7. m \in 1 .. Len(o) + 1 /\ k \in 1 .. Len(o) + 1 /\ m \in DOMAIN o
    <3>1. m \in DOMAIN o /\ Len(o) \in Nat
      OBVIOUS
    <3>2. QED BY <3>1
  <2>8. \A a, b \in 1 .. Len(o) + 1 : a < b => e[a] < e[b]
    BY PlacesRise
  <2>9. e[m] \in Nat /\ e[k] \in Nat
    BY <2>7, PlacesIn
  <2>10. m = k \/ m < k
    BY <2>6, <2>7
  <2>11. m < k => e[m] < e[k]
    BY <2>7, <2>8
  <2>12. QED BY <2>4, <2>9, <2>10, <2>11
<1>7. LabelAt(o, x) = FirstOf(M) /\ LabelAt(t, x) = FirstOf(L) /\ m \in DOMAIN o
    BY DEF LabelAt
<1> HIDE DEF L, M
<1>8. FirstOf(M) = m
    BY <1>1, <1>2, FirstIs
<1>9. FirstOf(L) = e[m]
    BY <1>1, <1>5, <1>6, FirstIs
<1>10. QED BY <1>7, <1>8, <1>9

\* Wherever a branch goes, relaxed or not, control reaches the line it did.
LEMMA ExpandedControl ==
    ASSUME NEW o \in Seq(Line), NEW t \in Seq(Line), NEW e, Expands(o, t, e), NEW n \in Nat, FreshOnce(t, n),
           \A k \in DOMAIN o : ~IsFresh(o[k].name), \A d \in Nat : IsFresh(Fresh(d)),
           NEW i \in DOMAIN t, t[i].op = "branch",
           NEW q \in DOMAIN o, IsLabel(o[q]), o[q].name = o[Was(t, i)].name, NEW c \in BOOLEAN
    PROVE  Was(t, Settles(t, Lands(t, i, c))) = Lands(o, Was(t, i), c)
<1>1. \A j \in 1 .. Len(o) + 1 : Was(t, e[j]) = j
    BY WasPlace
<1>2. PICK j \in DOMAIN o : i = e[j]
  <2>1. PICK j \in DOMAIN o : i = e[j] \/ (ExpandedLine(o, t, e, j) /\ (i = e[j] + 1 \/ i = e[j] + 2))
    BY PlaceOf
  <2>2. SUFFICES ASSUME ExpandedLine(o, t, e, j), i = e[j] + 1 \/ i = e[j] + 2 PROVE FALSE
    BY <2>1
  <2>3. PICK d \in Nat : t[e[j] + 1] = FarJump(o[j]) /\ t[e[j] + 2] = FreshLabel(d)
    BY <2>2 DEF ExpandedLine
  <2>4. t[e[j] + 1].op = "jump" /\ t[e[j] + 2].op = "label"
    BY <2>3 DEF FarJump, FreshLabel
  <2>5. QED BY <2>2, <2>4
<1>3. /\ j \in Nat /\ j \in 1 .. Len(o) /\ j + 1 \in 1 .. Len(o) + 1 /\ j \in 1 .. Len(o) + 1
      /\ Len(o) \in Nat /\ Len(t) \in Nat /\ o[j] \in Line /\ DOMAIN t = 1 .. Len(t)
    OBVIOUS
<1>4. Was(t, i) = j
    BY <1>1, <1>2, <1>3
<1>5. i \in Nat /\ e[j + 1] \in Nat
    BY <1>2, PlacesIn
<1>6. Was(t, e[j + 1]) = j + 1 /\ Settles(t, e[j + 1]) = e[j + 1]
  <2>1. Was(t, e[j + 1]) = j + 1
    BY <1>1, <1>3
  <2>2. CASE j = Len(o)
    <3>1. e[j + 1] = Len(t) + 1
      BY <2>2 DEF Expands
    <3>2. e[j + 1] > Len(t)
      BY <1>3, <3>1
    <3>3. QED BY <2>1, <3>2 DEF Settles
  <2>3. CASE j # Len(o)
    <3>1. j + 1 \in DOMAIN o
      BY <1>3, <2>3
    <3>2. ~Inserted(t, e[j + 1])
      BY <3>1, PutIn
    <3>3. QED BY <2>1, <3>2 DEF Settles
  <2>4. QED BY <2>2, <2>3
<1>7. PICK x, K : x = o[j].name /\ K = LabelAt(o, x)
    OBVIOUS
<1>8. ~IsFresh(x) /\ IsLabel(o[q]) /\ o[q].name = x
    BY <1>4, <1>7
<1>9. K \in DOMAIN o /\ LabelAt(t, x) = e[K]
    BY <1>7, <1>8, LabelPlace
<1>10. Was(t, e[K]) = K /\ Settles(t, e[K]) = e[K]
  <2>1. K \in 1 .. Len(o) + 1
    BY <1>3, <1>9
  <2>2. ~Inserted(t, e[K])
    BY <1>9, PutIn
  <2>3. QED BY <1>1, <2>1, <2>2 DEF Settles
<1>11. Lands(o, j, c) = IF c # o[j].neg THEN K ELSE j + 1
    BY <1>7 DEF Lands
<1>12. CASE KeptLine(o, t, e, j)
  <2>1. t[i] = o[j] /\ e[j + 1] = i + 1
    BY <1>2, <1>12 DEF KeptLine
  <2>2. Lands(t, i, c) = IF c # o[j].neg THEN e[K] ELSE e[j + 1]
    BY <1>7, <1>9, <2>1 DEF Lands
  <2>3. QED BY <1>4, <1>6, <1>10, <1>11, <2>2
<1>13. CASE ExpandedLine(o, t, e, j)
  <2>1. PICK d \in Nat : t[i] = Opposite(o[j], d) /\ t[i + 1] = FarJump(o[j]) /\ t[i + 2] = FreshLabel(d)
    BY <1>2, <1>13 DEF ExpandedLine
  <2>2. e[j + 1] = i + 3
    BY <1>2, <1>13 DEF ExpandedLine
  <2>3. t[i].name = Fresh(d) /\ t[i].neg = ~o[j].neg
    BY <1>3, <2>1, OppositeLine
  <2>4. t[i + 1].op = "jump" /\ t[i + 1].name = x /\ t[i + 2].op = "label" /\ t[i + 2].name = Fresh(d)
    BY <1>7, <2>1 DEF FarJump, FreshLabel
  <2>5. i + 1 \in DOMAIN t /\ i + 2 \in DOMAIN t /\ Inserted(t, i + 1) /\ Inserted(t, i + 2)
    BY <1>2, <1>13, PlacesIn, PutIn
  <2>6. LabelAt(t, Fresh(d)) = i + 2
    <3> DEFINE L == {k \in DOMAIN t : IsLabel(t[k]) /\ t[k].name = Fresh(d)}
    <3>1. IsLabel(t[i + 2])
      BY <2>4 DEF IsLabel
    <3>2. i + 2 \in L
      BY <2>4, <2>5, <3>1
    <3>3. ASSUME NEW k \in L PROVE i + 2 <= k
      <4>1. k = i + 2
        BY <2>4, <2>5, <3>1 DEF FreshOnce
      <4>2. QED BY <1>5, <4>1
    <3>4. L \subseteq Nat
      OBVIOUS
    <3>5. LabelAt(t, Fresh(d)) = FirstOf(L)
      BY DEF LabelAt
    <3> HIDE DEF L
    <3>6. QED BY <3>2, <3>3, <3>4, <3>5, FirstIs
  <2>7. o[j].neg \in BOOLEAN
    BY <1>3, LineTyped
  <2>8. CASE c = o[j].neg
    <3>1. Lands(t, i, c) = i + 2
      BY <2>3, <2>6, <2>7, <2>8 DEF Lands
    <3>2. ~(i + 2 > Len(t)) /\ (i + 2) + 1 = e[j + 1]
      <4>1. i + 2 <= Len(t)
        BY <1>3, <2>5
      <4>2. PICK y : y = e[j + 1] /\ y = i + 3
        BY <2>2
      <4>3. i \in Nat /\ Len(t) \in Nat
        BY <1>3, <1>5
      <4>4. (i + 2) + 1 = y
        BY <4>2, <4>3
      <4>5. ~(i + 2 > Len(t))
        BY <4>1, <4>3
      <4>6. QED BY <4>2, <4>4, <4>5
    <3>3. Settles(t, i + 2) = e[j + 1]
      BY <2>4, <2>5, <3>2 DEF Settles
    <3>4. QED BY <1>4, <1>6, <1>11, <2>8, <3>1, <3>3
  <2>9. CASE c # o[j].neg
    <3>1. Lands(t, i, c) = i + 1
      BY <2>3, <2>7, <2>9 DEF Lands
    <3>2. ~(i + 1 > Len(t))
      BY <1>3, <1>5, <2>5
    <3>3. Settles(t, i + 1) = LabelAt(t, x)
      BY <2>4, <2>5, <3>2 DEF Settles
    <3>4. QED BY <1>4, <1>9, <1>10, <1>11, <2>9, <3>1, <3>3
  <2>10. QED BY <2>8, <2>9
<1>14. QED BY <1>3, <1>12, <1>13 DEF Expands

\* Every number makes a label of relaxBranch()'s.
LEMMA FreshLabels == \A c \in Nat : IsFresh(Fresh(c))
<1> SUFFICES ASSUME NEW c \in Nat PROVE IsFresh(Fresh(c))
    OBVIOUS
<1>1. Fresh(c) \in [relax : Nat]
    BY DEF Fresh
<1>2. QED BY <1>1, ProgramAssumption DEF IsFresh

\* The estimate finds every path as it was.
LEMMA TracedControl ==
    ASSUME LinesTyped, Traced
    PROVE  ControlPreserved
<1> SUFFICES ASSUME phase = "estimate", NEW p \in CodePart, NEW i \in DOMAIN text[p], text[p][i].op = "branch",
                    NEW k \in DOMAIN origin[p], IsLabel(origin[p][k]),
                    origin[p][k].name = origin[p][Was(text[p], i)].name, NEW c \in BOOLEAN
             PROVE  Was(text[p], Settles(text[p], Lands(text[p], i, c))) = Lands(origin[p], Was(text[p], i), c)
    BY DEF ControlPreserved, CodePart
<1>1. PICK o, t : o = origin[p] /\ t = text[p]
    OBVIOUS
<1>2. p \in Part /\ origin \in Programs /\ relaxed \in Nat /\ t \in Seq(Line)
    BY <1>1 DEF LinesTyped, CodePart, Part
<1>3. o \in Seq(Line) /\ \A l \in DOMAIN o : ~IsFresh(o[l].name)
    BY <1>1, <1>2, ProgramTyped, OwnNames
<1>4. PICK e : Expands(o, t, e)
    BY <1>1 DEF Traced
<1>5. FreshOnce(t, relaxed)
    BY <1>1 DEF Traced
<1>6. i \in DOMAIN t /\ t[i].op = "branch" /\ k \in DOMAIN o /\ IsLabel(o[k]) /\ o[k].name = o[Was(t, i)].name
    BY <1>1
<1>7. \A d \in Nat : IsFresh(Fresh(d))
    BY FreshLabels
<1>8. Was(t, Settles(t, Lands(t, i, c))) = Lands(o, Was(t, i), c)
    BY <1>2, <1>3, <1>4, <1>5, <1>6, <1>7, ExpandedControl
<1>9. QED BY <1>1, <1>8

-------------------------------------------------------------------------------
(* Each branch is relaxed once.                                           *)

\* Every number that relaxBranches() has given out is in a label.
NumbersUsed ==
    phase \in {"relax", "estimate"} =>
        \A c \in Nat : c < relaxed => \E q \in CodePart : \E k \in DOMAIN text[q] :
            text[q][k].op = "label" /\ text[q][k].name = Fresh(c)

\* The branches of the program that relaxBranches() reads.
ProgramBranches == {b \in CodePart \X Nat : b[2] \in DOMAIN origin[b[1]] /\ origin[b[1]][b[2]].op = "branch"}

\* No branch is relaxed twice: the passes change the Texts at most as many
\* times as the program has branches.
RelaxesEachOnce == phase \in {"relax", "estimate"} => relaxed <= Cardinality(ProgramBranches)

\* Relaxing a branch keeps the labels there are, and adds that of its number.
LEMMA LabelsKept ==
    ASSUME NEW t \in Seq(Line), NEW i \in DOMAIN t, t[i].op = "branch", NEW n \in Nat,
           NEW r, RelaxesTo(t, i, n, r)
    PROVE  /\ \A k \in DOMAIN t : t[k].op = "label" => \E l \in DOMAIN r : r[l] = t[k]
           /\ \E l \in DOMAIN r : r[l].op = "label" /\ r[l].name = Fresh(n)
<1>1. /\ r \in Seq(Line) /\ Len(r) = Len(t) + 2 /\ Len(t) \in Nat /\ DOMAIN t = 1 .. Len(t)
      /\ DOMAIN r = 1 .. Len(r) /\ i \in 1 .. Len(t)
    BY DEF RelaxesTo
<1>2. /\ \A k \in 1 .. i - 1 : r[k] = t[k]
      /\ \A k \in i + 1 .. Len(t) : r[k + 2] = t[k]
      /\ r[i + 2] = FreshLabel(n)
    BY DEF RelaxesTo
<1>3. ASSUME NEW k \in DOMAIN t, t[k].op = "label" PROVE \E l \in DOMAIN r : r[l] = t[k]
  <2>1. k \in 1 .. i - 1 \/ k \in i + 1 .. Len(t)
    <3>1. k # i
      BY <1>3
    <3>2. QED BY <1>1, <3>1
  <2>2. CASE k \in 1 .. i - 1
    <3>1. k \in DOMAIN r
      BY <1>1, <2>2
    <3>2. QED BY <1>2, <2>2, <3>1
  <2>3. CASE k \in i + 1 .. Len(t)
    <3>1. k + 2 \in DOMAIN r
      BY <1>1, <2>3
    <3>2. QED BY <1>2, <2>3, <3>1
  <2>4. QED BY <2>1, <2>2, <2>3
<1>4. i + 2 \in DOMAIN r
    BY <1>1
<1>5. QED BY <1>2, <1>3, <1>4 DEF FreshLabel

\* A pass uses the numbers one after the other.
LEMMA RelaxUses ==
    ASSUME LinesTyped, NumbersUsed, Relaxes
    PROVE  NumbersUsed'
<1>0. /\ scan.part \in CodePart /\ scan.at \in Nat /\ DOMAIN text = Part /\ text[scan.part] \in Seq(Line)
      /\ phase = "relax" /\ relaxed \in Nat
    BY DEF LinesTyped, Relaxes, BeginPass, RelaxLine, EndPass, Part, CodePart
<1>1. CASE UNCHANGED <<text, relaxed>>
    BY <1>0, <1>1 DEF NumbersUsed
<1>2. CASE RelaxLine /\ relaxed' = relaxed + 1
  <2>1. PICK p, t, i : p = scan.part /\ t = text[p] /\ i = LastOf(BranchesBelow(t, scan.at))
    OBVIOUS
  <2>2. BranchesBelow(t, scan.at) # {} /\ text' = [text EXCEPT ![p] = RelaxAt(t, i, relaxed)]
    BY <1>0, <1>2, <2>1 DEF RelaxLine
  <2>3. t \in Seq(Line) /\ p \in CodePart /\ p \in Part
    BY <1>0, <2>1 DEF CodePart, Part
  <2>4. i \in DOMAIN t /\ t[i].op = "branch"
    <3>1. scan.at <= Len(t) + 1
      BY <1>0, <2>1, <2>3 DEF LinesTyped
    <3>2. QED BY <1>0, <2>1, <2>2, <2>3, <3>1, NextBranch
  <2>5. PICK r : r = RelaxAt(t, i, relaxed)
    OBVIOUS
  <2>6. RelaxesTo(t, i, relaxed, r)
    BY <1>0, <2>3, <2>4, <2>5, RelaxedTo
  <2>7. /\ \A k \in DOMAIN t : t[k].op = "label" => \E l \in DOMAIN r : r[l] = t[k]
        /\ \E l \in DOMAIN r : r[l].op = "label" /\ r[l].name = Fresh(relaxed)
    BY <1>0, <2>3, <2>4, <2>6, LabelsKept
  <2>8. text'[p] = r /\ \A q \in Part : q # p => text'[q] = text[q]
    BY <1>0, <2>2, <2>3, <2>5
  <2>9. ASSUME NEW c \in Nat, c < relaxed + 1
        PROVE  \E q \in CodePart : \E k \in DOMAIN text'[q] :
                   text'[q][k].op = "label" /\ text'[q][k].name = Fresh(c)
    <3>1. CASE c = relaxed
      BY <2>3, <2>7, <2>8, <3>1
    <3>2. CASE c # relaxed
      <4>1. c < relaxed
        BY <1>0, <2>9, <3>2
      <4>2. PICK q \in CodePart : \E k \in DOMAIN text[q] : text[q][k].op = "label" /\ text[q][k].name = Fresh(c)
        BY <1>0, <4>1 DEF NumbersUsed
      <4>3. CASE q = p
        BY <2>1, <2>3, <2>7, <2>8, <4>2, <4>3
      <4>4. CASE q # p
        <5>1. text'[q] = text[q]
          BY <2>8, <4>4 DEF CodePart, Part
        <5>2. QED BY <4>2, <5>1
      <4>5. QED BY <4>3, <4>4
    <3>3. QED BY <3>1, <3>2
  <2>10. QED BY <1>2, <2>9 DEF NumbersUsed
<1>3. UNCHANGED <<text, relaxed>> \/ (RelaxLine /\ relaxed' = relaxed + 1)
    BY DEF Relaxes, BeginPass, RelaxLine, EndPass
<1>4. QED BY <1>1, <1>2, <1>3

\* The label of a number follows a branch of the program.
LEMMA NumberedBranch ==
    ASSUME NEW o \in Seq(Line), NEW t \in Seq(Line), NEW e, Expands(o, t, e),
           \A k \in DOMAIN o : ~IsFresh(o[k].name),
           NEW c \in Nat, NEW k \in DOMAIN t, t[k].op = "label", t[k].name = Fresh(c), IsFresh(Fresh(c))
    PROVE  \E j \in DOMAIN o : o[j].op = "branch" /\ k = e[j] + 2
<1>1. PICK j \in DOMAIN o : k = e[j] \/ (ExpandedLine(o, t, e, j) /\ (k = e[j] + 1 \/ k = e[j] + 2))
    BY PlaceOf
<1>2. o[j] \in Line /\ j \in 1 .. Len(o)
    OBVIOUS
<1>3. k # e[j]
  <2>1. SUFFICES ASSUME k = e[j] PROVE FALSE
    OBVIOUS
  <2>2. CASE KeptLine(o, t, e, j)
    <3>1. t[k] = o[j]
      BY <2>1, <2>2 DEF KeptLine
    <3>2. QED BY <3>1
  <2>3. CASE ExpandedLine(o, t, e, j)
    <3>1. PICK d \in Nat : t[k] = Opposite(o[j], d)
      BY <2>1, <2>3 DEF ExpandedLine
    <3>2. t[k].op = "branch"
      BY <1>2, <2>3, <3>1, OppositeLine DEF ExpandedLine
    <3>3. QED BY <3>2
  <2>4. QED BY <1>2, <2>2, <2>3 DEF Expands
<1>4. CASE ExpandedLine(o, t, e, j) /\ k = e[j] + 1
  <2>1. t[k].op = "jump"
    BY <1>4 DEF ExpandedLine, FarJump
  <2>2. QED BY <2>1
<1>5. CASE ExpandedLine(o, t, e, j) /\ k = e[j] + 2
    BY <1>5 DEF ExpandedLine
<1>6. QED BY <1>1, <1>3, <1>4, <1>5

\* Numbers make different names.
LEMMA NumbersApart == ASSUME NEW c, NEW d, Fresh(c) = Fresh(d) PROVE c = d
<1>1. [relax |-> c].relax = [relax |-> d].relax
    BY DEF Fresh
<1>2. QED BY <1>1

\* A program has so many branches.
LEMMA BranchesFinite ==
    ASSUME LinesTyped, origin \in Programs
    PROVE  IsFiniteSet(ProgramBranches) /\ Cardinality(ProgramBranches) \in Nat
<1>1. PICK f : f = [q \in CodePart |-> {q} \X (1 .. Len(origin[q]))]
    OBVIOUS
<1>2. ASSUME NEW q \in CodePart PROVE IsFiniteSet(f[q])
  <2>1. Len(origin[q]) \in Nat
    BY ProgramTyped DEF CodePart, Part
  <2>2. IsFiniteSet({q})
    BY FS_Singleton
  <2>3. IsFiniteSet(1 .. Len(origin[q]))
    BY <2>1, FS_Interval
  <2>4. f[q] = {q} \X (1 .. Len(origin[q]))
    BY <1>1
  <2>5. QED BY <2>2, <2>3, <2>4, FS_Product
<1>3. IsFiniteSet(f["content"] \cup f["footer"])
    BY <1>2, FS_Union DEF CodePart
<1>4. ProgramBranches \subseteq f["content"] \cup f["footer"]
  <2>1. SUFFICES ASSUME NEW b \in ProgramBranches PROVE b \in f["content"] \cup f["footer"]
    OBVIOUS
  <2>2. PICK q \in CodePart, i \in Nat : b = <<q, i>>
    BY <2>1 DEF ProgramBranches
  <2>3. i \in DOMAIN origin[q]
    BY <2>1, <2>2 DEF ProgramBranches
  <2>4. i \in 1 .. Len(origin[q])
    BY <2>3, ProgramTyped DEF CodePart, Part
  <2>5. f[q] = {q} \X (1 .. Len(origin[q]))
    BY <1>1
  <2>6. b \in f[q]
    BY <2>2, <2>4, <2>5
  <2>7. QED BY <2>6 DEF CodePart
<1>5. IsFiniteSet(ProgramBranches)
    BY <1>3, <1>4, FS_Subset
<1>6. QED BY <1>5, FS_CardinalityType

\* Different numbers are those of different branches.
LEMMA TracedOnce ==
    ASSUME LinesTyped, Traced, NumbersUsed
    PROVE  RelaxesEachOnce
<1> SUFFICES ASSUME phase \in {"relax", "estimate"} PROVE relaxed <= Cardinality(ProgramBranches)
    BY DEF RelaxesEachOnce
<1>1. /\ relaxed \in Nat /\ origin \in Programs
      /\ \A q \in CodePart : text[q] \in Seq(Line) /\ origin[q] \in Seq(Line)
      /\ \A q \in CodePart : \A k \in DOMAIN origin[q] : ~IsFresh(origin[q][k].name)
  <2>1. relaxed \in Nat /\ origin \in Programs /\ \A q \in CodePart : q \in Part /\ text[q] \in Seq(Line)
    BY DEF LinesTyped, CodePart, Part
  <2>2. QED BY <2>1, ProgramTyped, OwnNames
<1>2. PICK E : E = [q \in CodePart |-> CHOOSE e : Expands(origin[q], text[q], e)]
    OBVIOUS
<1>3. \A q \in CodePart : Expands(origin[q], text[q], E[q])
    BY <1>2 DEF Traced
<1> DEFINE Follows(c, b) == /\ b \in ProgramBranches
                            /\ text[b[1]][E[b[1]][b[2]] + 2].name = Fresh(c)
<1>4. ASSUME NEW c \in 0 .. relaxed - 1 PROVE \E b : Follows(c, b)
  <2>1. c \in Nat /\ c < relaxed
    BY <1>1
  <2>2a. PICK q \in CodePart : \E k \in DOMAIN text[q] : text[q][k].op = "label" /\ text[q][k].name = Fresh(c)
    BY <2>1 DEF NumbersUsed
  <2>2. PICK k \in DOMAIN text[q] : text[q][k].op = "label" /\ text[q][k].name = Fresh(c)
    BY <2>2a
  <2>3. IsFresh(Fresh(c))
    BY <2>1, FreshLabels
  <2>4. PICK o, t, e : o = origin[q] /\ t = text[q] /\ e = E[q]
    OBVIOUS
  <2>5. /\ o \in Seq(Line) /\ t \in Seq(Line) /\ Expands(o, t, e) /\ (\A l \in DOMAIN o : ~IsFresh(o[l].name))
        /\ k \in DOMAIN t /\ t[k].op = "label" /\ t[k].name = Fresh(c)
    BY <1>1, <1>3, <2>2, <2>4
  <2>6. PICK j \in DOMAIN o : o[j].op = "branch" /\ k = e[j] + 2
    BY <2>1, <2>3, <2>5, NumberedBranch
  <2>7. j \in Nat
    BY <2>5
  <2>8. <<q, j>> \in ProgramBranches
    BY <2>4, <2>6, <2>7 DEF ProgramBranches
  <2>9. Follows(c, <<q, j>>)
    BY <2>2, <2>4, <2>6, <2>8
  <2>10. QED BY <2>9
<1> DEFINE f == [c \in 0 .. relaxed - 1 |-> CHOOSE b : Follows(c, b)]
<1>5. \A c \in 0 .. relaxed - 1 : Follows(c, f[c])
    BY <1>4
<1>6. ASSUME NEW c \in 0 .. relaxed - 1, NEW d \in 0 .. relaxed - 1, f[c] = f[d] PROVE c = d
  <2>1. PICK b : b = f[c] /\ b = f[d]
    BY <1>6
  <2>2. Follows(c, b) /\ Follows(d, b)
    BY <1>5, <2>1
  <2>3. Fresh(c) = Fresh(d)
    BY <2>2
  <2>4. QED BY <2>3, NumbersApart
<1>7. f \in [0 .. relaxed - 1 -> ProgramBranches]
    BY <1>5
<1> HIDE DEF f
<1>8. f \in Injection(0 .. relaxed - 1, ProgramBranches)
    BY <1>6, <1>7 DEF Injection, IsInjective
<1>9. Cardinality(0 .. relaxed - 1) <= Cardinality(ProgramBranches)
    BY <1>1, <1>8, BranchesFinite, FS_Injection
<1>10. Cardinality(0 .. relaxed - 1) = relaxed
  <2>1. 0 \in Int /\ relaxed - 1 \in Int
    BY <1>1
  <2>2. Cardinality(0 .. relaxed - 1) = IF 0 > relaxed - 1 THEN 0 ELSE (relaxed - 1) - 0 + 1
    BY <2>1, FS_Interval
  <2>3. QED BY <1>1, <2>2
<1>11. QED BY <1>9, <1>10
===============================================================================
