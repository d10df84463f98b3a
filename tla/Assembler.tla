------------------------------- MODULE Assembler -------------------------------
(***************************************************************************)
(* The assembler (asm_parser.cpp): from the three Texts the code generator *)
(* leaves (header, content, footer) to a Binary. Branches that might not   *)
(* reach are relaxed first, then the lines are assembled one by one into a *)
(* buffer whose size was estimated beforehand, then jumps are resolved and *)
(* the relocation records written.                                         *)
(*                                                                         *)
(* Addresses and sizes are the code's own, in bytes; what an instruction   *)
(* computes is left out. A "code" line stands for n instructions of three  *)
(* bytes, a "callExt" line for n calls of one host function.               *)
(***************************************************************************)
EXTENDS Integers, Sequences, FiniteSets

CONSTANTS
    Programs,   \* the programs to assemble, [header, content, footer]
    Label,      \* the labels they use
    NoLabel

\* "aligned": a label that starts with "@_"; "narrow": a two-byte instruction;
\* "string": a .bytes line with its initial value; "load": l32r of a global;
\* "movExt": of a host variable; "global": a function record.
Op == {"aligned", "label", "bytes", "string", "global", "json",
       "code", "narrow", "branch", "jump", "call", "load", "movExt", "callExt"}

\* neg: the branch is the inverse of the one that was there.
Line == [op : Op, name : Label \cup {NoLabel} \cup [relax : Nat], n : Nat, neg : BOOLEAN]

Part == {"header", "content", "footer"}

ASSUME ProgramAssumption ==
    /\ NoLabel \notin Label
    /\ \A name \in Label \cup {NoLabel} : name \notin [relax : Nat]
    /\ \A p \in Programs : DOMAIN p = Part /\ \A q \in Part :
           /\ p[q] \in Seq(Line)
           /\ \A i \in DOMAIN p[q] : p[q][i].op \in {"code", "callExt"} => p[q][i].n # 0

\* What the lines of a program are: a label has a name, which starts with "@_"
\* or does not; the header declares names, with their bytes, and its JSON
\* variables are among them; a host name that has a label has it there; the
\* labels branched to are numbered by a counter that both Texts share.
NamesOf(t, ops) == {t[i].name : i \in {i \in DOMAIN t : t[i].op \in ops}}
ASSUME GeneratedAssumption ==
    \A p \in Programs :
        LET names(ops) == UNION {NamesOf(p[q], ops) : q \in Part}
        IN  /\ names(Op) \subseteq Label \cup {NoLabel}
            /\ NoLabel \notin names({"aligned", "label"})
            /\ names({"label"}) \cap names({"aligned", "call", "load", "movExt", "callExt"}) = {}
            /\ \A i \in DOMAIN p.header :
                   /\ p.header[i].op \in {"aligned", "bytes", "string", "global", "json"}
                   /\ p.header[i].op = "aligned" =>
                          i < Len(p.header) /\ p.header[i + 1].op \in {"bytes", "string"}
            /\ NamesOf(p.header, {"json"}) \subseteq NamesOf(p.header, {"aligned"})
            /\ \A q \in {"content", "footer"} :
                   /\ NamesOf(p[q], {"bytes", "string", "json"}) = {}
                   /\ NamesOf(p[q], {"aligned"}) \cap names({"movExt", "callExt"})
                          \subseteq NamesOf(p.header, {"aligned"})
            /\ NamesOf(p.content, {"branch"}) \cap NamesOf(p.footer, {"branch"}) = {}

\* The bits of a branch's offset (kBranchForms).
ASSUME BranchAssumption ==
    \A p \in Programs : \A q \in Part : \A i \in DOMAIN p[q] : p[q][i].op = "branch" => p[q][i].n \in {8, 12}

VARIABLES
    phase,
    origin,   \* the program (history)
    text,     \* text[p]: what is left of each Text
    scan,     \* where relaxBranches() is
    relaxed,  \* relaxCount
    heads,    \* _loopHeads, as a set
    parsed,   \* _asm_parsed
    pos,      \* _address_instr, _address_data, _tmp_data_address
    size,     \* _instr_size, tmp_instr_size
    bad,      \* main_error.error
    bin,      \* the Binary
    heap      \* the blocks of memory in use

asmVars == <<phase, origin, text, scan, relaxed, heads, parsed, pos, size, bad, bin, heap>>

NoScan == [part |-> "content", old |-> <<>>, at |-> 0]
NoBin == [instr |-> 0, tmp |-> 0, data |-> 0, records |-> {}]

Align4(a) == ((a + 3) \div 4) * 4
Reserved(n) == (n \div 4) * 4 + 4

AsmInit ==
    /\ phase = "relax"
    /\ origin \in Programs
    /\ text = origin
    /\ scan = NoScan
    /\ relaxed = 0
    /\ heads = {}
    /\ parsed = <<>>
    /\ pos = [instr |-> 0, data |-> 0, staged |-> 0]
    /\ size = [instr |-> 0, tmp |-> 0]
    /\ bad = FALSE
    /\ bin = NoBin
    /\ heap = {}

-------------------------------------------------------------------------------
(* Lines of text. A "code" or "callExt" line of the model is n of them.    *)

Count(l) == IF l.op \in {"code", "callExt"} THEN l.n ELSE 1

\* The sums of the first numbers of g, and of f over the first lines of t, by
\* how many there are.
Running(g) ==
    LET s[k \in 0 .. Len(g)] == IF k = 0 THEN 0 ELSE s[k - 1] + g[k] IN s
SumTo(t, f(_)) == Running([k \in DOMAIN t |-> f(t[k])])
Total(t, f(_)) == SumTo(t, f)[Len(t)]

MaxLineBytes(l) ==
    CASE l.op = "aligned" -> 5
      [] l.op = "label"   -> 2
      [] l.op = "callExt" -> 6 * l.n
      [] l.op = "code"    -> 3 * l.n
      [] l.op \in {"bytes", "string", "global", "json"} -> 64
      [] OTHER            -> 3

IsLabel(l) == l.op \in {"aligned", "label"}

\* What goes to a label of its Text: branchTarget().
GoesTo(l, name) == l.op \in {"branch", "jump"} /\ l.name = name

LoopHeads(t) ==
    {t[i].name : i \in {i \in DOMAIN t :
        /\ t[i].op = "label"
        /\ \/ \E j \in DOMAIN t : t[j].op = "jump" /\ GoesTo(t[j], t[i].name)
           \/ \E j \in i + 1 .. Len(t) : GoesTo(t[j], t[i].name)}}

-------------------------------------------------------------------------------
(* relaxBranches(): pass after pass over a Text until one changes nothing. *)
(* A pass measures distances once, at its start, in lines of the Text as   *)
(* it was then, and goes from the last line to the first.                  *)

\* The bounds on the bytes before the lines of t, numbered from 0.
Offset(t) ==
    LET lines == SumTo(t, Count)
        bytes == SumTo(t, MaxLineBytes)
    IN  [r \in 0 .. Total(t, Count) - 1 |->
            LET k == CHOOSE k \in 1 .. Len(t) : lines[k - 1] <= r /\ r < lines[k]
            IN  bytes[k - 1] + (r - lines[k - 1]) * (MaxLineBytes(t[k]) \div Count(t[k]))]

Abs(n) == IF n < 0 THEN -n ELSE n

\* Where the label of the branch at line i of t is, in a pass that began with
\* the Text `old`: it is looked for among as many lines as the Text had then.
\* A branch to a label that is not there is left to the check after assembling.
LabelsSeen(t, old, i) ==
    {k \in DOMAIN t : IsLabel(t[k]) /\ t[k].name = t[i].name
                      /\ SumTo(t, Count)[k - 1] < Total(old, Count)}
FirstOf(S) == CHOOSE k \in S : \A j \in S : k <= j

Distance(t, old, i) ==
    LET lines == SumTo(t, Count)
        k == FirstOf(LabelsSeen(t, old, i))
    IN  Abs(Offset(old)[lines[k - 1]] - Offset(old)[lines[i - 1]])

\* Mutant: no allowance for padding.
TooFarExact(t, old, i) ==
    LabelsSeen(t, old, i) # {} /\ Distance(t, old, i) >= 2 ^ (t[i].n - 1)

TooFar(t, old, i) ==
    LabelsSeen(t, old, i) # {} /\ Distance(t, old, i) + 12 >= 2 ^ (t[i].n - 1)

Fresh(c) == [relax |-> c]

\* Mutant: the branch is not inverted.
SameWay(l, c) ==
    <<[l EXCEPT !.name = Fresh(c)],
      [op |-> "jump", name |-> l.name, n |-> 0, neg |-> FALSE],
      [op |-> "label", name |-> Fresh(c), n |-> 0, neg |-> FALSE]>>

\* relaxBranch(): the inverse branch, over a jump to the label.
InverseBranch(l, c) ==
    <<[l EXCEPT !.name = Fresh(c), !.neg = ~l.neg],
      [op |-> "jump", name |-> l.name, n |-> 0, neg |-> FALSE],
      [op |-> "label", name |-> Fresh(c), n |-> 0, neg |-> FALSE]>>

RelaxAt(t, i, c) == SubSeq(t, 1, i - 1) \o InverseBranch(t[i], c) \o SubSeq(t, i + 1, Len(t))

\* The next branch a pass comes to, going down.
BranchesBelow(t, i) == {k \in 1 .. i - 1 : t[k].op = "branch"}
LastOf(S) == CHOOSE k \in S : \A j \in S : k >= j

BeginPass(p) ==
    /\ phase = "relax" /\ scan.part = p /\ scan.at = 0
    /\ scan' = [part |-> p, old |-> text[p], at |-> Len(text[p]) + 1]
    /\ UNCHANGED <<phase, origin, text, relaxed, heads, parsed, pos, size, bad, bin, heap>>

RelaxLine ==
    /\ phase = "relax" /\ scan.at # 0
    /\ LET p == scan.part
           t == text[p]
           i == LastOf(BranchesBelow(t, scan.at))
       IN  /\ BranchesBelow(t, scan.at) # {}
           /\ scan' = [scan EXCEPT !.at = i]
           /\ IF TooFar(t, scan.old, i)
              THEN /\ text' = [text EXCEPT ![p] = RelaxAt(t, i, relaxed)]
                   /\ relaxed' = relaxed + 1
              ELSE UNCHANGED <<text, relaxed>>
    /\ UNCHANGED <<phase, origin, heads, parsed, pos, size, bad, bin, heap>>

\* Mutant: a pass always counts as a change.
EndPassAgain ==
    /\ phase = "relax" /\ scan.at # 0
    /\ BranchesBelow(text[scan.part], scan.at) = {}
    /\ scan' = [NoScan EXCEPT !.part = scan.part]
    /\ UNCHANGED <<phase, origin, text, relaxed, heads, parsed, pos, size, bad, bin, heap>>

\* Mutant: one pass over each Text.
EndPassOnce ==
    /\ phase = "relax" /\ scan.at # 0
    /\ BranchesBelow(text[scan.part], scan.at) = {}
    /\ IF scan.part = "content"
       THEN scan' = [NoScan EXCEPT !.part = "footer"] /\ UNCHANGED phase
       ELSE phase' = "estimate" /\ scan' = NoScan
    /\ UNCHANGED <<origin, text, relaxed, heads, parsed, pos, size, bad, bin, heap>>

EndPass ==
    /\ phase = "relax" /\ scan.at # 0
    /\ BranchesBelow(text[scan.part], scan.at) = {}
    /\ IF text[scan.part] # scan.old
       THEN scan' = [NoScan EXCEPT !.part = scan.part] /\ UNCHANGED phase
       ELSE IF scan.part = "content"
       THEN scan' = [NoScan EXCEPT !.part = "footer"] /\ UNCHANGED phase
       ELSE phase' = "estimate" /\ scan' = NoScan
    /\ UNCHANGED <<origin, text, relaxed, heads, parsed, pos, size, bad, bin, heap>>

-------------------------------------------------------------------------------
(* parseASM(): estimate the size of the buffer, then assemble the lines.   *)

Number(t, ops) == Total(t, LAMBDA l : IF l.op \in ops THEN Count(l) ELSE 0)
Staging(t) == Total(t, LAMBDA l : IF l.op = "string" THEN Reserved(l.n) ELSE 0)
Word16(n) == n % 65536

\* Mutant: a callExt counts as the one line it is.
CodeEstimateNoCalls(h, c, f, hs) ==
    (Number(c \o f, {"aligned"}) + 1) * 4
    + (Number(c \o f, Op) - Number(c \o f, {"label"})) * 3
    + Number(h, {"bytes", "string"}) * 4
    + Cardinality(hs) * 2

\* The estimate, for Texts h, c and f and loop heads hs.
CodeEstimate(h, c, f, hs) ==
    (Number(c \o f, {"aligned"}) + 1) * 4
    + (Number(c \o f, Op) - Number(c \o f, {"label"})) * 3
    + Number(h, {"bytes", "string"}) * 4
    + Number(c \o f, {"callExt"}) * 3
    + Cardinality(hs) * 2

Estimate ==
    /\ phase = "estimate"
    /\ heads' = LoopHeads(text["content"]) \cup LoopHeads(text["footer"])
    /\ LET code == Word16((Word16(CodeEstimate(text["header"], text["content"],
                                               text["footer"], heads')) \div 8) * 8 + 8)
       IN  size' = [instr |-> code,
                    tmp |-> Word16(code + (Word16(Staging(text["header"])) \div 4) * 4 + 4)]
    /\ heap' = heap \cup {"code"}
    /\ phase' = "assemble"
    /\ UNCHANGED <<origin, text, scan, relaxed, parsed, pos, bad, bin>>

\* Mutant: a loop head is left where it falls.
PaddingFunctions(align, noCross) ==
    LET o == pos.instr % 4
    IN  IF align THEN (CASE o = 1 -> 3 [] o = 2 -> 2 [] o = 3 -> 5 [] OTHER -> 0) ELSE 0

\* What addInstr() puts before a line, so that a function's label is on a word
\* boundary and a loop head's first instruction inside one word.
Padding(align, noCross) ==
    LET o == pos.instr % 4
    IN  IF align THEN (CASE o = 1 -> 3 [] o = 2 -> 2 [] o = 3 -> 5 [] OTHER -> 0)
        ELSE IF noCross /\ o >= 2 THEN 2 ELSE 0

Labelled == {"label", "data_label", "external_var_label", "external_call"}
FindLabel(p, name) ==
    LET S == {i \in DOMAIN p : p[i].op \in Labelled /\ p[i].name = name}
    IN  IF S = {} THEN 0 ELSE FirstOf(S)

\* p with its label `name` marked as a reference of kind `op`.
Marked(p, name, op) ==
    LET i == FindLabel(p, name) IN IF i = 0 THEN p ELSE [p EXCEPT ![i].op = op]

Entry(op, l, address, bytes) ==
    [op |-> op, name |-> l.name, address |-> address, size |-> bytes, data |-> 0,
     bits |-> IF l.op = "branch" THEN l.n ELSE 0, staged |-> 0]

\* The line that is assembled next: the first of the first Text left.
NextPart == IF text["header"] # <<>> THEN "header"
            ELSE IF text["content"] # <<>> THEN "content" ELSE "footer"

\* Reading line l; what it does to parsed, pos and bad is up to the action.
Reads(ops) ==
    /\ phase = "assemble"
    /\ text[NextPart] # <<>>
    /\ Head(text[NextPart]).op \in ops
    /\ text' = [text EXCEPT ![NextPart] = Tail(@)]
    /\ UNCHANGED <<phase, origin, scan, relaxed, heads, size, bin, heap>>

Current == Head(text[NextPart])
Refused == bad' = TRUE /\ UNCHANGED <<parsed, pos>>

AssembleLabel ==
    /\ Reads({"aligned", "label"})
    /\ LET address == pos.instr + Padding(Current.op = "aligned", Current.name \in heads)
       IN  IF FindLabel(parsed, Current.name) # 0
           THEN Refused
           ELSE /\ parsed' = Append(parsed, Entry("label", Current, address, 0))
                /\ pos' = [pos EXCEPT !.instr = address]
                /\ UNCHANGED bad

\* Mutant: the data address advances by the 16 bits of the line's size.
AssembleData16 ==
    /\ Reads({"bytes", "string"})
    /\ LET last == Len(parsed)
           address == Align4(pos.data)
           bytes == Word16(Reserved(Current.n))
           label == [parsed EXCEPT ![last].op = "data_label", ![last].data = address]
           value == [Entry("data", Current, address, bytes) EXCEPT !.staged = pos.staged]
           string == Current.op = "string"
       IN  IF last = 0 \/ parsed[last].op # "label"
           THEN Refused
           ELSE /\ parsed' = IF string THEN Append(label, value) ELSE label
                /\ pos' = [instr |-> pos.instr + 4, data |-> address + bytes,
                           staged |-> pos.staged + IF string THEN bytes ELSE 0]
                /\ UNCHANGED bad

\* .bytes: the label before it becomes a data label; the reservation takes a
\* word of the instruction stream, where the loader puts its address.
AssembleData ==
    /\ Reads({"bytes", "string"})
    /\ LET last == Len(parsed)
           address == Align4(pos.data)
           bytes == Reserved(Current.n)
           label == [parsed EXCEPT ![last].op = "data_label", ![last].data = address]
           value == [Entry("data", Current, address, Word16(bytes)) EXCEPT !.staged = pos.staged]
           string == Current.op = "string"
       IN  IF last = 0 \/ parsed[last].op # "label"
           THEN Refused
           ELSE /\ parsed' = IF string THEN Append(label, value) ELSE label
                /\ pos' = [instr |-> pos.instr + 4, data |-> address + bytes,
                           staged |-> pos.staged + IF string THEN Word16(bytes) ELSE 0]
                /\ UNCHANGED bad

\* Instructions and directives that are added as they are.
Kind(op) ==
    CASE op \in {"code", "narrow"} -> "standard"
      [] op \in {"branch", "jump"} -> "jump"
      [] op \in {"call", "load", "movExt"} -> "jump_32aligned"
      [] op = "global"             -> "function_declaration"
      [] op = "json"               -> "json_binding"

Emitted(l) ==
    CASE l.op = "code" -> 3 * l.n [] l.op = "narrow" -> 2
      [] l.op \in {"global", "json"} -> 0 [] OTHER -> 3

AssembleInstr ==
    /\ Reads({"code", "narrow", "branch", "jump", "call", "load", "movExt", "global", "json"})
    /\ LET marked == IF Current.op = "movExt"
                     THEN Marked(parsed, Current.name, "external_var_label") ELSE parsed
       IN  parsed' = Append(marked, Entry(Kind(Current.op), Current, pos.instr, Emitted(Current)))
    /\ pos' = [pos EXCEPT !.instr = @ + Emitted(Current)]
    /\ UNCHANGED bad

\* callExt: l32r of the function's address, then callx8.
AssembleCall ==
    /\ Reads({"callExt"})
    /\ LET marked == Marked(parsed, Current.name, "external_call")
           rest == 6 * Current.n - 3
       IN  parsed' = marked \o <<Entry("jump_32aligned", Current, pos.instr, 3),
                                 Entry("standard", Current, pos.instr + 3, rest)>>
    /\ pos' = [pos EXCEPT !.instr = @ + 6 * Current.n]
    /\ UNCHANGED bad

\* Mutant: the code buffer is kept by a failed assembly.
EndAssemblyKeeps ==
    /\ phase = "assemble"
    /\ \A p \in Part : text[p] = <<>>
    /\ phase' = IF bad THEN "failed" ELSE "check"
    /\ UNCHANGED <<origin, text, scan, relaxed, heads, parsed, pos, size, bad, bin, heap>>

EndAssembly ==
    /\ phase = "assemble"
    /\ \A p \in Part : text[p] = <<>>
    /\ IF bad
       THEN phase' = "failed" /\ heap' = heap \ {"code"}
       ELSE phase' = "check" /\ UNCHANGED heap
    /\ UNCHANGED <<origin, text, scan, relaxed, heads, parsed, pos, size, bad, bin>>

-------------------------------------------------------------------------------
(* After the lines: parseASMRelaxed()'s check, calculateJump(), and the    *)
(* relocation records. A failure here leaves the code buffer behind.       *)

Reach(e) == parsed[FindLabel(parsed, e.name)].address - e.address - 4

OutOfRange(e) ==
    /\ e.bits # 0 /\ FindLabel(parsed, e.name) # 0
    /\ Reach(e) < -(2 ^ (e.bits - 1)) \/ Reach(e) >= 2 ^ (e.bits - 1)

CheckRange ==
    /\ phase = "check"
    /\ phase' = IF \E i \in DOMAIN parsed : OutOfRange(parsed[i]) THEN "outOfRange" ELSE "jumps"
    /\ UNCHANGED <<origin, text, scan, relaxed, heads, parsed, pos, size, bad, bin, heap>>

Jumps == {i \in DOMAIN parsed : parsed[i].op \in {"jump", "jump_32aligned"}}

CalculateJump ==
    /\ phase = "jumps"
    /\ phase' = IF \E i \in Jumps : FindLabel(parsed, parsed[i].name) = 0 THEN "failed" ELSE "header"
    /\ UNCHANGED <<origin, text, scan, relaxed, heads, parsed, pos, size, bad, bin, heap>>

\* Where the slots of the instruction stream and the strings of the staging
\* area are counted up to entry i.
Slotted == {"data_label", "external_var_label", "external_call"}
\* Mutant: only globals count.
SlotAtGlobals(i) == Cardinality({j \in 1 .. i - 1 : parsed[j].op = "data_label"})
SlotAt(i) == Cardinality({j \in 1 .. i - 1 : parsed[j].op \in Slotted})
StagedAt(i) ==
    SumTo(parsed, LAMBDA e : IF e.op = "data" THEN e.size ELSE 0)[i - 1]

Record(i) ==
    LET e == parsed[i]
        k == FindLabel(parsed, e.name)
    IN  CASE e.op = "data_label" -> [type |-> e.op, data |-> e.data, slot |-> SlotAt(i)]
          [] e.op \in {"external_var_label", "external_call"} ->
                 [type |-> e.op, name |-> e.name, slot |-> SlotAt(i)]
          [] e.op = "data" ->
                 [type |-> e.op, address |-> e.address, staged |-> StagedAt(i), size |-> e.size]
          [] e.op = "function_declaration" ->
                 [type |-> e.op, name |-> e.name,
                  address |-> IF k = 0 THEN 0 ELSE parsed[k].address]
          [] e.op = "json_binding" ->
                 [type |-> e.op, name |-> e.name, data |-> IF k = 0 THEN 0 ELSE parsed[k].data]

Recorded == Slotted \cup {"data", "function_declaration", "json_binding"}
Built ==
    [instr |-> size.instr, tmp |-> size.tmp, data |-> pos.data,
     records |-> {Record(i) : i \in {i \in DOMAIN parsed : parsed[i].op \in Recorded}}]

CreateBinaryHeader ==
    /\ phase = "header"
    /\ bin' = Built
    /\ heap' = heap \cup {"records"}
    /\ phase' = "built"
    /\ UNCHANGED <<origin, text, scan, relaxed, heads, parsed, pos, size, bad>>

AsmNext ==
    \/ \E p \in Part : BeginPass(p)
    \/ RelaxLine
    \/ EndPass
    \/ Estimate
    \/ AssembleLabel
    \/ AssembleData
    \/ AssembleInstr
    \/ AssembleCall
    \/ EndAssembly
    \/ CheckRange
    \/ CalculateJump
    \/ CreateBinaryHeader

-------------------------------------------------------------------------------
(* Properties.                                                             *)

Name == Label \cup [relax : Nat]

\* Every variable of the assembler keeps its type, a Text is only consumed
\* once it is relaxed, and the code buffer exists from parseASM() on.
AsmTypeOK ==
    /\ relaxed \in Nat
    /\ \A p \in Part : \A i \in DOMAIN text[p] : text[p][i].op \in Op
    /\ heads \subseteq Name
    /\ \A v \in {pos.instr, pos.data, pos.staged} : v \in Nat
    /\ \A v \in {size.instr, size.tmp} : v \in Nat /\ v <= 65535
    /\ phase = "relax" => parsed = <<>> /\ heap = {}
    /\ phase \in {"assemble", "check", "jumps", "header"} => heap = {"code"}
    /\ phase = "failed" /\ bad => heap = {}
    /\ phase = "header" => ~bad /\ \A p \in Part : text[p] = <<>>

\* Where line i of t goes on when its condition is c; only for a branch whose
\* label is in t.
LabelAt(t, name) == FirstOf({k \in DOMAIN t : IsLabel(t[k]) /\ t[k].name = name})
Lands(t, i, c) == IF c # t[i].neg THEN LabelAt(t, t[i].name) ELSE i + 1

\* What relaxBranch() put in: a jump or a label, with a fresh name nearby.
IsFresh(name) == name \notin Label \cup {NoLabel}
Inserted(t, i) ==
    \/ t[i].op = "label" /\ IsFresh(t[i].name)
    \/ t[i].op = "jump" /\ i > 1 /\ t[i - 1].op = "branch" /\ IsFresh(t[i - 1].name)
Settles(t, i) ==
    IF i > Len(t) \/ ~Inserted(t, i) THEN i
    ELSE IF t[i].op = "jump" THEN LabelAt(t, t[i].name) ELSE i + 1

\* The line of the original Text that line i of t was.
Was(t, i) == i - Cardinality({j \in 1 .. i - 1 : Inserted(t, j)})

\* Relaxing branches changes no path through the code: every branch of the
\* original still reaches its label when its condition holds and the next line
\* when it does not. (asm_parser.cpp: relaxBranch(), "only the unconditional j
\* has to reach the target".)
ControlPreserved ==
    phase = "estimate" =>
        \A p \in {"content", "footer"} :
            LET t == text[p] IN
            \A i \in DOMAIN t :
                /\ t[i].op = "branch"
                /\ LET o == origin[p][Was(t, i)] IN
                       /\ o.op = "branch"
                       /\ \E k \in DOMAIN origin[p] : IsLabel(origin[p][k]) /\ origin[p][k].name = o.name
                => \A c \in BOOLEAN :
                       Was(t, Settles(t, Lands(t, i, c))) = Lands(origin[p], Was(t, i), c)

\* A branch is out of range only when its label is in another Text than the
\* branch: in its own, relaxBranches() "only kept [it] when it surely fits".
BranchesReach ==
    phase = "check" =>
        \A e \in {parsed[j] : j \in DOMAIN parsed} :
            OutOfRange(e) =>
                /\ ~IsFresh(e.name)
                /\ \A q \in {"content", "footer"} :
                       ~ \E j, k \in DOMAIN origin[q] :
                             /\ origin[q][j].op = "branch" /\ origin[q][j].name = e.name
                             /\ IsLabel(origin[q][k]) /\ origin[q][k].name = e.name

\* The lines never assemble past the buffer parseASM() allocated for them, nor
\* the strings past the part of it that stages them.
CodeFits ==
    phase # "relax" /\ phase # "estimate" =>
        /\ pos.instr <= size.instr
        /\ size.instr + pos.staged <= size.tmp

\* A function and a slot begin on a word (call8 and l32r reach nothing else),
\* and a loop's first instruction does not straddle one.
Aligned ==
    \A i \in DOMAIN parsed :
        /\ parsed[i].op \in Slotted => parsed[i].address % 4 = 0
        /\ parsed[i].op = "label" /\ parsed[i].name \in heads => parsed[i].address % 4 \in {0, 1}
        /\ parsed[i].op = "jump_32aligned" /\ FindLabel(parsed, parsed[i].name) # 0 =>
               parsed[FindLabel(parsed, parsed[i].name)].address % 4 = 0
===============================================================================
