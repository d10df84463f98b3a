--------------------------- MODULE CompiledScripts ---------------------------
(***************************************************************************)
(* What a compile must keep: whatever the passes make of its lines, running *)
(* them gives the host what the script means, for the inputs the host gives *)
(* it, and whatever was compiled before.                                    *)
(***************************************************************************)
EXTENDS Compiler

CONSTANTS Programs,                \* the syntax trees the scripts were written from
          Inputs,                  \* for each, the sequences the host may give it
          Unit, StepDoublings

\* A script that was written from no program is a wrong one.
ASSUME ProgramsAreWritten ==
  DOMAIN Programs \subseteq DOMAIN Scripts /\ DOMAIN Programs \subseteq DOMAIN Inputs

Lang == INSTANCE ScriptLanguage WITH UnitOf <- Unit
Cpu == INSTANCE Machine

(***************************************************************************)
(* The lines as the assembler and the loader place them: every literal and  *)
(* every global at an address of its own, the globals 0 until @__footer.    *)
(***************************************************************************)
LiteralAt(i) == 8 * i
DataAt(k) == 2000 + 400 * k

Code ==
  LET text == content \o footer
      labels == {i \in DOMAIN text : IsLabel(text[i])}
      pool == static.code.literals
      data == static.code.data
      zeros == UNION {{DataAt(k) + j : j \in 0..(data[k].size - 1)} : k \in DOMAIN data}
      put(mem, i) == Cpu!StoreBytes(mem, LiteralAt(i), 4,
                       <<IF pool[i].type = "float" THEN "f" ELSE "i", pool[i].value>>)
      sized(mem, k) == IF data[k].value = 0 THEN mem
                       ELSE Cpu!StoreBytes(mem, DataAt(k), 4, <<"i", data[k].value>>)
      blank == [a \in zeros |-> <<"i", 0>>]
  IN  [text |-> text,
       at |-> [l \in {text[i].l : i \in labels} |-> CHOOSE i \in labels : text[i].l = l],
       address |-> [l \in {pool[i].l : i \in DOMAIN pool} |->
                      LiteralAt(CHOOSE i \in DOMAIN pool : pool[i].l = l)]
                   @@ [l \in {data[k].l : k \in DOMAIN data} |->
                         DataAt(CHOOSE k \in DOMAIN data : data[k].l = l)],
       mem |-> Walk(sized, Walk(put, blank, 1, Len(pool)), 1, Len(data)),
       windowed |-> phase \in {"preserved", "allocated"},
       settled |-> phase = "allocated"]

Given(value) == <<"@_emit(num)", <<value>>>>
\* The assembler refuses a label put twice.
Assembles(text) ==
  LET labels == {i \in DOMAIN text : IsLabel(text[i])}
  IN  \A i, k \in labels : text[i].l = text[k].l => i = k
Agrees(run, meant) ==
  run = [status |-> "done", trace |-> [i \in DOMAIN meant |-> Given(meant[i])]]
Means(code) ==
  /\ Assembles(code.text)
  /\ \A inputs \in Inputs[script] :
       Agrees(Cpu!RunScript(code, inputs), Lang!Meaning(Programs[script], inputs))

(***************************************************************************)
(* Properties.                                                              *)
(***************************************************************************)
\* The registers of a line that are float ones.
FloatArithmetic ==
  {"add.s", "sub.s", "mul.s", "neg.s", "abs.s", "mov.s", "const.s", "div0.s", "nexp01.s",
   "maddn.s", "mkdadj.s", "addexpm.s", "addexp.s", "divn.s", "olt.s", "ole.s", "oeq.s"}
FloatOperands(x) ==
  CASE x.op \in FloatArithmetic -> DOMAIN x.r
    [] x.op \in {"lsi", "ssi", "wfr", "float.s"} -> {1}
    [] x.op \in {"rfr", "trunc.s"} -> {2}
    [] OTHER -> {}
LineTyped(x) ==
  \A k \in DOMAIN x.r : x.r[k] \in IF k \in FloatOperands(x) THEN F(0)..F(15) ELSE 0..15

\* The types of what a compile holds: each line names integer registers where
\* its operation has integers and float ones where it has floats, of the
\* sixteen there are of each. That is said of the scripts compiled, which nest
\* some three calls or operators deep. visitnode.cpp counts registers down from
\* 15 with no limit, and nothing here is about scripts deep enough to run out.
CompileTypeOK ==
  /\ phase \in Phases
  /\ session \in Sessions
  /\ compiles \in 0..Len(session)
  /\ \A i \in DOMAIN content : LineTyped(content[i])
  /\ \A i \in DOMAIN footer : LineTyped(footer[i])
  /\ static.code.sp \in Seq(Int)

\* What the parser and the visitors write (parser.cpp, visitnode.cpp) gives
\* the host, call after call, the values the script's statements mean, also
\* when other scripts were compiled before it in the same process.
GeneratedMeaning == phase = "generated" => Means(Code)

\* Moving frame slots to registers (promoteFrameSlots()) changes nothing the
\* host sees: no slot whose address is taken or that another access overlaps
\* moves, and a float register keeps its value over a call.
PromotedMeaning == phase = "promoted" => Means(Code)

\* Neither does what optimize() and optimizeSpeed() drop and fold: a load
\* that is left out would have given what the register still holds, a copy
\* that is propagated is read nowhere else.
OptimizedMeaning == phase \in {"optimized", "sped"} => Means(Code)

\* With calls that destroy a8 and above and the float registers, as the
\* processor's do, what preserveAcrossCalls() saves, renames and restores is
\* enough for every value read after a call.
PreservedMeaning == phase = "preserved" => Means(Code)

\* And moving what a loop repeats before it, keeping slots in registers over
\* the loops that use them and deleting what is then dead
\* (allocateLoopRegisters()) leaves the script doing what it means.
AllocatedMeaning == phase = "allocated" => Means(Code)

\* A script with a mistake is refused, wherever in a right program the mistake
\* is put, and no right script is, whatever was compiled before it.
RefusedRightly ==
  phase # "idle" => (phase = "refused" <=> script \notin DOMAIN Programs)
=============================================================================
