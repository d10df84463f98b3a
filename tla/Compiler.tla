------------------------------ MODULE Compiler ------------------------------
(***************************************************************************)
(* One process compiling script after script (Parser::parse() in parser.cpp *)
(* as compileScriptToBinary() in script_executable.cpp calls it): the text  *)
(* is parsed and its lines written, then rewritten by one pass after the    *)
(* other, all within parse(); then compileScriptToBinary() hands them to    *)
(* the assembler. What Parser::clean() does not reset is there for the next *)
(* script: the flags the parser is a set of, and when a script is refused   *)
(* the lines already written for it.                                        *)
(***************************************************************************)
EXTENDS Parser, Tokenizer

Slots == INSTANCE FramePromotion
Peephole == INSTANCE Optimizer
CallSaves == INSTANCE CallPreservation
LoopUse == INSTANCE LoopRegisters

CONSTANTS Scripts,                 \* the scripts, by name: sequences of words
          Sessions                 \* what processes compile: sequences of names

VARIABLES phase,                   \* what was last done to the lines
          session, compiles,       \* what is compiled, and how much of it was
          content, footer,         \* the lines, and those that set the globals
          static                   \* what is not reset between scripts

vars == <<phase, session, compiles, content, footer, static>>
script == session[compiles]

Phases == {"idle", "refused", "generated", "promoted", "optimized", "sped", "preserved",
           "allocated"}

(***************************************************************************)
(* What a process starts with, and what a parse starts with.                *)
(***************************************************************************)
Unused == [asPointer |-> FALSE, isPointer |-> TRUE, isExternal |-> FALSE, isASM |-> FALSE,
           labels |-> 0, code |-> NoText]

\* builtinDeclarations, kPrelude
Prelude == <<"uint32_t", "_handle_", ";", "\n", "#", "define", "true", "1", "\n",
             "#", "define", "false", "0", "\n">>

Cleaned(tokens, left, reused) ==
  [reused |-> reused, freed |-> FALSE, tk |-> tokens, at |-> 1, err |-> "", out |-> 0,
   ctx |-> << <<>> >>, fns |-> <<>>,
   types |-> <<>>, targets |-> <<>>, labels |-> left.labels, around |-> <<>>, blocks |-> <<>>,
   depth |-> 2, asRegister |-> FALSE, stack |-> 0, rtype |-> "none", forNum |-> 0,
   stored |-> <<>>, suppressed |-> 0, isExternal |-> left.isExternal, isASM |-> left.isASM,
   asPointer |-> left.asPointer, isPointer |-> left.isPointer, program |-> <<>>,
   code |-> [left.code EXCEPT !.safe = FALSE]]

LeftBy(p, code) ==
  [asPointer |-> p.asPointer, isPointer |-> p.isPointer, isExternal |-> p.isExternal,
   isASM |-> p.isASM, labels |-> p.labels, code |-> code]

\* What a parse can give: when it freed nodes that the tree goes on naming, it
\* depends on whether they were given out again.
RECURSIVE Parses(_, _, _)
Parses(words, left, reused) ==
  LET outcomes(p) == {p} \cup IF p.freed /\ ~reused THEN Parses(words, left, TRUE) ELSE {}
  IN  outcomes(parseProgram(Cleaned(tokenizer(Prelude \o words).tk, left, reused)))

(***************************************************************************)
(* The steps of a compile.                                                  *)
(***************************************************************************)
Init ==
  /\ phase = "idle"
  /\ session \in Sessions
  /\ content = <<>> /\ footer = <<>>
  /\ static = Unused
  /\ compiles = 0

\* A script with an error is given up where the error is.
Refused(p) ==
  /\ p.err # ""
  /\ phase' = "refused"
  /\ content' = p.code.text
  /\ static' = LeftBy(p, p.code)
  /\ UNCHANGED footer

Generated(p, g) ==
  /\ p.err = ""
  /\ phase' = "generated"
  /\ content' = g.s.text
  /\ footer' = g.footer
  /\ static' = LeftBy(p, g.s)

Parse ==
  /\ phase \in {"idle", "refused"}
  /\ compiles < Len(session)
  /\ compiles' = compiles + 1
  /\ \E p \in Parses(Scripts[session[compiles + 1]], static, FALSE) :
       Refused(p) \/ Generated(p, visitprogramNode(p.code, p.program))
  /\ UNCHANGED session

Pass(before, after, Rewritten_(_)) ==
  /\ phase = before
  /\ phase' = after
  /\ content' = Rewritten_(content)
  /\ UNCHANGED <<session, compiles, static>>

Promote == Pass("generated", "promoted", Slots!PromoteFrameSlots) /\ UNCHANGED footer
OptimizeLines ==
  /\ Pass("promoted", "optimized", LAMBDA text : RemoveBlankLines(Peephole!Optimize(text)))
  /\ UNCHANGED footer
OptimizeAgain ==
  /\ Pass("optimized", "sped", LAMBDA text : RemoveBlankLines(Peephole!OptimizeSpeed(text)))
  /\ UNCHANGED footer
Preserve == Pass("sped", "preserved", CallSaves!PreserveAcrossCalls) /\ UNCHANGED footer
Allocate ==
  /\ Pass("preserved", "allocated", LoopUse!AllocateLoopRegisters)
  /\ footer' = CallSaves!PreserveAcrossCalls(footer)

\* createBinary(): the lines are assembled and cleared.
Assemble ==
  /\ phase = "allocated"
  /\ phase' = "idle"
  /\ content' = <<>> /\ footer' = <<>>
  /\ static' = [static EXCEPT !.code = [@ EXCEPT !.text = <<>>, !.pos = 0, !.it = 0,
                                                 !.first = FALSE, !.sp = <<>>, !.data = <<>>,
                                                 !.literals = <<>>]]
  /\ UNCHANGED <<session, compiles>>

Next == Parse \/ Promote \/ OptimizeLines \/ OptimizeAgain \/ Preserve \/ Allocate \/ Assemble
Spec == Init /\ [][Next]_vars
=============================================================================
