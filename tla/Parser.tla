------------------------------- MODULE Parser -------------------------------
(***************************************************************************)
(* The parser of statements, functions and programs (parser.cpp): p.out is  *)
(* the sequence of nodes a statement adds to its parent. A function is      *)
(* compiled as soon as its body is parsed, globals once everything is.      *)
(* Structures, strings, json variables, asm bodies and data given to arrays *)
(* are left out.                                                            *)
(***************************************************************************)
EXTENDS Expressions

StatementNode == NodeOf("statement")
NoCases == [switch |-> "", keys |-> <<>>, default |-> FALSE]

\* A statement's nodes: parseStatement() adds an empty statementNode first.
GiveNode(p, nd) == Give(p, <<StatementNode, nd>>)
Assignment(store, value) == [NodeOf("assignement") EXCEPT !.ch = <<store, value>>]

\* Mutant: a statement ends wherever it ends.
EndStatementAnywhere(p, ends) == Then(p, LAMBDA q : IF MatchAny(q, ends) THEN Next_(q) ELSE q)

EndStatement(p, ends) ==
  Then(p, LAMBDA q : IF MatchAny(q, ends) THEN Next_(q) ELSE Fail(q, "expectingSemicolon"))

RECURSIVE parseStatement(_), parseBlockStatement(_, _)

(***************************************************************************)
(* Statements with an expression.                                           *)
(***************************************************************************)
\* findForWhile(): the innermost loop, or for a break the innermost switch.
JumpOut(p, kind, kinds) ==
  LET around == SelectSeq(p.around, LAMBDA a : a.k \in kinds)
      jump == [NodeOf(kind) EXCEPT !.target = Top(around, [target |-> ""]).target]
  IN  IF around = <<>> THEN Fail(p, "noWhileorForFound")
      ELSE Then(EndStatement(Next_(p), {";"}), LAMBDA q : GiveNode(q, jump))

ReturnStatement(p) ==
  LET node(children) == [NodeOf("return") EXCEPT !.ch = children]
  IN  IF MatchAt(p, ";", 1) THEN GiveNode([p EXCEPT !.at = @ + 2], node(<<>>))
      ELSE Then(EndStatement(Converted(Next_(p), p.rtype, Expr), {";"}),
                LAMBDA q : GiveNode(q, node(<<q.out>>)))

CallStatement(p) ==
  Then(EndStatement(parseFunctionCall(p), {";"}), LAMBDA q : GiveNode(q, q.out))

\* x++;
StepStatement(p) ==
  Then(getVariable(p, TRUE), LAMBDA stored :
    LET step(read) == [NodeOf("unitary") EXCEPT !.t = Peek(p, 1).t, !.ch = <<read.out>>]
        stepped(read) == GiveNode(EndStatement([stored EXCEPT !.at = read.at + 1], {";", ")"}),
                                  Assignment(stored.out, step(read)))
    IN  stepped(getVariable(p, FALSE)))

OpAssign == "+=" :> "+" @@ "-=" :> "-" @@ "*=" :> "*" @@ "/=" :> "/"

\* x += e; its conversion is not taken off change_type: it goes on following
\* what later statements read, so the node only tells which one it is. The
\* nodes of an element's indices are freed while the node that stores it goes
\* on naming them: what it finds there is theirs or nothing of theirs.
OpAssignStatement(p, store) ==
  LET again == [store EXCEPT !.k = IF @ \in DOMAIN ReadAgain THEN ReadAgain[@] ELSE @]
      value(q) == [NodeOf("binOp") EXCEPT !.t = OpAssign[Peek(p, 0).t], !.ch = <<again, q.out>>]
      converted(q) == [Conversion(store.vt, FALSE, value(q)) EXCEPT !.open = Len(p.types) + 1]
      named == IF p.reused THEN [store EXCEPT !.ch = [i \in DOMAIN @ |-> NodeOf("freed")]]
               ELSE store
      begin == [Next_(p) EXCEPT !.types = Append(@, [vt |-> store.vt, isPointer |-> FALSE]),
                                !.freed = @ \/ store.ch # <<>>]
  IN  Then(EndStatement(Expr(begin), {";"}), LAMBDA q : GiveNode(q, Assignment(named, converted(q))))

AssignStatement(p) ==
  Then(getVariable(p, TRUE), LAMBDA v :
    LET store == v.out
        q == [v EXCEPT !.asPointer = FALSE, !.isPointer = FALSE]
    IN  CASE Match(q, ";") -> GiveNode(Next_(q), [NodeOf("assignement") EXCEPT !.ch = <<store>>])
          [] Match(q, "=") ->
               Then(EndStatement(Converted(Next_(q), store.vt, Expr), {";", ")"}),
                    LAMBDA r : GiveNode(r, Assignment(store, r.out)))
          [] MatchAny(q, DOMAIN OpAssign) -> OpAssignStatement(q, store)
          [] OTHER -> Fail(q, "expectingEqual"))

(***************************************************************************)
(* Declarations.                                                            *)
(***************************************************************************)
InRegister == {"float", "int", "s_int", "uint8", "uint32", "uint16"}

RECURSIVE MoreDeclared(_, _)
\* int a, b, c; each takes its type from the variable before it.
MoreDeclared(p, last) ==
  Then(parseVariableForCreation(Next_(p)), LAMBDA q :
    LET more(r) == IF Match(r, ",") THEN MoreDeclared(r, r.out) ELSE EndStatement(r, {";"})
        declared(made) == more(Declare(made, made.out))
    IN  declared(createNodeLocalVariableForCreation(q, q.out, last)))

DeclareStatement(p) ==
  Then(parseType(p), LAMBDA type :
  Then(parseVariableForCreation(type), LAMBDA v :
    LET taken == v.depth <= _MAX_FOR_DEPTH_REG_2 /\ type.out.vt \in InRegister
        given(r, d) == Give(r, <<StatementNode, d,
                                 Assignment([d EXCEPT !.k = Stored[@]], r.out)>>)
        declared(made) == [Declare(made, made.out) EXCEPT !.asRegister = FALSE]
    IN  Then(declared(createNodeLocalVariableForCreation([v EXCEPT !.asRegister = @ \/ taken],
                                                         v.out, type.out)), LAMBDA q :
      CASE Match(q, ",") -> Then(MoreDeclared(q, q.out), LAMBDA r : Give(r, <<StatementNode>>))
        [] Match(q, ";") -> GiveNode(Next_(q), q.out)
        [] Match(q, "=") -> Then(EndStatement(Converted(Next_(q), q.out.vt, Expr), {";"}),
                                 LAMBDA r : given(r, q.out))
        [] OTHER -> Fail(q, "expectingsemicolonorequal"))))

(***************************************************************************)
(* Statements with a body.                                                  *)
(***************************************************************************)
\* parseComparaison(): the token after the condition is passed over.
parseComparaison(p) ==
  LET target == Top(p.targets, "")
  IN  Then(Rule(PopTarget(p), "any"), LAMBDA q :
        Give(Next_(q), [NodeOf("comparator") EXCEPT !.target = target, !.ch = <<q.out>>]))

\* parseUnbracedBody(): an else after an if goes with that if.
parseUnbracedBody(p) ==
  LET inside == [p EXCEPT !.blocks = Append(@, NoCases)]
      done(q) == [Leave(q) EXCEPT !.blocks = p.blocks,
                                  !.out = <<[NodeOf("block") EXCEPT !.ch = q.out]>>]
      both(q) == IF Match(q, "else")
                 THEN Then(parseStatement(q), LAMBDA r : Give(r, q.out \o r.out)) ELSE q
  IN  IF Match(p, "if") THEN Then(Then(parseStatement(Enter(inside)), both), done)
      ELSE Then(parseStatement(inside), LAMBDA q : [q EXCEPT !.blocks = p.blocks])

Body(p) == IF Match(p, "{") THEN parseBlockStatement(p, NoCases) ELSE parseUnbracedBody(p)

\* if (c) body, while (c) body; p.around holds what a break may leave.
Conditional(p, kind) ==
  LET target == Label_(p)
      open == Enter(PushTarget(Next_(p)))
      inside == [open EXCEPT !.around = Append(@, [k |-> kind, target |-> target])]
  IN  IF ~Match(open, "(") THEN Fail(open, "expectingOpenparenthesis")
      ELSE Then(parseComparaison(Next_(inside)), LAMBDA q :
           Then(Body(q), LAMBDA r :
             [GiveNode(Leave(r), [NodeOf(kind) EXCEPT !.target = target, !.ch = <<q.out>> \o r.out])
               EXCEPT !.around = p.around]))

ElseStatement(p) ==
  LET target == Label_(p)
  IN  Then(Body([Enter(Next_(p)) EXCEPT !.labels = @ + 1]), LAMBDA q :
        GiveNode(Leave(q), [NodeOf("else") EXCEPT !.target = target, !.ch = q.out]))

Only(p) ==
  IF p.forNum = 1 /\ Len(p.stored) = 1
  THEN <<[NodeOf("only") EXCEPT !.name = Head(p.stored)]>> ELSE <<>>

ForStatement(p) ==
  LET target == Label_(p)
      open == Enter(PushTarget(Next_(p)))
      begin == [Next_(open) EXCEPT !.forNum = @ + 1, !.asRegister = p.depth <= _MAX_FOR_DEPTH_REG,
                                   !.around = Append(@, [k |-> "for", target |-> target]),
                                   !.blocks = Append(@, NoCases)]
      wrapped(q) == [StatementNode EXCEPT !.ch = q.out]
  IN  IF ~Match(open, "(") THEN Fail(open, "expectingOpenparenthesis")
      ELSE Then(parseStatement(begin), LAMBDA init :
           Then(parseComparaison([init EXCEPT !.asRegister = FALSE]), LAMBDA test :
           Then(parseStatement(test), LAMBDA step :
           Then(Body(step), LAMBDA q :
             LET loop == [NodeOf("for") EXCEPT !.target = target,
                            !.ch = <<wrapped(init), test.out, wrapped(step)>> \o q.out \o Only(q)]
             IN  [GiveNode(Leave(q), loop)
                   EXCEPT !.forNum = @ - 1, !.stored = IF q.forNum = 1 THEN <<>> ELSE @,
                          !.depth = p.depth, !.around = p.around, !.blocks = p.blocks]))))

\* The switch's own label stays on targetList.
SwitchStatement(p) ==
  LET target == Label_(p)
      open == Enter(PushTarget(Next_(p)))
      inside(q) == [q EXCEPT !.around = Append(@, [k |-> "switch", target |-> target])]
  IN  IF ~Match(open, "(") THEN Fail(open, "expectingOpenparenthesis")
      ELSE Then(Converted(Next_(open), "int", Expr), LAMBDA v :
        IF v.out.vt = "float" THEN Fail(v, "switchNeedsInteger")
        ELSE Then(Expect(v, ")", "expectingClosingparenthesis"), LAMBDA q :
          IF ~Match(q, "{") THEN Fail(q, "expectingOpenCurlyBracket")
          ELSE Then(parseBlockStatement(inside(q), [NoCases EXCEPT !.switch = target]), LAMBDA r :
            [GiveNode(Leave(r), [NodeOf("switch") EXCEPT !.target = target,
                                                         !.ch = <<v.out>> \o r.out])
              EXCEPT !.around = p.around])))

CaseStatement(p) ==
  LET block == Top(p.blocks, NoCases)
      n == Len(p.blocks)
      negative == MatchAt(p, "-", 1)
      at == IF negative THEN 2 ELSE 1
      key == IF negative THEN -Peek(p, at).num ELSE Peek(p, at).num
      after(k) == Expect([p EXCEPT !.at = @ + k], ":", "expectingColon")
      value == [NodeOf("number") EXCEPT !.vt = "int", !.num = key]
      node(label, children) ==
        [NodeOf("case") EXCEPT !.target = block.switch \o label, !.ch = children]
  IN  CASE block.switch = "" -> Fail(p, "caseOutsideSwitch")
        [] Match(p, "default") /\ block.default -> Fail(p, "duplicateDefault")
        [] Match(p, "default") ->
             Then(after(1), LAMBDA q :
               [GiveNode(q, node("_default", <<>>)) EXCEPT !.blocks[n].default = TRUE])
        [] ~MatchAt(p, "number", at) \/ Peek(p, at).vt = "float" -> Fail(p, "expectingCaseConstant")
        [] \E i \in DOMAIN block.keys : block.keys[i] = key -> Fail(p, "duplicateCase")
        [] OTHER ->
             Then(after(at + 1), LAMBDA q :
               [GiveNode(q, node("_case" \o N(Len(block.keys)), <<value>>))
                 EXCEPT !.blocks[n].keys = Append(@, key)])

RECURSIVE Statements(_)
Statements(p) ==
  IF MatchAny(p, {"}", "eof"}) THEN Give(p, <<>>)
  ELSE Then(parseStatement(p), LAMBDA q :
       Then(Statements(q), LAMBDA r : Give(r, q.out \o r.out)))

parseBlockStatement(p, cases) ==
  Then(Statements([Enter(Next_(p)) EXCEPT !.blocks = Append(@, cases)]), LAMBDA q :
    IF Match(q, "eof") THEN Fail(q, "expectingCloseCurlyBracket")
    ELSE [Leave(Next_(q)) EXCEPT !.blocks = p.blocks,
                                 !.out = <<[NodeOf("block") EXCEPT !.ch = q.out]>>])

\* A `*` that begins a statement is a statement of its own: the assignment it
\* is for comes next.
parseStatement(from) ==
  LET p == [from EXCEPT !.isPointer = FALSE]
  IN  CASE Match(p, "break") -> JumpOut(p, "break", {"for", "while", "switch"})
        [] Match(p, "continue") -> JumpOut(p, "continue", {"for", "while"})
        [] Match(p, "return") -> ReturnStatement(p)
        [] Match(p, "id") /\ MatchAt(p, "(", 1) -> CallStatement(p)
        [] Match(p, "id") /\ (MatchAt(p, "++", 1) \/ MatchAt(p, "--", 1)) -> StepStatement(p)
        [] Match(p, "*") /\ MatchAt(p, "id", 1) ->
             Give(Next_([p EXCEPT !.asPointer = TRUE]), <<StatementNode>>)
        [] Match(p, "id") -> AssignStatement(p)
        [] Match(p, "else") -> ElseStatement(p)
        [] Match(p, "{") ->
             Then(parseBlockStatement(p, NoCases), LAMBDA q : Give(q, <<StatementNode>> \o q.out))
        [] Match(p, "switch") -> SwitchStatement(p)
        [] MatchAny(p, {"case", "default"}) -> CaseStatement(p)
        [] Match(p, "while") -> Conditional(p, "while")
        [] Match(p, "if") -> Conditional(p, "if")
        [] Match(p, "for") -> ForStatement(p)
        [] Match(p, "type") -> DeclareStatement(p)
        [] OTHER -> Fail(p, "impossibletofindtoken")

(***************************************************************************)
(* Functions.                                                               *)
(***************************************************************************)
RECURSIVE Closed(_, _)
\* The conversions left open, with the type they had come to.
Closed(nd, types) ==
  [nd EXCEPT !.vt = IF nd.open > 0 THEN types[nd.open].vt ELSE @,
             !.isPointer = IF nd.open > 0 THEN types[nd.open].isPointer ELSE @,
             !.ch = [i \in DOMAIN @ |-> Closed(@[i], types)]]

DefKind(p) ==
  CASE p.isExternal -> "defExtFunction" [] p.isASM -> "defAsmFunction" [] OTHER -> "defFunction"

\* What follows the arguments of node nd, once its function is on the list.
EndOfFunction(q, nd, depth) ==
  LET left(r) == [r EXCEPT !.ctx = <<@[1]>>, !.depth = depth]
      whole(r) == Closed([nd EXCEPT !.ch = @ \o r.out, !.pos = r.stack], r.types)
  IN  CASE nd.k = "defExtFunction" ->
             IF Match(q, ";") THEN left(Next_(q)) ELSE Fail(q, "impossibletoredefineexternal")
        [] nd.k # "defExtFunction" /\ Match(q, ";") ->
             left([Next_(q) EXCEPT !.fns[Len(q.fns)].k = "declaration"])
        [] Match(q, "{") ->
             Then(parseBlockStatement(q, NoCases), LAMBDA r :
               [left(r) EXCEPT !.types = <<>>, !.code = Visit(@, whole(r))])
        [] OTHER -> Fail(q, "expectingOpenCurlyBracket")

DefineFunction(p, nd, depth) ==
  LET known == FunctionsNamed(p, nd.name)
      listed == IF known = <<>> THEN [p EXCEPT !.fns = Append(@, nd)] ELSE p
  IN  IF known # <<>> /\ Head(known).k # "declaration" THEN Fail(p, "functionAlreadyDeclared")
      ELSE Then(Expect(listed, ")", "expectingClosingparenthesis"),
                LAMBDA q : EndOfFunction(q, nd, depth))

parseDefFunction(from) ==
  LET begin == [from EXCEPT !.isExternal = FALSE, !.isASM = FALSE, !.at = @ + 2,
                            !.depth = 2, !.asRegister = FALSE, !.stack = STACK_SIZE,
                            !.rtype = from.out.vt, !.ctx = <<@[1], <<>> >>, !.blocks = <<>>]
      node(args) == [NodeOf(DefKind(from)) EXCEPT
                       !.name = signature(Peek(from, 0).word, args),
                       !.ch = <<from.out, [NodeOf("inputArguments") EXCEPT !.ch = args]>>]
  IN  Then(parseCreateArguments(begin), LAMBDA q : DefineFunction(q, node(q.out), from.depth))

(***************************************************************************)
(* Programs.                                                                *)
(***************************************************************************)
AddGlobal(p, type) ==
  LET added(made) == [p EXCEPT !.isExternal = FALSE, !.out = made,
                               !.program = Append(@, made), !.ctx[1] = Append(@, made)]
  IN  added(GlobalOf(p, type))

RECURSIVE MoreGlobals(_, _)
MoreGlobals(p, type) ==
  Then(parseVariableForCreation(Next_(p)), LAMBDA v :
    LET more(q) == IF Match(q, ",") THEN MoreGlobals(q, type) ELSE EndStatement(q, {";"})
    IN  more(AddGlobal(v, type)))

GlobalDeclaration(p, type) ==
  Then(parseVariableForCreation(p), LAMBDA v :
    LET store(q) == [q.out EXCEPT !.k = "storeGlobal"]
    IN  Then(AddGlobal(v, type), LAMBDA q :
      CASE Match(q, ",") -> MoreGlobals(q, type)
        [] Match(q, ";") -> Next_(q)
        [] Match(q, "=") ->
             Then(EndStatement(Expr(Next_(q)), {";"}), LAMBDA r :
               [r EXCEPT !.program = Append(@, Assignment(store(q), r.out))])
        [] OTHER -> Fail(q, "expectingSemicolon")))

RECURSIVE parseProgram(_)
Definition(p) == IF MatchAt(p, "(", 1) THEN parseDefFunction(p) ELSE GlobalDeclaration(p, p.out)
parseProgram(p) ==
  IF p.err # "" \/ Match(p, "eof") THEN p
  ELSE IF Match(p, "safe_mode") THEN parseProgram([Next_(p) EXCEPT !.code.safe = TRUE])
  ELSE parseProgram(Then(parseType(p), Definition))
=============================================================================
