----------------------------- MODULE Expressions -----------------------------
(***************************************************************************)
(* The parser of expressions (parser.cpp): recursive descent over tokens,   *)
(* one operator per parse function, from a parser state p to the next one,  *)
(* with the node parsed in p.out. Statements are in Parser. p is            *)
(*   tk, at, err        _tks and the cursor; Error.error, "" for none       *)
(*   ctx                the contexts from main_context to current_cntx,     *)
(*                      each the variables declared in it                   *)
(*   fns                functions: those calls are looked up in             *)
(*   types              change_type: the conversions being filled in        *)
(*   targets, labels    targetList, for_if_num                              *)
(*   around, blocks     the loops and switches that current_node is in, and *)
(*                      what is known of the cases of the enclosing blocks  *)
(*   depth, asRegister  _for_depth_reg, _is_variable_as_register            *)
(*   stack, rtype       stack_size; lasttype's type                         *)
(*   forNum, stored     _for_num; extvariablestore, nbofextern as the names *)
(*                      counted                                             *)
(*   suppressed         ternarySuppressed                                   *)
(*   isExternal, isASM, isPointer, asPointer    the flags of those names,    *)
(*                      the last one _asPointer                            *)
(*   program            the globals, in the order program.visitNode() has   *)
(*   code               the state of CodeText the functions are written to  *)
(*   freed, reused      nodes of the tree were freed; were given out again  *)
(* A token has its kind t (the word itself for a keyword or an operator),   *)
(* its word, its type vt and for a number its value num.                    *)
(***************************************************************************)
EXTENDS CodeGen

CONSTANT binded_assets             \* what the host binds: a variable's name or a function's
                                   \* signature -> its declaration

_MAX_FOR_DEPTH_REG == 4
_MAX_FOR_DEPTH_REG_2 == 2
Undeclared == [NodeOf("none") EXCEPT !.name = ""]

EndOfFile == [t |-> "eof", word |-> "", vt |-> "eof", num |-> 0]
Peek(p, k) == IF p.at + k <= Len(p.tk) THEN p.tk[p.at + k] ELSE EndOfFile
Match(p, t) == Peek(p, 0).t = t
MatchAny(p, ts) == Peek(p, 0).t \in ts
MatchAt(p, t, k) == Peek(p, k).t = t
Next_(p) == [p EXCEPT !.at = @ + 1]
Fail(p, error) == [p EXCEPT !.err = error]
Give(p, out) == [p EXCEPT !.out = out]

\* What follows is done unless an error was met.
Then(p, Do(_)) == IF p.err # "" THEN p ELSE Do(p)
Expect(p, t, error) ==
  Then(p, LAMBDA q : IF Match(q, t) THEN Next_(q) ELSE Fail(q, error))

Label_(p) == "label_" \o N(p.labels)
PushTarget(p) == [p EXCEPT !.targets = Append(@, Label_(p)), !.labels = @ + 1]
PopTarget(p) == [p EXCEPT !.targets = Popped(@)]
Enter(p) == [p EXCEPT !.ctx = Append(@, <<>>)]
Leave(p) == [p EXCEPT !.ctx = Popped(@)]

(***************************************************************************)
(* Conversions: the type of the innermost one follows what is parsed in it, *)
(* float the strongest.                                                     *)
(***************************************************************************)
Numbers == {"uint8", "uint16", "uint32", "int", "s_int", "float", "bool", "ffloat"}

Follow(p, vt, followed) ==
  LET n == Len(p.types)
  IN  IF n > 0 /\ p.types[n].vt # "float" /\ vt \in followed
      THEN [p EXCEPT !.types[n].vt = vt] ELSE p
FollowPointer(p, follows, isPointer) ==
  LET n == Len(p.types)
  IN  IF n > 0 /\ follows THEN [p EXCEPT !.types[n].isPointer = isPointer] ELSE p
FollowAll(p, vt) ==
  Follow(p, vt, Numbers \cup IF Top(p.types, [isPointer |-> FALSE]).isPointer THEN {"char"} ELSE {})

Conversion(vt, isPointer, child) ==
  [NodeOf("changeType") EXCEPT !.vt = vt, !.isPointer = isPointer, !.ch = <<child>>]

\* What Parse gives, in a conversion of its own.
Converted(p, vt, Parse(_)) ==
  Then(Parse([p EXCEPT !.types = Append(@, [vt |-> vt, isPointer |-> FALSE])]),
       LAMBDA q : LET top == Top(q.types, 0)
                      made == Conversion(top.vt, top.isPointer, q.out)
                  IN  [Give(q, made) EXCEPT !.types = Popped(@)])

RECURSIVE findfloat(_)
findfloat(nd) ==
  \/ nd.vt = "float"
  \/ nd.k # "global" /\ \E i \in DOMAIN nd.ch : findfloat(nd.ch[i])
OperandType(nd) ==
  CASE findfloat(nd) -> "float" [] nd.vt = "uint32" -> "uint32" [] OTHER -> "none"

(***************************************************************************)
(* Variables declared, their place in the frame, and found again.           *)
(***************************************************************************)
\* How far the frame is moved on for a variable of type vt to be aligned.
Align4(stack) == (4 - (stack % 4)) % 4
FrameDelta(stack, vt, isPointer) ==
  CASE vt \in {"uint32", "float", "CRGB", "int"} -> Align4(stack)
    [] vt \in {"uint16", "s_int"} /\ stack % 2 # 0 -> 1
    [] isPointer -> Align4(stack)
    [] OTHER -> 0

Allocated(p, v) ==
  LET pos == p.stack + FrameDelta(p.stack, v.vt, v.isPointer)
  IN  [Give(p, [v EXCEPT !.k = "defLocal", !.pos = pos])
        EXCEPT !.stack = pos + IF v.isPointer THEN 4 ELSE Types[v.vt].total]

Declare(p, v) == [p EXCEPT !.ctx[Len(p.ctx)] = Append(@, v)]

\* copyPrty()
TypedAs(v, type) ==
  [v EXCEPT !.isPointer = @ \/ type.isPointer, !.pos = type.pos, !.vt = type.vt]

createNodeLocalVariableForCreation(p, v, type) ==
  LET inRegister(local) ==
        [Give(local, [local.out EXCEPT !.k = "defLocalReg", !.reg = p.depth])
          EXCEPT !.depth = @ + 1, !.asRegister = FALSE]
      placed(local, typed) == IF p.asRegister /\ ~typed.isPointer THEN inRegister(local) ELSE local
      created(typed) == IF v.k = "defGlobal" THEN Give(p, typed) ELSE placed(Allocated(p, typed), typed)
  IN  created(TypedAs(v, type))

Declared(context, name) == SelectSeq(context, LAMBDA v : v.name = name)

\* findVariable(): the first of that name in the innermost context that has one.
findVariable(ctx, name) ==
  LET having == {i \in DOMAIN ctx : Declared(ctx[i], name) # <<>>}
  IN  IF having = {} THEN Undeclared ELSE Head(Declared(ctx[Max(having)], name))

Read == "defExtGlobal" :> "extGlobal" @@ "defLocalReg" :> "localReg"
        @@ "defLocal" :> "local" @@ "defGlobal" :> "global"
Stored == "defExtGlobal" :> "storeExtGlobal" @@ "defLocalReg" :> "storeLocalReg"
          @@ "defLocal" :> "storeLocal" @@ "defGlobal" :> "storeGlobal"
ReadAgain == "storeExtGlobal" :> "extGlobal" @@ "storeLocalReg" :> "localReg"
             @@ "storeLocal" :> "local" @@ "storeGlobal" :> "global"

createNodeVariable(p, found, isStore) ==
  LET v == [found EXCEPT !.k = IF isStore THEN Stored[@] ELSE Read[@],
                         !.asPointer = @ \/ p.asPointer, !.isPointer = @ \/ p.isPointer]
      counted == /\ v.k = "storeExtGlobal" /\ p.forNum > 0
                 /\ p.stored = <<>> \/ Head(p.stored) # v.name
  IN  [Give(p, v) EXCEPT !.stored = IF counted THEN Append(@, v.name) ELSE @]

parseType(p) ==
  LET starred(q) == MatchAt(q, "*", 1)
      type(q) == [NodeOf("type") EXCEPT !.vt = Peek(q, 0).vt, !.isPointer = starred(q)]
      typed(q) ==
        CASE Match(q, "type") -> Give([q EXCEPT !.at = @ + IF starred(q) THEN 2 ELSE 1], type(q))
          [] Match(q, ";") -> Give(Next_(q), NodeOf("unknown"))
          [] OTHER -> Fail(q, "expectingASMorInt")
  IN  typed(CASE Match(p, "external") -> Next_([p EXCEPT !.isExternal = TRUE])
              [] Match(p, "__ASM__") -> Next_([p EXCEPT !.isASM = TRUE])
              [] OTHER -> p)

RECURSIVE Dimensions(_, _)
Dimensions(p, dims) ==
  LET more == Append(dims, Peek(p, 0).num)
      next == Next_(p)
  IN  CASE ~Match(p, "number") \/ Peek(p, 0).vt # "int" -> Fail(p, "expectingInteger")
        [] Match(next, ",") -> Dimensions(Next_(next), more)
        [] Match(next, "]") -> Give(Next_(next), more)
        [] OTHER -> Fail(next, "expectingClosingBracket")

parseVariableForCreation(p) ==
  LET name == Peek(p, 0).word
      v == [NodeOf("def") EXCEPT !.name = name]
      array == [v EXCEPT !.k = "defGlobal", !.isPointer = TRUE]
      inside == [p EXCEPT !.at = @ + 2]
  IN  CASE Declared(p.ctx[Len(p.ctx)], name) # <<>> /\ ~(Len(p.ctx) = 1 /\ name = "_handle_") ->
             Fail(p, "alreadyDeclaredVariableInScope")
        [] ~MatchAt(p, "[", 1) -> Give(Next_(p), v)
        [] Match(inside, "number") ->
             Then(Dimensions(inside, <<>>), LAMBDA q : Give(q, [array EXCEPT !.dims = q.out]))
        [] Match(inside, "]") -> Give(Next_(inside), array)
        [] OTHER -> Fail(inside, "expecitngIntegerorClosingBracket")

(***************************************************************************)
(* Expressions.                                                             *)
(***************************************************************************)
RECURSIVE Rule(_, _)
\* What the parse function of a rule of the grammar gives (Rule is last).
Expr(p) == Rule(p, "expr")

GlobalOf(p, type) ==
  [TypedAs(p.out, type) EXCEPT !.k = IF p.isExternal THEN "defExtGlobal" ELSE "defGlobal"]

\* getVariable(): a host's variable is declared the first time it is named.
DeclareBound(p, name) ==
  Then(parseType([p EXCEPT !.tk = binded_assets[name], !.at = 1]), LAMBDA type :
  Then(parseVariableForCreation(type), LAMBDA v :
    LET made == GlobalOf(v, type.out)
    IN  [v EXCEPT !.tk = p.tk, !.at = p.at, !.isExternal = FALSE,
                  !.program = Append(@, made), !.ctx[1] = Append(@, made)]))

NamedVariable(p, isStore) ==
  LET name == Peek(p, 0).word
      bound == findVariable(p.ctx, name) = Undeclared /\ name \in DOMAIN binded_assets
      named(q, found) == IF found = Undeclared THEN Fail(p, "impossibletofindvariabledeclaration")
                         ELSE Next_(createNodeVariable(q, found, isStore))
      known(q) == named(q, findVariable(q.ctx, name))
  IN  known(IF bound THEN DeclareBound(p, name) ELSE p)

RECURSIVE Indices(_)
Indices(p) ==
  Then(Converted(p, "none", Expr),
       LAMBDA q : CASE Match(q, ",") ->
                         Then(Indices(Next_(q)), LAMBDA r : Give(r, <<q.out>> \o r.out))
                    [] Match(q, "]") -> Give(Next_(q), <<q.out>>)
                    [] OTHER -> Fail(q, "expectingClosingBracketorcomma"))

getVariable(p, isStore) ==
  Then(NamedVariable(p, isStore), LAMBDA v :
    LET given(q) == IF Len(q.out) > 1 /\ Len(v.out.dims) < Len(q.out)
                    THEN Fail(q, "toomanyarguments") ELSE Give(q, [v.out EXCEPT !.ch = q.out])
    IN  IF Match(v, "[") THEN Then(Indices(Next_(v)), given) ELSE v)

VariableFactor(p, derefRead, addressOf) ==
  LET first == Conversion("int", FALSE, [NodeOf("number") EXCEPT !.vt = "int"])
      address(q) == FollowPointer(q, addressOf, TRUE)
      followed(q, v) ==
        Give(FollowAll(FollowPointer(address(q), v.ch = <<>> /\ ~v.asPointer, v.isPointer), v.vt), v)
      checked(q, v) ==
        CASE derefRead /\ (~v.isPointer \/ v.ch # <<>>) -> Fail(q, "derefNotPointer")
          [] addressOf /\ \/ v.k \notin {"global", "extGlobal", "local"}
                          \/ v.k = "local" /\ Len(v.ch) > 1 -> Fail(q, "addressNotPossible")
          [] OTHER -> followed(q, [v EXCEPT !.ch = IF derefRead THEN <<first>> ELSE @,
                                            !.asPointer = @ \/ (addressOf /\ ~derefRead)])
  IN  Then(getVariable(p, FALSE), LAMBDA q : checked(q, q.out))

UnaryFactor(p) ==
  Then(Rule(Next_(p), "factor"),
       LAMBDA q : Give(q, [NodeOf("unitary") EXCEPT !.t = Peek(p, 0).t, !.ch = <<q.out>>]))

\* (type) ( ... ): a conversion in a conversion.
CastFactor(p) ==
  LET vt == Peek(p, 1).vt
      in == Expect(Converted([p EXCEPT !.at = @ + 4], vt, Expr), ")",
                   "expectingClosingparenthesis")
  IN  Then(in, LAMBDA q : Give(Follow(q, q.out.vt, Numbers), Conversion(vt, FALSE, q.out)))

RECURSIVE ArgumentList(_), Parts(_, _)
\* parseArguments(): a conversion for each, their types the signature.
varName == [t \in Numbers |-> "num"] @@ [t \in {"none", "void"} |-> "void"]
           @@ [t \in {"char", "CRGB", "CRGBW", "Args"} |-> t]
Signed(nd) == varName[nd.vt] \o IF nd.isPointer THEN "*" ELSE ""
ArgumentList(p) ==
  Then(Converted(p, "none", Expr),
       LAMBDA q : CASE Match(q, ",") ->
                         Then(ArgumentList(Next_(q)), LAMBDA r : Give(r, <<q.out>> \o r.out))
                    [] Match(q, ")") -> Give(Next_(q), <<q.out>>)
                    [] OTHER -> Fail(q, "expectingClosingparenthesis"))
parseArguments(p) == IF Match(p, ")") THEN Give(Next_(p), <<>>) ELSE ArgumentList(p)

RECURSIVE Joined(_)
Joined(names) ==
  CASE names = <<>> -> ""
    [] Len(names) = 1 -> Head(names)
    [] OTHER -> Head(names) \o "|" \o Joined(Tail(names))
signature(name, nodes) == name \o "(" \o Joined([i \in DOMAIN nodes |-> Signed(nodes[i])]) \o ")"

RECURSIVE MoreArguments(_, _)
\* parseCreateArguments(): the first one may live in its register.
MoreArguments(p, first) ==
  Then(parseType(p), LAMBDA type :
  Then(parseVariableForCreation(type), LAMBDA v :
    LET inRegister(typed) ==
          [Give(v, [typed EXCEPT !.k = "defLocalReg", !.reg = v.depth]) EXCEPT !.depth = @ + 1]
        made(typed) == IF first /\ v.depth <= _MAX_FOR_DEPTH_REG_2 /\ ~typed.isPointer
                       THEN inRegister(typed) ELSE Allocated(v, typed)
        more(q) == IF Match(q, ",")
                   THEN Then(MoreArguments(Next_(q), FALSE), LAMBDA r : Give(r, <<q.out>> \o r.out))
                   ELSE Give(q, <<q.out>>)
        declared(q) == more(Declare(q, q.out))
    IN  declared(made(TypedAs(v.out, type.out)))))

parseCreateArguments(p) == IF Match(p, ")") THEN Give(p, <<>>) ELSE MoreArguments(p, TRUE)

\* A host's function nobody declared is declared where it is called, in the
\* middle of another function's body: the frame and the registers are that
\* function's again, lasttype is not. It names a node that is freed, and what
\* it finds there is its type or another node's.
DeclareBoundFunction(p, sign) ==
  Then(parseType([p EXCEPT !.tk = binded_assets[sign], !.at = 1]), LAMBDA type :
  Then(parseCreateArguments([Enter(type) EXCEPT !.at = @ + 2, !.depth = 2, !.asRegister = FALSE]),
       LAMBDA argued :
    LET made == [NodeOf("defExtFunction") EXCEPT
                   !.name = signature(Peek(type, 0).word, argued.out),
                   !.ch = <<type.out, [NodeOf("inputArguments") EXCEPT !.ch = argued.out]>>]
    IN  [p EXCEPT !.fns = Append(@, made), !.freed = TRUE,
                  !.rtype = IF p.reused THEN "none" ELSE type.out.vt]))

FunctionsNamed(p, sign) == SelectSeq(p.fns, LAMBDA f : f.name = sign)
KnownFunction(p, sign) ==
  IF FunctionsNamed(p, sign) = <<>> /\ sign \in DOMAIN binded_assets
  THEN DeclareBoundFunction(p, sign) ELSE p

CallOf(p, sign) ==
  LET f == Head(FunctionsNamed(p, sign))
      call == [f EXCEPT !.k = IF @ = "defExtFunction" THEN "extCall" ELSE "call",
                        !.vt = f.ch[1].vt,
                        !.ch = Append(@, [NodeOf("arguments") EXCEPT !.ch = p.out])]
  IN  IF FunctionsNamed(p, sign) = <<>> THEN Fail(p, "functionnotfound")
      ELSE Give(FollowAll(FollowPointer(p, TRUE, f.ch[1].isPointer), f.ch[1].vt), call)

parseFunctionCall(p) ==
  Then(parseArguments([p EXCEPT !.at = @ + 2]), LAMBDA q :
    LET sign == signature(Peek(p, 0).word, q.out)
    IN  CallOf(KnownFunction(q, sign), sign))

\* CRGB(r, g, b): a literal of n parts.
Parts(p, n) ==
  Then(Expr(Next_(p)),
       LAMBDA q : CASE n = 1 -> Then(Expect(q, ")", "expectingClosingparenthesis"),
                                     LAMBDA r : Give(r, <<q.out>>))
                    [] Match(q, ",") ->
                         Then(Parts(q, n - 1), LAMBDA r : Give(r, <<q.out>> \o r.out))
                    [] OTHER -> Fail(q, "expectingcomma"))
PartsFactor(p) ==
  LET vt == Peek(p, 0).vt
  IN  Then(Parts(Next_(p), Types[vt].size),
           LAMBDA q : Give(q, [NodeOf("number") EXCEPT !.vt = vt, !.ch = q.out]))

FactorAt(p, starred, ampersand) ==
  LET token == Peek(p, 0)
  IN  CASE Match(p, "eof") -> Next_(p)
        [] Match(p, "number") ->
             Give(Next_(Follow(p, token.vt, {"float", "uint32", "int"})),
                  [NodeOf("number") EXCEPT !.vt = token.vt, !.num = token.num])
        [] MatchAny(p, {"!", "+", "-", "&", "fabs", "abs"}) -> UnaryFactor(p)
        [] \A k \in 0..3 : MatchAt(p, <<"(", "type", ")", "(">>[k + 1], k) -> CastFactor(p)
        [] Match(p, "(") ->
             Expect(Rule(Next_(p), "any"), ")", "expectingClosingparenthesis")
        [] Match(p, "id") /\ ~MatchAt(p, "(", 1) -> VariableFactor(p, starred, ampersand)
        [] Match(p, "id") -> parseFunctionCall(p)
        [] Match(p, "type") /\ MatchAt(p, "(", 1) -> PartsFactor(p)
        [] OTHER -> Fail(p, "impossibletofindtoken")

Factor(p) ==
  LET prefixed == MatchAny(p, {"*", "&"}) /\ MatchAt(p, "id", 1)
  IN  FactorAt(IF prefixed THEN Next_(p) ELSE p, prefixed /\ Match(p, "*"),
               prefixed /\ Match(p, "&"))

\* What is in its own brackets takes a ?: of its own.
parseFactor(p) ==
  [Factor([p EXCEPT !.suppressed = 0]) EXCEPT !.suppressed = p.suppressed]

\* condition ? yes : no, its branches read by Parse.
Ternary(p, Parse(_)) ==
  LET made(yes, no) == [NodeOf("ternaryIf") EXCEPT !.target = "label_tern_" \o N(p.labels),
                                                   !.ch = <<p.out, yes, no>>]
      no(yes) == Then(Then(Expect(yes, ":", "expectingSemicolon"), Parse),
                      LAMBDA q : Give(q, made(yes.out, q.out)))
  IN  no(Parse([Next_(p) EXCEPT !.labels = @ + 1]))

\* && and || are the operators `and` and `or`.
OperatorOf(t) == CASE t = "and" -> "&&" [] t = "or" -> "||" [] OTHER -> t

\* Operators of one precedence group to the left, the operands of the next.
Groups == "term" :> {"*", "/", "%", "^", "and", "or"} @@ "expr" :> {"+", "-", "<<", ">>"}
          @@ "condition" :> {"&&", "||"}
RECURSIVE Operators(_, _)
Operand == "term" :> "factor" @@ "expr" :> "term" @@ "condition" :> "condition"
Operators(p, group) ==
  Then(p, LAMBDA q :
    LET binary(r) == Give(r, [NodeOf("binOp") EXCEPT !.t = OperatorOf(Peek(q, 0).t),
                                                     !.ch = <<q.out, r.out>>])
    IN  IF MatchAny(q, Groups[group])
        THEN Operators(Then(Rule(Next_(q), Operand[group]), binary), group) ELSE q)

parseTerm(p) ==
  LET chosen(q) == IF q.suppressed = 0 /\ Match(q, "?") THEN Ternary(q, Expr) ELSE q
  IN  Operators(Then(Rule(p, "factor"), chosen), "term")

parseExpr(p) == Operators(Rule(p, "term"), "expr")

Comparisons == {"==", "!=", "<=", "<", ">=", ">"}

RECURSIVE Compare(_)
Compare(p) ==
  Then(p, LAMBDA q :
    LET right(vt) == Converted([Next_(q) EXCEPT !.labels = @ + 1], vt, Expr)
        test(r, vt) == Give(r, [NodeOf("test") EXCEPT !.t = Peek(q, 0).t, !.target = Label_(q),
                                                      !.ch = <<Conversion(vt, FALSE, q.out), r.out>>])
        compared(vt) == Then(right(vt), LAMBDA r : test(r, vt))
    IN  IF MatchAny(q, Comparisons) THEN Compare(compared(OperandType(q.out))) ELSE q)

parseExprConditionnal(p) ==
  [Compare(Expr([p EXCEPT !.suppressed = @ + 1])) EXCEPT !.suppressed = p.suppressed]

parseExprAndOr(p) ==
  LET branch(q) == Rule([q EXCEPT !.suppressed = 0], "any")
  IN  Then(Operators(Rule(p, "condition"), "condition"),
           LAMBDA q : IF Match(q, "?")
                      THEN [Ternary(q, branch) EXCEPT !.suppressed = p.suppressed] ELSE q)

Rule(p, rule) ==
  CASE rule = "factor" -> parseFactor(p)
    [] rule = "term" -> parseTerm(p)
    [] rule = "expr" -> parseExpr(p)
    [] rule = "condition" -> parseExprConditionnal(p)
    [] rule = "any" -> parseExprAndOr(p)
=============================================================================
