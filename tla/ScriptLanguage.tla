--------------------------- MODULE ScriptLanguage ---------------------------
(***************************************************************************)
(* What a compiler of scripts promises, said without one: the syntax trees  *)
(* of a part of the language, the words each is written with, and what      *)
(* running it gives the host, as C would have it. A value is <<"i", n>>, a  *)
(* float <<"f", n>> of n times 1/Unit, or <<"p", place>>; a place is a      *)
(* name, the depth of the call it belongs to (0 for globals) and an index.  *)
(* A run s is the memory, what was given to the host, what the statement    *)
(* ended with ("go", "break", "continue", "return"), the value returned and *)
(* the depth of calls; the value of an expression comes with the run after. *)
(***************************************************************************)
EXTENDS Integers, Sequences, FiniteSets, TLC

CONSTANT UnitOf                    \* floats are multiples of 1/UnitOf

\* Expressions: <<"num", n>>, <<"real", word, n>>, <<"var", x>>, <<"at", x, i>>,
\* <<"deref", p>>, <<"address", x>>, <<"neg", e>>, <<"not", e>>, <<"call", f, args>>,
\* <<"choose", c, a, b>>, <<"in", k>>, <<"def", word, n>> a #define's name,
\* and <<op, a, b>>.
\* Statements: <<"decl", type, x, e>>, <<"pointer", type, x, e>>, <<"array", type, x, dims>>,
\* <<"set", target, op, e>>, <<"step", x, op>>, <<"emit", e>>, <<"do", f, args>>,
\* <<"if", c, yes, no>>, <<"while", c, body>>, <<"for", x, from, c, step, body>>,
\* <<"switch", e, cases>> with cases <<key, body>> and key {} for default,
\* <<"break">>, <<"continue">>, <<"return", e>>, <<"give">>.
\* A script: defines, safe, bound (the host's functions and variables are bound
\* and not declared in the text), globals [type, x, dims, value, host] (host: it is the
\* host's, 0 at the start), functions [type, name, params, body] with params
\* [type, pointer, x], and the body of main.

NoDims == <<>>
RECURSIVE Cat(_)
Cat(parts) == IF parts = <<>> THEN <<>> ELSE Head(parts) \o Cat(Tail(parts))

(***************************************************************************)
(* Words.                                                                   *)
(***************************************************************************)
Number(n) == ToString(n)
Level(op) == CASE op \in {"*", "/", "%"} -> 3 [] op \in {"+", "-"} -> 2
               [] op \in {"&&", "||"} -> 0 [] OTHER -> 1

\* [i], [i][j]
Indices(texts) ==
  CASE texts = <<>> -> <<>>
    [] Len(texts) = 1 -> <<"[">> \o texts[1] \o <<"]">>
    [] OTHER -> <<"[">> \o texts[1] \o <<"][">> \o texts[2] \o <<"]">>

Signs == "neg" :> "-" @@ "not" :> "!"

RECURSIVE Text(_), Listed(_)
IsBinary(e) == e[1] \in {"*", "/", "%", "+", "-", "<", "<=", ">", ">=", "==", "!=", "&&", "||"}
Inside(e, level) ==
  IF (IsBinary(e) /\ Level(e[1]) < level) \/ e[1] = "choose"
  THEN <<"(">> \o Text(e) \o <<")">> ELSE Text(e)
Listed(es) ==
  CASE es = <<>> -> <<>>
    [] Len(es) = 1 -> Text(es[1])
    [] OTHER -> Text(Head(es)) \o <<",">> \o Listed(Tail(es))
Text(e) ==
  CASE e[1] = "num" -> IF e[2] < 0 THEN <<"(", "-", Number(-e[2]), ")">> ELSE <<Number(e[2])>>
    [] e[1] \in {"real", "var", "def"} -> <<e[2]>>
    [] e[1] = "at" -> <<e[2]>> \o Indices([i \in DOMAIN e[3] |-> Text(e[3][i])])
    [] e[1] = "deref" -> <<"*", e[2]>>
    [] e[1] = "address" -> <<"&">> \o Text(e[2])
    [] e[1] \in DOMAIN Signs -> <<Signs[e[1]]>> \o Inside(e[2], 4)
    [] e[1] = "call" -> <<e[2], "(">> \o Listed(e[3]) \o <<")">>
    [] e[1] = "in" -> <<"in", "(", Number(e[2]), ")">>
    [] e[1] = "choose" ->
         Inside(e[2], 2) \o <<"?">> \o Inside(e[3], 1) \o <<":">> \o Inside(e[4], 1)
    [] OTHER -> Inside(e[2], Level(e[1])) \o <<e[1]>> \o Inside(e[3], Level(e[1]) + 1)

RECURSIVE Written(_), Bracketed(_)
Dims(dims) == Indices([i \in DOMAIN dims |-> <<Number(dims[i])>>])
\* A for's first and last parts are statements without their ;
Bare(words) == SubSeq(words, 1, Len(words) - 1)
Bracketed(body) == <<"{">> \o Cat([i \in DOMAIN body |-> Written(body[i])]) \o <<"}">>
CaseText(c) ==
  (IF c[1] = {} THEN <<"default", ":">>
   ELSE <<"case">> \o Text(<<"num", CHOOSE k \in c[1] : TRUE>>) \o <<":">>)
  \o Cat([i \in DOMAIN c[2] |-> Written(c[2][i])])
Written(t) ==
  CASE t[1] = "decl" -> <<t[2], t[3], "=">> \o Text(t[4]) \o <<";">>
    [] t[1] = "pointer" -> <<t[2], "*", t[3], "=">> \o Text(t[4]) \o <<";">>
    [] t[1] = "array" -> <<t[2], t[3]>> \o Dims(t[4]) \o <<";">>
    [] t[1] = "set" -> Text(t[2]) \o <<t[3]>> \o Text(t[4]) \o <<";">>
    [] t[1] = "step" -> <<t[2], t[3], ";">>
    [] t[1] = "emit" -> <<"emit", "(">> \o Text(t[2]) \o <<")", ";">>
    [] t[1] = "do" -> Text(<<"call", t[2], t[3]>>) \o <<";">>
    [] t[1] = "if" -> <<"if", "(">> \o Text(t[2]) \o <<")">> \o Bracketed(t[3])
                      \o (IF t[4] = <<>> THEN <<>> ELSE <<"else">> \o Bracketed(t[4]))
    [] t[1] = "while" -> <<"while", "(">> \o Text(t[2]) \o <<")">> \o Bracketed(t[3])
    [] t[1] = "for" -> <<"for", "(", "int", t[2], "=">> \o Text(t[3]) \o <<";">> \o Text(t[4])
                       \o <<";">> \o Bare(Written(t[5])) \o <<")">> \o Bracketed(t[6])
    [] t[1] = "switch" -> <<"switch", "(">> \o Text(t[2]) \o <<")", "{">>
                          \o Cat([i \in DOMAIN t[3] |-> CaseText(t[3][i])]) \o <<"}">>
    [] t[1] = "return" -> <<"return">> \o Text(t[2]) \o <<";">>
    [] OTHER -> <<t[1], ";">>

RECURSIVE ParamWords(_)
ParamWords(ps) ==
  IF ps = <<>> THEN <<>>
  ELSE <<Head(ps).type>> \o (IF Head(ps).pointer THEN <<"*">> ELSE <<>>) \o <<Head(ps).x>>
       \o (IF Len(ps) = 1 THEN <<>> ELSE <<",">>) \o ParamWords(Tail(ps))
FunctionWords(f) ==
  <<f.type, f.name, "(">> \o ParamWords(f.params) \o <<")">> \o Bracketed(f.body)
GlobalWords(g) ==
  (IF g.host THEN <<"external">> ELSE <<>>) \o <<g.type, g.x>> \o Dims(g.dims)
  \o (IF g.dims # NoDims \/ g.value = 0 THEN <<>> ELSE <<"=", Number(g.value)>>) \o <<";">>
DefineWords(d) == <<"#", "define", d.x, Number(d.value), "\n">>
HostWords == <<"external", "int", "in", "(", "int", "k", ")", ";",
               "external", "void", "emit", "(", "int", "v", ")", ";">>
ScriptWords(sc) ==
  Cat([i \in DOMAIN sc.defines |-> DefineWords(sc.defines[i])])
  \o (IF sc.safe THEN <<"safe_mode">> ELSE <<>>) \o (IF sc.bound THEN <<>> ELSE HostWords)
  \o Cat([i \in DOMAIN sc.globals |->
            IF sc.bound /\ sc.globals[i].host THEN <<>> ELSE GlobalWords(sc.globals[i])])
  \o Cat([i \in DOMAIN sc.functions |-> FunctionWords(sc.functions[i])])
  \o FunctionWords([type |-> "void", name |-> "main", params |-> <<>>, body |-> sc.main])

(***************************************************************************)
(* Values.                                                                  *)
(***************************************************************************)
Quotient(a, b) ==
  LET q == (IF a < 0 THEN -a ELSE a) \div (IF b < 0 THEN -b ELSE b)
  IN  IF (a < 0) = (b < 0) THEN q ELSE -q
Whole(v) == IF v[1] = "f" THEN Quotient(v[2], UnitOf) ELSE v[2]
Real(v) == IF v[1] = "f" THEN v[2] ELSE UnitOf * v[2]
SignedIn(n, bits) == IF n % 2^bits >= 2^(bits - 1) THEN (n % 2^bits) - 2^bits ELSE n % 2^bits
Converted_(type, v) ==
  CASE v[1] = "p" -> v
    [] type = "float" -> <<"f", Real(v)>>
    [] type \in {"uint8_t", "char"} -> <<"i", Whole(v) % 256>>
    [] type = "uint16_t" -> <<"i", Whole(v) % 65536>>
    [] type = "s_int" -> <<"i", SignedIn(Whole(v), 16)>>
    [] OTHER -> <<"i", Whole(v)>>

Truth(b) == <<"i", IF b THEN 1 ELSE 0>>
IsTrue(v) == v[2] # 0
Binary(op, u, v) ==
  LET real == u[1] = "f" \/ v[1] = "f"
      a == IF real THEN Real(u) ELSE u[2]
      b == IF real THEN Real(v) ELSE v[2]
      number(n) == <<IF real THEN "f" ELSE "i", n>>
  IN  CASE op = "+" -> number(a + b)
        [] op = "-" -> number(a - b)
        [] op = "*" -> IF real THEN number(Quotient(a * b, UnitOf)) ELSE number(a * b)
        [] op = "/" -> IF real THEN number(Quotient(UnitOf * a, b)) ELSE number(Quotient(a, b))
        [] op = "%" -> number(a - b * Quotient(a, b))
        [] op = "<" -> Truth(a < b)
        [] op = "<=" -> Truth(a <= b)
        [] op = ">" -> Truth(a > b)
        [] op = ">=" -> Truth(a >= b)
        [] op = "==" -> Truth(a = b)
        [] op = "!=" -> Truth(a # b)
        [] op = "&&" -> Truth(a # 0 /\ b # 0)
        [] op = "||" -> Truth(a # 0 \/ b # 0)

(***************************************************************************)
(* Runs.                                                                    *)
(***************************************************************************)
ZeroOf(type) == Converted_(type, <<"i", 0>>)
Size(dims) == CASE dims = NoDims -> 1 [] Len(dims) = 1 -> dims[1] [] OTHER -> dims[1] * dims[2]

\* The memory: what is known of each name, and the value at each place.
Declared_(s, x, depth, type, dims, value) ==
  [s EXCEPT !.names = (<<x, depth>> :> [type |-> type, dims |-> dims]) @@ @,
            !.mem = [p \in {<<x, depth, i>> : i \in 0..(Size(dims) - 1)} |-> value] @@ @]
DepthOf(s, x) == IF <<x, s.depth>> \in DOMAIN s.names THEN s.depth ELSE 0
Known(s, x) == s.names[<<x, DepthOf(s, x)>>]
TypeAt(s, place) == s.names[<<place[1], place[2]>>].type
Put_(s, place, v) == [s EXCEPT !.mem[place] = Converted_(TypeAt(s, place), v)]
FunctionNamed(sc, name) ==
  sc.functions[CHOOSE i \in DOMAIN sc.functions : sc.functions[i].name = name]

Of(s, v) == [s |-> s, v |-> v]
Then_(r, Next(_, _)) == Next(r.s, r.v)

\* What doing something gives: how is one of the kinds below, what the words.
RECURSIVE Done(_, _, _, _)
Value(sc, s, e) == Done("value", sc, s, e)
Values(sc, s, es) == Done("values", sc, s, es)
Block(sc, s, body) == Done("block", sc, s, body).s

\* The place a variable, an element or *p is.
Flat(k, dims) == IF Len(k) = 1 THEN k[1][2] ELSE k[1][2] * dims[2] + k[2][2]
PlaceOf(sc, s, e) ==
  LET d == DepthOf(s, e[2])
      pointer == s.mem[<<e[2], d, 0>>]
      dims == Known(s, e[2]).dims
  IN  CASE e[1] = "var" -> Of(s, <<e[2], d, 0>>)
        [] e[1] = "deref" -> Of(s, pointer[2])
        [] OTHER ->
             Then_(Values(sc, s, e[3]), LAMBDA after, k :
               Of(after, IF dims = NoDims THEN [pointer[2] EXCEPT ![3] = @ + Flat(k, dims)]
                         ELSE <<e[2], d, Flat(k, dims)>>))
Place(sc, s, e) == Done("place", sc, s, e)

Called(sc, s, f, args) ==
  LET d == s.depth + 1
      WithParams(before, given) ==
        LET bound[i \in 0..Len(args)] ==
              IF i = 0 THEN before
              ELSE Declared_(bound[i - 1], f.params[i].x, d, f.params[i].type, NoDims,
                             Converted_(f.params[i].type, given[i]))
        IN  [bound[Len(args)] EXCEPT !.depth = d]
      Back(after) == Of([after EXCEPT !.depth = s.depth, !.flow = "go"], Converted_(f.type, after.ret))
  IN  Back(Block(sc, Then_(Values(sc, s, args), WithParams), f.body))

ValuesOf(sc, s, es) ==
  IF es = <<>> THEN Of(s, <<>>)
  ELSE Then_(Value(sc, s, Head(es)), LAMBDA next, v :
         Then_(Values(sc, next, Tail(es)), LAMBDA last, vs : Of(last, <<v>> \o vs)))

ValueOf(sc, s, e) ==
  CASE e[1] = "num" -> Of(s, <<"i", e[2]>>)
    [] e[1] = "real" -> Of(s, <<"f", e[3]>>)
    [] e[1] = "def" -> Of(s, <<"i", e[3]>>)
    [] e[1] = "in" -> Of(s, <<"i", s.inputs[e[2]]>>)
    [] e[1] = "var" /\ Known(s, e[2]).dims # NoDims -> Of(s, <<"p", <<e[2], DepthOf(s, e[2]), 0>>>>)
    [] e[1] \in {"var", "at", "deref"} ->
         Then_(Place(sc, s, e), LAMBDA after, p : Of(after, after.mem[p]))
    [] e[1] = "address" -> Then_(Place(sc, s, e[2]), LAMBDA after, p : Of(after, <<"p", p>>))
    [] e[1] = "neg" -> Then_(Value(sc, s, e[2]), LAMBDA after, v : Of(after, <<v[1], -v[2]>>))
    [] e[1] = "not" -> Then_(Value(sc, s, e[2]), LAMBDA after, v : Of(after, Truth(~IsTrue(v))))
    [] e[1] = "call" -> Called(sc, s, FunctionNamed(sc, e[2]), e[3])
    [] e[1] = "choose" ->
         Then_(Value(sc, s, e[2]), LAMBDA after, c : Value(sc, after, IF IsTrue(c) THEN e[3] ELSE e[4]))
    [] OTHER -> Then_(Values(sc, s, <<e[2], e[3]>>), LAMBDA after, vs :
                  Of(after, Binary(e[1], vs[1], vs[2])))

OpOf == "+=" :> "+" @@ "-=" :> "-" @@ "*=" :> "*" @@ "/=" :> "/"

\* A break ends the loop or the switch it is in, and nothing else.
OutOf(s) == [s EXCEPT !.flow = IF @ = "break" THEN "go" ELSE @]

\* A loop: its test, what is done between two turns and its body.
LoopOf(sc, s, loop) ==
  LET Turned(turn) ==
        IF turn.flow \in {"break", "return"} THEN OutOf(turn)
        ELSE Done("loop", sc, Block(sc, [turn EXCEPT !.flow = "go"], loop.step), loop).s
  IN  Then_(Value(sc, s, loop.test), LAMBDA after, c :
        IF IsTrue(c) THEN Turned(Block(sc, after, loop.body)) ELSE after)
Loop(sc, s, test, step, body) ==
  Done("loop", sc, s, [test |-> test, step |-> step, body |-> body]).s

\* From the case that matches on, or the default, to a break.
Chosen(cases, v) ==
  LET exact == {i \in DOMAIN cases : cases[i][1] = {v}}
      otherwise == {i \in DOMAIN cases : cases[i][1] = {}}
      at == IF exact # {} THEN exact ELSE otherwise
  IN  IF at = {} THEN <<>>
      ELSE Cat([k \in 1..(Len(cases) + 1 - CHOOSE i \in at : TRUE) |->
                  cases[(CHOOSE i \in at : TRUE) + k - 1][2]])

Statement(sc, s, t) ==
  CASE t[1] \in {"decl", "pointer"} ->
         Then_(Value(sc, s, t[4]), LAMBDA after, v :
           Declared_(after, t[3], s.depth, t[2], NoDims, Converted_(t[2], v)))
    [] t[1] = "array" -> Declared_(s, t[3], s.depth, t[2], t[4], ZeroOf(t[2]))
    [] t[1] = "set" ->
         Then_(Value(sc, s, t[4]), LAMBDA after, v :
           Then_(Place(sc, after, t[2]), LAMBDA last, p :
             Put_(last, p, IF t[3] = "=" THEN v ELSE Binary(OpOf[t[3]], last.mem[p], v))))
    [] t[1] = "step" ->
         Then_(Place(sc, s, <<"var", t[2]>>), LAMBDA after, p :
           Put_(after, p, Binary(IF t[3] = "++" THEN "+" ELSE "-", after.mem[p], <<"i", 1>>)))
    [] t[1] = "emit" -> Then_(Value(sc, s, t[2]), LAMBDA after, v :
                          [after EXCEPT !.trace = Append(@, Converted_("int", v))])
    [] t[1] = "do" -> Value(sc, s, <<"call", t[2], t[3]>>).s
    [] t[1] = "if" -> Then_(Value(sc, s, t[2]), LAMBDA after, c :
                        Block(sc, after, IF IsTrue(c) THEN t[3] ELSE t[4]))
    [] t[1] = "while" -> Loop(sc, s, t[2], <<>>, t[3])
    [] t[1] = "for" ->
         Loop(sc, Block(sc, s, <<<<"decl", "int", t[2], t[3]>>>>), t[4], <<t[5]>>, t[6])
    [] t[1] = "switch" -> Then_(Value(sc, s, t[2]), LAMBDA after, v :
                            OutOf(Block(sc, after, Chosen(t[3], v[2]))))
    [] t[1] = "return" -> Then_(Value(sc, s, t[2]), LAMBDA after, v :
                            [after EXCEPT !.flow = "return", !.ret = v])
    [] OTHER -> [s EXCEPT !.flow = t[1]]

BlockOf(sc, s, body) ==
  IF body = <<>> \/ s.flow # "go" THEN s
  ELSE Block(sc, Statement(sc, s, Head(body)), Tail(body))

\* A statement has no value.
Done(how, sc, s, what) ==
  CASE how = "value" -> ValueOf(sc, s, what)
    [] how = "values" -> ValuesOf(sc, s, what)
    [] how = "place" -> PlaceOf(sc, s, what)
    [] how = "loop" -> Of(LoopOf(sc, s, what), <<>>)
    [] how = "block" -> Of(BlockOf(sc, s, what), <<>>)

RECURSIVE WithGlobals(_, _)
WithGlobals(s, globals) ==
  IF globals = <<>> THEN s
  ELSE LET g == Head(globals)
       IN  WithGlobals(Declared_(s, g.x, 0, g.type, g.dims, Converted_(g.type, <<"i", g.value>>)),
                       Tail(globals))

\* What the host is given, for the inputs it gives.
Meaning(sc, inputs) ==
  Block(sc, [WithGlobals([names |-> <<>>, mem |-> <<>>, trace |-> <<>>, flow |-> "go",
                          ret |-> <<"i", 0>>, depth |-> 0, inputs |-> inputs], sc.globals)
              EXCEPT !.depth = 1], sc.main).trace
=============================================================================
