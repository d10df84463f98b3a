------------------------------ MODULE MCCompile ------------------------------
(***************************************************************************)
(* The scripts: a few statements around the expressions of each kind, and   *)
(* the expressions of each kind in a few statements, small enough to run    *)
(* and between them every visitor, pass and kind of variable.               *)
(***************************************************************************)
EXTENDS CompiledScripts

\* Expressions and statements, by name.
V(x) == <<"var", x>>
Nm(n) == <<"num", n>>
At(t, i) == <<"at", t, <<i>>>>
At2(t, i, j) == <<"at", t, <<i, j>>>>
In(k) == <<"in", k>>
Half == <<"real", "0.5", 8>>
Plus(a, b) == <<"+", a, b>>
Less(a, b) == <<"<", a, b>>
Call(f, args) == <<"call", f, args>>
Emit(e) == <<"emit", e>>
Decl(x, e) == <<"decl", "int", x, e>>
Typed(type, x, e) == <<"decl", type, x, e>>
Pointer(x, e) == <<"pointer", "int", x, e>>
Array(type, t, dims) == <<"array", type, t, dims>>
Set(x, e) == <<"set", V(x), "=", e>>
Put2(target, op, e) == <<"set", target, op, e>>
Step2(x, op) == <<"step", x, op>>
If(c, yes, no) == <<"if", c, yes, no>>
While(c, body) == <<"while", c, body>>
For3(x, from, c, step, body) == <<"for", x, from, c, step, body>>
UpTo(x, n, body) == For3(x, Nm(0), Less(V(x), n), Step2(x, "++"), body)
Switch(e, cases) == <<"switch", e, cases>>
Return(e) == <<"return", e>>

Param(type, x) == [type |-> type, pointer |-> FALSE, x |-> x]
PointerParam(type, x) == [type |-> type, pointer |-> TRUE, x |-> x]
Function(type, name, params, body) ==
  [type |-> type, name |-> name, params |-> params, body |-> body]
Global(type, x, dims, value) ==
  [type |-> type, x |-> x, dims |-> dims, value |-> value, host |-> FALSE]
Host(type, x) == [Global(type, x, <<>>, 0) EXCEPT !.host = TRUE]

Sc(globals, functions, main) ==
  [defines |-> <<>>, safe |-> FALSE, bound |-> FALSE, globals |-> globals, functions |-> functions, main |-> main]

\* What most of them start with.
G == Global("int", "g", <<>>, 7)
T == Global("int", "t", <<4>>, 0)
F2 == Function("int", "f", <<Param("int", "a"), Param("int", "b")>>,
               <<Return(<<"-", V("a"), V("b")>>)>>)
XY == <<Decl("x", In(1)), Decl("y", In(2))>>
Filled == XY \o <<Put2(At("t", Nm(1)), "=", V("x")), Put2(At("t", V("y")), "=", Nm(9))>>

Leaves == {V("x"), V("g"), At("t", Nm(1)), At("t", V("y")), Call("f", <<V("x"), V("y")>>)}
Operands == {V("y"), V("g"), At("t", V("y")), Nm(3), Nm(300), Nm(5000)}

\* The arithmetic of two operands, wherever they are.
Sums ==
  {Sc(<<G, T>>, <<F2>>,
      Filled \o <<Emit(Plus(a, b)), Set("g", <<"-", b, a>>),
                  Emit(<<"*", Plus(a, V("g")), b>>), Emit(<<"/", Plus(a, b), V("x")>>),
                  Decl("z", <<"%", b, Nm(7)>>), Emit(Plus(V("z"), <<"*", V("z"), Nm(8)>>))>>) :
     a \in Leaves, b \in Operands}

Tests == {Less(V("x"), Nm(3)), <<">=", V("x"), V("y")>>, <<"==", V("g"), At("t", V("y"))>>,
          <<"!=", V("x"), Nm(300)>>, <<">", Call("f", <<V("x"), Nm(1)>>), V("g")>>}
Both == {<<"&&", Less(V("x"), V("g")), <<"!=", V("y"), Nm(2)>>>>,
         <<"||", <<"==", V("x"), Nm(5)>>, <<"<=", V("g"), V("y")>>>>}

\* What is chosen by a test, and what is repeated while it holds.
Tested ==
  {Sc(<<G, T>>, <<F2>>,
      Filled \o <<If(c, <<Emit(Nm(1)), Step2("x", "++")>>, no),
                  Decl("z", Nm(0)),
                  While(Less(V("z"), Nm(3)),
                        <<Step2("z", "++"), If(c, <<more>>, <<Step2("g", "--")>>), Emit(V("z"))>>),
                  Emit(V("x")), Emit(V("g"))>>) :
     c \in Tests \cup Both, no \in {<<>>, <<Emit(Nm(2)), Set("g", V("y"))>>},
     more \in {<<"break">>, <<"continue">>}}

\* What is done on every turn, and how often.
Bodies ==
  {<<Put2(V("s"), "+=", At("t", V("i")))>>,
   <<Put2(At("t", V("i")), "=", Plus(At("t", V("i")), <<"*", V("s"), Nm(2)>>)), Set("s", V("i"))>>,
   <<Put2(V("g"), "+=", Call("f", <<V("i"), V("s")>>)),
     Put2(At("t", Nm(0)), "=", <<"-", At("t", Nm(0)), V("g")>>)>>,
   <<If(<<"==", V("i"), V("y")>>, <<<<"continue">>>>, <<>>),
     Put2(V("s"), "*=", Nm(3)), Step2("s", "++")>>,
   <<UpTo("j", V("i"), <<Put2(At("t", V("j")), "=", <<"+", At("t", V("j")), V("i")>>),
                       Put2(V("s"), "-=", V("j"))>>)>>,
   <<If(Less(V("s"), Nm(8)), <<>>, <<<<"break">>>>), Put2(V("s"), "+=", Nm(5))>>}
Loops ==
  {Sc(<<G, T>>, <<F2>>,
      Filled \o <<Decl("s", Nm(1)), UpTo("i", bound, body), Emit(V("s")), Emit(V("g")),
                  UpTo("k", Nm(4), <<Emit(At("t", V("k")))>>)>>) :
     bound \in {Nm(3), V("y"), <<"%", V("g"), Nm(4)>>}, body \in Bodies}

\* Calls in calls, in themselves, with pointers, many arguments, arrays of their own.
Fact == Function("int", "fact", <<Param("int", "n")>>,
                 <<If(Less(V("n"), Nm(2)), <<Return(Nm(1))>>, <<>>),
                   Return(<<"*", V("n"), Call("fact", <<<<"-", V("n"), Nm(1)>>>>)>>)>>)
Sum == Function("int", "sum", <<PointerParam("int", "p"), Param("int", "n")>>,
                <<Decl("r", Nm(0)), UpTo("i", V("n"), <<Put2(V("r"), "+=", At("p", V("i")))>>),
                  Put2(At("p", Nm(0)), "=", V("r")), Return(V("r"))>>)
Eight == <<"a", "b", "c", "d", "e", "h", "k", "l">>
Many == Function("int", "many", [i \in 1..8 |-> Param("int", Eight[i])],
                 <<Return(<<"-", Plus(V("a"), <<"*", V("h"), Nm(10)>>),
                                 Plus(V("k"), <<"*", V("l"), Nm(5)>>)>>)>>)
Own == Function("int", "own", <<Param("int", "n")>>,
                <<Array("int", "w", <<3>>), Put2(At("w", Nm(0)), "=", V("n")),
                  Put2(At("w", Nm(2)), "=", Plus(At("w", Nm(0)), Nm(1))), Return(At("w", Nm(2)))>>)
Does == Function("void", "does", <<Param("int", "n")>>,
                 <<Put2(V("g"), "+=", V("n")), Emit(V("g"))>>)
Calls ==
  {Sc(<<G, T>>, <<F2, Fact, Sum, Many, Own, Does>>,
      Filled \o <<<<"do", "does", <<V("y")>>>>, Emit(e), Set("x", Plus(e, V("x"))),
                  Emit(Plus(V("x"), e))>>) :
     e \in {Call("f", <<Call("f", <<V("x"), Nm(1)>>), Call("f", <<V("g"), V("y")>>)>>),
            Plus(V("x"), Call("fact", <<Plus(V("y"), Nm(2))>>)),
            Call("sum", <<V("t"), Nm(3)>>),
            Call("many", <<V("x"), Nm(2), Nm(3), V("y"), Nm(5), V("g"), V("y"), Nm(8)>>),
            <<"*", Call("own", <<V("x")>>), Call("own", <<V("y")>>)>>}}

\* Pointers and addresses, arrays of two dimensions, narrow elements.
Pointers ==
  {Sc(<<G, T>>, <<Sum>>,
      Filled \o <<Pointer("p", from), Put2(At("p", Nm(1)), "=", V("y")),
                  Put2(At("p", V("y")), "=", <<"+", At("p", V("y")), Nm(4)>>),
                  Emit(At("p", V("y"))), Emit(<<"deref", "p">>),
                  Put2(<<"deref", "p">>, "=", V("x")), Emit(Plus(<<"deref", "p">>, At("p", Nm(1)))),
                  Emit(Call("sum", <<V("p"), Nm(2)>>))>>) :
     from \in {V("t"), <<"address", At("t", Nm(1))>>}}
MatrixScript(m, local) ==
  Sc(<<G, Global("int", "m", <<2, 3>>, 0)>>, <<>>,
     XY \o local \o
     <<UpTo("i", Nm(2), <<UpTo("j", Nm(3),
         <<Put2(At2(m, V("i"), V("j")), "=", Plus(<<"*", V("i"), V("x")>>, V("j")))>>)>>),
       Emit(At2(m, Nm(1), V("y"))),
       Put2(At2(m, Nm(0), Nm(2)), "=", <<"+", At2(m, Nm(0), Nm(2)), At2(m, Nm(1), Nm(1))>>),
       Emit(At2(m, Nm(0), Nm(2)))>>)
Matrices == {MatrixScript("m", <<>>), MatrixScript("w", <<Array("int", "w", <<2, 3>>)>>)}
Narrow ==
  {Sc(<<G, Global(type, "n", <<4>>, 0), Global(type, "h", <<>>, 3)>>, <<>>,
      XY \o <<Typed(type, "q", V("x")), Emit(V("q")), Put2(At("n", V("y")), "=", V("x")),
              Set("h", Plus(V("q"), V("h"))),
              UpTo("i", Nm(3), <<Emit(Plus(At("n", V("i")), V("h")))>>)>>) :
     type \in {"uint8_t", "uint16_t", "s_int"}}

\* A variable, and an array of a function's own, changed through a pointer.
Aliases ==
  {Sc(<<G>>, <<>>,
      XY \o <<Array("int", "w", <<3>>), Put2(At("w", Nm(1)), "=", V("y")), Decl("z", Nm(4)),
              Pointer("p", from), Put2(to, "=", Plus(V("x"), was)), Emit(<<"-", V("x"), was>>),
              Put2(to, "=", Plus(V("y"), was)), Emit(Plus(V("y"), was))>>) :
     from \in {V("w"), <<"address", V("z")>>}, to \in {At("p", Nm(0)), <<"deref", "p">>},
     was \in {At("w", Nm(0)), V("z")}}

\* Floats kept over calls.
Halved == Function("float", "half", <<Param("float", "v")>>, <<Return(<<"*", V("v"), Half>>)>>)
KeptFloats ==
  {Sc(<<G>>, <<F2, Halved>>,
      XY \o <<Typed("float", "a", V("y")), Typed("float", "b", Half), Decl("k", Nm(0)),
              UpTo("i", Nm(3), <<Set("a", Plus(V("a"), V("b"))), Set("b", Plus(V("b"), V("a"))),
                                 Set("a", Plus(V("a"), V("b")))>> \o call),
              Set("k", <<"*", Plus(V("a"), V("b")), Nm(2)>>), Emit(V("k"))>>) :
     call \in {<<Put2(V("k"), "+=", Call("f", <<V("i"), V("k")>>))>>,
               <<Set("b", Call("half", <<V("b")>>))>>}}

\* Floats.
Reals == {V("a"), V("r"), V("x"), Half, Call("half", <<V("a")>>)}
Quarters == <<Set("k", <<"*", V("b"), Nm(4)>>), Emit(V("k"))>>
FloatScript(a, b) ==
  Sc(<<G, Global("float", "r", <<>>, 2), Global("int", "k", <<>>, 0)>>,
     <<Halved>>,
     XY \o <<Typed("float", "a", V("y")), Typed("float", "b", Plus(a, b))>> \o Quarters
     \o <<Set("b", <<"/", <<"-", b, a>>, V("r")>>)>> \o Quarters
     \o <<Put2(V("a"), "-=", b), If(Less(V("a"), b), <<Emit(Nm(1))>>, <<Emit(Nm(2))>>)>>)
Floats == {FloatScript(a, b) : a \in Reals, b \in Reals}

\* What chooses between values and between statements.
Chooses ==
  {Sc(<<G, T>>, <<F2>>,
      Filled \o <<Decl("z", <<"choose", c, a, b>>), Emit(V("z")),
                  Set("g", Plus(<<"choose", c, b, Nm(1)>>, V("z"))),
                  Emit(V("g"))>>) :
     c \in Tests, a \in {V("g"), Nm(300)}, b \in {At("t", Nm(1)), Call("f", <<V("y"), V("x")>>)}}
Switches ==
  {Sc(<<G, T>>, <<F2>>,
      Filled \o <<Switch(e, <<<<{2}, <<Emit(Nm(20))>> \o after>>, 
                              <<{300}, <<Emit(Nm(30)), <<"break">>>>>>,
                              <<{5}, <<Set("g", V("x")), <<"break">>>>>>>> \o last),
                  Emit(V("g"))>>) :
     e \in {V("x"), V("y"), Plus(V("g"), Nm(1))}, after \in {<<>>, <<<<"break">>>>},
     last \in {<<>>, <<<<{}, <<Emit(Nm(7))>>>>>>}}

Defined ==
  {[Sc(<<G, T>>, <<F2>>, Filled \o <<Emit(Plus(V("x"), <<"def", "N", 3>>)),
      UpTo("i", <<"def", "N", 3>>, <<Emit(At("t", V("i")))>>)>>) 
     EXCEPT !.defines = <<[x |-> "N", value |-> 3]>>]}
Safe == {[p EXCEPT !.safe = TRUE] : p \in Matrices \cup Narrow}

\* The host's variables, stored by a loop on their own or with others.
HostScripts(type) ==
  {Sc(<<G, T, Host(type, "e"), Host("int", "d")>>, <<F2>>,
      Filled \o <<Set("e", V("x")), UpTo("i", Nm(3), <<Set("e", Plus(V("e"), e))>> \o also),
                  Emit(Plus(V("e"), V("d"))), Set("d", <<"neg", V("e")>>),
                  Emit(<<"not", V("d")>>), Emit(V("d"))>>) :
     e \in {V("i"), At("t", V("y"))},
     also \in {<<>>, <<Set("d", V("i"))>>, <<Put2(V("g"), "+=", V("e"))>>}}
Hosts == HostScripts("int") \cup HostScripts("uint16_t")

\* The host's functions and variables found among what it has bound.
Bound == {[p EXCEPT !.bound = TRUE] : p \in Calls \cup HostScripts("int")}

MCSets == Sums \cup Tested \cup Loops \cup Calls \cup Pointers \cup Matrices \cup Narrow
          \cup Floats \cup Chooses \cup Switches \cup Defined \cup Safe \cup Hosts
          \cup Aliases \cup KeptFloats \cup Bound

\* What no script may hold, in one that would be right without it.
Mistakes ==
  {<<"x", "=", "nowhere", ";">>, <<"nothing", "(", "x", ")", ";">>,
   <<"emit", "(", "x", ",", "x", ")", ";">>,
   <<"break", ";">>, <<"x", "=", "3">>, <<"x", "+", "3", ";">>, <<"x", "=", "(", "3", ";">>,
   <<"if", "x", ")", "{", "}">>, <<"case", "1", ":">>, <<"t", "[", "1", "=", "3", ";">>,
   <<"switch", "(", "x", ")", "{", "case", "1", ":", "case", "1", ":", "}">>,
   <<"while", "(", "x", "<", "3", ")", "{">>, <<"int", "y", "3", ";">>}
\* And where: in main(), in a block of it, in a function of its own.
Main0 == <<"void", "main", "(", ")", "{", "int", "x", "=", "1", ";">>
Last0 == <<"emit", "(", "x", ")", ";", "}">>
Around ==
  {<<Main0, Last0>>,
   <<Main0 \o <<"if", "(", "x", "<", "3", ")", "{">>, <<"}">> \o Last0>>,
   <<<<"void", "other", "(", "int", "x", ")", "{">>, Last0 \o Main0 \o Last0>>}
MCWrong ==
  {[wrong |-> Lang!HostWords \o <<"int", "t", "[", "2", "]", ";">>
              \o around[1] \o mistake \o around[2]] : mistake \in Mistakes, around \in Around}

\* A script that is refused, then one that is right: the first stores through
\* a pointer nobody declared.
MCUndeclared ==
  [wrong |-> Lang!HostWords \o <<"void", "main", "(", ")", "{", "*", "q", "=", "3", ";", "}">>]
MCGivesGlobal == Sc(<<G>>, <<>>, <<Emit(V("g"))>>)
MCRefusedFirst == {<<MCUndeclared, MCGivesGlobal>>}

MCPrograms == [p \in MCSets \cup {MCGivesGlobal} |-> p]
MCScripts ==
  [p \in DOMAIN MCPrograms |-> Lang!ScriptWords(p)]
  @@ [w \in MCWrong \cup {MCUndeclared} |-> w.wrong]
MCInputs == [p \in DOMAIN MCPrograms |-> {<<5, 2>>, <<300, 0>>, <<-2, 1>>}]
\* One after the other: what divided floats, was safe or refused nothing.
MCBefore == {FloatScript(V("a"), V("r")), [MatrixScript("m", <<>>) EXCEPT !.safe = TRUE]}
MCSessions ==
  {<<p>> : p \in MCSets} \cup {<<w>> : w \in MCWrong}
  \cup {<<before, after>> : before \in MCBefore, after \in Defined \cup Pointers \cup Hosts}
MCNumbers ==
  LET known == 0..10 \cup {20, 30, 300, 5000}
  IN  ("0.5" :> [vt |-> "float", num |-> 8]) @@ [w \in {ToString(n) : n \in known} |->
         [vt |-> "int", num |-> CHOOSE n \in known : ToString(n) = w]]
MCBound ==
  LET int == Token("type", "int", "int", 0)
      id(w) == Token("id", w, "eof", 0)
      variable(x) == <<Plain("external"), int, id(x), Plain(";")>>
      function(type, f) ==
        <<Plain("external"), type, id(f), Plain("("), int, id("a0"), Plain(")"), Plain(";")>>
  IN  "e" :> variable("e") @@ "d" :> variable("d") @@ "in(num)" :> function(int, "in")
      @@ "emit(num)" :> function(Token("type", "void", "void", 0), "emit")
=============================================================================
