-------------------------------- MODULE MCBuild --------------------------------
EXTENDS Loader

CONSTANTS handle, str, str2, global, var, fn, main, foot, L, M, U

MCLabel == {handle, str, str2, global, var, fn, main, foot, L, M, U}

MCHost == {var, fn}

Ln(op, name, n) == [op |-> op, name |-> name, n |-> n, neg |-> FALSE]
Declare(name, op, n) == <<Ln("aligned", name, 0), Ln(op, NoLabel, n)>>

Plain == Declare(handle, "bytes", 4) \o <<Ln("global", main, 0)>>
Strings ==
    Declare(handle, "bytes", 4) \o Declare(str, "string", 5) \o Declare(global, "bytes", 10)
    \o <<Ln("json", global, 0)>> \o Declare(str2, "string", 2) \o <<Ln("global", main, 0)>>
Bound ==
    Declare(handle, "bytes", 4) \o Declare(fn, "bytes", 4) \o Declare(global, "bytes", 70000)
    \o Declare(var, "bytes", 4) \o Declare(str, "string", 5)
    \o <<Ln("json", global, 0), Ln("global", main, 0)>>

Code(n) == Ln("code", NoLabel, n)
Ret == Ln("narrow", NoLabel, 0)
Main(body) == <<Ln("aligned", main, 0)>> \o body \o <<Ret>>

\* Two loops, one in the other, or overlapping; m instructions in the inner one.
Loops ==
    {Main(<<Ln("label", L, 0), Code(n), Ln("label", M, 0)>> \o extra \o <<Code(m),
            Ln("branch", M, b), Ln("branch", L, c)>>) :
        n \in {1, 2}, extra \in {<<>>, <<Ret>>},
        m \in (34 .. 42) \cup (674 .. 682), b \in {8, 12}, c \in {8, 12}}

\* An if whose body holds a loop.
Ifs ==
    {Main(pre \o <<Ln("branch", L, b), Ln("label", M, 0), Code(n), Ln("branch", M, c), Code(m),
                   Ln("label", L, 0)>>) :
        pre \in {<<>>, <<Ret>>, <<Code(1)>>}, n \in 1 .. 2, m \in 30 .. 40, b \in {8, 12}, c \in {8}}
Jumping ==
    {Main(<<Ln("branch", L, 8), Code(n), Ln("jump", M, 0), Ln("label", L, 0), Code(1),
            Ln("label", M, 0)>>) : n \in 34 .. 42}

\* A loop with k exits that are far: each one relaxed makes the loop longer.
Exits ==
    {Main(<<Ln("label", M, 0)>> \o [i \in 1 .. k |-> Ln("branch", L, 8)]
          \o <<Code(m), Ln("branch", M, 8), Code(n), Ln("label", L, 0)>>) :
        k \in {1, 6}, m \in 24 .. 34, n \in {30, 50}}

\* Code that uses what the header declares.
Calls == {Main(<<Ln("callExt", fn, n), Ln("movExt", var, 0), Ln("load", global, 0), Ln("load", str, 0)>>) :
              n \in {1, 6, 9}}
Loads == {Main(<<Ln("load", str, 0), Ln("load", str2, 0), Ln("call", main, 0)>>)}

NoFooter == <<>>
Footer(n) == <<Ln("aligned", foot, 0), Code(n), Ln("label", U, 0), Ret>>

\* What only hand-written assembly does: a branch into the footer, a label
\* twice, a label nobody declares, a reservation without a label.
Wild == {Main(<<Ln("branch", U, 8), Code(n)>>) : n \in {1, 60}}
Twice == Main(<<Ln("label", L, 0), Ln("label", L, 0)>>)
Missing == Main(<<Ln("jump", L, 0)>>)

Program(h, c, f) == [header |-> h, content |-> c, footer |-> f]

MCPrograms ==
    {Program(Plain, c, NoFooter) : c \in Loops \cup Ifs \cup Exits \cup Jumping \cup {Main(<<>>)}}
    \cup {Program(Plain, c, Footer(n)) : c \in Wild, n \in {1, 45}}
    \cup {Program(Bound, c, f) : c \in Calls, f \in {NoFooter, Footer(3)}}
    \cup {Program(Strings, c, NoFooter) : c \in Loads}
    \cup {Program(Plain, Twice, NoFooter), Program(Plain, Missing, NoFooter)}
    \cup {Program(<<Ln("bytes", NoLabel, 4)>>, Main(<<>>), NoFooter)}
    \cup {Program(Declare(handle, "bytes", 4), <<Ln("label", L, 0), Ret>>, NoFooter)}
===============================================================================
