---------------------------- MODULE MCCallGraphs ----------------------------
(***************************************************************************)
(* Every call graph of a family, for Collector: main(u) calls two          *)
(* functions in a loop, f(d) may call one function before it calls d.m(),  *)
(* and g(d) calls one function.  A call passes on the caller's own trait   *)
(* object, one over X or one over Y; main takes none.  Recursion is direct *)
(* or mutual, with the same argument types or with others, through the     *)
(* function the analysis started from or beside it.                        *)
(***************************************************************************)
EXTENDS MCCollector

Choice(callee, arg) == <<callee, arg>>
FirstCalls == {Choice("f", "X"), Choice("g", "X")}
SecondCalls == {Choice("f", "X"), Choice("f", "Y"), Choice("g", "Y")}
FCalls == {Choice("f", "own"), Choice("f", "Y"), Choice("g", "own"), Choice("g", "Y"), Choice("main", "u")}
GCalls == {Choice("f", "own"), Choice("f", "Y"), Choice("g", "Y"), Choice("m", "own"), Choice("main", "u")}

\* An instance is a function of one program; a definition is its name.
Graphs == FirstCalls \X SecondCalls \X FCalls \X GCalls
Node(name, graph) == <<name, graph>>
X_m == <<"X_m">>
Y_m == <<"Y_m">>
Virtual == <<"virtual">>
Printer == <<"println">>
GraphInst == {Node(name, graph) : name \in {"main", "f", "g"}, graph \in Graphs}
             \union {X_m, Y_m, Virtual, Printer}

\* The call of one block, given the local that holds the argument.
CallOfChoice(graph, choice, local) ==
    IF choice[1] = "m" THEN Call(<<>>, FnDefOf(<<"Tr::m">>, Virtual), <<Var(local, "&dyn")>>, 0, 2)
    ELSE Call(<<>>, FnDefOf(<<choice[1]>>, Node(choice[1], graph)),
              IF choice[1] = "main" THEN <<Const("u")>> ELSE <<Var(local, "&dyn")>>, 0, 2)
To(block, succ) == [block EXCEPT !.term.succ = <<succ>>]
After(stmts, block) == [block EXCEPT !.stmts = stmts \o @]

\* Locals: 2 is over X, 5 is over Y, 1 is the caller's own.
ArgLocal(arg) == CASE arg = "own" -> 1 [] arg = "X" -> 2 [] OTHER -> 5
Site(graph, choice, succ) == To(CallOfChoice(graph, choice, ArgLocal(choice[2])), succ)

Main(graph) ==
    Item(<<"main">>, 1, <<"u", "u", "&dyn", "&X", "X", "&dyn", "&Y", "Y">>,
         << Goto(Borrow(2, 3, 4) \o BorrowY(5, 6, 7), <<2>>), Site(graph, graph[1], 3),
            Site(graph, graph[2], 4), Goto(<<>>, <<2, 5>>), Exit >>)
F(graph) ==
    Item(<<"f">>, 1, <<"u", "&dyn", "&dyn", "&X", "X", "&dyn", "&Y", "Y">>,
         << Goto(<<>>, <<2, 3>>), After(BorrowY(5, 6, 7), Site(graph, graph[3], 3)),
            Site(graph, Choice("m", "own"), 4), Exit >>)
G(graph) ==
    Item(<<"g">>, 1, <<"u", "&dyn", "&dyn", "&X", "X", "&dyn", "&Y", "Y">>,
         << After(BorrowY(5, 6, 7), Site(graph, graph[4], 2)), Exit >>)

BodyOf ==
    [i \in GraphInst |->
        CASE i = X_m -> Item(<<"X_m">>, 1, <<"u", "&X">>, << Exit >>)
          [] i = Y_m -> Item(<<"Y_m">>, 1, <<"u", "&Y", "u">>,
                << Call(<<>>, FnDefOf(<<"println">>, Printer), <<Const("u")>>, 2, 2), Exit >>)
          [] i = Virtual -> Bodyless("virtual", <<"Tr::m">>, <<"&dyn">>, "u")
          [] i = Printer -> Bodyless("item", <<"println">>, <<"u">>, "u")
          [] i[1] = "main" -> Main(i[2])
          [] i[1] = "f" -> F(i[2])
          [] i[1] = "g" -> G(i[2])]

\* @@ makes TLC evaluate every body once.
GraphFn == [i \in GraphInst |-> WithDecl(BodyOf[i])] @@ <<>>

GraphInstanceOf(d, s) ==
    CASE d = <<"Tr::m">> /\ s = <<"X">> -> X_m
      [] d = <<"Tr::m">> /\ s = <<"Y">> -> Y_m
      [] OTHER -> NoInst
GraphGenerics ==
    (<<"Tr::m">> :> [count |-> 1, inputs |-> <<"&Self">>])
 @@ (<<"println">> :> [count |-> 0, inputs |-> <<"u">>])
GraphMir == {<<"main">>, <<"f">>, <<"g">>, <<"X_m">>, <<"Y_m">>}
GraphOrigins == {Node("main", graph) : graph \in Graphs}

=============================================================================
