----------------------------- MODULE MCAnalyzer -----------------------------
(***************************************************************************)
(* Storages for Analyzer.  main calls f and a leaf; f calls another leaf,  *)
(* in a second shape through a recursion that left two records of f, as    *)
(* one does when f dispatches to g the first time and to a leaf the second *)
(* time.  Leaves are of every kind the analyzer tells apart.               *)
(***************************************************************************)
EXTENDS Analyzer

Local(l) == [place |-> <<l>>, ty |-> "u"]
Literal == [place |-> <<>>, ty |-> "u"]

Body(def, decl, stmts, into) ==
    [def |-> def, decl |-> decl,
     blocks |-> <<[stmts |-> stmts,
                   term |-> [kind |-> "Call",
                             fun |-> [kind |-> "FnDef", inst |-> "none", into |-> into,
                                      def |-> CASE into = "none" -> def
                                            [] into = "Node" -> "transmute_unchecked"
                                            [] OTHER -> "transmute"]]]>>]
Plain(def) == Body(def, (<<1>> :> "u"), <<[kind |-> "Nop"]>>, "none")
ThroughPtr == (<<1>> :> "*u") @@ (<<1, Step>> :> "u")
Write(def) ==
    Body(def, ThroughPtr,
         <<[kind |-> "Assign", place |-> <<1, Step>>, rv |-> [kind |-> "Use", ops |-> <<Literal>>]]>>,
         "none")
Reborrow(def) ==
    Body(def, ThroughPtr @@ (<<2>> :> "&mut u"),
         <<[kind |-> "Assign", place |-> <<2>>,
            rv |-> [kind |-> "Wrap", con |-> "mutref",
                    ops |-> <<[place |-> <<1, Step>>, ty |-> "u"]>>]]>>, "none")
Cast(def, into) == Body(def, (<<1>> :> "u"), <<>>, into)

MCProgram ==
    [ok |-> Plain("ok"), write |-> Write("write"), reborrow |-> Reborrow("reborrow"),
     cast |-> Cast("cast", "Cell"), castu |-> Cast("castu", "u"), castrec |-> Cast("castrec", "Node"),
     fnptr |-> Plain("fnptr"), lib |-> Write("lib"), libref |-> Write("libref"),
     closure |-> Write("closure"), odd |-> Plain("odd"),
     f |-> Plain("f"), g |-> Plain("g"), main |-> Plain("main")]

\* struct Cell(&mut u) and struct Node { next: Option<Box<Node>> }.
MCTypes == {"u", "*u", "&mut u", "Cell", "Node", "Option<Node>"}
MCParts(ty) ==
    CASE ty = "Cell" -> {"&mut u"}
      [] ty \in {"&mut u", "*u"} -> {"u"}
      [] ty = "Node" -> {"Option<Node>"}
      [] ty = "Option<Node>" -> {"Node"}
      [] OTHER -> {}

MCNumArgs == [d \in {"closure"} |-> 2]
MCMir == DOMAIN MCProgram
MCCrate == [d \in MCMir \union Transmutes |->
               IF d \in Transmutes THEN "core" ELSE IF d \in {"lib", "libref"} THEN "std" ELSE "app"]
MCSelfTy == [i \in MCMir |-> IF i = "libref" THEN "&Vec" ELSE IF i = "lib" THEN "&mut Vec" ELSE "none"]

\* A third local is computed from the first argument, and branched on.
MCInfluenced(def, args) ==
    {[kind |-> "Arg", local |-> a] : a \in args}
    \union (IF 1 \in args
            THEN {[kind |-> IF def = "odd" THEN "Other" ELSE "Assign", local |-> 3],
                  [kind |-> "SwitchInt", local |-> 0]}
            ELSE {})

----------------------------------------------------------------------------
Bodyless == {"print", "Some", "allowed"}
Leaves == {"ok", "write", "reborrow", "cast", "castu", "castrec", "fnptr", "lib", "libref",
           "closure", "odd"} \union Bodyless

Fun(i, calls) ==
    [kind |-> "WithBody", id |-> i, places |-> <<>>, calls |-> calls,
     unhandled |-> IF i = "fnptr" THEN {"fn()"} ELSE {}]
Leaf(k) == IF k \in Bodyless THEN WithoutBody(k, <<>>) ELSE Fun(k, {})

\* A closure gets its environment and the tuple of its arguments.
Calls(k, l) ==
    LET operands == IF k = "closure" THEN <<Local(l), Literal>> ELSE <<Local(l)>>
    IN  IF k \in Bodyless THEN CallWithoutBody(k, operands) ELSE CallWithBody(k, operands)
CallsBoth(k, l, m) == CallWithBody(k, <<Local(l), Local(m)>>)

Chain(k1, k2, l) ==
    <<Leaf(k1), Leaf(k2), Fun("f", {Calls(k1, l)}),
      Fun("main", {CallsBoth("f", 3, 2), Calls(k2, 3)})>>
Twice(k1, k2, l) ==
    <<Leaf(k1), Fun("f", {Calls(k1, 3)}), Fun("g", {CallsBoth("f", l, 1)}), Leaf(k2),
      Fun("f", {Calls("g", 3), Calls(k2, 3)}),
      Fun("main", {CallsBoth("f", 2, 3), Calls("g", l)})>>

MCHanded ==
    {[fns |-> shape, origin |-> "main", args |-> args] :
        args \in {{1}, {1, 2}},
        shape \in UNION {{Chain(k1, k2, l), Twice(k1, k2, l)} :
                            <<k1, k2, l>> \in {t \in Leaves \X Leaves \X {2, 3} : t[1] # t[2]}}}

=============================================================================
