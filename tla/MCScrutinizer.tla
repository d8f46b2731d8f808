---------------------------- MODULE MCScrutinizer ----------------------------
(***************************************************************************)
(* Crates for Scrutinizer, made of programs like those of MCCollector, but *)
(* with methods and destructors that print what they are given.            *)
(***************************************************************************)
EXTENDS Scrutinizer, MCCollector

DrvTy == MCTy \union {"&mut u", "W"}
DrvRefTy == MCRefTy \union {"&mut u"}
DrvComponentOf ==
    [ty \in DrvTy, e \in -1..2 |->
        CASE ty = "W" -> IF e = 0 THEN "D" ELSE NoTy
          [] ty = "&mut u" -> IF e = Deref THEN "u" ELSE NoTy
          [] OTHER -> ComponentOf[ty, e]]
DrvComponent(ty, e) == DrvComponentOf[ty, e]

\* The places of W are those of its field.
DeclW(l) == (<<l>> :> "W") @@ (<<l, 0>> :> "D")

Prints(l) == Call(<<>>, Println, <<Var(l, "u")>>, 0, 2)
Dropping(fun, l, ty, glue, succ) ==
    [stmts |-> <<>>,
     term |-> [kind |-> "Drop", fun |-> fun, args |-> <<Var(l, ty)>>, dest |-> NoPlace,
               succ |-> <<succ>>, glue |-> glue]]
DropD == FnDefOf("D_drop", "D_drop")

BorrowD(l, ref, from) ==
    <<Make(ref, "ref", <<Var(from, "D")>>), Set(l, "Use", <<Var(ref, "&D")>>)>>
MakeD(l) == [kind |-> "Assign", place |-> <<l>>, rv |-> [kind |-> "Typed", ty |-> "D", ops |-> <<>>]]

DriverLibrary ==
  [ \* An implementation of Tr that prints its receiver.
    D_m |-> Item("D_m", 1, <<"u", "&D">>, << Prints(1), Exit >>),
    D_drop |-> Item("D_drop", 1, <<"u", "&D">>, << Prints(1), Exit >>),
    dropsD |-> Item("dropsD", 1, <<"u", "u", "D">>,
        << Goto(<<MakeD(2)>>, <<2>>), Dropping(DropD, 2, "D", <<>>, 3), Exit >>),
    \* The receiver becomes D at the end of the loop body, or comes out of a callee.
    loopD |-> Item("loopD", 1, <<"u", "u", "&dyn", "&X", "X", "&D", "D">>,
        << Goto(Borrow(2, 3, 4), <<2>>),
           Call(<<>>, TrM, <<Var(2, "&dyn")>>, 0, 3),
           Goto(<<>>, <<4, 5>>), Goto(BorrowD(2, 5, 6), <<2>>), Exit >>),
    picksD |-> Item("picksD", 1, <<"u", "u", "&dyn", "&D", "D", "&dyn">>,
        << Call(BorrowD(2, 3, 4), FnDefOf("pick", "pick"), <<Var(2, "&dyn")>>, 5, 2),
           Call(<<>>, TrM, <<Var(5, "&dyn")>>, 0, 3), Exit >>),
    constant |-> Item("constant", 1, <<"u", "u">>,
        << Call(<<>>, Println, <<Const("u")>>, 0, 2), Exit >>),
    \* What the precheck refuses.
    setter |-> Item("setter", 1, <<"u", "&mut u">>, << Prints(1), Exit >>),
    erased |-> Item("erased", 1, <<"u", "&dyn">>,
        << Call(<<>>, TrM, <<Var(1, "&dyn")>>, 0, 2), Exit >>),
    \* struct W { d: D } has no destructor of its own.
    holder |-> Item("holder", 1, <<"u", "u">>,
        << Goto(<<[kind |-> "Assign", place |-> <<2>>,
                   rv |-> [kind |-> "Typed", ty |-> "W", ops |-> <<Var(1, "u")>>]]>>, <<2>>),
           Dropping(NoFun, 2, "W",
                    <<[fun |-> DropD, args |-> <<[place |-> <<2, 0>>, ty |-> "D"]>>]>>, 3), Exit >>),
    \* fn second(a, b) { print(b) }
    second |-> Item("second", 2, <<"u", "u", "u", "u">>,
        << Call(<<Set(3, "Use", <<Var(2, "u")>>)>>, Println, <<Var(3, "u")>>, 0, 2), Exit >>),
    \* fn outer(x) { swap(x, 0) }, fn swap(a, b) { if .. { swap(b, a) } print(b) }
    outer |-> Item("outer", 1, <<"u", "u">>,
        << Call(<<>>, FnDefOf("swap", "swap"), <<Var(1, "u"), Const("u")>>, 0, 2), Exit >>),
    swap |-> Item("swap", 2, <<"u", "u", "u", "u", "u", "u">>,
        << Goto(<<>>, <<2, 3>>),
           Call(<<Set(3, "Use", <<Var(2, "u")>>), Set(4, "Use", <<Var(1, "u")>>)>>,
                FnDefOf("swap", "swap"), <<Var(3, "u"), Var(4, "u")>>, 0, 3),
           Call(<<Set(5, "Use", <<Var(2, "u")>>)>>, Println, <<Var(5, "u")>>, 0, 4), Exit >>) ]

DrvDecl(i, fn) == IF i = "holder" THEN [fn EXCEPT !.decl = DeclOf(@) @@ DeclW(2)] ELSE WithDecl(fn)
DrvLibrary == DriverLibrary @@ Library
DrvProgram == LET table == [i \in DOMAIN DrvLibrary |-> DrvDecl(i, DrvLibrary[i])] IN table
DrvInst == DOMAIN DrvLibrary
DrvImpls == (<<"Tr::m", "D">> :> "D_m") @@ Impls
DrvInstanceOf(d, s) == 
    IF <<d>> \o s \in DOMAIN DrvImpls THEN DrvImpls[<<d>> \o s] ELSE NoInst
DrvMir == {DrvLibrary[i].def : i \in {i \in DrvInst : DrvLibrary[i].blocks # <<>>}} \union {"Tr::dflt"}

----------------------------------------------------------------------------
(* What depends on an argument: all of a body, branches included, but in   *)
(* functions of two arguments that do not meet.                            *)

DrvInfluenced(def, args) ==
    LET locals == CASE args = {} -> {}
                    [] def = "swap" -> (IF 1 \in args THEN {1, 4} ELSE {})
                                       \union (IF 2 \in args THEN {2, 3, 5} ELSE {})
                    [] def = "second" -> (IF 1 \in args THEN {1} ELSE {})
                                         \union (IF 2 \in args THEN {2, 3} ELSE {})
                    [] OTHER -> 0..7
    IN  {[kind |-> IF l \in args THEN "Arg" ELSE "Assign", local |-> l] : l \in locals}

DrvNumArgs == ("cl" :> 2)
DrvParts(ty) == {}
DrvCrate == [d \in DrvMir \union {"println", "Tr::m", "Fn::call", "abs"} |-> "test_crate"]
DrvSelfTy == [i \in DrvInst |-> "none"]

Fun(i, docs) == [inst |-> i, isFn |-> TRUE, generic |-> FALSE, docs |-> docs]
Region(i) == [inst |-> i, closure |-> TRUE]

DrvItems ==
    << Fun("picks", <<"pure">>),
       [Fun("X_m", <<"pure">>) EXCEPT !.isFn = FALSE],
       Fun("loopD", <<"impure">>),
       [Fun("pick", <<"pure">>) EXCEPT !.generic = TRUE],
       Fun("branches", <<"pure">>),
       Fun("selfrec", <<"hidden", "pure">>),
       Fun("setter", <<"pure">>),
       Fun("captures", <<"pure">>),
       Fun("erased", <<"impure">>),
       Fun("constant", <<"pure">>),
       Fun("dropsD", <<>>),
       Fun("mixed", <<"impure">>),
       Fun("swap", <<"impure">>),
       Fun("second", <<"impure">>),
       Fun("picksD", <<"impure">>) >>
DrvMirKeys ==
    << [isConst |-> FALSE, regions |-> <<Region("cl"), Region("constant")>>],
       [isConst |-> TRUE, regions |-> <<Region("swap")>>],
       [isConst |-> FALSE, regions |-> <<>>] >>

Everything == {DrvLibrary[i].def : i \in DrvInst}
Config(mode) ==
    [mode |-> mode, matching |-> Everything, onlyInconsistent |-> FALSE, important |-> {},
     regexesValid |-> TRUE]
\* "functions" is the default, and no mode.
DrvConfigs ==
    { Config("function"), Config("ppr"), Config("functions"),
      [Config("function") EXCEPT !.onlyInconsistent = TRUE],
      [Config("function") EXCEPT !.matching = Everything \ {"setter"}],
      [Config("function") EXCEPT !.matching = {"second", "branches"}, !.important = {1}],
      [Config("function") EXCEPT !.matching = {"second"}, !.important = {2}],
      [Config("function") EXCEPT !.matching = {"second", "branches"}, !.important = {2}],
      [Config("ppr") EXCEPT !.regexesValid = FALSE] }

DrvOrigins == {i \in DrvInst : DrvLibrary[i].blocks # <<>>}

HolderItems == << Fun("holder", <<"pure">>) >>
SwapItems == << Fun("outer", <<"pure">>) >>
FunctionMode == {Config("function")}

==============================================================================
