---------------------------- MODULE MCCollector ----------------------------
(***************************************************************************)
(* A library of small programs for Collector, after the test crate         *)
(* (test-crate/src/tests): dynamic dispatch chosen by a branch, in two     *)
(* calls and in a loop, recursion, closures with captures, destructors,    *)
(* function pointers, intrinsics, arithmetic and calls without a body.     *)
(***************************************************************************)
EXTENDS Collector

MCTy == {"u", "bool", "(u,bool)", "(u)", "X", "Y", "D", "&X", "&Y", "&D", "*X",
         "dyn", "&dyn", "Cl", "&Cl", "dynFn", "&dynFn", "fnptr"}
MCErasedTy == {"dyn", "&dyn", "dynFn", "&dynFn", "fnptr", "*X"}
MCRefTy == {"&X", "&Y", "&D", "&dyn", "&Cl", "&dynFn"}
Pointee == ("&X" :> "X") @@ ("&Y" :> "Y") @@ ("&D" :> "D") @@ ("*X" :> "X")
           @@ ("&dyn" :> "dyn") @@ ("&Cl" :> "Cl") @@ ("&dynFn" :> "dynFn")

\* Tables, which TLC evaluates once.
ComponentOf ==
    [ty \in MCTy, e \in -1..2 |->
        CASE e = Deref /\ ty \in DOMAIN Pointee -> Pointee[ty]
          [] e = 0 /\ ty = "Cl" -> "&dyn"
          [] e = 0 /\ ty \in {"(u)", "(u,bool)"} -> "u"
          [] e = 1 /\ ty = "(u,bool)" -> "bool"
          [] OTHER -> NoTy]
ConstructOf ==
    [con \in {"checked", "ptr", "ref", "mutref"}, ty \in MCTy |->
        CASE con = "checked" -> "(u,bool)"
          [] con = "ptr" -> "*X"
          [] OTHER -> IF \E r \in MCRefTy : Pointee[r] = ty
                      THEN CHOOSE r \in MCRefTy : Pointee[r] = ty ELSE NoTy]
PeelOf ==
    [generic \in {"&Self", "Args", "T", "u"}, ty \in MCTy, k \in 1..2 |->
        CASE generic = "&Self" /\ k = 1 /\ ty \in DOMAIN Pointee -> Pointee[ty]
          [] generic = "Args" /\ k = 2 -> ty
          [] generic = "T" /\ k = 1 -> ty
          [] OTHER -> NoTy]

MCComponent(ty, e) == ComponentOf[ty, e]
MCConstruct(con, ty) == ConstructOf[con, ty]
MCPeel(generic, ty, k) == PeelOf[generic, ty, k]
MCTupleTy(tys) == IF Len(tys) = 1 THEN "(u)" ELSE "(u,bool)"
MCTupleFields(ty) == IF ty = "(u)" THEN <<"u">> ELSE <<"u", "bool">>

----------------------------------------------------------------------------
(* Bodies.  A body is given by the types of its locals, from the return    *)
(* place on; its places are those locals and what they visibly contain.    *)

TypeAt(tys, p) == Project(tys[p[1] + 1], <<p[1]>>, p)
Below == UNION {[1..n -> {Deref, 0, 1}] : n \in 0..3}
DeclOf(tys) ==
    LET places == {<<l>> \o below : l \in 0..(Len(tys) - 1), below \in Below}
    IN  [p \in {p \in places : TypeAt(tys, p) # NoTy} |-> TypeAt(tys, p)]
WithDecl(fn) == IF fn.blocks = <<>> THEN fn ELSE [fn EXCEPT !.decl = DeclOf(@)]

Var(l, ty) == [place |-> <<l>>, ty |-> ty]
Const(ty) == [place |-> NoPlace, ty |-> ty]
Set(l, kind, ops) == [kind |-> "Assign", place |-> <<l>>, rv |-> [kind |-> kind, ops |-> ops]]
Make(l, con, ops) ==
    [kind |-> "Assign", place |-> <<l>>, rv |-> [kind |-> "Wrap", con |-> con, ops |-> ops]]
Nop == [kind |-> "Nop"]

NoFun == [kind |-> "None"]
FnDefOf(def, inst) == [kind |-> "FnDef", def |-> def, inst |-> inst]
BB(stmts, kind, fun, args, dest, succ) ==
    [stmts |-> stmts,
     term |-> [kind |-> kind, fun |-> fun, args |-> args, dest |-> dest, succ |-> succ]]
Goto(stmts, succ) == BB(stmts, "Goto", NoFun, <<>>, NoPlace, succ)
Call(stmts, fun, args, dest, succ) == BB(stmts, "Call", fun, args, <<dest>>, <<succ>>)
Exit == Goto(<<>>, <<>>)

Item(def, nargs, tys, blocks) ==
    [kind |-> "item", def |-> def, nargs |-> nargs, decl |-> tys,
     inputs |-> SubSeq(tys, 2, nargs + 1), output |-> tys[1],
     blocks |-> blocks, rpo |-> [b \in DOMAIN blocks |-> b], closures |-> {}]
Bodyless(kind, def, inputs, output) ==
    [kind |-> kind, def |-> def, inputs |-> inputs, output |-> output,
     blocks |-> <<>>, closures |-> {}]

\* let x: &dyn Tr = &v, for v of type X or Y held by local from.
Borrow(l, ref, from) ==
    <<Make(ref, "ref", <<Var(from, "X")>>), Set(l, "Use", <<Var(ref, "&X")>>)>>
BorrowY(l, ref, from) ==
    <<Make(ref, "ref", <<Var(from, "Y")>>), Set(l, "Use", <<Var(ref, "&Y")>>)>>

TrM == FnDefOf("Tr::m", "dyn_Tr_m")
Println == FnDefOf("println", "println")

Library ==
  [ X_m |-> Item("X_m", 1, <<"u", "&X">>,
        << Goto(<<Nop, Set(0, "Arith", <<Const("u"), Const("u")>>)>>, <<>>) >>),
    Y_m |-> Item("Y_m", 1, <<"u", "&Y", "u">>,
        << Call(<<>>, Println, <<Const("u")>>, 2, 2), Exit >>),
    println |-> Bodyless("item", "println", <<"u">>, "u"),
    dyn_Tr_m |-> Bodyless("virtual", "Tr::m", <<"&dyn">>, "u"),
    dyn_Tr_dflt |-> Bodyless("virtual", "Tr::dflt", <<"&dyn">>, "u"),
    abs |-> Bodyless("intrinsic", "abs", <<"u">>, "u"),
    \* fn helper(d: &dyn Tr) -> usize { d.m() }
    helper |-> Item("helper", 1, <<"u", "&dyn">>,
        << Call(<<>>, TrM, <<Var(1, "&dyn")>>, 0, 2), Exit >>),
    \* dyn.rs: the receiver is chosen by a branch.
    branches |-> Item("branches", 1, <<"u", "u", "&dyn", "&X", "X", "&Y", "Y">>,
        << Goto(<<>>, <<2, 3>>), Goto(Borrow(2, 3, 4), <<4>>), Goto(BorrowY(2, 5, 6), <<4>>),
           Call(<<>>, FnDefOf("helper", "helper"), <<Var(2, "&dyn")>>, 0, 5), Exit >>),
    \* The receiver differs between two calls.
    twice |-> Item("twice", 1, <<"u", "u", "&dyn", "&X", "X", "&Y", "Y", "&dyn">>,
        << Call(Borrow(2, 3, 4), FnDefOf("helper", "helper"), <<Var(2, "&dyn")>>, 0, 2),
           Call(BorrowY(7, 5, 6), FnDefOf("helper", "helper"), <<Var(7, "&dyn")>>, 0, 3), Exit >>),
    \* The receiver changes at the end of the loop body.
    loop |-> Item("loop", 1, <<"u", "u", "&dyn", "&X", "X", "&Y", "Y">>,
        << Goto(Borrow(2, 3, 4), <<2>>),
           Call(<<>>, FnDefOf("helper", "helper"), <<Var(2, "&dyn")>>, 0, 3),
           Goto(<<>>, <<4, 5>>), Goto(BorrowY(2, 5, 6), <<2>>), Exit >>),
    \* recursive.rs, and recursion with an argument that changes.
    selfrec |-> Item("selfrec", 1, <<"u", "u">>,
        << Goto(<<>>, <<2, 3>>), Call(<<>>, FnDefOf("selfrec", "selfrec"), <<Var(1, "u")>>, 0, 3),
           Call(<<>>, Println, <<Var(1, "u")>>, 0, 4), Exit >>),
    even |-> Item("even", 1, <<"u", "u">>,
        << Goto(<<>>, <<2, 3>>), Call(<<>>, FnDefOf("odd", "odd"), <<Var(1, "u")>>, 0, 3), Exit >>),
    odd |-> Item("odd", 1, <<"u", "u">>,
        << Goto(<<>>, <<2, 3>>), Call(<<>>, FnDefOf("even", "even"), <<Var(1, "u")>>, 0, 3),
           Call(<<>>, Println, <<Var(1, "u")>>, 0, 4), Exit >>),
    descend |-> Item("descend", 1, <<"u", "&dyn", "&Y", "Y", "&dyn">>,
        << Call(<<>>, TrM, <<Var(1, "&dyn")>>, 0, 2), Goto(<<>>, <<3, 4>>),
           Call(BorrowY(4, 2, 3), FnDefOf("descend", "descend"), <<Var(4, "&dyn")>>, 0, 4), Exit >>),
    start |-> Item("start", 1, <<"u", "u", "&dyn", "&X", "X">>,
        << Call(Borrow(2, 3, 4), FnDefOf("descend", "descend"), <<Var(2, "&dyn")>>, 0, 2), Exit >>),
    \* lam.rs: a closure over a trait object, run through &dyn Fn.
    cl |-> [Item("cl", 2, <<"u", "&Cl", "u", "&dyn">>,
        << Call(<<Set(3, "Use", <<[place |-> <<1, Deref, 0>>, ty |-> "&dyn"]>>)>>,
                FnDefOf("helper", "helper"), <<Var(3, "&dyn")>>, 0, 2), Exit >>)
        EXCEPT !.kind = "closure", !.inputs = <<"&Cl", "(u)">>],
    exec |-> Item("exec", 2, <<"u", "&dynFn", "u", "(u)">>,
        << Call(<<Set(3, "Tuple", <<Var(2, "u")>>)>>, FnDefOf("Fn::call", "dyn_Fn_call"),
                <<Var(1, "&dynFn"), Var(3, "(u)")>>, 0, 2), Exit >>),
    dyn_Fn_call |-> Bodyless("virtual", "Fn::call", <<"&dynFn", "(u)">>, "u"),
    \* ... by a function that calls itself with another trait object.
    captures |-> Item("captures", 1, <<"u", "u", "&dyn", "&X", "X">>,
        << Call(Borrow(2, 3, 4), FnDefOf("nest", "nest"), <<Var(2, "&dyn")>>, 0, 2), Exit >>),
    nest |-> [Item("nest", 1, <<"u", "&dyn", "&dyn", "&Y", "Y", "Cl", "&Cl", "&dynFn">>,
        << Call(<<[kind |-> "Assign", place |-> <<5>>,
                   rv |-> [kind |-> "Closure", ty |-> "Cl", def |-> "cl", inst |-> "cl",
                           ops |-> <<Var(1, "&dyn")>>]],
                  Make(6, "ref", <<Var(5, "Cl")>>), Set(7, "Use", <<Var(6, "&Cl")>>)>>,
                FnDefOf("exec", "exec"), <<Var(7, "&dynFn"), Const("u")>>, 0, 2),
           Goto(<<>>, <<3, 4>>),
           Call(BorrowY(2, 3, 4), FnDefOf("nest", "nest"), <<Var(2, "&dyn")>>, 0, 4), Exit >>)
        EXCEPT !.closures = {[def |-> "cl", inst |-> "cl"]}],
    \* A loop that changes no type, and a path that does not return.
    repeat |-> Item("repeat", 1, <<"u", "u">>,
        << Goto(<<>>, <<2>>), Goto(<<>>, <<3, 4>>), Call(<<>>, Println, <<Var(1, "u")>>, 0, 2), Exit >>),
    diverges |-> Item("diverges", 1, <<"u", "u">>,
        << Goto(<<>>, <<2, 4>>), Call(<<>>, FnDefOf("repeat", "repeat"), <<Var(1, "u")>>, 0, 3), Exit,
           BB(<<>>, "Call", Println, <<Var(1, "u")>>, <<0>>, <<>>) >>),
    \* A trait object that a callee hands back.
    pick |-> Item("pick", 1, <<"&dyn", "&dyn">>,
        << Goto(<<Set(0, "Use", <<Var(1, "&dyn")>>)>>, <<>>) >>),
    picks |-> Item("picks", 1, <<"u", "u", "&dyn", "&X", "X", "&dyn">>,
        << Call(Borrow(2, 3, 4), FnDefOf("pick", "pick"), <<Var(2, "&dyn")>>, 5, 2),
           Call(<<>>, TrM, <<Var(5, "&dyn")>>, 0, 3), Exit >>),
    \* leaky.rs: a value with a destructor goes out of scope.
    D_drop |-> Item("D_drop", 1, <<"u", "&D">>,
        << Call(<<>>, Println, <<Const("u")>>, 0, 2), Exit >>),
    drops |-> Item("drops", 1, <<"u", "u", "D">>,
        << Goto(<<[kind |-> "Assign", place |-> <<2>>,
                   rv |-> [kind |-> "Typed", ty |-> "D", ops |-> <<>>]]>>, <<2>>),
           BB(<<>>, "Drop", FnDefOf("D_drop", "D_drop"), <<Var(2, "D")>>, NoPlace, <<3>>), Exit >>),
    \* fn_ptr.rs, intrinsics, default methods, raw pointers, checked arithmetic.
    mixed |-> Item("mixed", 1, <<"u", "u", "fnptr", "&dyn", "&X", "X", "(u,bool)", "*X">>,
        << Call(Borrow(3, 4, 5) \o <<Make(7, "ptr", <<Var(5, "X")>>)>>,
                FnDefOf("Tr::dflt", "dyn_Tr_dflt"), <<Var(3, "&dyn")>>, 0, 2),
           Call(<<[kind |-> "Assign", place |-> <<6>>,
                   rv |-> [kind |-> "CheckedArith", con |-> "checked",
                           ops |-> <<Var(1, "u"), Const("u")>>]]>>,
                [kind |-> "Other", ty |-> "fnptr"], <<Var(1, "u")>>, 0, 3),
           Call(<<>>, FnDefOf("abs", "abs"), <<Var(1, "u")>>, 0, 4), Exit >>),
    \* A function pointer place that a reference was transmuted into.
    badcast |-> Item("badcast", 1, <<"u", "u", "&X", "X", "fnptr">>,
        << Goto(<<Make(2, "ref", <<Var(3, "X")>>), Set(4, "Use", <<Var(2, "&X")>>)>>, <<>>) >>) ]

\* A LET is not expanded at each use by TLC's coverage statistics.
MCFn == LET table == [i \in DOMAIN Library |-> WithDecl(Library[i])] IN table
MCInst == DOMAIN Library
Impls ==
    (<<"Tr::m", "X">> :> "X_m") @@ (<<"Tr::m", "Y">> :> "Y_m")
 @@ [key \in {"Fn::call"} \X {"Cl"} \X MCTy |-> "cl"] @@ [key \in {"abs"} \X MCTy |-> "abs"]
MCInstanceOf(d, s) == IF <<d>> \o s \in DOMAIN Impls THEN Impls[<<d>> \o s] ELSE NoInst
MCGenerics ==
    ("Tr::m" :> [count |-> 1, inputs |-> <<"&Self">>])
 @@ ("Fn::call" :> [count |-> 2, inputs |-> <<"&Self", "Args">>])
 @@ ("abs" :> [count |-> 1, inputs |-> <<"T">>])
 @@ ("println" :> [count |-> 0, inputs |-> <<"u">>])
MCMir == {Library[i].def : i \in {i \in MCInst : Library[i].blocks # <<>>}} \union {"Tr::dflt"}
MCLocal == MCMir \union {"Tr::m"}

MCOrigins == {"branches", "twice", "loop", "selfrec", "even", "start", "captures", "diverges",
              "picks", "drops", "mixed", "badcast"}
MCShallowLocal == MCLocal \ {"pick"}

\* These programs are of the kind the theorem on ShallowStaysLocal speaks of.
ASSUME LibraryAssumption == Shallow => CrateIsClosed

\* Every program but the one that forces a reference into a function pointer
\* is analysed without running into an unwrap or an assertion that fails.
OnlyBadCastPanics == status = "panicked" => origin = "badcast"

============================================================================
