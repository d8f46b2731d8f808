------------------------------ MODULE Execution ------------------------------
(***************************************************************************)
(* What the analysis is about: a run of the program itself.  Every place   *)
(* holds a value of one type, written and overwritten; branches go either  *)
(* way; a method of a trait object is that of the type behind it; a drop   *)
(* runs the type's own destructor and those of its fields.  Protected data *)
(* enters with the arguments and spreads as the analysis' own Influenced   *)
(* says.  It leaks when it is handed to code that cannot be looked at: a   *)
(* function without a body that is not allowlisted, or a function pointer. *)
(*                                                                         *)
(* Bodies are those of Collector; a drop has, besides, the destructors of  *)
(* the fields (glue).  Programs hand references around but do not write    *)
(* through them, and call a closure with the captures made last.           *)
(***************************************************************************)
EXTENDS TrackedTy, ImportantLocals

CONSTANTS
    Program,          \* definition, signature and body of every instance
    NoInst,           \* the outcome of a failed Instance::resolve
    InstanceOf(_, _), \* Instance::resolve of a definition with substitutions
    Generics,         \* Generics[d]: number and signature of d's parameters
    Component(_, _),  \* the type a projection of a type has, or NoTy
    Construct(_, _),  \* a type built from one other: reference, pointer, ...
    TupleTy(_),       \* the tuple type with the given component types
    Allowlist,        \* definitions the configured allowlist matches
    MaxDepth          \* how deep a run may recurse

VARIABLES
    calls,     \* the functions under execution, innermost last
    captures,  \* the types captured by the closures made last
    leaked     \* protected data has leaked

execution == <<calls, captures, leaked>>

Init == calls = <<>> /\ captures = <<>> /\ leaked = FALSE

----------------------------------------------------------------------------
Under(ty, p, q) ==
    LET at[k \in Len(p)..Len(q)] ==
          IF k = Len(p) THEN ty
          ELSE IF at[k - 1] = NoTy THEN NoTy ELSE Component(at[k - 1], q[k])
    IN  at[Len(q)]

\* A value of type ty is written to place p, and thereby to all inside p.
Write(tys, p, ty) ==
    [q \in DOMAIN tys |->
        IF p # <<>> /\ IsPrefix(p, q) /\ Under(ty, p, q) # NoTy THEN Under(ty, p, q) ELSE tys[q]]

OpTy(tys, o) == IF o.place \in DOMAIN tys THEN tys[o.place] ELSE o.ty
OpTys(tys, os) == [k \in DOMAIN os |-> OpTy(tys, os[k])]

ValueTy(tys, rv) ==
    CASE rv.kind \in {"Use", "Arith"} -> OpTy(tys, rv.ops[1])
      [] rv.kind \in {"Wrap", "CheckedArith"} -> Construct(rv.con, OpTy(tys, rv.ops[1]))
      [] rv.kind = "Tuple" -> TupleTy(OpTys(tys, rv.ops))
      [] OTHER -> rv.ty

Closure(i) == Program[i].kind = "closure"

\* Parameters of i, captures included, hold values of the given types.
Arguments(i, tys) ==
    LET spread == IF Closure(i) THEN <<tys[1]>> \o TupleFields(tys[2]) ELSE tys
        write[k \in 0..Len(spread)] ==
            IF k = 0 THEN Program[i].decl ELSE Write(write[k - 1], <<k>>, spread[k])
        env == IF Component(Program[i].decl[<<1>>], -1) = NoTy THEN <<1>> ELSE <<1, -1>>
        held == IF Program[i].def \in DOMAIN captures THEN captures[Program[i].def] ELSE <<>>
        capture[k \in 0..Len(held)] ==
            IF k = 0 THEN write[Len(spread)] ELSE Write(capture[k - 1], Append(env, k - 1), held[k])
    IN  IF Closure(i) THEN capture[Len(held)] ELSE write[Len(spread)]

\* Which function is called, or NoInst for one without a body to look at.
Target(fun, tys) ==
    LET d == IF fun.inst = NoInst THEN fun.def ELSE Program[fun.inst].def
        exact == [k \in DOMAIN tys |-> Present(tys[k])]
        n == Generics[d].count
        substs == {s \in [1..n -> Ty] :
                      \A k \in 1..n : s[k] \in ExtractSubsts(exact, Generics[d].inputs, k)}
        found == {InstanceOf(d, s) : s \in substs} \ {NoInst}
        target == IF d \in Mir THEN fun.inst
                  ELSE IF n = 0 \/ found = {} THEN NoInst ELSE CHOOSE i \in found : TRUE
    IN  IF target # NoInst /\ Program[target].blocks = <<>> THEN NoInst ELSE target

\* Operand o may hold protected data.
Protected(f, o) == o.place # <<>> /\ o.place[1] \in f.locals

\* The parameters of i, given the operands that are protected: a closure
\* receives the components of the tuple it is called with.
Received(i, operands) ==
    IF Closure(i) THEN {k \in 1..NumArgs[Program[i].def] : IF k = 1 THEN 1 \in operands ELSE 2 \in operands}
    ELSE operands

Enter(i, tys, protected) ==
    [inst   |-> i, bb |-> 1, i |-> 1, glue |-> 0,
     tys    |-> Arguments(i, tys),
     locals |-> DependentLocals(Program[i].def, protected)]

----------------------------------------------------------------------------
Now == calls[Len(calls)]
Resumed(f) == [calls EXCEPT ![Len(calls)] = f]
Here == Program[Now.inst].blocks[Now.bb]
Ended == Now.i > Len(Here.stmts)

\* The function is run with protected data in the given arguments.
Begin(i, protected) ==
    /\ calls = <<>>
    /\ calls' = <<[Enter(i, <<>>, protected) EXCEPT !.tys = Program[i].decl]>>
    /\ captures' = <<>>
    /\ UNCHANGED leaked

Execute ==
    /\ ~Ended
    /\ LET s == Here.stmts[Now.i] IN
       IF s.kind # "Assign" THEN calls' = Resumed([Now EXCEPT !.i = @ + 1]) /\ captures' = captures
       ELSE /\ calls' = Resumed([Now EXCEPT !.i = @ + 1,
                                            !.tys = Write(@, s.place, ValueTy(@, s.rv))])
            /\ captures' = IF s.rv.kind # "Closure" THEN captures
                           ELSE [d \in DOMAIN captures \union {s.rv.def} |->
                                   IF d = s.rv.def THEN OpTys(Now.tys, s.rv.ops) ELSE captures[d]]
    /\ UNCHANGED leaked

\* What the terminator still has to run: its function, then the glue.
Glue == IF Here.term.kind = "Drop" THEN Here.term.glue ELSE <<>>
Todo == SubSeq(<<[fun |-> Here.term.fun, args |-> Here.term.args]>> \o Glue,
               Now.glue + 1, Len(Glue) + 1)

Tys(call) ==
    IF Here.term.kind = "Drop" THEN <<Construct("mutref", OpTy(Now.tys, call.args[1]))>>
    ELSE OpTys(Now.tys, call.args)

Leaks(fun) == fun.kind = "Other" \/ fun.def \notin Allowlist

Call ==
    /\ Ended
    /\ Todo # <<>>
    /\ LET call == Head(Todo)
           fun == call.fun
           caller == Resumed([Now EXCEPT !.glue = @ + 1])
           protected == {k \in DOMAIN call.args : Protected(Now, call.args[k])}
           target == IF fun.kind = "FnDef" THEN Target(fun, Tys(call)) ELSE NoInst
       IN  IF target = NoInst
           THEN /\ calls' = caller
                /\ leaked' = (leaked \/ (fun.kind # "None" /\ protected # {} /\ Leaks(fun)))
           ELSE /\ Len(calls) < MaxDepth
                /\ calls' = Append(caller, Enter(target, Tys(call), Received(target, protected)))
                /\ leaked' = leaked
    /\ UNCHANGED captures

Jump ==
    /\ Ended
    /\ Todo = <<>>
    /\ \E b \in ToSet(Here.term.succ) :
          calls' = Resumed([Now EXCEPT !.bb = b, !.i = 1, !.glue = 0])
    /\ UNCHANGED <<captures, leaked>>

Return ==
    /\ Ended
    /\ Todo = <<>>
    /\ Here.term.succ = <<>>
    /\ calls' = IF Len(calls) = 1 THEN <<>>
                ELSE LET caller == calls[Len(calls) - 1]
                         t == Program[caller.inst].blocks[caller.bb].term
                     IN  Append(SubSeq(calls, 1, Len(calls) - 2),
                                [caller EXCEPT !.tys = Write(@, t.dest, Now.tys[<<0>>])])
    /\ UNCHANGED <<captures, leaked>>

Run == calls # <<>> /\ (Execute \/ Call \/ Jump \/ Return)

==============================================================================
