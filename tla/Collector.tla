------------------------------ MODULE Collector ------------------------------
(***************************************************************************)
(* The collector (collector/collector.rs with partial_function_info.rs,    *)
(* virtual_stack.rs and closure_collector.rs): a dataflow analysis of one  *)
(* body whose transfer function of a call runs the collector on every      *)
(* function the call may reach, and so on recursively.                     *)
(*                                                                         *)
(* The recursion is the sequence frames, the analysed function on top; the *)
(* code's virtual stack is the sequence of the frames' functions.  A body  *)
(* is data of the program under analysis: blocks of statements, each block *)
(* ended by one terminator.  The fixpoint engine and its results cursor    *)
(* are rustc's; they are modelled as collector.rs drives them.             *)
(***************************************************************************)
EXTENDS CollectorDomain, ClosureInfo, FunctionInfo

CONSTANTS
    Inst,             \* function instances
    NoInst,           \* the outcome of a failed Instance::resolve
    Program,          \* definition, signature and body of every instance
    InstanceOf(_, _), \* Instance::resolve of a definition with substitutions
    Generics,         \* Generics[d]: number and signature of d's parameters
    Mir,              \* definitions whose body was dumped and can be loaded
    Local,            \* definitions of the crate under analysis
    Origins,          \* instances an analysis may start from
    Shallow           \* the configuration's "shallow"

\* A name of its own, so that TLC evaluates the program once.
Fn == Program

\* The definition a function type resolves to.
ResolvedDef(fun) == IF fun.inst = NoInst THEN fun.def ELSE Fn[fun.inst].def

\* The instance a closure of definition def is met at.
IsClosureOf(i, def) == i \in Inst /\ Fn[i].kind = "closure" /\ Fn[i].def = def

\* A body's blocks, successors and callees exist.
IsBody(blocks) ==
    /\ IsSeq(blocks)
    /\ \A b \in DOMAIN blocks :
          LET t == blocks[b].term IN
          /\ IsSeq(blocks[b].stmts)
          /\ t.succ \in Seq(DOMAIN blocks)
          /\ t.fun.kind = "FnDef" =>
                /\ t.fun.inst \in Inst \union {NoInst}
                /\ \/ ResolvedDef(t.fun) \in Mir
                   \/ {t.fun.def, ResolvedDef(t.fun)} \subseteq DOMAIN Generics
          /\ \A k \in DOMAIN blocks[b].stmts :
                LET s == blocks[b].stmts[k] IN
                s.kind = "Assign" /\ s.rv.kind = "Closure" => IsClosureOf(s.rv.inst, s.rv.def)

\* The places a statement captures.
Captured(s) ==
    IF s.kind = "Assign" /\ s.rv.kind = "Closure" THEN {s.rv.ops[k].place : k \in DOMAIN s.rv.ops}
    ELSE {}

ASSUME ProgramAssumption ==
    /\ NoInst \notin Inst
    /\ Origins \subseteq Inst
    /\ Shallow \in BOOLEAN
    /\ \A i \in Inst :
          /\ Fn[i].blocks # <<>> => Fn[i].rpo \in Seq(DOMAIN Fn[i].blocks)
          /\ IsBody(Fn[i].blocks)
          /\ Fn[i].blocks # <<>> => \A p \in DOMAIN Fn[i].decl : IsSeq(p) /\ p # NoPlace
          /\ \A b \in DOMAIN Fn[i].blocks :
                \A k \in DOMAIN Fn[i].blocks[b].stmts :
                   Captured(Fn[i].blocks[b].stmts[k]) \subseteq DOMAIN Fn[i].decl \union {NoPlace}
          /\ \A b \in DOMAIN Fn[i].blocks :
                Fn[i].blocks[b].term.fun.kind = "FnDef" =>
                    Fn[i].blocks[b].term.dest \in DOMAIN Fn[i].decl \union {NoPlace}
          /\ \A c \in Fn[i].closures : IsClosureOf(c.inst, c.def)
    /\ \A i \in Origins : Fn[i].blocks # <<>>

\* What the compiler is asked for is answered within the program.
ASSUME ResolutionAssumption ==
    \A d, called \in DOMAIN Generics :
        /\ Generics[d].count \in Nat
        /\ \A s \in [1..Generics[called].count -> Ty] : InstanceOf(d, s) \in Inst \union {NoInst}

VARIABLES
    frames,    \* the functions under analysis, innermost last
    fns,       \* the function storage
    closures,  \* the closure storage
    origin,    \* the instance the analysis was started for
    status     \* "running", "done" or "panicked"

vars == <<frames, fns, closures, origin, status>>

----------------------------------------------------------------------------
(* Functions to analyse (PartialFunctionInfo) and their resolution.        *)

IsClosure(i) == Fn[i].kind = "closure"
HasNoBody(i) == Fn[i].kind \in {"intrinsic", "virtual"}

\* Function items declare their argument types; a closure declares its
\* environment and the tuple of its arguments.
ProvidedArgs(i) ==
    LET tys == [k \in DOMAIN Fn[i].inputs |-> FromTy(Fn[i].inputs[k])]
    IN  IF IsClosure(i) THEN AsClosure(tys) ELSE tys

\* All substitutions the argument types allow, as many as the call has, in the
\* definition it resolves to.
PlausibleInstances(fun, args) ==
    LET d == ResolvedDef(fun)
        n == Generics[fun.def].count
        substs == [k \in 1..n |-> ExtractSubsts(args, Generics[d].inputs, k)]
    IN  IF n = 0 THEN {}
        ELSE {InstanceOf(d, s) : s \in
                {s \in [1..n -> UNION {substs[k] : k \in 1..n}] : \A k \in 1..n : s[k] \in substs[k]}}
             \ {NoInst}

Candidates(fun, args) ==
    IF ResolvedDef(fun) \in Mir THEN {fun.inst} ELSE PlausibleInstances(fun, args)

Assemble(i, args) ==
    LET inferred == IF IsClosure(i) THEN AsClosure(args) ELSE args
        info == closures[Fn[i].def]
    IN  [inst   |-> IF IsClosure(i) THEN info.inst ELSE i,
         args   |-> Merge(inferred, ProvidedArgs(i)),
         upvars |-> IF IsClosure(i) THEN info.upvars ELSE <<>>]

\* resolve(): one unknown closure makes the whole resolution fail.
Resolve(fun, args) ==
    LET found == Candidates(fun, args)
    IN  IF \A i \in found : IsClosure(i) => Fn[i].def \in DOMAIN closures
        THEN {Assemble(i, args) : i \in found} ELSE {}

\* The item the virtual stack compares: the definition, not the instance.
StackItem(fn) == <<Fn[fn.inst].def, fn.args>>

\* Mutant: the function the analysis started from was never pushed.
OnStack_NoOrigin(fn) == \E k \in 2..Len(frames) : StackItem(frames[k].fn) = StackItem(fn)

OnStack(fn) == \E k \in DOMAIN frames : StackItem(frames[k].fn) = StackItem(fn)

----------------------------------------------------------------------------
(* The initial state of a body (bottom_value).                             *)

Declared(i) == [p \in DOMAIN Fn[i].decl |-> FromTy(Fn[i].decl[p])]

\* Mutant: the environment is taken to be passed by value.
UpvarPlace_NoDeref(i, k) == <<1, k - 1>>

\* Captured variables live behind the closure's environment argument.
UpvarPlace(i, k) ==
    Append(IF Fn[i].decl[<<1>>] \in RefTy THEN <<1, Deref>> ELSE <<1>>, k - 1)

\* A closure's own environment argument is not injected.
FirstArg(i) == IF IsClosure(i) THEN 1 ELSE 0
InjectedArgs(fn) == SubSeq(fn.args, FirstArg(fn.inst) + 1, Len(fn.args))
ArgPlaces(fn) == [k \in DOMAIN InjectedArgs(fn) |-> <<k + FirstArg(fn.inst)>>]
UpvarPlaces(fn) == [k \in DOMAIN fn.upvars |-> UpvarPlace(fn.inst, k)]

\* The place of a captured variable is made up with a field of type (), which
\* has nothing inside.
UpvarPaths(fn) == [k \in DOMAIN fn.upvars |-> ThroughRef(UpvarPlaces(fn)[k], fn.upvars[k])]

WithUpvars(fn) == InjectAll(Declared(fn.inst), fn.upvars, UpvarPlaces(fn), UpvarPaths(fn))

ArgPaths(fn) ==
    [k \in DOMAIN InjectedArgs(fn) |->
        Paths(WithUpvars(fn), ArgPlaces(fn)[k], InjectedArgs(fn)[k])]

BottomValue(fn) ==
    NewDomain(InjectAll(WithUpvars(fn), InjectedArgs(fn), ArgPlaces(fn), ArgPaths(fn)))

CanStart(fn) ==
    /\ Fn[fn.inst].blocks # <<>>
    /\ CanInjectAll(Declared(fn.inst), fn.upvars, UpvarPlaces(fn), UpvarPaths(fn))
    /\ CanInjectAll(WithUpvars(fn), InjectedArgs(fn), ArgPlaces(fn), ArgPaths(fn))

\* Mutant: the final pass starts from a domain without places.
NewFrame_EmptyResult(fn) ==
    LET bottom == BottomValue(fn)
    IN  [fn |-> fn, phase |-> "fixpoint", pc |-> "engine",
         entry |-> [b \in DOMAIN Fn[fn.inst].blocks |-> bottom],
         queue |-> Fn[fn.inst].rpo, bb |-> 0, i |-> 0, out |-> <<>>,
         st |-> bottom, acc |-> NewDomain(<<>>), todo |-> {}, tys |-> <<>>]

NewFrame(fn) ==
    LET bottom == BottomValue(fn)
    IN  [fn |-> fn, phase |-> "fixpoint", pc |-> "engine",
         entry |-> [b \in DOMAIN Fn[fn.inst].blocks |-> bottom],
         queue |-> Fn[fn.inst].rpo, bb |-> 0, i |-> 0, out |-> <<>>,
         st |-> bottom, acc |-> bottom, todo |-> {}, tys |-> <<>>]

----------------------------------------------------------------------------
(* The frame on top of the stack.                                          *)

Top == frames[Len(frames)]
SetTop(f) == frames' = [frames EXCEPT ![Len(frames)] = f]

Running(pc) == status = "running" /\ Top.pc = pc

Block(f) == Fn[f.fn.inst].blocks[f.bb]
Term(f) == Block(f).term

AtStatement(f) == f.pc = "effects" /\ f.i <= Len(Block(f).stmts)
AtTerminator(f) == f.pc = "effects" /\ f.i > Len(Block(f).stmts)
Stmt(f) == Block(f).stmts[f.i]
Succ(f, b) == Fn[f.fn.inst].blocks[b].term.succ

NextBlock(f) == IF f.phase = "fixpoint" THEN 1 ELSE f.bb + 1
Exhausted(f) ==
    /\ f.pc = "engine" /\ f.phase = "cursor" /\ f.bb = Len(Fn[f.fn.inst].blocks)

\* The arguments of a call, or of the destructor a drop runs.
SiteTys(t, places) ==
    IF t.kind = "Drop" THEN <<FromTy(Construct("mutref", t.args[1].ty))>>
    ELSE OperandTys(places, t.args)
CallTys(f) == SiteTys(Term(f), f.st.places)

Calls(f, kind) == AtTerminator(f) /\ Term(f).fun.kind = kind

\* Mutant: every function with a loadable body counts as local.
IsSkipped_Loadable(f) == Shallow /\ Term(f).fun.def \notin Mir

IsSkipped(f) == Shallow /\ Term(f).fun.def \notin Local

----------------------------------------------------------------------------
(* Results of a callee.                                                    *)

CanReturnTo(f, ty) == Term(f).dest # NoPlace => CanUpdate(f.st, Term(f).dest, ty)

\* The caller's frame once callee fn has been dealt with: the call is
\* recorded and its result written to the destination.
Returned(f, fn, call, ty) ==
    LET called == AddCall(f.st, call)
    IN  [f EXCEPT !.todo = @ \ {fn},
                  !.st = IF Term(f).dest = NoPlace THEN called
                         ELSE UpdateWith(called, Term(f).dest, ty)]

\* Mutant: the declared return type only.
CalleeReturnTy_Declared(fn, result) == FromTy(Fn[fn.inst].decl[ReturnPlace])

CalleeReturnTy(fn, result) == ReturnTy(result, Fn[fn.inst].decl[ReturnPlace])

CallOf(f, fn) == CallWithBody(fn.inst, Term(f).args)
BodylessCallOf(f, fn) == CallWithoutBody(Fn[fn.inst].def, Term(f).args)

\* A stored function's result, as run() returns it instead of a new analysis.
Cached(fn) == HasBodyInfo(fns, fn.inst)
CachedResult(fn) ==
    LET info == GetWithBody(fns, fn.inst)
    IN  [places |-> info.places, calls |-> info.calls, unhandled |-> info.unhandled]

----------------------------------------------------------------------------
\* collect() starts from the declared argument types.
OriginFn(i) ==
    [inst   |-> i,
     args   |-> [k \in 1..Fn[i].nargs |-> FromTy(Fn[i].decl[<<k>>])],
     upvars |-> <<>>]

\* The declared types of a body are consistent with each other.
ASSUME OriginAssumption == \A i \in Origins : CanStart(OriginFn(i))

\* The instances a call of function type fun may end up in.
CalleesOf(fun) ==
    LET d == ResolvedDef(fun)
    IN  IF d \in Mir THEN {fun.inst}
        ELSE {InstanceOf(d, s) : s \in [1..Generics[fun.def].count -> Ty]} \ {NoInst}

Arity(t) == IF t.kind = "Drop" THEN 1 ELSE Len(t.args)

\* The arguments of an origin are those its signature declares, and whatever
\* may call it passes as many.  (Closures receive theirs in a tuple.)
ASSUME SignatureAssumption ==
    /\ \A i \in Origins :
          ~IsClosure(i) =>
             /\ IsSeq(Fn[i].inputs)
             /\ Fn[i].nargs = Len(Fn[i].inputs)
             /\ \A k \in 1..Fn[i].nargs : Fn[i].decl[<<k>>] = Fn[i].inputs[k]
    /\ \A j \in Inst : \A b \in DOMAIN Fn[j].blocks :
          LET t == Fn[j].blocks[b].term
          IN  t.fun.kind = "FnDef" =>
                \A i \in CalleesOf(t.fun) \cap Origins :
                   ~IsClosure(i) => IsSeq(t.args) /\ Arity(t) = Fn[i].nargs

\* What precheck asks of the arguments before it lets an analysis start.
IsConcrete(i) == \A k \in 1..Fn[i].nargs : IsPresent(FromTy(Fn[i].decl[<<k>>]))

Init ==
    /\ origin \in Origins
    /\ frames = <<NewFrame(OriginFn(origin))>>
    /\ fns = <<>>
    /\ closures = CollectClosures(<<>>, Fn[origin].closures)
    /\ status = "running"

\* The engine takes a block off its work queue.
PickBlock ==
    /\ Running("engine")
    /\ Top.queue # <<>>
    /\ LET b == Head(Top.queue)
       IN  SetTop([Top EXCEPT !.queue = Tail(@), !.bb = b, !.i = 1,
                              !.out = Succ(Top, b), !.st = Top.entry[b], !.pc = "effects"])
    /\ UNCHANGED <<fns, closures, origin, status>>

\* With the fixpoint reached, the cursor visits every block once more, in
\* order, reachable or not, and applies the transfer functions again.
SeekBlock ==
    /\ Running("engine")
    /\ Top.queue = <<>>
    /\ ~Exhausted(Top)
    /\ LET b == NextBlock(Top)
       IN  SetTop([Top EXCEPT !.phase = "cursor", !.bb = b, !.i = 1,
                              !.out = <<>>, !.st = Top.entry[b], !.pc = "effects"])
    /\ UNCHANGED <<fns, closures, origin, status>>

CanAssign(f, s) ==
    /\ CanEvaluate(f.st.places, s.rv)
    /\ s.rv.kind = "Closure" =>
          CanUpdateClosure(closures, s.rv.def, OperandTys(f.st.places, s.rv.ops))
    /\ CanUpdate(f.st, s.place, RvalueTy(f.st.places, s.rv))

Assign ==
    /\ Running("effects")
    /\ AtStatement(Top)
    /\ LET s == Stmt(Top) IN
       /\ s.kind = "Assign"
       /\ CanAssign(Top, s)
       /\ SetTop([Top EXCEPT !.i = @ + 1,
                             !.st = UpdateWith(@, s.place, RvalueTy(@.places, s.rv))])
       /\ closures' = IF s.rv.kind = "Closure"
                      THEN UpdateClosure(closures, s.rv.def, s.rv.inst,
                                         OperandTys(Top.st.places, s.rv.ops))
                      ELSE closures
    /\ UNCHANGED <<fns, origin, status>>

SkipStatement ==
    /\ Running("effects")
    /\ AtStatement(Top)
    /\ Stmt(Top).kind # "Assign"
    /\ SetTop([Top EXCEPT !.i = @ + 1])
    /\ UNCHANGED <<fns, closures, origin, status>>

\* A terminator that calls nothing, or drops a value without a destructor
\* of its own.
SkipTerminator ==
    /\ Running("effects")
    /\ Calls(Top, "None")
    /\ SetTop([Top EXCEPT !.pc = "callees"])
    /\ UNCHANGED <<fns, closures, origin, status>>

\* In shallow mode a call that leaves the crate is dropped without a trace.
SkipForeignCall ==
    /\ Running("effects")
    /\ Calls(Top, "FnDef")
    /\ IsSkipped(Top)
    /\ SetTop([Top EXCEPT !.pc = "callees"])
    /\ UNCHANGED <<fns, closures, origin, status>>

\* Anything but a function item, a function pointer for one.
CallUnhandled ==
    /\ Running("effects")
    /\ Calls(Top, "Other")
    /\ SetTop([Top EXCEPT !.pc = "callees", !.st = AddUnhandled(@, Term(Top).fun.ty)])
    /\ UNCHANGED <<fns, closures, origin, status>>

CannotResolve(f) == ResolvedDef(Term(f).fun) \in Mir /\ Term(f).fun.inst = NoInst

\* No callee can be named: the called definition is kept without a body.
CallUnresolved ==
    /\ Running("effects")
    /\ Calls(Top, "FnDef")
    /\ ~IsSkipped(Top)
    /\ ~CannotResolve(Top)
    /\ Resolve(Term(Top).fun, CallTys(Top)) = {}
    /\ fns' = Insert(fns, WithoutBody(Term(Top).fun.def, CallTys(Top)))
    /\ SetTop([Top EXCEPT !.pc = "callees",
                          !.st = AddCall(@, CallWithoutBody(Term(Top).fun.def, Term(Top).args))])
    /\ UNCHANGED <<closures, origin, status>>

CallResolved ==
    /\ Running("effects")
    /\ Calls(Top, "FnDef")
    /\ ~IsSkipped(Top)
    /\ ~CannotResolve(Top)
    /\ LET callees == Resolve(Term(Top).fun, CallTys(Top)) IN
       /\ callees # {}
       /\ SetTop([Top EXCEPT !.pc = "callees", !.todo = callees, !.tys = CallTys(Top)])
    /\ UNCHANGED <<fns, closures, origin, status>>

\* Mutant: a repeated call is recorded all the same.
SkipRepeated_Recorded(fn) ==
    /\ Running("callees")
    /\ fn \in Top.todo
    /\ OnStack(fn)
    /\ SetTop([Top EXCEPT !.todo = @ \ {fn}, !.st = AddCall(@, CallOf(Top, fn))])
    /\ UNCHANGED <<fns, closures, origin, status>>

\* A function already being analysed with the same arguments: neither the
\* call nor its result is recorded.
SkipRepeated(fn) ==
    /\ Running("callees")
    /\ fn \in Top.todo
    /\ OnStack(fn)
    /\ SetTop([Top EXCEPT !.todo = @ \ {fn}])
    /\ UNCHANGED <<fns, closures, origin, status>>

CallBodyless(fn) ==
    /\ Running("callees")
    /\ fn \in Top.todo
    /\ ~OnStack(fn)
    /\ HasNoBody(fn.inst)
    /\ CanReturnTo(Top, FromTy(Fn[fn.inst].output))
    /\ fns' = Insert(fns, WithoutBody(Fn[fn.inst].def, Top.tys))
    /\ SetTop(Returned(Top, fn, BodylessCallOf(Top, fn), FromTy(Fn[fn.inst].output)))
    /\ UNCHANGED <<closures, origin, status>>

\* Mutant: a call answered from the storage is not recorded again.
CallCached_Unrecorded(fn) ==
    /\ Running("callees")
    /\ fn \in Top.todo
    /\ ~OnStack(fn)
    /\ ~HasNoBody(fn.inst)
    /\ Cached(fn)
    /\ SetTop([Top EXCEPT !.todo = @ \ {fn}])
    /\ UNCHANGED <<fns, closures, origin, status>>

\* The storage is searched by instance only, whatever the arguments.
CallCached(fn) ==
    /\ Running("callees")
    /\ fn \in Top.todo
    /\ ~OnStack(fn)
    /\ ~HasNoBody(fn.inst)
    /\ Cached(fn)
    /\ LET ty == CalleeReturnTy(fn, CachedResult(fn)) IN
       /\ CanReturnTo(Top, ty)
       /\ SetTop(Returned(Top, fn, CallOf(Top, fn), ty))
    /\ fns' = Insert(fns, WithBody(fn.inst, CachedResult(fn)))
    /\ UNCHANGED <<closures, origin, status>>

Enter(fn) ==
    /\ Running("callees")
    /\ fn \in Top.todo
    /\ ~OnStack(fn)
    /\ ~HasNoBody(fn.inst)
    /\ ~Cached(fn)
    /\ CanStart(fn)
    /\ frames' = Append(frames, NewFrame(fn))
    /\ closures' = CollectClosures(closures, Fn[fn.inst].closures)
    /\ UNCHANGED <<fns, origin, status>>

\* Mutants: two states are equal if their places are, as in the PartialEq
\* of the domain; join() always reports a change.
Changed_PlacesOnly(old, new) == new.places # old.places
Changed_Always(old, new) == TRUE

\* What join() reports.
Changed(old, new) == new # old

\* The end of a block's effects during the fixpoint: the state flows into
\* one successor after the other, and one that changed is queued again.
FlowOut ==
    /\ Running("callees")
    /\ Top.todo = {}
    /\ Top.phase = "fixpoint"
    /\ Top.out # <<>>
    /\ LET b == Head(Top.out)
           joined == JoinDomain(Top.entry[b], Top.st)
           again == Changed(Top.entry[b], joined) /\ b \notin ToSet(Top.queue)
       IN  SetTop([Top EXCEPT !.out = Tail(@),
                              !.entry[b] = joined,
                              !.queue = IF again THEN Append(@, b) ELSE @])
    /\ UNCHANGED <<fns, closures, origin, status>>

LeaveBlock ==
    /\ Running("callees")
    /\ Top.todo = {}
    /\ Top.phase = "fixpoint"
    /\ Top.out = <<>>
    /\ SetTop([Top EXCEPT !.pc = "engine"])
    /\ UNCHANGED <<fns, closures, origin, status>>

\* Mutant: the state at the end of the last block stands for all.
Accumulate_Last ==
    /\ Running("callees")
    /\ Top.todo = {}
    /\ Top.phase = "cursor"
    /\ SetTop([Top EXCEPT !.acc = Top.st, !.pc = "engine"])
    /\ UNCHANGED <<fns, closures, origin, status>>

\* The same under the cursor: the states at all block ends are joined.
Accumulate ==
    /\ Running("callees")
    /\ Top.todo = {}
    /\ Top.phase = "cursor"
    /\ SetTop([Top EXCEPT !.acc = IF Top.bb = 1 THEN Top.st ELSE JoinDomain(@, Top.st),
                          !.pc = "engine"])
    /\ UNCHANGED <<fns, closures, origin, status>>

Caller == frames[Len(frames) - 1]

\* The innermost analysis ends and its caller takes the result over.
Return ==
    /\ Running("engine")
    /\ Exhausted(Top)
    /\ Len(frames) > 1
    /\ LET fn == Top.fn
           ty == CalleeReturnTy(fn, Top.acc)
       IN  /\ CanReturnTo(Caller, ty)
           /\ fns' = Insert(fns, WithBody(fn.inst, Top.acc))
           /\ frames' = [Front(frames) EXCEPT
                           ![Len(frames) - 1] = Returned(@, fn, CallOf(@, fn), ty)]
    /\ UNCHANGED <<closures, origin, status>>

\* collect() stores the origin last.
Finish ==
    /\ Running("engine")
    /\ Exhausted(Top)
    /\ Len(frames) = 1
    /\ fns' = Insert(fns, WithBody(Top.fn.inst, Top.acc))
    /\ status' = "done"
    /\ UNCHANGED <<frames, closures, origin>>

\* What the next step of the top frame would unwrap or assert in vain.
CalleePanics(fn) ==
    /\ ~OnStack(fn)
    /\ \/ HasNoBody(fn.inst) /\ ~CanReturnTo(Top, FromTy(Fn[fn.inst].output))
       \/ /\ ~HasNoBody(fn.inst)
          /\ IF Cached(fn) THEN ~CanReturnTo(Top, CalleeReturnTy(fn, CachedResult(fn)))
             ELSE ~CanStart(fn)

Panics ==
    \/ AtStatement(Top) /\ Stmt(Top).kind = "Assign" /\ ~CanAssign(Top, Stmt(Top))
    \/ Calls(Top, "FnDef") /\ ~IsSkipped(Top) /\ CannotResolve(Top)
    \/ Top.pc = "callees" /\ \E fn \in Top.todo : CalleePanics(fn)
    \/ /\ Exhausted(Top) /\ Len(frames) > 1
       /\ ~CanReturnTo(Caller, CalleeReturnTy(Top.fn, Top.acc))

Panic ==
    /\ status = "running"
    /\ Panics
    /\ status' = "panicked"
    /\ UNCHANGED <<frames, fns, closures, origin>>

Stopped == status # "running" /\ UNCHANGED vars

Callee(fn) == SkipRepeated(fn) \/ CallBodyless(fn) \/ CallCached(fn) \/ Enter(fn)

Next ==
    \/ PickBlock \/ SeekBlock
    \/ Assign \/ SkipStatement
    \/ SkipTerminator \/ SkipForeignCall \/ CallUnhandled
    \/ CallUnresolved \/ CallResolved
    \/ \E fn \in Top.todo : Callee(fn)
    \/ FlowOut \/ LeaveBlock \/ Accumulate
    \/ Return \/ Finish \/ Panic
    \/ Stopped

Spec == Init /\ [][Next]_vars

\* The collector is one thread that keeps running.
FairSpec == Spec /\ WF_vars(Next)

----------------------------------------------------------------------------
(* Type correctness.                                                       *)

IsFunction(fn) ==
    /\ fn = [inst |-> fn.inst, args |-> fn.args, upvars |-> fn.upvars]
    /\ fn.inst \in Inst

\* A domain value over the places of f's body.
IsDomainOf(d, f) == IsDomain(d) /\ DOMAIN d.places = DOMAIN f.st.places

IsFrame(f) ==
    LET blocks == DOMAIN Fn[f.fn.inst].blocks IN
    /\ f = [fn |-> f.fn, phase |-> f.phase, pc |-> f.pc, entry |-> f.entry,
            queue |-> f.queue, bb |-> f.bb, i |-> f.i, out |-> f.out,
            st |-> f.st, acc |-> f.acc, todo |-> f.todo, tys |-> f.tys]
    /\ IsFunction(f.fn)
    /\ Fn[f.fn.inst].blocks # <<>>
    /\ f.phase \in {"fixpoint", "cursor"}
    /\ f.pc \in {"engine", "effects", "callees"}
    /\ f.bb \in blocks \union {0}
    /\ f.pc # "engine" => f.bb \in blocks
    /\ f.pc = "effects" => f.i \in Nat \ {0}
    /\ f.queue \in Seq(blocks)
    /\ f.out \in Seq(blocks)
    /\ DOMAIN f.entry = blocks
    /\ \A b \in blocks : IsDomainOf(f.entry[b], f)
    /\ IsDomainOf(f.st, f)
    /\ IsDomainOf(f.acc, f)
    /\ \A fn \in f.todo : IsFunction(fn)

IsClosureInfo(info) ==
    /\ info = [inst |-> info.inst, upvars |-> info.upvars]
    /\ info.inst \in Inst

\* Every variable stays in its type; above all, all domain values of a body
\* agree on its places, which the code's joins and lookups unwrap, and every
\* block and instance number in use exists.
TypeOK ==
    /\ IsSeq(frames)
    /\ frames # <<>>
    /\ \A k \in DOMAIN frames : IsFrame(frames[k])
    /\ IsSeq(fns)
    /\ \A def \in DOMAIN closures : IsClosureInfo(closures[def])
    /\ origin \in Origins
    /\ status \in {"running", "done", "panicked"}

----------------------------------------------------------------------------
(* Safety.                                                                 *)

\* Every call of a stored function is answered by a function stored before
\* it.  The analyzer unwraps get_by_call() and recurses into the answer
\* with no guard of its own: this order is why it neither panics nor loops.
StorageOrdered == CallsAnsweredEarlier(fns)

\* A call that any state of a running analysis holds is answered by the
\* storage already: whatever part of it ends up in the stored result, the
\* order above is kept.
CallsIn(f) == f.st.calls \union f.acc.calls \union UNION {f.entry[b].calls : b \in DOMAIN f.entry}
LiveCallsAnswered ==
    \A k \in DOMAIN frames : \A call \in CallsIn(frames[k]) : Answered(fns, call)

\* The storage behaves as the append-only log of CallLog.
Log == INSTANCE CallLog
ImplementsCallLog == Log!Spec

\* The definitions a call site may end up in, and the one a call was found to.
TargetDefs(fun) == {fun.def} \union {Fn[i].def : i \in CalleesOf(fun)}
CalledDef(call) == IF call.kind = "WithBody" THEN Fn[call.id].def ELSE call.id

OpenDefs(n) == {Fn[frames[k].fn.inst].def : k \in 1..n}

\* The state at a block's terminator: what the statements make of the one the
\* block is entered with.
Effect(d, s) ==
    IF s.kind = "Assign" THEN UpdateWith(d, s.place, RvalueTy(d.places, s.rv)) ELSE d
StateAt(stmts, n, d) ==
    LET after[k \in 0..n] == IF k = 0 THEN d ELSE Effect(after[k - 1], stmts[k])
    IN  after[n]
AtEnd(block, d) == StateAt(block.stmts, Len(block.stmts), d)

\* Function i is among the calls that d has for t, or has one of the given
\* definitions.  Of closures there is one instance per definition.
Reaches(t, i, d, defs) ==
    \/ Fn[i].def \in defs
    \/ \E call \in d.calls :
          /\ call.args = t.args
          /\ IF IsClosure(i) THEN CalledDef(call) = Fn[i].def
             ELSE call.id = IF call.kind = "WithBody" THEN i ELSE Fn[i].def

\* All that terminator t may be dispatched to, with the given types of its
\* operands, is in d, unless shallow mode skips it.  A call with no candidate,
\* or with a closure nobody has created yet, is in it without a body.
Covered(t, tys, d, defs) ==
    /\ t.fun.kind = "Other" => t.fun.ty \in d.unhandled
    /\ t.fun.kind = "FnDef" =>
          LET found == Candidates(t.fun, tys)
          IN  \/ Shallow /\ t.fun.def \notin Local
              \/ /\ found = {} \/ \E i \in found : IsClosure(i)
                 /\ CallWithoutBody(t.fun.def, t.args) \in d.calls
              \/ found # {} /\ \A i \in found : Reaches(t, i, d, defs)

\* When a body's analysis ends, every call site of every block is in the
\* result with every function it can be dispatched to, given the types that
\* its arguments have there: no target is lost on the way through the
\* fixpoint, the nested analyses, the final pass and the joins, except a
\* function that is itself still being analysed.
SitesCovered ==
    status = "running" /\ Exhausted(Top) =>
        \A b \in DOMAIN Top.entry :
            LET block == Fn[Top.fn.inst].blocks[b]
                tys == SiteTys(block.term, AtEnd(block, Top.entry[b]).places)
            IN  Covered(block.term, tys, Top.acc, OpenDefs(Len(frames)))

\* Terminator t is accounted for by the calls and unhandled types of d, by the
\* shallow option, or by one of the given definitions.
Accounted(t, d, defs) ==
    /\ t.fun.kind = "Other" => t.fun.ty \in d.unhandled
    /\ t.fun.kind = "FnDef" =>
          \/ Shallow /\ t.fun.def \notin Local
          \/ \E call \in d.calls : call.args = t.args /\ CalledDef(call) \in TargetDefs(t.fun)
          \/ defs \intersect TargetDefs(t.fun) # {}

SitesAccounted(info, defs) ==
    info.kind = "WithBody" =>
        \A b \in DOMAIN Fn[info.id].blocks : Accounted(Fn[info.id].blocks[b].term, info, defs)

\* No record is stored with a call site missing: every terminator of the
\* body, reachable or not, is in the record, unless shallow mode skips it or
\* a function it may call is under analysis at that moment.
RecordsAreComplete ==
    [][\A k \in DOMAIN fns' \ DOMAIN fns : SitesAccounted(fns'[k], OpenDefs(Len(frames)))]_fns

\* Terminator t may make the call, and what the callee's record says of its
\* return type is at the destination.
IsSiteOf(t, call) ==
    t.fun.kind = "FnDef" /\ t.args = call.args /\ CalledDef(call) \in TargetDefs(t.fun)
Arrived(call, dest, places, store) ==
    call.kind = "WithBody" /\ dest # NoPlace =>
        \E k \in DOMAIN store :
            /\ Answers(store[k], call)
            /\ LET ty == ReturnTy(store[k], Fn[call.id].decl[ReturnPlace])
               IN  Join(places[dest], ty) = places[dest]
CallsArrive(i, d, store) ==
    \A call \in d.calls : \E b \in DOMAIN Fn[i].blocks :
        LET t == Fn[i].blocks[b].term
        IN  IsSiteOf(t, call) /\ Arrived(call, t.dest, d.places, store)

\* Every call of a record is made somewhere in the body, and the result of the
\* callee has reached the place it is assigned to there: no type that a later
\* call might dispatch on is lost between a callee and its caller.
ResultsFlow ==
    \A k \in DOMAIN fns : fns[k].kind = "WithBody" => CallsArrive(fns[k].id, fns[k], fns)

\* What the final pass sees at the end of a reachable block is no more than
\* what the fixpoint already handed to the block's successors, although the
\* function and closure storages have changed in between.
CursorWithinFixpoint ==
    /\ status = "running"
    /\ Top.phase = "cursor"
    /\ Top.pc = "callees"
    /\ Top.todo = {}
    /\ Top.bb \in ToSet(Fn[Top.fn.inst].rpo)
    => \A b \in ToSet(Term(Top).succ) : JoinDomain(Top.entry[b], Top.st) = Top.entry[b]

\* What a place of the given declared type may hold, and the places of a body
\* of instance i that do.
Holds(declared, t) ==
    IF IsPresent(declared) THEN t = declared ELSE t = Erased(t.deps) /\ t.deps \subseteq Ty
Stands(i, places) ==
    \A p \in DOMAIN Fn[i].decl : p \in DOMAIN places /\ Holds(FromTy(Fn[i].decl[p]), places[p])

\* A place with a concrete declared type is Present with that type from the
\* first to the last state, and every other place holds a set of types:
\* neither arguments, captures nor results override a declaration.
DeclaredTypesStand == \A k \in DOMAIN frames : Stands(frames[k].fn.inst, frames[k].st.places)

\* The analysis ends with the record of the function it was started for, and
\* no earlier record of the same function hides it: the analyzer reads its
\* verdict off the first one it finds.
OriginLast ==
    status = "done" =>
        /\ Answers(fns[Len(fns)], CallWithBody(origin, <<>>))
        /\ FirstMatch(fns, CallWithBody(origin, <<>>)) = Len(fns)

\* No capture that was ever seen flowing into a closure is forgotten and the
\* instance it was first seen at stays, while functions that create it at
\* other types come and go.
ClosuresGrow ==
    [][\A def \in DOMAIN closures :
          /\ def \in DOMAIN closures'
          /\ closures'[def].inst = closures[def].inst
          /\ \A k \in DOMAIN closures[def].upvars :
                LET seen == closures[def].upvars[k]
                IN  Join(closures'[def].upvars[k], seen) = closures'[def].upvars[k]]_closures

\* What is not skipped in shallow mode stays in the crate: the origins, and
\* whatever an item of the crate can be resolved to.
CrateIsClosed ==
    /\ \A i \in Origins : Fn[i].def \in Local
    /\ \A i \in Inst : \A b \in DOMAIN Fn[i].blocks :
          LET fun == Fn[i].blocks[b].term.fun
          IN  fun.kind = "FnDef" /\ fun.def \in Local =>
                \A j \in CalleesOf(fun) : Fn[j].def \in Local

\* In shallow mode nothing is recorded that is not of the crate, through
\* trait methods, destructors and closures either.
ShallowStaysLocal ==
    Shallow => \A k \in DOMAIN fns :
        (IF fns[k].kind = "WithBody" THEN Fn[fns[k].id].def ELSE fns[k].id) \in Local

\* A stored result that replaces an analysis was computed for argument types
\* that cover those of the call.
CacheCoversCallee ==
    status = "running" /\ Top.pc = "callees" =>
        \A fn \in Top.todo :
            ~OnStack(fn) /\ ~HasNoBody(fn.inst) /\ Cached(fn) =>
                \A k \in DOMAIN fn.args :
                    fn.args[k].deps \subseteq CachedResult(fn).places[<<k>>].deps

----------------------------------------------------------------------------
(* Liveness.                                                               *)

\* The analysis of every program ends, through loops and through recursion
\* with changing argument types.
Termination == <>(status # "running")

=============================================================================
