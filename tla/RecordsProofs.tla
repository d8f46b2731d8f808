---------------------------- MODULE RecordsProofs ---------------------------
(***************************************************************************)
(* Proofs about what is recorded: the function an analysis was started for *)
(* last and once, in shallow mode nothing from outside the crate, and of   *)
(* each body every call site.  They follow the functions that are resolved *)
(* into the stack of frames and from there into the storage.               *)
(***************************************************************************)
EXTENDS CollectorProofs

----------------------------------------------------------------------------
(* Resolution.                                                             *)

\* find_plausible_instances() finds what a call may end up in.
LEMMA PlausibleCallees ==
    ASSUME NEW fun, ResolvedDef(fun) \notin Mir, NEW args
    PROVE  PlausibleInstances(fun, args) \subseteq CalleesOf(fun)
<1> DEFINE d == ResolvedDef(fun)
           n == Generics[fun.def].count
           substs == [k \in 1..n |-> ExtractSubsts(args, Generics[d].inputs, k)]
<1>1. ASSUME NEW s \in [1..n -> UNION {substs[k] : k \in 1..n}],
             \A k \in 1..n : s[k] \in substs[k]
      PROVE  s \in [1..n -> Ty]
  <2>1. \A k \in 1..n : substs[k] \subseteq Ty
    BY DEF ExtractSubsts
  <2> QED
    BY <1>1, <2>1
<1> QED
  BY <1>1 DEF PlausibleInstances, CalleesOf

\* A resolved function is an instance the call may end up in, or the closure
\* of the same definition the storage knows.
LEMMA ResolvedFrom ==
    ASSUME NEW fun, NEW args, NEW fn \in Resolve(fun, args)
    PROVE  \E i \in CalleesOf(fun) :
              /\ fn = Assemble(i, args)
              /\ IsClosure(i) => Fn[i].def \in DOMAIN closures
<1>1. Candidates(fun, args) \subseteq CalleesOf(fun)
  BY PlausibleCallees DEF Candidates, CalleesOf
<1> QED
  BY <1>1 DEF Resolve

\* The closure storage is about closures.
ClosuresKnown == \A def \in DOMAIN closures : IsClosureOf(closures[def].inst, def)

KnownIn(infos) == \A def \in DOMAIN infos : IsClosureOf(infos[def].inst, def)

\* update_with() of the closure storage keeps it so, whatever is captured.
LEMMA UpdateClosureKnown ==
    ASSUME NEW infos, KnownIn(infos), AllInfos(infos),
           NEW def, NEW inst, IsClosureOf(inst, def), NEW upvars
    PROVE  KnownIn(UpdateClosure(infos, def, inst, upvars))
<1> DEFINE updated == UpdateClosure(infos, def, inst, upvars)
<1>1. CASE def \notin DOMAIN infos
  <2>1. updated = [d \in DOMAIN infos \union {def} |->
                      IF d = def THEN [inst |-> inst, upvars |-> upvars] ELSE infos[d]]
    BY <1>1 DEF UpdateClosure
  <2> HIDE DEF updated
  <2>2. KnownIn(updated)
    BY <2>1 DEF KnownIn
  <2> QED
    BY <2>2 DEF updated
<1>2. CASE def \in DOMAIN infos
  <2>1. PICK new : updated = [infos EXCEPT ![def].upvars = new]
    BY <1>2 DEF UpdateClosure
  <2> HIDE DEF updated
  <2>2. /\ DOMAIN updated = DOMAIN infos
        /\ \A d \in DOMAIN infos : updated[d].inst = infos[d].inst
    BY <1>2, <2>1 DEF AllInfos, IsClosureInfo
  <2>3. KnownIn(updated)
    BY <2>2 DEF KnownIn
  <2> QED
    BY <2>3 DEF updated
<1> QED
  BY <1>1, <1>2

\* So does collect_closures().
LEMMA CollectClosuresKnown ==
    ASSUME NEW infos, KnownIn(infos), NEW i \in Inst
    PROVE  KnownIn(CollectClosures(infos, Fn[i].closures))
<1> DEFINE mentioned == Fn[i].closures
           first(def) == CHOOSE c \in mentioned : c.def = def
           collected == CollectClosures(infos, mentioned)
<1>1. \A c \in mentioned : IsClosureOf(c.inst, c.def)
  BY ProgramAssumption
<1>2. ASSUME NEW def \in {c.def : c \in mentioned}
      PROVE  IsClosureOf(first(def).inst, def)
  <2>1. \E c \in mentioned : c.def = def
    OBVIOUS
  <2>2. first(def) \in mentioned /\ first(def).def = def
    BY <2>1
  <2> QED
    BY <1>1, <2>2
<1>3. collected = [def \in DOMAIN infos \union {c.def : c \in mentioned} |->
                      IF def \in DOMAIN infos THEN infos[def]
                      ELSE [inst |-> first(def).inst, upvars |-> <<>>]]
  BY DEF CollectClosures
<1> HIDE DEF first, collected
<1>4. KnownIn(collected)
  BY <1>2, <1>3 DEF KnownIn
<1> QED
  BY <1>4 DEF collected

\* Every step keeps the closure storage about closures.
LEMMA StepKnown ==
    ASSUME TypeOK, ClosuresKnown, [Next]_vars
    PROVE  ClosuresKnown'
<1>1. KnownIn(closures) /\ AllInfos(closures)
  BY DEF ClosuresKnown, KnownIn, TypeOK, AllInfos
<1>2. CASE Assign /\ Stmt(Top).rv.kind = "Closure"
  <2> DEFINE rv == Stmt(Top).rv
             upvars == OperandTys(Top.st.places, rv.ops)
  <2>1. AtStatement(Top) /\ Stmt(Top).kind = "Assign"
    BY <1>2 DEF Assign
  <2>2. /\ Top.fn.inst \in Inst
        /\ Top.bb \in DOMAIN Fn[Top.fn.inst].blocks
        /\ Top.i \in DOMAIN Fn[Top.fn.inst].blocks[Top.bb].stmts
        /\ Stmt(Top) = Fn[Top.fn.inst].blocks[Top.bb].stmts[Top.i]
    BY <2>1, TopStatement
  <2>3. IsBody(Fn[Top.fn.inst].blocks)
    BY <2>2, ProgramAssumption
  <2>4. IsClosureOf(rv.inst, rv.def)
    BY <1>2, <2>1, <2>2, <2>3 DEF IsBody
  <2>5. closures' = UpdateClosure(closures, rv.def, rv.inst, upvars)
    BY <1>2 DEF Assign
  <2> HIDE DEF rv, upvars
  <2>6. KnownIn(closures')
    BY <1>1, <2>4, <2>5, UpdateClosureKnown
  <2> QED
    BY <2>6 DEF ClosuresKnown, KnownIn
<1>3. ASSUME NEW fn \in Top.todo, Enter(fn)
      PROVE  ClosuresKnown'
  <2>1. fn.inst \in Inst
    BY TopState DEF IsFunction
  <2>2. KnownIn(closures')
    BY <1>1, <1>3, <2>1, CollectClosuresKnown DEF Enter
  <2> QED
    BY <2>2 DEF ClosuresKnown, KnownIn
<1>4. CASE closures' = closures
  BY <1>4 DEF ClosuresKnown
<1>5. \/ Assign /\ Stmt(Top).rv.kind = "Closure"
      \/ closures' = closures
      \/ \E fn \in Top.todo : Enter(fn)
  BY DEF Next, Callee, PickBlock, SeekBlock, Assign, SkipStatement, SkipTerminator,
         SkipForeignCall, CallUnhandled, CallUnresolved, CallResolved, SkipRepeated,
         CallBodyless, CallCached, FlowOut, LeaveBlock, Accumulate, Return, Finish, Panic,
         Stopped, vars
<1> QED
  BY <1>2, <1>3, <1>4, <1>5

----------------------------------------------------------------------------
(* The functions on the stack and those still to be dealt with.            *)

\* fn is among what the call the top frame is at is resolved to.
NewCallee(fn) ==
    /\ Running("effects")
    /\ Calls(Top, "FnDef")
    /\ ~IsSkipped(Top)
    /\ fn \in Resolve(Term(Top).fun, CallTys(Top))

\* The top frame after a step: its function, and callees it had or resolved.
FrameTurns(f) ==
    /\ SetTop(f)
    /\ f.fn = Top.fn
    /\ \A fn \in f.todo : fn \in Top.todo \/ NewCallee(fn)

\* A step that resolves nothing.
LEMMA Unresolving ==
    ASSUME NEW new, SetTop(new), new.fn = Top.fn, new.todo \subseteq Top.todo
    PROVE  \E f : FrameTurns(f)
  BY DEF FrameTurns

\* Every action that changes the top frame only.
LEMMA LocalTurns ==
    ASSUME TypeOK, LocalAction
    PROVE  \E f : FrameTurns(f)
<1>1. IsFrame(Top)
  BY TopIsFrame
<1>2. CASE PickBlock
  <2> DEFINE b == Head(Top.queue)
             out == Succ(Top, b)
             st == Top.entry[b]
             new == [Top EXCEPT !.queue = Tail(Top.queue), !.bb = b, !.i = 1,
                                !.out = out, !.st = st, !.pc = "effects"]
  <2>1. SetTop(new)
    BY <1>2 DEF PickBlock
  <2> HIDE DEF b, out, st
  <2>2. new.fn = Top.fn /\ new.todo = Top.todo
    BY <1>1 DEF IsFrame
  <2> HIDE DEF new
  <2> QED
    BY <2>1, <2>2, Unresolving
<1>3. CASE SeekBlock
  <2> DEFINE b == NextBlock(Top)
             st == Top.entry[b]
             new == [Top EXCEPT !.phase = "cursor", !.bb = b, !.i = 1, !.out = <<>>,
                                !.st = st, !.pc = "effects"]
  <2>1. SetTop(new)
    BY <1>3 DEF SeekBlock
  <2> HIDE DEF b, st
  <2>2. new.fn = Top.fn /\ new.todo = Top.todo
    BY <1>1 DEF IsFrame
  <2> HIDE DEF new
  <2> QED
    BY <2>1, <2>2, Unresolving
<1>4. ASSUME NEW pc, NEW i, NEW st, NEW todo, todo \subseteq Top.todo,
             SetTop([Top EXCEPT !.pc = pc, !.i = i, !.st = st, !.todo = todo])
      PROVE  \E f : FrameTurns(f)
  <2> DEFINE new == [Top EXCEPT !.pc = pc, !.i = i, !.st = st, !.todo = todo]
  <2>1. new.fn = Top.fn /\ new.todo = todo
    BY <1>1 DEF IsFrame
  <2>2. SetTop(new)
    BY <1>4
  <2> HIDE DEF new
  <2> QED
    BY <1>4, <2>1, <2>2, Unresolving
<1>5. ASSUME NEW pc, NEW i, NEW st,
             SetTop([Top EXCEPT !.pc = pc, !.i = i, !.st = st])
      PROVE  \E f : FrameTurns(f)
  <2>1. [Top EXCEPT !.pc = pc, !.i = i, !.st = st]
          = [Top EXCEPT !.pc = pc, !.i = i, !.st = st, !.todo = Top.todo]
    BY <1>1 DEF IsFrame
  <2>2. SetTop([Top EXCEPT !.pc = pc, !.i = i, !.st = st, !.todo = Top.todo])
    BY <1>5, <2>1
  <2> QED
    BY <1>4, <2>2
<1>6. CASE Assign
  <2> DEFINE st == UpdateWith(Top.st, Stmt(Top).place, RvalueTy(Top.st.places, Stmt(Top).rv))
  <2>1. SetTop([Top EXCEPT !.i = Top.i + 1, !.st = st])
    BY <1>6 DEF Assign
  <2> HIDE DEF st
  <2>2. [Top EXCEPT !.i = Top.i + 1, !.st = st]
          = [Top EXCEPT !.pc = Top.pc, !.i = Top.i + 1, !.st = st]
    BY <1>1 DEF IsFrame
  <2>3. SetTop([Top EXCEPT !.pc = Top.pc, !.i = Top.i + 1, !.st = st])
    BY <2>1, <2>2
  <2> QED
    BY <1>5, <2>3
<1>7. CASE SkipStatement
  <2>1. [Top EXCEPT !.i = Top.i + 1] = [Top EXCEPT !.pc = Top.pc, !.i = Top.i + 1, !.st = Top.st]
    BY <1>1 DEF IsFrame
  <2>2. SetTop([Top EXCEPT !.pc = Top.pc, !.i = Top.i + 1, !.st = Top.st])
    BY <1>7, <2>1 DEF SkipStatement
  <2> QED
    BY <1>5, <2>2
<1>8. ASSUME NEW pc, SetTop([Top EXCEPT !.pc = pc])
      PROVE  \E f : FrameTurns(f)
  <2>1. [Top EXCEPT !.pc = pc] = [Top EXCEPT !.pc = pc, !.i = Top.i, !.st = Top.st]
    BY <1>1 DEF IsFrame
  <2>2. SetTop([Top EXCEPT !.pc = pc, !.i = Top.i, !.st = Top.st])
    BY <1>8, <2>1
  <2> QED
    BY <1>5, <2>2
<1>9. CASE SkipTerminator \/ SkipForeignCall \/ LeaveBlock
  BY <1>8, <1>9 DEF SkipTerminator, SkipForeignCall, LeaveBlock
<1>10. ASSUME NEW st, SetTop([Top EXCEPT !.pc = "callees", !.st = st])
       PROVE  \E f : FrameTurns(f)
  <2>1. [Top EXCEPT !.pc = "callees", !.st = st]
          = [Top EXCEPT !.pc = "callees", !.i = Top.i, !.st = st]
    BY <1>1 DEF IsFrame
  <2>2. SetTop([Top EXCEPT !.pc = "callees", !.i = Top.i, !.st = st])
    BY <1>10, <2>1
  <2> QED
    BY <1>5, <2>2
<1>11. CASE CallUnhandled \/ CallUnresolved
  BY <1>10, <1>11 DEF CallUnhandled, CallUnresolved
<1>12. CASE CallResolved
  <2> DEFINE callees == Resolve(Term(Top).fun, CallTys(Top))
             tys == CallTys(Top)
             new == [Top EXCEPT !.pc = "callees", !.todo = callees, !.tys = tys]
  <2>1. SetTop(new) /\ \A fn \in callees : NewCallee(fn)
    BY <1>12 DEF CallResolved, NewCallee
  <2> HIDE DEF callees, tys
  <2>2. new.fn = Top.fn /\ new.todo = callees
    BY <1>1 DEF IsFrame
  <2> HIDE DEF new
  <2> QED
    BY <2>1, <2>2 DEF FrameTurns
<1>13. ASSUME NEW fn, NEW st, SetTop([Top EXCEPT !.todo = Top.todo \ {fn}, !.st = st])
       PROVE  \E f : FrameTurns(f)
  <2> DEFINE new == [Top EXCEPT !.todo = Top.todo \ {fn}, !.st = st]
  <2>1. new.fn = Top.fn /\ new.todo = Top.todo \ {fn}
    BY <1>1 DEF IsFrame
  <2>2. SetTop(new)
    BY <1>13
  <2> HIDE DEF new
  <2> QED
    BY <2>1, <2>2, Unresolving
<1>14. ASSUME NEW fn, SkipRepeated(fn)
       PROVE  \E f : FrameTurns(f)
  <2>1. [Top EXCEPT !.todo = Top.todo \ {fn}] = [Top EXCEPT !.todo = Top.todo \ {fn}, !.st = Top.st]
    BY <1>1 DEF IsFrame
  <2>2. SetTop([Top EXCEPT !.todo = Top.todo \ {fn}, !.st = Top.st])
    BY <1>14, <2>1 DEF SkipRepeated
  <2> QED
    BY <1>13, <2>2
<1>15. ASSUME NEW fn, CallBodyless(fn) \/ CallCached(fn)
       PROVE  \E f : FrameTurns(f)
  <2>1. \E call, ty : SetTop(Returned(Top, fn, call, ty))
    BY <1>15 DEF CallBodyless, CallCached
  <2>2. PICK call, ty : SetTop(Returned(Top, fn, call, ty))
    BY <2>1
  <2> DEFINE st == IF Term(Top).dest = NoPlace THEN AddCall(Top.st, call)
                   ELSE UpdateWith(AddCall(Top.st, call), Term(Top).dest, ty)
  <2>3. SetTop([Top EXCEPT !.todo = Top.todo \ {fn}, !.st = st])
    BY <2>2 DEF Returned
  <2> HIDE DEF st
  <2> QED
    BY <1>13, <2>3
<1>16. CASE FlowOut
  <2> DEFINE b == Head(Top.out)
             joined == JoinDomain(Top.entry[b], Top.st)
             again == Changed(Top.entry[b], joined) /\ b \notin ToSet(Top.queue)
             queue == IF again THEN Append(Top.queue, b) ELSE Top.queue
             new == [Top EXCEPT !.out = Tail(Top.out), !.entry[b] = joined, !.queue = queue]
  <2>1. SetTop(new)
    BY <1>16 DEF FlowOut
  <2> HIDE DEF b, joined, queue
  <2>2. new.fn = Top.fn /\ new.todo = Top.todo
    BY <1>1 DEF IsFrame
  <2> HIDE DEF new
  <2> QED
    BY <2>1, <2>2, Unresolving
<1>17. CASE Accumulate
  <2> DEFINE acc == IF Top.bb = 1 THEN Top.st ELSE JoinDomain(Top.acc, Top.st)
             new == [Top EXCEPT !.acc = acc, !.pc = "engine"]
  <2>1. SetTop(new)
    BY <1>17 DEF Accumulate
  <2> HIDE DEF acc
  <2>2. new.fn = Top.fn /\ new.todo = Top.todo
    BY <1>1 DEF IsFrame
  <2> HIDE DEF new
  <2> QED
    BY <2>1, <2>2, Unresolving
<1> QED
  BY <1>2, <1>3, <1>6, <1>7, <1>9, <1>11, <1>12, <1>14, <1>15, <1>16, <1>17 DEF LocalAction

\* Every step: functions stay on the stack, or are entered from the callees
\* of the top frame; callees are left over, or have just been resolved.
StackTurns ==
    \A k \in DOMAIN frames' :
        /\ \/ k \in DOMAIN frames /\ frames'[k].fn = frames[k].fn
           \/ k # 1 /\ \E fn \in Top.todo : Enter(fn) /\ frames'[k].fn = fn
        /\ \A fn \in frames'[k].todo :
              NewCallee(fn) \/ (k \in DOMAIN frames /\ fn \in frames[k].todo)

\* The bottom of the stack stays where it is.
LEMMA StepTurns ==
    ASSUME TypeOK, [Next]_vars
    PROVE  StackTurns /\ 1 \in DOMAIN frames /\ 1 \in DOMAIN frames'
<1>1. DOMAIN frames = 1..Len(frames) /\ Len(frames) \in Nat \ {0}
  BY TopIsFrame
<1>2. CASE LocalAction
  <2>1. PICK f : FrameTurns(f)
    BY <1>2, LocalTurns
  <2>2. frames' = [frames EXCEPT ![Len(frames)] = f]
    BY <2>1 DEF FrameTurns, SetTop
  <2>3. ASSUME NEW k \in DOMAIN frames'
        PROVE  /\ k \in DOMAIN frames /\ frames'[k].fn = frames[k].fn
               /\ \A fn \in frames'[k].todo : NewCallee(fn) \/ fn \in frames[k].todo
    <3>1. k \in DOMAIN frames /\ frames'[k] = IF k = Len(frames) THEN f ELSE frames[k]
      BY <2>2
    <3> QED
      BY <2>1, <3>1 DEF FrameTurns, Top
  <2> QED
    BY <1>1, <2>2, <2>3 DEF StackTurns
<1>3. ASSUME NEW fn \in Top.todo, Enter(fn)
      PROVE  StackTurns /\ 1 \in DOMAIN frames'
  <2> DEFINE new == NewFrame(fn)
  <2>1. new.fn = fn /\ new.todo = {}
    BY DEF NewFrame
  <2>2. frames' = Append(frames, new) /\ IsSeq(frames)
    BY <1>3 DEF Enter, TypeOK
  <2> HIDE DEF new
  <2>3. /\ IsSeq(frames')
        /\ Len(frames') = Len(frames) + 1
        /\ frames'[Len(frames) + 1] = new
        /\ \A k \in DOMAIN frames : frames'[k] = frames[k]
    BY <2>2, AppendFacts
  <2>4. DOMAIN frames' = 1..(Len(frames) + 1)
    BY <2>3 DEF IsSeq
  <2>5. ASSUME NEW k \in DOMAIN frames'
        PROVE  /\ \/ k \in DOMAIN frames /\ frames'[k].fn = frames[k].fn
                  \/ k # 1 /\ frames'[k].fn = fn
               /\ \A g \in frames'[k].todo : k \in DOMAIN frames /\ g \in frames[k].todo
    <3>1. CASE k \in DOMAIN frames
      BY <2>3, <3>1
    <3>2. CASE k = Len(frames) + 1
      BY <1>1, <2>1, <2>3, <3>2
    <3> QED
      BY <1>1, <2>4, <3>1, <3>2
  <2> QED
    BY <1>1, <1>3, <2>4, <2>5 DEF StackTurns
<1>4. CASE Return
  <2> DEFINE n == Len(frames) - 1
             ty == CalleeReturnTy(Top.fn, Top.acc)
             call == CallOf(frames[n], Top.fn)
             new == Returned(frames[n], Top.fn, call, ty)
  <2>1. /\ n \in DOMAIN frames /\ n \in Nat \ {0}
        /\ frames' = [k \in 1..n |-> IF k = n THEN new ELSE frames[k]]
    BY <1>4, ReturnShape
  <2>2. new.fn = frames[n].fn /\ new.todo \subseteq frames[n].todo
    <3> DEFINE st == IF Term(frames[n]).dest = NoPlace THEN AddCall(frames[n].st, call)
                     ELSE UpdateWith(AddCall(frames[n].st, call), Term(frames[n]).dest, ty)
    <3>1. IsFrame(frames[n])
      BY <2>1 DEF TypeOK
    <3>2. new = [frames[n] EXCEPT !.todo = frames[n].todo \ {Top.fn}, !.st = st]
      BY DEF Returned
    <3> HIDE DEF st, new, n
    <3> QED
      BY <3>1, <3>2 DEF IsFrame
  <2> HIDE DEF new
  <2>3. ASSUME NEW k \in DOMAIN frames'
        PROVE  /\ k \in DOMAIN frames /\ frames'[k].fn = frames[k].fn
               /\ frames'[k].todo \subseteq frames[k].todo
    <3>1. k \in 1..n /\ frames'[k] = IF k = n THEN new ELSE frames[k]
      BY <2>1
    <3>2. k \in DOMAIN frames
      BY <1>1, <3>1
    <3> QED
      BY <2>2, <3>1, <3>2
  <2>4. 1 \in DOMAIN frames'
    BY <2>1
  <2> QED
    BY <1>1, <2>3, <2>4 DEF StackTurns
<1>5. CASE frames' = frames
  BY <1>1, <1>5 DEF StackTurns
<1>6. \/ LocalAction \/ Return
      \/ \E fn \in Top.todo : Enter(fn)
      \/ frames' = frames
  BY DEF Next, Callee, LocalAction, Finish, Panic, Stopped, vars
<1> QED
  BY <1>1, <1>2, <1>3, <1>4, <1>5, <1>6

\* Every step: what is recorded is what the call at hand names, a callee of
\* the top frame, one whose record is there already, or the top frame itself.
RecordStep ==
    \/ fns' = fns
    \/ \E args : /\ Calls(Top, "FnDef") /\ ~IsSkipped(Top) /\ Top.pc # "engine"
                  /\ fns' = Insert(fns, WithoutBody(Term(Top).fun.def, args))
    \/ \E fn \in Top.todo : \E args : fns' = Insert(fns, WithoutBody(Fn[fn.inst].def, args))
    \/ \E fn \in Top.todo : \E d : Cached(fn) /\ fns' = Insert(fns, WithBody(fn.inst, d))
    \/ \E d : /\ fns' = Insert(fns, WithBody(Top.fn.inst, d))
               /\ (Len(frames) > 1 \/ (Len(frames) = 1 /\ status' = "done"))

\* Nothing else is, and the end comes with the record of the bottom frame.
LEMMA StepRecords ==
    ASSUME [Next]_vars
    PROVE  /\ RecordStep
           /\ status # "done" /\ status' = "done" =>
                 /\ Len(frames) = 1
                 /\ \E d : fns' = Insert(fns, WithBody(Top.fn.inst, d))
           /\ status = "done" => UNCHANGED vars
           /\ origin' = origin
<1> DEFINE Goal == /\ RecordStep
                   /\ status # "done" /\ status' = "done" =>
                         /\ Len(frames) = 1
                         /\ \E d : fns' = Insert(fns, WithBody(Top.fn.inst, d))
                   /\ status = "done" => UNCHANGED vars
                   /\ origin' = origin
<1>1. CASE CallUnresolved
  BY <1>1 DEF CallUnresolved, Running, RecordStep
<1>2. ASSUME NEW fn \in Top.todo, CallBodyless(fn)
      PROVE  Goal
  BY <1>2 DEF CallBodyless, Running, RecordStep
<1>3. ASSUME NEW fn \in Top.todo, CallCached(fn)
      PROVE  Goal
  BY <1>3 DEF CallCached, Running, RecordStep
<1>4. CASE Return
  <2>1. /\ status = "running" /\ status' = status /\ origin' = origin /\ Len(frames) > 1
        /\ \E d : fns' = Insert(fns, WithBody(Top.fn.inst, d))
    BY <1>4 DEF Return, Running
  <2> QED
    BY <2>1 DEF RecordStep
<1>5. CASE Finish
  <2>1. /\ status = "running" /\ status' = "done" /\ origin' = origin /\ Len(frames) = 1
        /\ \E d : fns' = Insert(fns, WithBody(Top.fn.inst, d))
    BY <1>5 DEF Finish, Running
  <2> QED
    BY <2>1 DEF RecordStep
<1>6. CASE fns' = fns /\ status' = status /\ origin' = origin /\ status = "running"
  BY <1>6 DEF RecordStep
<1>7. CASE Panic
  BY <1>7 DEF Panic, RecordStep
<1>8. CASE UNCHANGED vars
  BY <1>8 DEF vars, RecordStep
<1>9. \/ CallUnresolved \/ Return \/ Finish \/ Panic \/ UNCHANGED vars
      \/ \E fn \in Top.todo : CallBodyless(fn) \/ CallCached(fn)
      \/ fns' = fns /\ status' = status /\ origin' = origin /\ status = "running"
  BY DEF Next, Callee, Running, PickBlock, SeekBlock, Assign, SkipStatement, SkipTerminator,
         SkipForeignCall, CallUnhandled, CallResolved, SkipRepeated, Enter, FlowOut, LeaveBlock,
         Accumulate, Stopped
<1> QED
  BY <1>1, <1>2, <1>3, <1>4, <1>5, <1>6, <1>7, <1>8, <1>9

\* A storage after an insertion holds what it held and what was inserted.
LEMMA InsertHolds ==
    ASSUME NEW store, IsSeq(store), NEW info, NEW k \in DOMAIN Insert(store, info)
    PROVE  (k \in DOMAIN store /\ Insert(store, info)[k] = store[k]) \/ Insert(store, info)[k] = info
<1>1. CASE Insert(store, info) = store
  BY <1>1
<1>2. CASE Insert(store, info) = Append(store, info)
  <2>1. DOMAIN Append(store, info) = 1..(Len(store) + 1) /\ DOMAIN store = 1..Len(store)
    BY AppendFacts DEF IsSeq
  <2>2. k \in DOMAIN store \/ k = Len(store) + 1
    BY <1>2, <2>1 DEF IsSeq
  <2> QED
    BY <1>2, <2>2, AppendFacts
<1> QED
  BY <1>1, <1>2 DEF Insert

\* A callee of the top frame, with the body the terminator is in.
LEMMA CalleeOfTop ==
    ASSUME TypeOK, ClosuresKnown, NEW fn, NewCallee(fn)
    PROVE  /\ Top.fn.inst \in Inst
           /\ Top.bb \in DOMAIN Fn[Top.fn.inst].blocks
           /\ Term(Top) = Fn[Top.fn.inst].blocks[Top.bb].term
           /\ Term(Top).fun.kind = "FnDef"
           /\ \E i \in CalleesOf(Term(Top).fun) :
                 IF IsClosure(i) THEN IsClosure(fn.inst) /\ Fn[fn.inst].def = Fn[i].def
                 ELSE fn.inst = i /\ fn.args = Merge(CallTys(Top), ProvidedArgs(i))
<1>1. Top.pc = "effects" /\ Term(Top).fun.kind = "FnDef"
  BY DEF NewCallee, Running, Calls
<1>2. Top.bb \in DOMAIN Fn[Top.fn.inst].blocks /\ Top.fn.inst \in Inst
  BY <1>1, TopBlock
<1>3. PICK i \in CalleesOf(Term(Top).fun) :
        /\ fn = Assemble(i, CallTys(Top))
        /\ IsClosure(i) => Fn[i].def \in DOMAIN closures
  BY ResolvedFrom DEF NewCallee
<1>4. CASE IsClosure(i)
  <2>1. fn.inst = closures[Fn[i].def].inst
    BY <1>3, <1>4 DEF Assemble
  <2>2. IsClosureOf(closures[Fn[i].def].inst, Fn[i].def)
    BY <1>3, <1>4 DEF ClosuresKnown
  <2>3. IsClosure(fn.inst) /\ Fn[fn.inst].def = Fn[i].def
    BY <2>1, <2>2 DEF IsClosureOf, IsClosure
  <2> QED
    BY <1>1, <1>2, <1>4, <2>3 DEF Term, Block
<1>5. CASE ~IsClosure(i)
  <2>1. fn.inst = i /\ fn.args = Merge(CallTys(Top), ProvidedArgs(i))
    BY <1>3, <1>5 DEF Assemble
  <2> QED
    BY <1>1, <1>2, <1>5, <2>1 DEF Term, Block
<1> QED
  BY <1>4, <1>5

----------------------------------------------------------------------------
(* Shallow mode.                                                           *)

InCrate(fn) == Fn[fn.inst].def \in Local

\* The inductive invariant: what is recorded has been on the stack or among
\* the callees of a frame.
ShallowInv ==
    Shallow => /\ ShallowStaysLocal
               /\ \A k \in DOMAIN frames :
                     InCrate(frames[k].fn) /\ \A fn \in frames[k].todo : InCrate(fn)

\* What is not skipped is resolved within the crate.
LEMMA CalleesInCrate ==
    ASSUME TypeOK, ClosuresKnown, CrateIsClosed, Shallow, NEW fn, NewCallee(fn)
    PROVE  InCrate(fn)
<1>1. Term(Top).fun.def \in Local
  BY DEF NewCallee, IsSkipped
<1>2. PICK i \in CalleesOf(Term(Top).fun) : Fn[fn.inst].def = Fn[i].def
  BY CalleeOfTop
<1>3. Fn[i].def \in Local
  BY <1>1, <1>2, CalleeOfTop DEF CrateIsClosed
<1> QED
  BY <1>2, <1>3 DEF InCrate

\* Every step.
LEMMA StepInCrate ==
    ASSUME TypeOK, ClosuresKnown, CrateIsClosed, ShallowInv, [Next]_vars
    PROVE  ShallowInv'
<1> SUFFICES ASSUME Shallow
             PROVE  /\ ShallowStaysLocal'
                    /\ \A k \in DOMAIN frames' :
                          InCrate(frames'[k].fn) /\ \A fn \in frames'[k].todo : InCrate(fn)
  BY DEF ShallowInv
<1> DEFINE Recorded(info) == (IF info.kind = "WithBody" THEN Fn[info.id].def ELSE info.id) \in Local
<1>1. \A k \in DOMAIN frames : InCrate(frames[k].fn) /\ \A fn \in frames[k].todo : InCrate(fn)
  BY DEF ShallowInv
<1>2. InCrate(Top.fn) /\ \A fn \in Top.todo : InCrate(fn)
  BY <1>1, TopIsFrame DEF Top
<1>3. \A k \in DOMAIN frames' :
        InCrate(frames'[k].fn) /\ \A fn \in frames'[k].todo : InCrate(fn)
  BY <1>1, <1>2, StepTurns, CalleesInCrate DEF StackTurns
<1>4. \/ fns' = fns
      \/ \E info : fns' = Insert(fns, info) /\ Recorded(info)
  <2>1. \A def \in Local : \A args : Recorded(WithoutBody(def, args))
    BY DEF WithoutBody
  <2>2. \A inst, d : Fn[inst].def \in Local => Recorded(WithBody(inst, d))
    BY DEF WithBody
  <2> HIDE DEF Recorded
  <2>3. CASE fns' = fns
    BY <2>3
  <2>4. ASSUME NEW args, ~IsSkipped(Top), fns' = Insert(fns, WithoutBody(Term(Top).fun.def, args))
        PROVE  \E info : fns' = Insert(fns, info) /\ Recorded(info)
    BY <2>1, <2>4 DEF IsSkipped
  <2>5. ASSUME NEW fn \in Top.todo, NEW args, fns' = Insert(fns, WithoutBody(Fn[fn.inst].def, args))
        PROVE  \E info : fns' = Insert(fns, info) /\ Recorded(info)
    BY <1>2, <2>1, <2>5 DEF InCrate
  <2>6. ASSUME NEW fn, InCrate(fn), NEW d, fns' = Insert(fns, WithBody(fn.inst, d))
        PROVE  \E info : fns' = Insert(fns, info) /\ Recorded(info)
    BY <2>2, <2>6 DEF InCrate
  <2> QED
    BY <1>2, <2>3, <2>4, <2>5, <2>6, StepRecords DEF RecordStep
<1>5. \A k \in DOMAIN fns : Recorded(fns[k])
  BY DEF ShallowInv, ShallowStaysLocal
<1> HIDE DEF Recorded
<1>6. \A k \in DOMAIN fns' : Recorded(fns'[k])
  <2>1. IsSeq(fns)
    BY DEF TypeOK
  <2> QED
    BY <1>4, <1>5, <2>1, InsertHolds
<1>7. ShallowStaysLocal'
  BY <1>6 DEF ShallowStaysLocal, Recorded
<1> QED
  BY <1>3, <1>7

\* The start.
LEMMA InitKnown ==
    ASSUME Init
    PROVE  ClosuresKnown /\ (CrateIsClosed => ShallowInv)
<1>1. /\ origin \in Origins /\ origin \in Inst
      /\ fns = <<>>
      /\ closures = CollectClosures(<<>>, Fn[origin].closures)
  BY ProgramAssumption DEF Init
<1>2. ClosuresKnown
  <2>1. KnownIn(<<>>)
    BY DEF KnownIn
  <2>2. KnownIn(closures)
    BY <1>1, <2>1, CollectClosuresKnown
  <2> QED
    BY <2>2 DEF ClosuresKnown, KnownIn
<1>3. PICK new : /\ frames = <<new>>
                 /\ new.fn = OriginFn(origin) /\ new.todo = {}
  BY DEF Init, NewFrame
<1>4. DOMAIN frames = {1} /\ frames[1] = new
  BY <1>3
<1>5. OriginFn(origin).inst = origin
  BY DEF OriginFn
<1>6. CrateIsClosed => ShallowInv
  BY <1>1, <1>3, <1>4, <1>5 DEF CrateIsClosed, ShallowInv, ShallowStaysLocal, InCrate
<1> QED
  BY <1>2, <1>6

\* The closure storage only ever names closures of the definition it is
\* asked for.
THEOREM ClosuresAreKnown == Spec => []ClosuresKnown
<1>1. Init => ClosuresKnown
  BY InitKnown
<1>2. TypeOK /\ ClosuresKnown /\ [Next]_vars => ClosuresKnown'
  BY StepKnown
<1> QED
  BY <1>1, <1>2, TypeCorrect, PTL DEF Spec

\* In shallow mode, whatever the program: if the calls of the crate that are
\* not skipped resolve within the crate, nothing else is ever recorded.
THEOREM ShallowRecordsLocal ==
    ASSUME CrateIsClosed
    PROVE  Spec => []ShallowStaysLocal
<1>1. Init => ShallowInv
  BY InitKnown
<1>2. TypeOK /\ ClosuresKnown /\ ShallowInv /\ [Next]_vars => ShallowInv'
  BY StepInCrate
<1>3. ShallowInv => ShallowStaysLocal
  BY DEF ShallowInv, ShallowStaysLocal
<1> QED
  BY <1>1, <1>2, <1>3, TypeCorrect, ClosuresAreKnown, PTL DEF Spec

----------------------------------------------------------------------------
(* The origin.                                                             *)

\* What precheck lets through, closures left aside.
Proper(i) == ~IsClosure(i) /\ IsConcrete(i)

\* A callee that is the origin is called at the types it declares: so the
\* stack holds the same item, at its bottom.
LEMMA OriginCalledAsDeclared ==
    ASSUME TypeOK, ClosuresKnown, Proper(origin), NEW fn, NewCallee(fn), fn.inst = origin
    PROVE  fn.args = OriginFn(origin).args
<1> DEFINE n == Fn[origin].nargs
           t == Term(Top)
           tys == CallTys(Top)
           provided == [k \in 1..n |-> FromTy(Fn[origin].inputs[k])]
<1>1. /\ origin \in Origins /\ ~IsClosure(origin)
      /\ IsSeq(Fn[origin].inputs) /\ n = Len(Fn[origin].inputs)
      /\ \A k \in 1..n : /\ Fn[origin].decl[<<k>>] = Fn[origin].inputs[k]
                          /\ IsPresent(FromTy(Fn[origin].inputs[k]))
  BY SignatureAssumption DEF TypeOK, Proper, IsConcrete
<1>2. origin \in CalleesOf(t.fun) /\ fn.args = Merge(tys, ProvidedArgs(origin))
  BY <1>1, CalleeOfTop
<1>3. IsSeq(t.args) /\ Arity(t) = n
  BY <1>1, <1>2, CalleeOfTop, SignatureAssumption
<1>4. n \in Nat /\ ProvidedArgs(origin) = provided
  BY <1>1 DEF ProvidedArgs, IsSeq
<1>5. Len(provided) = n
  <2>1. provided = [k \in 1..n |-> provided[k]]
    OBVIOUS
  <2> HIDE DEF provided
  <2> QED
    BY <1>4, <2>1, FunctionIsSeq
<1>6. DOMAIN tys = 1..n /\ Len(tys) = n
  <2>1. CASE t.kind = "Drop"
    BY <1>3, <2>1 DEF CallTys, SiteTys, Arity
  <2>2. CASE t.kind # "Drop"
    <3>1. tys = [k \in 1..n |-> OperandTy(Top.st.places, t.args[k])]
      BY <1>3, <2>2 DEF CallTys, SiteTys, OperandTys, Arity, IsSeq
    <3>2. tys = [k \in 1..n |-> tys[k]]
      BY <3>1
    <3> HIDE DEF tys
    <3> QED
      BY <1>4, <3>2, FunctionIsSeq
  <2> QED
    BY <2>1, <2>2
<1>7. Merge(tys, provided) = [k \in 1..n |-> FromTy(Fn[origin].inputs[k])]
  <2>1. Merge(tys, provided) = [k \in DOMAIN tys |-> IF IsPresent(provided[k]) THEN provided[k] ELSE tys[k]]
    BY <1>5, <1>6 DEF Merge
  <2> HIDE DEF tys
  <2> QED
    BY <1>1, <1>6, <2>1
<1>8. OriginFn(origin).args = [k \in 1..n |-> FromTy(Fn[origin].inputs[k])]
  BY <1>1 DEF OriginFn
<1> QED
  BY <1>2, <1>4, <1>7, <1>8

\* The record of the origin.
IsOriginRecord(info) == Answers(info, CallWithBody(origin, <<>>))

\* The inductive invariant: the origin's frame is at the bottom and nowhere
\* else, whoever is to call it does so at its declared types, and it has no
\* record before the end.
OriginInv ==
    /\ frames[1].fn = OriginFn(origin)
    /\ \A k \in DOMAIN frames :
          /\ k # 1 => frames[k].fn.inst # origin
          /\ \A fn \in frames[k].todo : fn.inst = origin => fn.args = OriginFn(origin).args
    /\ status # "done" => \A k \in DOMAIN fns : ~IsOriginRecord(fns[k])
    /\ OriginLast

\* The bottom frame keeps a second one from being pushed.
LEMMA OriginNotReentered ==
    ASSUME TypeOK, OriginInv, NEW fn \in Top.todo, Enter(fn)
    PROVE  fn.inst # origin
<1> SUFFICES ASSUME fn.inst = origin
             PROVE  FALSE
  OBVIOUS
<1>1. Len(frames) \in DOMAIN frames /\ 1 \in DOMAIN frames
  BY TopIsFrame
<1>2. fn.args = OriginFn(origin).args
  BY <1>1 DEF OriginInv, Top
<1>3. OriginFn(origin).inst = origin
  BY DEF OriginFn
<1>4. StackItem(frames[1].fn) = StackItem(fn)
  BY <1>2, <1>3 DEF OriginInv, StackItem
<1> QED
  BY <1>1, <1>4 DEF Enter, OnStack

\* Appended after records of other functions, the origin's is last and first.
LEMMA LastAndFirst ==
    ASSUME NEW store, IsSeq(store), \A k \in DOMAIN store : ~IsOriginRecord(store[k]), NEW d
    PROVE  LET after == Insert(store, WithBody(origin, d))
           IN  /\ Answers(after[Len(after)], CallWithBody(origin, <<>>))
               /\ FirstMatch(after, CallWithBody(origin, <<>>)) = Len(after)
<1> DEFINE info == WithBody(origin, d)
           call == CallWithBody(origin, <<>>)
           after == Insert(store, info)
           m == FirstMatch(after, call)
<1>1. Answers(info, call)
  BY DEF Answers, WithBody, CallWithBody
<1>2. \A k \in DOMAIN store : ~Answers(store[k], call)
  BY DEF IsOriginRecord
<1> HIDE DEF info, call
<1>3. after = Append(store, info)
  BY <1>1, <1>2 DEF Insert
<1>4. /\ IsSeq(after) /\ Len(after) = Len(store) + 1
      /\ after[Len(store) + 1] = info
      /\ \A k \in DOMAIN store : after[k] = store[k]
  BY <1>3, AppendFacts
<1>5. Answered(after, call)
  BY <1>1, InsertedAnswers
<1> HIDE DEF after
<1>6. m \in DOMAIN after /\ Answers(after[m], call)
  BY <1>4, <1>5, LookupFinds
<1>7. m \in 1..(Len(store) + 1) /\ m \notin DOMAIN store /\ DOMAIN store = 1..Len(store)
      /\ Len(store) \in Nat
  BY <1>2, <1>4, <1>6 DEF IsSeq
<1>8. m = Len(after)
  BY <1>4, <1>7
<1>9. Answers(after[Len(after)], call) /\ m = Len(after)
  BY <1>1, <1>4, <1>8
<1> QED
  BY <1>9 DEF after, info, call

\* Every step.
LEMMA StepOrigin ==
    ASSUME TypeOK, ClosuresKnown, Proper(origin), OriginInv, [Next]_vars
    PROVE  OriginInv'
<1>1. origin' = origin
  BY StepRecords
<1>2. 1 \in DOMAIN frames /\ 1 \in DOMAIN frames' /\ StackTurns
  BY StepTurns
<1>3. DOMAIN frames = 1..Len(frames) /\ Len(frames) \in Nat \ {0}
  BY TopIsFrame
<1>4. OriginFn(origin)' = OriginFn(origin)
  BY <1>1 DEF OriginFn
<1>5. (frames[1].fn = OriginFn(origin))'
  <2>1. frames'[1].fn = frames[1].fn
    BY <1>2 DEF StackTurns
  <2> QED
    BY <1>4, <2>1 DEF OriginInv
<1>6. ASSUME NEW k \in DOMAIN frames', k # 1
      PROVE  frames'[k].fn.inst # origin
  BY <1>2, <1>6, OriginNotReentered DEF StackTurns, OriginInv
<1>7. ASSUME NEW k \in DOMAIN frames', NEW fn \in frames'[k].todo, fn.inst = origin
      PROVE  fn.args = OriginFn(origin).args
  <2>1. CASE NewCallee(fn)
    BY <1>7, <2>1, OriginCalledAsDeclared
  <2>2. CASE k \in DOMAIN frames /\ fn \in frames[k].todo
    BY <1>7, <2>2 DEF OriginInv
  <2> QED
    BY <1>2, <2>1, <2>2 DEF StackTurns
<1>8. ASSUME status' # "done"
      PROVE  \A k \in DOMAIN fns' : ~IsOriginRecord(fns'[k])
  <2>1. status # "done"
    BY <1>8, StepRecords DEF vars
  <2>2. \A k \in DOMAIN fns : ~IsOriginRecord(fns[k])
    BY <2>1 DEF OriginInv
  <2>3. \A def, args : ~IsOriginRecord(WithoutBody(def, args))
    BY DEF IsOriginRecord, Answers, WithoutBody, CallWithBody
  <2>4. \A i, d : i # origin => ~IsOriginRecord(WithBody(i, d))
    BY DEF IsOriginRecord, Answers, WithBody, CallWithBody
  <2>5. ASSUME NEW fn, Cached(fn)
        PROVE  fn.inst # origin
    BY <2>2, <2>5 DEF Cached, HasBodyInfo, Answered, IsOriginRecord
  <2>6. Len(frames) > 1 => Top.fn.inst # origin
    BY <1>3 DEF OriginInv, Top
  <2>7. \/ fns' = fns
        \/ \E info : fns' = Insert(fns, info) /\ ~IsOriginRecord(info)
    BY <1>8, <2>3, <2>4, <2>5, <2>6, StepRecords DEF RecordStep
  <2>8. IsSeq(fns)
    BY DEF TypeOK
  <2> QED
    BY <2>2, <2>7, <2>8, InsertHolds
<1>9. (status # "done" => \A k \in DOMAIN fns : ~IsOriginRecord(fns[k]))'
  BY <1>1, <1>8 DEF IsOriginRecord
<1>10. OriginLast'
  <2>1. CASE status = "done"
    <3>1. UNCHANGED vars
      BY <2>1, StepRecords
    <3> QED
      BY <3>1 DEF OriginInv, OriginLast, vars
  <2>2. CASE status # "done" /\ status' = "done"
    <3>1. PICK d : Len(frames) = 1 /\ fns' = Insert(fns, WithBody(Top.fn.inst, d))
      BY <2>2, StepRecords
    <3>2. Top.fn.inst = origin
      BY <3>1 DEF OriginInv, Top, OriginFn
    <3>3. IsSeq(fns) /\ \A k \in DOMAIN fns : ~IsOriginRecord(fns[k])
      BY <2>2 DEF TypeOK, OriginInv
    <3>4. /\ Answers(fns'[Len(fns')], CallWithBody(origin, <<>>))
          /\ FirstMatch(fns', CallWithBody(origin, <<>>)) = Len(fns')
      BY <3>1, <3>2, <3>3, LastAndFirst
    <3> QED
      BY <1>1, <3>4 DEF OriginLast
  <2>3. CASE status' # "done"
    BY <2>3 DEF OriginLast
  <2> QED
    BY <2>1, <2>2, <2>3
<1> QED
  BY <1>1, <1>4, <1>5, <1>6, <1>7, <1>9, <1>10 DEF OriginInv

\* The start.
LEMMA InitOrigin ==
    ASSUME Init
    PROVE  OriginInv
<1>1. fns = <<>> /\ status = "running"
  BY DEF Init
<1>2. PICK new : /\ frames = <<new>>
                 /\ new.fn = OriginFn(origin) /\ new.todo = {}
  BY DEF Init, NewFrame
<1>3. DOMAIN frames = {1} /\ frames[1] = new
  BY <1>2
<1> QED
  BY <1>1, <1>2, <1>3 DEF OriginInv, OriginLast

\* The analysis of a function precheck lets through ends with its record, and
\* nothing hides it: neither a recursive call, whatever types it is made at
\* and through however many functions, nor a result of an earlier analysis.
\* This is what the analyzer relies on when it looks its verdict up.
THEOREM OriginIsLast == Spec => [](Proper(origin) => OriginLast)
<1> DEFINE Inv == Proper(origin) => OriginInv
<1>1. Init => Inv
  BY InitOrigin
<1>2. TypeOK /\ ClosuresKnown /\ Inv /\ [Next]_vars => Inv'
  <2>1. [Next]_vars => origin' = origin
    BY StepRecords
  <2>2. origin' = origin => Proper(origin)' = Proper(origin)
    BY DEF Proper, IsClosure, IsConcrete
  <2> QED
    BY <2>1, <2>2, StepOrigin
<1>3. Inv => (Proper(origin) => OriginLast)
  BY DEF OriginInv
<1> QED
  BY <1>1, <1>2, <1>3, TypeCorrect, ClosuresAreKnown, PTL DEF Spec

----------------------------------------------------------------------------
(* Call sites.                                                             *)

\* Statement by statement: after[k] is the state after the first k statements.
IsRun(after, stmts, n, d) ==
    after = [k \in 0..n |-> IF k = 0 THEN d ELSE Effect(after[k - 1], stmts[k])]

\* The same statements have the same effect, however many follow.
LEMMA RunIsUnique ==
    ASSUME NEW m \in Nat, NEW n \in Nat, m <= n, NEW stmts, NEW d,
           NEW f, IsRun(f, stmts, m, d), NEW g, IsRun(g, stmts, n, d)
    PROVE  f[m] = g[m]
<1> DEFINE T == {k \in 0..m : f[k] # g[k]}
<1>1. \A k \in 0..m : /\ f[k] = IF k = 0 THEN d ELSE Effect(f[k - 1], stmts[k])
                      /\ g[k] = IF k = 0 THEN d ELSE Effect(g[k - 1], stmts[k])
  <2>1. \A k \in 0..m : f[k] = IF k = 0 THEN d ELSE Effect(f[k - 1], stmts[k])
    BY DEF IsRun
  <2>2. \A k \in 0..m : k \in 0..n
    OBVIOUS
  <2>3. \A k \in 0..n : g[k] = IF k = 0 THEN d ELSE Effect(g[k - 1], stmts[k])
    BY DEF IsRun
  <2> QED
    BY <2>1, <2>2, <2>3
<1>2. SUFFICES ASSUME T # {} PROVE FALSE
  OBVIOUS
<1>3. PICK k \in T : \A j \in T : k <= j
  <2>1. T \in SUBSET Nat
    OBVIOUS
  <2> HIDE DEF T
  <2> QED
    BY <1>2, <2>1, LeastNatural
<1>4. k \in 0..m /\ k # 0
  BY <1>1, <1>3
<1>5. k - 1 \in 0..m /\ ~(k <= k - 1)
  BY <1>4
<1>6. f[k - 1] = g[k - 1]
  BY <1>3, <1>5
<1> QED
  BY <1>1, <1>3, <1>4, <1>6

\* There is such a run.
LEMMA RunExists ==
    ASSUME NEW n \in Nat, NEW stmts, NEW d
    PROVE  \E f : IsRun(f, stmts, n, d)
<1> DEFINE T == {k \in 0..n : ~ \E f : IsRun(f, stmts, k, d)}
<1>1. SUFFICES ASSUME T # {} PROVE FALSE
  <2>1. n \in 0..n
    OBVIOUS
  <2> QED
    BY <1>1, <2>1
<1>2. PICK k \in T : \A j \in T : k <= j
  <2>1. T \in SUBSET Nat
    OBVIOUS
  <2> HIDE DEF T
  <2> QED
    BY <1>1, <2>1, LeastNatural
<1>3. k # 0
  <2>1. IsRun([j \in 0..0 |-> d], stmts, 0, d)
    BY DEF IsRun
  <2> QED
    BY <1>2, <2>1
<1>4. k - 1 \in 0..n /\ ~(k <= k - 1) /\ k - 1 \in Nat /\ k \in Nat
  BY <1>2, <1>3
<1>5. PICK f : IsRun(f, stmts, k - 1, d)
  BY <1>2, <1>4
<1> DEFINE g == [j \in 0..k |-> IF j = k THEN Effect(f[k - 1], stmts[k]) ELSE f[j]]
<1>6. \A j \in 0..k : g[j] = IF j = 0 THEN d ELSE Effect(g[j - 1], stmts[j])
  <2>1. \A j \in 0..k : g[j] = IF j = k THEN Effect(f[k - 1], stmts[k]) ELSE f[j]
    OBVIOUS
  <2> HIDE DEF g
  <2>2. \A j \in 0..(k - 1) : f[j] = IF j = 0 THEN d ELSE Effect(f[j - 1], stmts[j])
    BY <1>5 DEF IsRun
  <2>3. \A j \in 0..(k - 1) : g[j] = f[j]
    BY <1>4, <2>1
  <2> SUFFICES ASSUME NEW j \in 0..k
               PROVE  g[j] = IF j = 0 THEN d ELSE Effect(g[j - 1], stmts[j])
    OBVIOUS
  <2>4. CASE j = k
    <3>1. k - 1 \in 0..(k - 1) /\ k \in 0..k
      BY <1>4
    <3> QED
      BY <1>3, <2>1, <2>3, <2>4, <3>1
  <2>5. CASE j # k
    <3>1. j \in 0..(k - 1) /\ (j # 0 => j - 1 \in 0..(k - 1))
      BY <1>4, <2>5
    <3> QED
      BY <2>2, <2>3, <3>1
  <2> QED
    BY <2>4, <2>5
<1>7. IsRun(g, stmts, k, d)
  <2>1. g = [j \in 0..k |-> g[j]]
    OBVIOUS
  <2> HIDE DEF g
  <2>2. [j \in 0..k |-> g[j]] = [j \in 0..k |-> IF j = 0 THEN d ELSE Effect(g[j - 1], stmts[j])]
    BY <1>6
  <2> QED
    BY <2>1, <2>2 DEF IsRun
<1> QED
  BY <1>2, <1>7

\* One more statement has its effect on the state that those before it leave.
LEMMA StateAfter ==
    ASSUME NEW stmts, NEW d
    PROVE  /\ StateAt(stmts, 0, d) = d
           /\ \A n \in Nat \ {0} :
                 StateAt(stmts, n, d) = Effect(StateAt(stmts, n - 1, d), stmts[n])
<1> DEFINE run(n) == CHOOSE f : IsRun(f, stmts, n, d)
<1>1. \A n \in Nat : IsRun(run(n), stmts, n, d)
  BY RunExists
<1>2. \A n : StateAt(stmts, n, d) = run(n)[n]
  BY DEF StateAt, IsRun
<1> HIDE DEF run
<1>3. run(0)[0] = d
  BY <1>1 DEF IsRun
<1>4. ASSUME NEW n \in Nat \ {0}
      PROVE  run(n)[n] = Effect(run(n - 1)[n - 1], stmts[n])
  <2>1. n \in Nat /\ n - 1 \in Nat /\ n - 1 <= n /\ n \in 0..n
    OBVIOUS
  <2>2. run(n)[n] = Effect(run(n)[n - 1], stmts[n])
    BY <1>1, <2>1 DEF IsRun
  <2>3. run(n - 1)[n - 1] = run(n)[n - 1]
    BY <1>1, <2>1, RunIsUnique
  <2> QED
    BY <2>2, <2>3
<1> QED
  BY <1>2, <1>3, <1>4

\* Function i is one of todo.
Awaited(i, todo) ==
    \E fn \in todo : IF IsClosure(i) THEN Fn[fn.inst].def = Fn[i].def ELSE fn.inst = i

\* Once the functions in todo have been dealt with, terminator t is in d, with
\* all that it may be dispatched to with operands of the given types.
Settled(t, tys, d, defs, todo) ==
    /\ Accounted(t, d, defs \union {Fn[fn.inst].def : fn \in todo})
    /\ t.fun.kind = "FnDef" =>
          LET found == Candidates(t.fun, tys)
          IN  \/ Shallow /\ t.fun.def \notin Local
              \/ /\ found = {} \/ \E i \in found : IsClosure(i)
                 /\ CallWithoutBody(t.fun.def, t.args) \in d.calls
              \/ found # {} /\ \A i \in found : Reaches(t, i, d, defs) \/ Awaited(i, todo)

\* The types of the operands at the end of block b.
EndTys(f, b) ==
    LET block == Fn[f.fn.inst].blocks[b]
    IN  SiteTys(block.term, AtEnd(block, f.entry[b]).places)

\* The state is what the statements up to the current one make of the entry.
Evaluated(f) ==
    /\ f.i <= Len(Block(f).stmts) + 1
    /\ f.st = StateAt(Block(f).stmts, f.i - 1, f.entry[f.bb])

\* What the final pass has found of the body of frame f, with functions of
\* the given definitions under analysis: the sites of the blocks it has left
\* are in the accumulated result, the one it is at in the state, or will be
\* once the remaining callees have been dealt with.
FrameSites(f, defs) ==
    f.phase = "cursor" =>
        /\ f.queue = <<>>
        /\ \A b \in 1..f.bb :
              b < f.bb \/ f.pc = "engine" =>
                  Settled(Fn[f.fn.inst].blocks[b].term, EndTys(f, b), f.acc, defs, {})
        /\ f.pc = "effects" => Evaluated(f)
        /\ f.pc = "callees" => Settled(Term(f), EndTys(f, f.bb), f.st, defs, f.todo)

\* A record has the form the collector gives it.
IsRecord(info) ==
    IF info.kind = "WithBody" THEN info = WithBody(info.id, info)
    ELSE info = WithoutBody(info.id, info.args)

\* The inductive invariant.  All but the innermost function are in a call.
SitesInv ==
    /\ \A k \in DOMAIN frames : FrameSites(frames[k], OpenDefs(k))
    /\ \A k \in DOMAIN frames : k < Len(frames) => frames[k].pc = "callees"
    /\ \A k \in DOMAIN fns : IsRecord(fns[k])

\* Finding more accounts for no less.
LEMMA AccountedMore ==
    ASSUME NEW t, NEW d, NEW e, NEW defs, NEW more, Accounted(t, d, defs),
           d.calls \subseteq e.calls, d.unhandled \subseteq e.unhandled, defs \subseteq more
    PROVE  Accounted(t, e, more)
  BY DEF Accounted

\* Once the call of a callee is recorded, its definition need not be open.
LEMMA AccountedByCall ==
    ASSUME NEW t, NEW d, NEW e, NEW defs, NEW x, Accounted(t, d, defs \union {x}),
           NEW call, call.args = t.args, CalledDef(call) = x,
           d.calls \union {call} \subseteq e.calls, d.unhandled \subseteq e.unhandled
    PROVE  Accounted(t, e, defs)
  BY DEF Accounted

\* The same for what the terminator may be dispatched to.
LEMMA SettledMore ==
    ASSUME NEW t, NEW tys, NEW d, NEW e, NEW defs, NEW more, NEW todo, NEW left,
           Settled(t, tys, d, defs, todo),
           d.calls \subseteq e.calls, d.unhandled \subseteq e.unhandled, defs \subseteq more,
           \A fn \in todo : fn \in left \/ Fn[fn.inst].def \in more
    PROVE  Settled(t, tys, e, more, left)
<1>1. Accounted(t, e, more \union {Fn[fn.inst].def : fn \in left})
  <2>1. defs \union {Fn[fn.inst].def : fn \in todo} \subseteq more \union {Fn[fn.inst].def : fn \in left}
    OBVIOUS
  <2> QED
    BY <2>1, AccountedMore DEF Settled
<1>2. ASSUME NEW i, Reaches(t, i, d, defs)
      PROVE  Reaches(t, i, e, more)
  BY <1>2 DEF Reaches
<1>3. ASSUME NEW i, Awaited(i, todo)
      PROVE  Reaches(t, i, e, more) \/ Awaited(i, left)
  BY <1>3 DEF Awaited, Reaches
<1> DEFINE found == Candidates(t.fun, tys)
<1>4. t.fun.kind = "FnDef" =>
          \/ Shallow /\ t.fun.def \notin Local
          \/ /\ found = {} \/ \E i \in found : IsClosure(i)
             /\ CallWithoutBody(t.fun.def, t.args) \in e.calls
          \/ found # {} /\ \A i \in found : Reaches(t, i, e, more) \/ Awaited(i, left)
  <2> HIDE DEF found
  <2>1. t.fun.kind = "FnDef" =>
          \/ Shallow /\ t.fun.def \notin Local
          \/ /\ found = {} \/ \E i \in found : IsClosure(i)
             /\ CallWithoutBody(t.fun.def, t.args) \in d.calls
          \/ found # {} /\ \A i \in found : Reaches(t, i, d, defs) \/ Awaited(i, todo)
    BY DEF Settled, found
  <2> QED
    BY <1>2, <1>3, <2>1
<1> QED
  BY <1>1, <1>4 DEF Settled

\* Once the call of a callee is recorded, it need no longer be on the list.
LEMMA SettledByCall ==
    ASSUME NEW t, NEW tys, NEW d, NEW e, NEW defs, NEW todo, NEW fn,
           Settled(t, tys, d, defs, todo), NEW call, call.args = t.args,
           call.kind \in {"WithBody", "WithoutBody"},
           call.id = IF call.kind = "WithBody" THEN fn.inst ELSE Fn[fn.inst].def,
           d.calls \union {call} \subseteq e.calls, d.unhandled \subseteq e.unhandled
    PROVE  Settled(t, tys, e, defs, todo \ {fn})
<1> DEFINE left == todo \ {fn}
           more == defs \union {Fn[g.inst].def : g \in left}
<1>1. CalledDef(call) = Fn[fn.inst].def
  BY DEF CalledDef
<1>2. Accounted(t, e, more)
  <2>1. defs \union {Fn[g.inst].def : g \in todo} \subseteq more \union {Fn[fn.inst].def}
    OBVIOUS
  <2>2. Accounted(t, d, more \union {Fn[fn.inst].def})
    BY <2>1, AccountedMore DEF Settled
  <2> HIDE DEF more
  <2> QED
    BY <1>1, <2>2, AccountedByCall
<1>3. ASSUME NEW i, Reaches(t, i, d, defs)
      PROVE  Reaches(t, i, e, defs)
  BY <1>3 DEF Reaches
<1>4. ASSUME NEW i, Awaited(i, todo)
      PROVE  Reaches(t, i, e, defs) \/ Awaited(i, left)
  <2>1. PICK g \in todo : IF IsClosure(i) THEN Fn[g.inst].def = Fn[i].def ELSE g.inst = i
    BY <1>4 DEF Awaited
  <2>2. CASE g = fn
    <3>1. call \in e.calls
      OBVIOUS
    <3>2. IF IsClosure(i) THEN CalledDef(call) = Fn[i].def
          ELSE call.id = IF call.kind = "WithBody" THEN i ELSE Fn[i].def
      BY <1>1, <2>1, <2>2
    <3> QED
      BY <3>1, <3>2 DEF Reaches
  <2>3. CASE g # fn
    BY <2>1, <2>3 DEF Awaited
  <2> QED
    BY <2>2, <2>3
<1> DEFINE found == Candidates(t.fun, tys)
<1>5. t.fun.kind = "FnDef" =>
          \/ Shallow /\ t.fun.def \notin Local
          \/ /\ found = {} \/ \E i \in found : IsClosure(i)
             /\ CallWithoutBody(t.fun.def, t.args) \in e.calls
          \/ found # {} /\ \A i \in found : Reaches(t, i, e, defs) \/ Awaited(i, left)
  <2> HIDE DEF found, left
  <2>1. t.fun.kind = "FnDef" =>
          \/ Shallow /\ t.fun.def \notin Local
          \/ /\ found = {} \/ \E i \in found : IsClosure(i)
             /\ CallWithoutBody(t.fun.def, t.args) \in d.calls
          \/ found # {} /\ \A i \in found : Reaches(t, i, d, defs) \/ Awaited(i, todo)
    BY DEF Settled, found
  <2> QED
    BY <1>3, <1>4, <2>1
<1> QED
  BY <1>2, <1>5 DEF Settled

\* The calls and unhandled types of domain values.
LEMMA UpdateFinds ==
    ASSUME NEW d, IsDomain(d), NEW p, NEW t
    PROVE  UpdateWith(d, p, t).calls = d.calls /\ UpdateWith(d, p, t).unhandled = d.unhandled
  BY DEF UpdateWith

\* What is added is found, and nothing is lost for it.
LEMMA AddFinds ==
    ASSUME NEW d, IsDomain(d), NEW x
    PROVE  /\ AddCall(d, x).calls = d.calls \union {x} /\ AddCall(d, x).unhandled = d.unhandled
           /\ AddUnhandled(d, x).calls = d.calls
           /\ AddUnhandled(d, x).unhandled = d.unhandled \union {x}
  BY DEF IsDomain, AddCall, AddUnhandled

\* A join has what either side has.
LEMMA JoinFinds ==
    ASSUME NEW d, NEW e
    PROVE  /\ JoinDomain(d, e).calls = d.calls \union e.calls
           /\ JoinDomain(d, e).unhandled = d.unhandled \union e.unhandled
  BY DEF JoinDomain

\* The call of a callee names it, by its instance or by its definition.
IsCallOf(call, fn) ==
    /\ call.kind \in {"WithBody", "WithoutBody"}
    /\ call.id = IF call.kind = "WithBody" THEN fn.inst ELSE Fn[fn.inst].def

\* A callee is dealt with: its call is in the caller's state.
LEMMA ReturnedSites ==
    ASSUME NEW f, IsFrame(f), NEW fn, NEW call, NEW ty, NEW defs, FrameSites(f, defs),
           f.pc = "callees", call.args = Term(f).args, IsCallOf(call, fn)
    PROVE  FrameSites(Returned(f, fn, call, ty), defs)
<1> DEFINE st == IF Term(f).dest = NoPlace THEN AddCall(f.st, call)
                 ELSE UpdateWith(AddCall(f.st, call), Term(f).dest, ty)
           new == [f EXCEPT !.todo = f.todo \ {fn}, !.st = st]
<1>1. IsDomain(f.st)
  BY DEF IsFrame, IsDomainOf
<1>2. st.calls = f.st.calls \union {call} /\ st.unhandled = f.st.unhandled
  BY <1>1, AddShape, AddFinds, UpdateFinds
<1>3. Returned(f, fn, call, ty) = new
  BY DEF Returned
<1> HIDE DEF st
<1>4. /\ new.fn = f.fn /\ new.phase = f.phase /\ new.pc = f.pc /\ new.queue = f.queue
      /\ new.bb = f.bb /\ new.acc = f.acc /\ new.st = st /\ new.todo = f.todo \ {fn}
      /\ new.entry = f.entry
  BY DEF IsFrame
<1> HIDE DEF new
<1>5. Term(new) = Term(f) /\ \A b : EndTys(new, b) = EndTys(f, b)
  BY <1>4 DEF Term, Block, EndTys
<1>6. ASSUME Settled(Term(f), EndTys(f, f.bb), f.st, defs, f.todo)
      PROVE  Settled(Term(f), EndTys(f, f.bb), st, defs, f.todo \ {fn})
  BY <1>2, <1>6, SettledByCall DEF IsCallOf
<1> QED
  BY <1>3, <1>4, <1>5, <1>6 DEF FrameSites

\* What stays when only the state, the callees or the position change.
LEMMA SitesSame ==
    ASSUME NEW f, NEW new, NEW defs, FrameSites(f, defs),
           new.fn = f.fn, new.phase = f.phase, new.queue = f.queue, new.bb = f.bb,
           new.acc = f.acc, new.entry = f.entry, new.pc # "engine",
           new.phase = "cursor" /\ new.pc = "effects" => Evaluated(new),
           new.phase = "cursor" /\ new.pc = "callees" =>
               Settled(Term(f), EndTys(f, f.bb), new.st, defs, new.todo)
    PROVE  FrameSites(new, defs)
<1>1. Term(new) = Term(f) /\ \A b : EndTys(new, b) = EndTys(f, b)
  BY DEF Term, Block, EndTys
<1> QED
  BY <1>1 DEF FrameSites

\* Blocks are numbered from 1.
LEMMA BlockNumbers ==
    ASSUME NEW f, IsFrame(f)
    PROVE  /\ Len(Fn[f.fn.inst].blocks) \in Nat
           /\ DOMAIN Fn[f.fn.inst].blocks = 1..Len(Fn[f.fn.inst].blocks)
           /\ f.bb \in Nat
<1>1. IsSeq(Fn[f.fn.inst].blocks)
  BY ProgramAssumption DEF IsFrame, IsFunction, IsBody
<1>2. /\ Len(Fn[f.fn.inst].blocks) \in Nat
      /\ DOMAIN Fn[f.fn.inst].blocks = 1..Len(Fn[f.fn.inst].blocks)
  BY <1>1, SeqOverElements DEF IsSeq
<1>3. f.bb \in DOMAIN Fn[f.fn.inst].blocks \union {0}
  BY DEF IsFrame
<1> QED
  BY <1>2, <1>3

\* The top frame after a step, with the sites it has found.
SitesTurn(f) == SetTop(f) /\ FrameSites(f, OpenDefs(Len(frames)))

\* A step within a block.
LEMMA TurnSites ==
    ASSUME TypeOK, FrameSites(Top, OpenDefs(Len(frames))),
           NEW pc \in {"effects", "callees"}, NEW i, NEW st, NEW todo, NEW tys,
           SetTop([Top EXCEPT !.pc = pc, !.i = i, !.st = st, !.todo = todo, !.tys = tys]),
           Top.phase = "cursor" /\ pc = "effects" =>
               /\ i <= Len(Block(Top).stmts) + 1
               /\ st = StateAt(Block(Top).stmts, i - 1, Top.entry[Top.bb]),
           Top.phase = "cursor" /\ pc = "callees" =>
               Settled(Term(Top), EndTys(Top, Top.bb), st, OpenDefs(Len(frames)), todo)
    PROVE  \E f : SitesTurn(f)
<1> DEFINE new == [Top EXCEPT !.pc = pc, !.i = i, !.st = st, !.todo = todo, !.tys = tys]
<1>1. IsFrame(Top)
  BY TopIsFrame
<1>2. /\ new.fn = Top.fn /\ new.phase = Top.phase /\ new.queue = Top.queue /\ new.bb = Top.bb
      /\ new.acc = Top.acc /\ new.entry = Top.entry
      /\ new.pc = pc /\ new.i = i /\ new.st = st /\ new.todo = todo
  BY <1>1 DEF IsFrame
<1>3. SetTop(new)
  OBVIOUS
<1> HIDE DEF new
<1>4. Block(new) = Block(Top)
  BY <1>2 DEF Block
<1>5. new.phase = "cursor" /\ new.pc = "effects" => Evaluated(new)
  BY <1>2, <1>4 DEF Evaluated
<1>6. FrameSites(new, OpenDefs(Len(frames)))
  BY <1>2, <1>5, SitesSame
<1> QED
  BY <1>3, <1>6 DEF SitesTurn

\* At the terminator the operands have the types of the end of the block.
LEMMA TypesAtTerminator ==
    ASSUME TypeOK, FrameSites(Top, OpenDefs(Len(frames))), Top.phase = "cursor", AtTerminator(Top)
    PROVE  CallTys(Top) = EndTys(Top, Top.bb)
<1>1. Top.pc = "effects" /\ Top.i > Len(Block(Top).stmts)
  BY DEF AtTerminator
<1>2. Top.i \in Nat /\ Top.bb \in DOMAIN Fn[Top.fn.inst].blocks
  BY <1>1, TopIsFrame DEF IsFrame
<1>3. IsSeq(Block(Top).stmts)
  BY <1>2, TopIsFrame, ProgramAssumption DEF IsFrame, IsFunction, IsBody, Block
<1>4. Len(Block(Top).stmts) \in Nat
  BY <1>3 DEF IsSeq
<1>5. /\ Top.i <= Len(Block(Top).stmts) + 1
      /\ Top.st = StateAt(Block(Top).stmts, Top.i - 1, Top.entry[Top.bb])
  BY <1>1 DEF FrameSites, Evaluated
<1>6. Top.i - 1 = Len(Block(Top).stmts)
  BY <1>1, <1>2, <1>4, <1>5
<1> QED
  BY <1>5, <1>6 DEF CallTys, EndTys, AtEnd, Term, Block

\* The terminator is accounted for by the state it leaves.
LEMMA TurnState ==
    ASSUME TypeOK, FrameSites(Top, OpenDefs(Len(frames))), NEW st,
           SetTop([Top EXCEPT !.pc = "callees", !.st = st]), AtTerminator(Top),
           Settled(Term(Top), CallTys(Top), st, {}, {})
    PROVE  \E f : SitesTurn(f)
<1>1. [Top EXCEPT !.pc = "callees", !.st = st]
        = [Top EXCEPT !.pc = "callees", !.i = Top.i, !.st = st, !.todo = Top.todo, !.tys = Top.tys]
  BY TopIsFrame DEF IsFrame
<1>2. SetTop([Top EXCEPT !.pc = "callees", !.i = Top.i, !.st = st, !.todo = Top.todo,
                         !.tys = Top.tys])
  BY <1>1
<1>3. Settled(Term(Top), CallTys(Top), st, OpenDefs(Len(frames)), Top.todo)
  BY SettledMore
<1>4. Top.phase = "cursor" =>
          Settled(Term(Top), EndTys(Top, Top.bb), st, OpenDefs(Len(frames)), Top.todo)
  BY <1>3, TypesAtTerminator
<1> QED
  BY <1>2, <1>4, TurnSites

\* Every action that changes the top frame only.
LEMMA LocalSites ==
    ASSUME TypeOK, ClosuresKnown, FrameSites(Top, OpenDefs(Len(frames))), LocalAction
    PROVE  \E f : SitesTurn(f)
<1> DEFINE open == OpenDefs(Len(frames))
<1>1. IsFrame(Top) /\ IsDomain(Top.st)
  BY TopIsFrame, TopState
<1>2. CASE PickBlock
  <2> DEFINE b == Head(Top.queue)
             out == Succ(Top, b)
             st == Top.entry[b]
             new == [Top EXCEPT !.queue = Tail(Top.queue), !.bb = b, !.i = 1,
                                !.out = out, !.st = st, !.pc = "effects"]
  <2>1. SetTop(new) /\ Top.queue # <<>>
    BY <1>2 DEF PickBlock
  <2> HIDE DEF b, out, st
  <2>2. new.phase = Top.phase
    BY <1>1 DEF IsFrame
  <2> HIDE DEF new
  <2>3. FrameSites(new, open)
    BY <2>1, <2>2 DEF FrameSites
  <2> QED
    BY <2>1, <2>3 DEF SitesTurn
<1>3. CASE SeekBlock
  <2> DEFINE b == NextBlock(Top)
             st == Top.entry[b]
             new == [Top EXCEPT !.phase = "cursor", !.bb = b, !.i = 1, !.out = <<>>,
                                !.st = st, !.pc = "effects"]
  <2>1. SetTop(new) /\ Top.queue = <<>> /\ Top.pc = "engine"
    BY <1>3 DEF SeekBlock, Running
  <2>2. b = IF Top.phase = "fixpoint" THEN 1 ELSE Top.bb + 1
    BY DEF NextBlock
  <2>3. Top.phase \in {"fixpoint", "cursor"} /\ Top.bb \in Nat
    BY <1>1, BlockNumbers DEF IsFrame
  <2> HIDE DEF b
  <2>4. /\ new.fn = Top.fn /\ new.phase = "cursor" /\ new.pc = "effects"
        /\ new.queue = Top.queue /\ new.bb = b /\ new.acc = Top.acc /\ new.entry = Top.entry
        /\ new.i = 1 /\ new.st = new.entry[b]
    BY <1>1 DEF IsFrame
  <2>5. b \in DOMAIN Fn[Top.fn.inst].blocks
    BY <1>1, <1>3, SeekBlockTarget DEF IsFrame, b
  <2> HIDE DEF new
  <2>6. ASSUME NEW c \in 1..b, c < b
        PROVE  Settled(Fn[new.fn.inst].blocks[c].term, EndTys(new, c), new.acc, open, {})
    <3>1. Top.phase = "cursor" /\ c \in 1..Top.bb
      BY <2>2, <2>3, <2>6
    <3>2. EndTys(new, c) = EndTys(Top, c)
      BY <2>4 DEF EndTys
    <3> QED
      BY <2>1, <2>4, <3>1, <3>2 DEF FrameSites
  <2>7. Evaluated(new)
    <3>1. IsSeq(Block(new).stmts)
      BY <1>1, <2>4, <2>5, ProgramAssumption DEF IsFrame, IsFunction, IsBody, Block
    <3>2. 1 <= Len(Block(new).stmts) + 1
      BY <3>1 DEF IsSeq
    <3>3. StateAt(Block(new).stmts, 1 - 1, new.entry[b]) = new.entry[b]
      BY StateAfter
    <3> QED
      BY <2>4, <3>2, <3>3 DEF Evaluated
  <2>8. FrameSites(new, open)
    BY <2>1, <2>4, <2>6, <2>7 DEF FrameSites
  <2> QED
    BY <2>1, <2>8 DEF SitesTurn
<1>4. ASSUME SetTop([Top EXCEPT !.i = Top.i + 1, !.st = Effect(Top.st, Stmt(Top))]),
             AtStatement(Top)
      PROVE  \E f : SitesTurn(f)
  <2> DEFINE i == Top.i + 1
             st == Effect(Top.st, Stmt(Top))
  <2>1. Top.pc = "effects" /\ Top.i <= Len(Block(Top).stmts) /\ Stmt(Top) = Block(Top).stmts[Top.i]
    BY <1>4 DEF AtStatement, Stmt
  <2>2. Top.i \in Nat \ {0} /\ Top.bb \in DOMAIN Fn[Top.fn.inst].blocks
    BY <1>1, <2>1 DEF IsFrame
  <2>3. IsSeq(Block(Top).stmts)
    BY <1>1, <2>2, ProgramAssumption DEF IsFrame, IsFunction, IsBody, Block
  <2>4. i <= Len(Block(Top).stmts) + 1 /\ i - 1 = Top.i
    BY <2>1, <2>2, <2>3 DEF IsSeq
  <2>5. Top.phase = "cursor" => Top.st = StateAt(Block(Top).stmts, Top.i - 1, Top.entry[Top.bb])
    BY <2>1 DEF FrameSites, Evaluated
  <2>6. Top.phase = "cursor" => st = StateAt(Block(Top).stmts, i - 1, Top.entry[Top.bb])
    <3>1. StateAt(Block(Top).stmts, Top.i, Top.entry[Top.bb])
            = Effect(StateAt(Block(Top).stmts, Top.i - 1, Top.entry[Top.bb]), Block(Top).stmts[Top.i])
      BY <2>2, StateAfter
    <3> HIDE DEF i
    <3> QED
      BY <2>1, <2>4, <2>5, <3>1
  <2> HIDE DEF i, st
  <2>7. [Top EXCEPT !.i = i, !.st = st]
          = [Top EXCEPT !.pc = "effects", !.i = i, !.st = st, !.todo = Top.todo, !.tys = Top.tys]
    BY <1>1, <2>1 DEF IsFrame
  <2>8. SetTop([Top EXCEPT !.pc = "effects", !.i = i, !.st = st, !.todo = Top.todo, !.tys = Top.tys])
    BY <1>4, <2>7 DEF i, st
  <2> QED
    BY <2>4, <2>6, <2>8, TurnSites
<1>5. CASE Assign
  <2> DEFINE st == UpdateWith(Top.st, Stmt(Top).place, RvalueTy(Top.st.places, Stmt(Top).rv))
  <2>1. /\ SetTop([Top EXCEPT !.i = Top.i + 1, !.st = st])
        /\ AtStatement(Top) /\ Stmt(Top).kind = "Assign"
    BY <1>5 DEF Assign
  <2>2. st = Effect(Top.st, Stmt(Top))
    BY <2>1 DEF Effect
  <2> HIDE DEF st
  <2> QED
    BY <1>4, <2>1, <2>2
<1>6. CASE SkipStatement
  <2>1. [Top EXCEPT !.i = Top.i + 1] = [Top EXCEPT !.i = Top.i + 1, !.st = Top.st]
    BY <1>1 DEF IsFrame
  <2>2. /\ SetTop([Top EXCEPT !.i = Top.i + 1, !.st = Effect(Top.st, Stmt(Top))])
        /\ AtStatement(Top)
    BY <1>6, <2>1 DEF SkipStatement, Effect
  <2> QED
    BY <1>4, <2>2
<1>7. CASE SkipTerminator \/ SkipForeignCall
  <2>1. SetTop([Top EXCEPT !.pc = "callees"])
    BY <1>7 DEF SkipTerminator, SkipForeignCall
  <2>2. [Top EXCEPT !.pc = "callees"] = [Top EXCEPT !.pc = "callees", !.st = Top.st]
    BY <1>1 DEF IsFrame
  <2>3. SetTop([Top EXCEPT !.pc = "callees", !.st = Top.st])
    BY <2>1, <2>2
  <2>4. Settled(Term(Top), CallTys(Top), Top.st, {}, {}) /\ AtTerminator(Top)
    BY <1>7 DEF SkipTerminator, SkipForeignCall, Calls, IsSkipped, Accounted, Settled
  <2> QED
    BY <2>3, <2>4, TurnState
<1>8. CASE CallUnhandled
  <2> DEFINE st == AddUnhandled(Top.st, Term(Top).fun.ty)
  <2>1. /\ SetTop([Top EXCEPT !.pc = "callees", !.st = st]) /\ Term(Top).fun.kind = "Other"
        /\ AtTerminator(Top)
    BY <1>8 DEF CallUnhandled, Calls
  <2>2. Term(Top).fun.ty \in st.unhandled
    BY <1>1, AddFinds
  <2> HIDE DEF st
  <2>3. Settled(Term(Top), CallTys(Top), st, {}, {})
    BY <2>1, <2>2 DEF Accounted, Settled
  <2> QED
    BY <2>1, <2>3, TurnState
<1>9. CASE CallUnresolved
  <2> DEFINE call == CallWithoutBody(Term(Top).fun.def, Term(Top).args)
             st == AddCall(Top.st, call)
             found == Candidates(Term(Top).fun, CallTys(Top))
  <2>1. /\ SetTop([Top EXCEPT !.pc = "callees", !.st = st]) /\ Term(Top).fun.kind = "FnDef"
        /\ AtTerminator(Top) /\ Resolve(Term(Top).fun, CallTys(Top)) = {}
    BY <1>9 DEF CallUnresolved, Calls
  <2>2. call \in st.calls
    BY <1>1, AddFinds
  <2>3. call.args = Term(Top).args /\ CalledDef(call) \in TargetDefs(Term(Top).fun)
    BY DEF CallWithoutBody, CalledDef, TargetDefs
  <2>4. found = {} \/ \E i \in found : IsClosure(i)
    BY <2>1 DEF Resolve
  <2> HIDE DEF st
  <2>5. Accounted(Term(Top), st, {})
    BY <2>1, <2>2, <2>3 DEF Accounted
  <2>6. Settled(Term(Top), CallTys(Top), st, {}, {})
    BY <2>2, <2>4, <2>5 DEF Settled
  <2> QED
    BY <2>1, <2>6, TurnState
<1>10. CASE CallResolved
  <2> DEFINE callees == Resolve(Term(Top).fun, CallTys(Top))
             tys == CallTys(Top)
             found == Candidates(Term(Top).fun, tys)
  <2>1. /\ SetTop([Top EXCEPT !.pc = "callees", !.todo = callees, !.tys = tys])
        /\ Term(Top).fun.kind = "FnDef" /\ AtTerminator(Top)
        /\ callees # {}
        /\ \A fn \in callees : NewCallee(fn)
    BY <1>10 DEF CallResolved, Calls, NewCallee
  <2>2. /\ \A i \in found : IsClosure(i) => Fn[i].def \in DOMAIN closures
        /\ callees = {Assemble(i, tys) : i \in found}
    BY <2>1 DEF Resolve
  <2> HIDE DEF callees, tys
  <2>3. ASSUME NEW i \in found
        PROVE  Awaited(i, callees)
    <3>1. Assemble(i, tys) \in callees
      BY <2>2
    <3>2. IF IsClosure(i) THEN Fn[Assemble(i, tys).inst].def = Fn[i].def
          ELSE Assemble(i, tys).inst = i
      BY <2>2 DEF Assemble, ClosuresKnown, IsClosureOf
    <3> QED
      BY <3>1, <3>2 DEF Awaited
  <2>4. found # {}
    BY <2>1, <2>2
  <2>5. PICK fn \in callees : NewCallee(fn)
    BY <2>1
  <2>6. Fn[fn.inst].def \in TargetDefs(Term(Top).fun)
    BY <2>5, CalleeOfTop DEF TargetDefs
  <2>7. Accounted(Term(Top), Top.st, open \union {Fn[g.inst].def : g \in callees})
    BY <2>1, <2>5, <2>6 DEF Accounted
  <2>8. Settled(Term(Top), tys, Top.st, open, callees)
    BY <2>7, <2>3, <2>4 DEF Settled
  <2>9. Top.phase = "cursor" => Settled(Term(Top), EndTys(Top, Top.bb), Top.st, open, callees)
    BY <2>1, <2>8, TypesAtTerminator DEF tys
  <2>10. [Top EXCEPT !.pc = "callees", !.todo = callees, !.tys = tys]
          = [Top EXCEPT !.pc = "callees", !.i = Top.i, !.st = Top.st, !.todo = callees, !.tys = tys]
    BY <1>1 DEF IsFrame
  <2>11. SetTop([Top EXCEPT !.pc = "callees", !.i = Top.i, !.st = Top.st, !.todo = callees,
                           !.tys = tys])
    BY <2>1, <2>10
  <2> QED
    BY <2>9, <2>11, TurnSites
<1>11. ASSUME NEW fn, SkipRepeated(fn)
       PROVE  \E f : SitesTurn(f)
  <2> DEFINE new == [Top EXCEPT !.todo = Top.todo \ {fn}]
  <2>1. SetTop(new) /\ Top.pc = "callees" /\ OnStack(fn)
    BY <1>11 DEF SkipRepeated, Running
  <2>2. Fn[fn.inst].def \in open
    BY <2>1, TopIsFrame DEF OnStack, StackItem, OpenDefs
  <2>3. /\ new.fn = Top.fn /\ new.phase = Top.phase /\ new.queue = Top.queue /\ new.bb = Top.bb
        /\ new.acc = Top.acc /\ new.pc = Top.pc /\ new.st = Top.st /\ new.todo = Top.todo \ {fn}
        /\ new.entry = Top.entry
    BY <1>1 DEF IsFrame
  <2> HIDE DEF new, open
  <2>4. ASSUME NEW tys, Settled(Term(Top), tys, Top.st, open, Top.todo)
        PROVE  Settled(Term(Top), tys, Top.st, open, new.todo)
    BY <2>2, <2>3, <2>4, SettledMore
  <2>5. Top.phase = "cursor" => Settled(Term(Top), EndTys(Top, Top.bb), Top.st, open, Top.todo)
    BY <2>1 DEF FrameSites, open
  <2>6. FrameSites(new, open)
    BY <2>1, <2>3, <2>4, <2>5, SitesSame DEF open
  <2> QED
    BY <2>1, <2>6 DEF SitesTurn, open
<1>12. ASSUME NEW fn, CallBodyless(fn) \/ CallCached(fn)
       PROVE  \E f : SitesTurn(f)
  <2>1. \E call, ty : /\ SetTop(Returned(Top, fn, call, ty))
                      /\ Top.pc = "callees"
                      /\ call.args = Term(Top).args /\ IsCallOf(call, fn)
    <3>1. CASE CallBodyless(fn)
      BY <3>1 DEF CallBodyless, Running, BodylessCallOf, CallWithoutBody, IsCallOf
    <3>2. CASE CallCached(fn)
      BY <3>2 DEF CallCached, Running, CallOf, CallWithBody, IsCallOf
    <3> QED
      BY <1>12, <3>1, <3>2
  <2>2. PICK call, ty : /\ SetTop(Returned(Top, fn, call, ty))
                        /\ Top.pc = "callees"
                        /\ call.args = Term(Top).args /\ IsCallOf(call, fn)
    BY <2>1
  <2>3. FrameSites(Returned(Top, fn, call, ty), open)
    BY <1>1, <2>2, ReturnedSites
  <2> QED
    BY <2>2, <2>3 DEF SitesTurn
<1>13. CASE FlowOut
  <2> DEFINE b == Head(Top.out)
             joined == JoinDomain(Top.entry[b], Top.st)
             again == Changed(Top.entry[b], joined) /\ b \notin ToSet(Top.queue)
             queue == IF again THEN Append(Top.queue, b) ELSE Top.queue
             new == [Top EXCEPT !.out = Tail(Top.out), !.entry[b] = joined, !.queue = queue]
  <2>1. SetTop(new) /\ Top.phase = "fixpoint"
    BY <1>13 DEF FlowOut
  <2> HIDE DEF b, joined, queue
  <2>2. new.phase = Top.phase
    BY <1>1 DEF IsFrame
  <2> HIDE DEF new
  <2>3. FrameSites(new, open)
    BY <2>1, <2>2 DEF FrameSites
  <2> QED
    BY <2>1, <2>3 DEF SitesTurn
<1>14. CASE LeaveBlock
  <2> DEFINE new == [Top EXCEPT !.pc = "engine"]
  <2>1. SetTop(new) /\ Top.phase = "fixpoint"
    BY <1>14 DEF LeaveBlock
  <2>2. new.phase = Top.phase
    BY <1>1 DEF IsFrame
  <2> HIDE DEF new
  <2>3. FrameSites(new, open)
    BY <2>1, <2>2 DEF FrameSites
  <2> QED
    BY <2>1, <2>3 DEF SitesTurn
<1>15. CASE Accumulate
  <2> DEFINE acc == IF Top.bb = 1 THEN Top.st ELSE JoinDomain(Top.acc, Top.st)
             new == [Top EXCEPT !.acc = acc, !.pc = "engine"]
  <2>1. SetTop(new) /\ Top.phase = "cursor" /\ Top.pc = "callees" /\ Top.todo = {}
    BY <1>15 DEF Accumulate, Running
  <2>2. /\ Top.st.calls \subseteq acc.calls /\ Top.st.unhandled \subseteq acc.unhandled
        /\ Top.bb # 1 => Top.acc.calls \subseteq acc.calls /\ Top.acc.unhandled \subseteq acc.unhandled
    BY JoinFinds
  <2> HIDE DEF acc
  <2>3. /\ new.fn = Top.fn /\ new.phase = Top.phase /\ new.queue = Top.queue /\ new.bb = Top.bb
        /\ new.acc = acc /\ new.pc = "engine" /\ new.entry = Top.entry
    BY <1>1 DEF IsFrame
  <2> HIDE DEF new
  <2>4. Top.bb \in Nat
    BY <1>1, BlockNumbers
  <2>5. ASSUME NEW b \in 1..Top.bb
        PROVE  Settled(Fn[Top.fn.inst].blocks[b].term, EndTys(Top, b), acc, open, {})
    <3>1. CASE b = Top.bb
      <4>1. Settled(Term(Top), EndTys(Top, b), Top.st, open, {})
        BY <2>1, <3>1 DEF FrameSites
      <4> HIDE DEF open
      <4>2. Settled(Term(Top), EndTys(Top, b), acc, open, {})
        BY <2>2, <4>1, SettledMore
      <4> QED
        BY <3>1, <4>2 DEF Term, Block
    <3>2. CASE b # Top.bb
      <4>1. b < Top.bb /\ Top.bb # 1
        BY <2>4, <2>5, <3>2
      <4>2. Settled(Fn[Top.fn.inst].blocks[b].term, EndTys(Top, b), Top.acc, open, {})
        BY <2>1, <4>1 DEF FrameSites
      <4> HIDE DEF open
      <4> QED
        BY <2>2, <4>1, <4>2, SettledMore
    <3> QED
      BY <3>1, <3>2
  <2>6. \A b : EndTys(new, b) = EndTys(Top, b)
    BY <2>3 DEF EndTys
  <2>7. FrameSites(new, open)
    BY <2>1, <2>3, <2>5, <2>6 DEF FrameSites
  <2> QED
    BY <2>1, <2>7 DEF SitesTurn
<1> QED
  BY <1>2, <1>3, <1>5, <1>6, <1>7, <1>8, <1>9, <1>10, <1>11, <1>12, <1>13, <1>14, <1>15
  DEF LocalAction

\* What a step stores.
RecordsTurn ==
    \/ fns' = fns
    \/ \E def, args : fns' = Insert(fns, WithoutBody(def, args))
    \/ \E fn : Cached(fn) /\ fns' = Insert(fns, WithBody(fn.inst, CachedResult(fn)))
    \/ Top.pc = "engine" /\ Exhausted(Top) /\ fns' = Insert(fns, WithBody(Top.fn.inst, Top.acc))

\* Every step stores in one of these ways.
LEMMA StepRecordsTurn ==
    ASSUME [Next]_vars
    PROVE  RecordsTurn
<1>1. CASE CallUnresolved
  BY <1>1 DEF CallUnresolved, RecordsTurn
<1>2. ASSUME NEW fn \in Top.todo, CallBodyless(fn)
      PROVE  RecordsTurn
  BY <1>2 DEF CallBodyless, RecordsTurn
<1>3. ASSUME NEW fn \in Top.todo, CallCached(fn)
      PROVE  RecordsTurn
  BY <1>3 DEF CallCached, RecordsTurn
<1>4. CASE Return \/ Finish
  BY <1>4 DEF Return, Finish, Running, RecordsTurn
<1>5. CASE fns' = fns
  BY <1>5 DEF RecordsTurn
<1>6. \/ CallUnresolved \/ Return \/ Finish
      \/ \E fn \in Top.todo : CallBodyless(fn) \/ CallCached(fn)
      \/ fns' = fns
  BY DEF Next, Callee, PickBlock, SeekBlock, Assign, SkipStatement, SkipTerminator,
         SkipForeignCall, CallUnhandled, CallResolved, SkipRepeated, Enter, FlowOut, LeaveBlock,
         Accumulate, Panic, Stopped, vars
<1> QED
  BY <1>1, <1>2, <1>3, <1>4, <1>5, <1>6

\* A result that came from the storage is there already.
LEMMA CachedIsStored ==
    ASSUME TypeOK, SitesInv, NEW fn, Cached(fn)
    PROVE  Insert(fns, WithBody(fn.inst, CachedResult(fn))) = fns
<1> DEFINE k == FirstMatch(fns, CallWithBody(fn.inst, <<>>))
<1>1. k \in DOMAIN fns /\ Answers(fns[k], CallWithBody(fn.inst, <<>>))
  BY LookupFinds DEF TypeOK, Cached, HasBodyInfo
<1>2. fns[k].kind = "WithBody" /\ fns[k].id = fn.inst
  BY <1>1 DEF Answers, CallWithBody
<1>3. fns[k] = WithBody(fns[k].id, fns[k])
  BY <1>1, <1>2 DEF SitesInv, IsRecord
<1>4. CachedResult(fn) = [places |-> fns[k].places, calls |-> fns[k].calls,
                          unhandled |-> fns[k].unhandled]
  BY DEF CachedResult, GetWithBody, GetByCall
<1> HIDE DEF k
<1>5. fns[k] = WithBody(fn.inst, CachedResult(fn))
  BY <1>2, <1>3, <1>4 DEF WithBody
<1> QED
  BY <1>1, <1>5 DEF Insert

\* Every record that is stored keeps its form.
LEMMA StepIsRecord ==
    ASSUME TypeOK, SitesInv, [Next]_vars
    PROVE  \A k \in DOMAIN fns' : IsRecord(fns'[k])
<1>1. \A k \in DOMAIN fns : IsRecord(fns[k])
  BY DEF SitesInv
<1>2. \A def, args : IsRecord(WithoutBody(def, args))
  BY DEF IsRecord, WithoutBody
<1>3. \A i, d : IsRecord(WithBody(i, d))
  BY DEF IsRecord, WithBody
<1>4. IsSeq(fns)
  BY DEF TypeOK
<1>5. fns' = fns \/ \E info : IsRecord(info) /\ fns' = Insert(fns, info)
  BY <1>2, <1>3, StepRecordsTurn DEF RecordsTurn
<1> QED
  BY <1>1, <1>4, <1>5, InsertHolds

\* Only the innermost function moves, and it calls another one from a call.
LEMMA StepWaits ==
    ASSUME TypeOK, SitesInv, [Next]_vars
    PROVE  (\A k \in DOMAIN frames : k < Len(frames) => frames[k].pc = "callees")'
<1> DEFINE top == Len(frames)
<1>1. /\ DOMAIN frames = 1..top /\ top \in Nat \ {0} /\ IsSeq(frames)
      /\ \A k \in 1..top : k < top => frames[k].pc = "callees"
  BY TopIsFrame DEF TypeOK, SitesInv
<1>2. CASE LocalAction
  <2>1. PICK f : SetTop(f)
    BY <1>2, LocalTurns DEF FrameTurns
  <2>2. frames' = [frames EXCEPT ![top] = f] /\ frames' = [k \in 1..top |-> frames'[k]]
    BY <1>1, <2>1 DEF SetTop
  <2>3. Len(frames') = top
    BY <1>1, <2>2, FunctionIsSeq
  <2> HIDE DEF top
  <2> QED
    BY <1>1, <2>2, <2>3
<1>3. ASSUME NEW fn \in Top.todo, Enter(fn)
      PROVE  (\A k \in DOMAIN frames : k < Len(frames) => frames[k].pc = "callees")'
  <2>1. frames' = Append(frames, NewFrame(fn)) /\ frames[top].pc = "callees"
    BY <1>3 DEF Enter, Running, Top
  <2>2. /\ Len(frames') = top + 1 /\ IsSeq(frames')
        /\ \A k \in DOMAIN frames : frames'[k] = frames[k]
    BY <1>1, <2>1, AppendFacts
  <2> HIDE DEF top
  <2>3. ASSUME NEW k \in DOMAIN frames', k < top + 1
        PROVE  frames'[k].pc = "callees"
    <3>1. k \in 1..top
      BY <1>1, <2>2, <2>3, SeqOverElements
    <3> QED
      BY <1>1, <2>1, <2>2, <3>1
  <2> QED
    BY <2>2, <2>3
<1>4. CASE Return
  <2> DEFINE n == top - 1
             new == Returned(frames[n], Top.fn, CallOf(frames[n], Top.fn), CalleeReturnTy(Top.fn, Top.acc))
  <2>1. /\ n \in DOMAIN frames /\ n \in Nat \ {0}
        /\ frames' = [k \in 1..n |-> IF k = n THEN new ELSE frames[k]]
    BY <1>4, ReturnShape
  <2> HIDE DEF new, n
  <2>2. Len(frames') = n
    BY <2>1, FunctionIsSeq
  <2>3. \A k \in 1..n : k < n => k \in 1..top /\ k < top
    BY <1>1 DEF n
  <2> QED
    BY <1>1, <2>1, <2>2, <2>3
<1>5. CASE frames' = frames
  BY <1>1, <1>5
<1>6. \/ LocalAction \/ Return
      \/ \E fn \in Top.todo : Enter(fn)
      \/ frames' = frames
  BY DEF Next, Callee, LocalAction, Finish, Panic, Stopped, vars
<1> QED
  BY <1>2, <1>3, <1>4, <1>5, <1>6

\* Every step.
LEMMA StepSites ==
    ASSUME TypeOK, ClosuresKnown, SitesInv, [Next]_vars
    PROVE  SitesInv'
<1> DEFINE top == Len(frames)
<1>1. DOMAIN frames = 1..top /\ top \in Nat \ {0} /\ IsSeq(frames)
  BY TopIsFrame DEF TypeOK
<1>2. FrameSites(Top, OpenDefs(top))
  BY TopIsFrame DEF SitesInv, Top
<1>3. \A k \in DOMAIN frames : FrameSites(frames[k], OpenDefs(k))
  BY DEF SitesInv
<1>4. ASSUME NEW n \in Nat, 1..n \subseteq DOMAIN frames, 1..n \subseteq DOMAIN frames',
             \A k \in 1..n : frames'[k].fn = frames[k].fn
      PROVE  OpenDefs(n)' = OpenDefs(n)
  <2>1. OpenDefs(n)' = {Fn[frames'[k].fn.inst].def : k \in 1..n}
    BY DEF OpenDefs
  <2> QED
    BY <1>4, <2>1 DEF OpenDefs
<1>5. (\A k \in DOMAIN frames : FrameSites(frames[k], OpenDefs(k)))'
  <2>1. CASE LocalAction
    <3>1. PICK f : SitesTurn(f)
      BY <1>2, <2>1, LocalSites
    <3>2. PICK g : FrameTurns(g)
      BY <2>1, LocalTurns
    <3>3. /\ frames' = [frames EXCEPT ![top] = f] /\ FrameSites(f, OpenDefs(top))
          /\ frames' = [frames EXCEPT ![top] = g] /\ g.fn = Top.fn
      BY <3>1, <3>2 DEF SitesTurn, FrameTurns, SetTop
    <3>4. f.fn = frames[top].fn
      BY <1>1, <3>3 DEF Top
    <3> HIDE DEF top
    <3>5. ASSUME NEW k \in DOMAIN frames'
          PROVE  FrameSites(frames'[k], OpenDefs(k)')
      <4>1. k \in 1..top /\ k \in Nat /\ 1..k \subseteq 1..top
        BY <1>1, <3>3
      <4>2. \A j \in 1..k : frames'[j].fn = frames[j].fn
        BY <1>1, <3>3, <3>4, <4>1
      <4>3. OpenDefs(k)' = OpenDefs(k)
        BY <1>1, <1>4, <3>3, <4>1, <4>2
      <4>4. FrameSites(frames'[k], OpenDefs(k))
        BY <1>1, <1>3, <3>3, <4>1
      <4> QED
        BY <4>3, <4>4
    <3> QED
      BY <3>5
  <2>2. ASSUME NEW fn \in Top.todo, Enter(fn)
        PROVE  (\A k \in DOMAIN frames : FrameSites(frames[k], OpenDefs(k)))'
    <3> DEFINE new == NewFrame(fn)
    <3>1. new.phase = "fixpoint"
      BY DEF NewFrame
    <3>2. frames' = Append(frames, new)
      BY <2>2 DEF Enter
    <3> HIDE DEF new
    <3>3. /\ IsSeq(frames') /\ Len(frames') = top + 1
          /\ frames'[top + 1] = new
          /\ \A k \in DOMAIN frames : frames'[k] = frames[k]
      BY <1>1, <3>2, AppendFacts
    <3>4. DOMAIN frames' = 1..(top + 1)
      BY <3>3, SeqOverElements
    <3> HIDE DEF top
    <3>5. ASSUME NEW k \in DOMAIN frames'
          PROVE  FrameSites(frames'[k], OpenDefs(k)')
      <4>1. CASE k = top + 1
        BY <3>1, <3>3, <4>1 DEF FrameSites
      <4>2. CASE k \in 1..top
        <5>1. k \in Nat /\ 1..k \subseteq DOMAIN frames /\ 1..k \subseteq DOMAIN frames'
          BY <1>1, <3>4, <4>2
        <5>2. OpenDefs(k)' = OpenDefs(k)
          BY <1>4, <3>3, <5>1
        <5> QED
          BY <1>1, <1>3, <3>3, <4>2, <5>2
      <4> QED
        BY <1>1, <3>4, <4>1, <4>2
    <3> QED
      BY <3>5
  <2>3. CASE Return
    <3> DEFINE n == top - 1
               ty == CalleeReturnTy(Top.fn, Top.acc)
               call == CallOf(frames[n], Top.fn)
               new == Returned(frames[n], Top.fn, call, ty)
    <3>1. /\ n \in DOMAIN frames /\ n \in Nat \ {0}
          /\ frames' = [k \in 1..n |-> IF k = n THEN new ELSE frames[k]]
      BY <2>3, ReturnShape
    <3>2. IsFrame(frames[n])
      BY <3>1 DEF TypeOK
    <3>3. FrameSites(new, OpenDefs(n))
      <4>1. call.args = Term(frames[n]).args /\ IsCallOf(call, Top.fn)
        BY DEF CallOf, CallWithBody, IsCallOf
      <4>2. frames[n].pc = "callees"
        <5>1. \A m \in Nat : m - 1 < m
          OBVIOUS
        <5>2. n < Len(frames)
          BY <1>1, <5>1
        <5> HIDE DEF n
        <5> QED
          BY <3>1, <5>2 DEF SitesInv
      <4> HIDE DEF call, ty, n
      <4> QED
        BY <1>3, <3>1, <3>2, <4>1, <4>2, ReturnedSites
    <3>4. new.fn = frames[n].fn
      <4> DEFINE st == IF Term(frames[n]).dest = NoPlace THEN AddCall(frames[n].st, call)
                       ELSE UpdateWith(AddCall(frames[n].st, call), Term(frames[n]).dest, ty)
      <4>1. new = [frames[n] EXCEPT !.todo = frames[n].todo \ {Top.fn}, !.st = st]
        BY DEF Returned
      <4> HIDE DEF st, new, n
      <4> QED
        BY <3>2, <4>1 DEF IsFrame
    <3> HIDE DEF new, n
    <3>5. ASSUME NEW k \in DOMAIN frames'
          PROVE  FrameSites(frames'[k], OpenDefs(k)')
      <4>1. /\ k \in 1..n /\ k \in Nat /\ 1..k \subseteq 1..n /\ DOMAIN frames' = 1..n
            /\ 1..n \subseteq DOMAIN frames
        BY <1>1, <3>1
      <4>2. \A j \in 1..k : frames'[j].fn = frames[j].fn
        BY <3>1, <3>4, <4>1
      <4>3. OpenDefs(k)' = OpenDefs(k)
        BY <1>4, <4>1, <4>2
      <4> QED
        BY <1>3, <3>1, <3>3, <4>1, <4>3
    <3> QED
      BY <3>5
  <2>4. CASE frames' = frames
    <3>1. \A k : OpenDefs(k)' = OpenDefs(k)
      BY <2>4 DEF OpenDefs
    <3> QED
      BY <1>3, <2>4, <3>1
  <2>5. \/ LocalAction \/ Return
        \/ \E fn \in Top.todo : Enter(fn)
        \/ frames' = frames
    BY DEF Next, Callee, LocalAction, Finish, Panic, Stopped, vars
  <2> QED
    BY <2>1, <2>2, <2>3, <2>4, <2>5
<1>6. (\A k \in DOMAIN fns : IsRecord(fns[k]))'
  BY StepIsRecord DEF IsRecord
<1>7. (\A k \in DOMAIN frames : k < Len(frames) => frames[k].pc = "callees")'
  BY StepWaits
<1> QED
  BY <1>5, <1>6, <1>7 DEF SitesInv

\* The start.
LEMMA InitSites ==
    ASSUME Init
    PROVE  SitesInv
<1>1. fns = <<>>
  BY DEF Init
<1>2. PICK new : frames = <<new>> /\ new.phase = "fixpoint"
  BY DEF Init, NewFrame
<1>3. DOMAIN frames = {1} /\ frames[1] = new /\ Len(frames) = 1
  BY <1>2
<1> QED
  BY <1>1, <1>2, <1>3 DEF SitesInv, FrameSites

\* No call is lost on the way from a body to its record, whatever the body,
\* the storages at the time and the order of the callees.
THEOREM NoCallIsLost == Spec => RecordsAreComplete
<1> DEFINE Complete == \A k \in DOMAIN fns' \ DOMAIN fns :
                          SitesAccounted(fns'[k], OpenDefs(Len(frames)))
<1>1. Init => SitesInv
  BY InitSites
<1>2. TypeOK /\ ClosuresKnown /\ SitesInv /\ [Next]_vars => SitesInv'
  BY StepSites
<1>3. TypeOK /\ SitesInv /\ [Next]_vars => [Complete]_fns
  <2> SUFFICES ASSUME TypeOK, SitesInv, [Next]_vars
               PROVE  Complete
    OBVIOUS
  <2>1. IsSeq(fns)
    BY DEF TypeOK
  <2>2. CASE fns' = fns
    BY <2>2
  <2>3. ASSUME NEW def, NEW args, fns' = Insert(fns, WithoutBody(def, args))
        PROVE  Complete
    <3>1. SitesAccounted(WithoutBody(def, args), OpenDefs(Len(frames)))
      BY DEF SitesAccounted, WithoutBody
    <3> QED
      BY <2>1, <2>3, <3>1, InsertHolds
  <2>4. ASSUME Top.pc = "engine", Exhausted(Top), fns' = Insert(fns, WithBody(Top.fn.inst, Top.acc))
        PROVE  Complete
    <3> DEFINE info == WithBody(Top.fn.inst, Top.acc)
    <3>1. FrameSites(Top, OpenDefs(Len(frames))) /\ IsFrame(Top)
      BY TopIsFrame DEF SitesInv, Top
    <3>2. Top.phase = "cursor" /\ DOMAIN Fn[Top.fn.inst].blocks = 1..Top.bb
      BY <2>4, <3>1, BlockNumbers DEF Exhausted
    <3>3. /\ info.id = Top.fn.inst /\ info.calls = Top.acc.calls
          /\ info.unhandled = Top.acc.unhandled
      BY DEF WithBody
    <3> HIDE DEF info
    <3>4. \A b \in DOMAIN Fn[Top.fn.inst].blocks :
             Accounted(Fn[Top.fn.inst].blocks[b].term, info, OpenDefs(Len(frames)))
      BY <2>4, <3>1, <3>2, <3>3, AccountedMore DEF FrameSites, Settled
    <3>5. SitesAccounted(info, OpenDefs(Len(frames)))
      BY <3>3, <3>4 DEF SitesAccounted
    <3> QED
      BY <2>1, <2>4, <3>5, InsertHolds DEF info
  <2> QED
    BY <2>2, <2>3, <2>4, CachedIsStored, StepRecordsTurn DEF RecordsTurn
<1> QED
  BY <1>1, <1>2, <1>3, TypeCorrect, ClosuresAreKnown, PTL DEF Spec, RecordsAreComplete

\* A finished body: nothing is awaited, and what the final pass has found is
\* what the analysis returns.
LEMMA SitesFound ==
    ASSUME TypeOK, SitesInv
    PROVE  SitesCovered
<1> DEFINE blocks == Fn[Top.fn.inst].blocks
<1> SUFFICES ASSUME Exhausted(Top), NEW b \in DOMAIN Top.entry
             PROVE  Covered(blocks[b].term, EndTys(Top, b), Top.acc, OpenDefs(Len(frames)))
  BY DEF SitesCovered, EndTys
<1>1. FrameSites(Top, OpenDefs(Len(frames))) /\ IsFrame(Top)
  BY TopIsFrame DEF SitesInv, Top
<1>2. b \in 1..Top.bb /\ Top.phase = "cursor" /\ Top.pc = "engine"
  BY <1>1, BlockNumbers DEF Exhausted, IsFrame
<1>3. Settled(blocks[b].term, EndTys(Top, b), Top.acc, OpenDefs(Len(frames)), {})
  BY <1>1, <1>2 DEF FrameSites
<1>4. \A i : ~Awaited(i, {})
  BY DEF Awaited
<1> QED
  BY <1>3, <1>4 DEF Settled, Covered, Accounted

\* Nor is one of several functions that a call may be dispatched to: given the
\* types that its arguments have when the fixpoint is reached, each of them is
\* in the result of the body, for every program.
THEOREM SitesAreCovered == Spec => []SitesCovered
<1>1. Init => SitesInv
  BY InitSites
<1>2. TypeOK /\ ClosuresKnown /\ SitesInv /\ [Next]_vars => SitesInv'
  BY StepSites
<1>3. TypeOK /\ SitesInv => SitesCovered
  BY SitesFound
<1> QED
  BY <1>1, <1>2, <1>3, TypeCorrect, ClosuresAreKnown, PTL DEF Spec

----------------------------------------------------------------------------
(* Results.                                                                *)

\* What a place of a declared type has seen, it has seen through any joins.
LEMMA JoinKeepsSeen ==
    ASSUME NEW t, Tracked(t), NEW u
    PROVE  /\ Join(Join(t, u), u) = Join(t, u)
           /\ \A seen : Join(t, seen) = t => Join(Join(t, u), seen) = Join(t, u)
<1>1. CASE IsPresent(t)
  BY <1>1 DEF Join
<1>2. CASE ~IsPresent(t)
  <2>1. \A S : Erased(S).deps = S /\ ~IsPresent(Erased(S))
    BY DEF Erased, IsPresent
  <2>2. t = Erased(t.deps)
    BY <1>2 DEF Tracked
  <2>3. Join(t, u) = Erased(t.deps \union u.deps)
    BY <1>2 DEF Join
  <2>4. \A v : Join(Join(t, u), v) = Erased((t.deps \union u.deps) \union v.deps)
    BY <2>1, <2>3 DEF Join
  <2>5. (t.deps \union u.deps) \union u.deps = t.deps \union u.deps
    OBVIOUS
  <2>6. ASSUME NEW seen, Join(t, seen) = t
        PROVE  Join(Join(t, u), seen) = Join(t, u)
    <3>1. t.deps \union seen.deps = t.deps
      BY <1>2, <2>1, <2>6 DEF Join
    <3>2. (t.deps \union u.deps) \union seen.deps = t.deps \union u.deps
      BY <3>1
    <3> QED
      BY <2>3, <2>4, <3>2
  <2> QED
    BY <2>3, <2>4, <2>5, <2>6
<1> QED
  BY <1>1, <1>2

\* Two values of one place: joined, they have seen what either has, in
\* whatever order, as both hold what is declared.
LEMMA JoinHasSeen ==
    ASSUME NEW ty, NEW t, NEW u, Holds(FromTy(ty), t), Holds(FromTy(ty), u)
    PROVE  /\ Tracked(t)
           /\ \A seen : Join(u, seen) = u => Join(Join(t, u), seen) = Join(t, u)
<1>1. CASE IsPresent(FromTy(ty))
  BY <1>1 DEF Holds, Join, Tracked
<1>2. CASE ~IsPresent(FromTy(ty))
  <2>1. \A S : Erased(S).deps = S /\ ~IsPresent(Erased(S))
    BY DEF Erased, IsPresent
  <2>2. t = Erased(t.deps) /\ u = Erased(u.deps)
    BY <1>2 DEF Holds
  <2>3. ~IsPresent(t) /\ ~IsPresent(u)
    BY <2>1, <2>2
  <2>4. Join(t, u) = Erased(t.deps \union u.deps)
    BY <2>3 DEF Join
  <2>5. ASSUME NEW seen, Join(u, seen) = u
        PROVE  Join(Join(t, u), seen) = Join(t, u)
    <3>1. u.deps \union seen.deps = u.deps
      BY <2>1, <2>3, <2>5 DEF Join
    <3>2. (t.deps \union u.deps) \union seen.deps = t.deps \union u.deps
      BY <3>1
    <3>3. Join(Join(t, u), seen) = Erased((t.deps \union u.deps) \union seen.deps)
      BY <2>1, <2>4 DEF Join
    <3> QED
      BY <2>4, <3>2, <3>3
  <2> QED
    BY <2>2, <2>5 DEF Tracked
<1> QED
  BY <1>1, <1>2

\* The declared places of new have seen all that those of old have.
HaveSeen(i, old, new) ==
    \A p \in DOMAIN Fn[i].decl : \A seen :
        Join(old[p], seen) = old[p] => Join(new[p], seen) = new[p]

\* What an update writes is seen, and nothing that was is forgotten.
LEMMA UpdateSees ==
    ASSUME NEW i, NEW d, Sound(i, d.places), NEW p, NEW t
    PROVE  LET after == UpdateWith(d, p, t).places
           IN  /\ HaveSeen(i, d.places, after)
               /\ p \in DOMAIN Fn[i].decl => Join(after[p], t) = after[p]
<1> DEFINE joined == Join(d.places[p], t)
           start == [d.places EXCEPT ![p] = joined]
           paths == Paths(start, p, joined)
           image(q) == {Project(ty, p, q) : ty \in joined.deps}
           after == UpdateWith(d, p, t).places
<1>1. \A q \in DOMAIN d.places :
        after[q] = IF q \in paths THEN Join(start[q], MapTy(joined, image(q))) ELSE start[q]
  BY DEF UpdateWith, Propagate
<1>2. ASSUME NEW q \in DOMAIN Fn[i].decl
      PROVE  /\ q \in DOMAIN d.places
             /\ Tracked(d.places[q])
             /\ start[q] = IF q = p THEN joined ELSE d.places[q]
  BY JoinHasSeen DEF Sound, Stands
<1> HIDE DEF after, start, paths, image
<1>3. ASSUME NEW q \in DOMAIN Fn[i].decl
      PROVE  /\ Tracked(start[q])
             /\ \A seen : Join(d.places[q], seen) = d.places[q] => Join(start[q], seen) = start[q]
             /\ q = p => Join(start[q], t) = start[q]
  BY <1>2, JoinKeepsSeen, JoinAbsorbs
<1>4. ASSUME NEW q \in DOMAIN Fn[i].decl, NEW seen, Join(start[q], seen) = start[q]
      PROVE  Join(after[q], seen) = after[q]
  BY <1>1, <1>2, <1>3, <1>4, JoinKeepsSeen
<1>5. HaveSeen(i, d.places, after)
  BY <1>3, <1>4 DEF HaveSeen
<1>6. p \in DOMAIN Fn[i].decl => Join(after[p], t) = after[p]
  BY <1>3, <1>4
<1> QED
  BY <1>5, <1>6 DEF after

\* A join of two states of a body has seen what either has.
LEMMA JoinSees ==
    ASSUME NEW i, NEW d, NEW e, Sound(i, d.places), Sound(i, e.places)
    PROVE  /\ HaveSeen(i, d.places, JoinDomain(d, e).places)
           /\ HaveSeen(i, e.places, JoinDomain(d, e).places)
<1> DEFINE after == JoinDomain(d, e).places
<1>1. ASSUME NEW p \in DOMAIN Fn[i].decl
      PROVE  /\ after[p] = Join(d.places[p], e.places[p])
             /\ Holds(FromTy(Fn[i].decl[p]), d.places[p])
             /\ Holds(FromTy(Fn[i].decl[p]), e.places[p])
  BY DEF Sound, Stands, JoinDomain
<1> HIDE DEF after
<1>2. HaveSeen(i, d.places, after)
  BY <1>1, JoinHasSeen, JoinKeepsSeen DEF HaveSeen
<1>3. HaveSeen(i, e.places, after)
  BY <1>1, JoinHasSeen DEF HaveSeen
<1> QED
  BY <1>2, <1>3 DEF after

\* The records of store are in more, at the same places.
Extends(store, more) == \A k \in DOMAIN store : k \in DOMAIN more /\ more[k] = store[k]

\* A result that has arrived stays, in a later state with a longer storage.
LEMMA ArrivedStays ==
    ASSUME NEW i \in Inst, NEW b \in DOMAIN Fn[i].blocks, Fn[i].blocks[b].term.fun.kind = "FnDef",
           NEW call, NEW old, NEW new, HaveSeen(i, old, new),
           NEW store, NEW more, Extends(store, more),
           Arrived(call, Fn[i].blocks[b].term.dest, old, store)
    PROVE  Arrived(call, Fn[i].blocks[b].term.dest, new, more)
<1> DEFINE dest == Fn[i].blocks[b].term.dest
<1>1. dest \in DOMAIN Fn[i].decl \union {NoPlace}
  BY ProgramAssumption
<1> HIDE DEF dest
<1> SUFFICES ASSUME call.kind = "WithBody", dest # NoPlace
             PROVE  \E k \in DOMAIN more :
                      /\ Answers(more[k], call)
                      /\ LET ty == ReturnTy(more[k], Fn[call.id].decl[ReturnPlace])
                         IN  Join(new[dest], ty) = new[dest]
  BY DEF Arrived, dest
<1>2. PICK k \in DOMAIN store :
        /\ Answers(store[k], call)
        /\ LET ty == ReturnTy(store[k], Fn[call.id].decl[ReturnPlace])
           IN  Join(old[dest], ty) = old[dest]
  BY DEF Arrived, dest
<1>3. k \in DOMAIN more /\ more[k] = store[k]
  BY DEF Extends
<1> QED
  BY <1>1, <1>2, <1>3 DEF HaveSeen

\* So it is for all calls.
LEMMA CallsStay ==
    ASSUME NEW i \in Inst, NEW d, NEW e, NEW store, NEW more, Extends(store, more),
           CallsArrive(i, d, store), e.calls \subseteq d.calls, HaveSeen(i, d.places, e.places)
    PROVE  CallsArrive(i, e, more)
<1> SUFFICES ASSUME NEW call \in e.calls
             PROVE  \E b \in DOMAIN Fn[i].blocks :
                      LET t == Fn[i].blocks[b].term
                      IN  IsSiteOf(t, call) /\ Arrived(call, t.dest, e.places, more)
  BY DEF CallsArrive
<1>1. PICK b \in DOMAIN Fn[i].blocks :
        LET t == Fn[i].blocks[b].term
        IN  IsSiteOf(t, call) /\ Arrived(call, t.dest, d.places, store)
  BY DEF CallsArrive
<1>2. Arrived(call, Fn[i].blocks[b].term.dest, e.places, more)
  BY <1>1, ArrivedStays DEF IsSiteOf
<1> QED
  BY <1>1, <1>2

\* Two states of a body, joined.
LEMMA JoinArrives ==
    ASSUME NEW i \in Inst, NEW d, NEW e, Sound(i, d.places), Sound(i, e.places), NEW store,
           CallsArrive(i, d, store), CallsArrive(i, e, store)
    PROVE  CallsArrive(i, JoinDomain(d, e), store)
<1> DEFINE both == JoinDomain(d, e)
           part(x) == [places |-> both.places, calls |-> x.calls, unhandled |-> both.unhandled]
<1>1. HaveSeen(i, d.places, both.places) /\ HaveSeen(i, e.places, both.places)
  BY JoinSees
<1>2. both.calls = d.calls \union e.calls
  BY JoinShape
<1>3. Extends(store, store)
  BY DEF Extends
<1> HIDE DEF both
<1>4. \A x : part(x).calls = x.calls /\ part(x).places = both.places
  OBVIOUS
<1> HIDE DEF part
<1>5. CallsArrive(i, part(d), store) /\ CallsArrive(i, part(e), store)
  BY <1>1, <1>3, <1>4, CallsStay
<1>6. CallsArrive(i, both, store)
  BY <1>2, <1>4, <1>5 DEF CallsArrive
<1> QED
  BY <1>6 DEF both

\* What the calls of all states of frame f have returned has arrived.
FrameFlows(f, store) ==
    /\ CallsArrive(f.fn.inst, f.st, store)
    /\ CallsArrive(f.fn.inst, f.acc, store)
    /\ \A b \in DOMAIN f.entry : CallsArrive(f.fn.inst, f.entry[b], store)

\* The callees f has left are those of the call it is at.
TodoAtSite(f) ==
    f.todo # {} =>
        /\ f.pc = "callees"
        /\ Term(f).fun.kind = "FnDef"
        /\ \A fn \in f.todo : Fn[fn.inst].def \in TargetDefs(Term(f).fun)

\* The inductive invariant: each function under analysis is a callee its
\* caller has left, and so its call will be one of the caller's sites.
StackFlows ==
    /\ \A k \in DOMAIN frames : FrameFlows(frames[k], fns) /\ TodoAtSite(frames[k])
    /\ \A k \in 1..(Len(frames) - 1) : frames[k + 1].fn \in frames[k].todo
FlowInv == StackFlows /\ ResultsFlow

\* The storage only gets longer.
LEMMA StepExtends ==
    ASSUME TypeOK, [Next]_vars
    PROVE  Extends(fns, fns')
<1>1. fns' = fns \/ \E info : fns' = Insert(fns, info)
  BY StepRecordsTurn DEF RecordsTurn
<1> QED
  BY <1>1, InsertExtends DEF TypeOK, Extends

\* A longer storage answers what the shorter one did.
LEMMA CallsStayAlone ==
    ASSUME NEW i, NEW d, NEW store, NEW more, Extends(store, more), CallsArrive(i, d, store)
    PROVE  CallsArrive(i, d, more)
<1>1. ASSUME NEW call, NEW dest, Arrived(call, dest, d.places, store)
      PROVE  Arrived(call, dest, d.places, more)
  BY <1>1 DEF Arrived, Extends
<1> QED
  BY <1>1 DEF CallsArrive

\* So it does for a frame.
LEMMA FlowsStay ==
    ASSUME NEW f, IsFrame(f), NEW store, NEW more, Extends(store, more), FrameFlows(f, store)
    PROVE  FrameFlows(f, more)
<1>1. f.fn.inst \in Inst
  BY DEF IsFrame, IsFunction
<1> QED
  BY <1>1, CallsStayAlone DEF FrameFlows

\* An update of a state forgets no result that has arrived.
LEMMA UpdateArrives ==
    ASSUME NEW i \in Inst, NEW d, Sound(i, d.places), NEW p, NEW t, NEW store,
           CallsArrive(i, d, store)
    PROVE  CallsArrive(i, UpdateWith(d, p, t), store)
<1> DEFINE new == UpdateWith(d, p, t)
<1>1. HaveSeen(i, d.places, new.places)
  BY UpdateSees
<1>2. new.calls = d.calls
  BY DEF UpdateWith
<1>3. Extends(store, store)
  BY DEF Extends
<1> HIDE DEF new
<1>4. CallsArrive(i, new, store)
  BY <1>1, <1>2, <1>3, CallsStay
<1> QED
  BY <1>4 DEF new

\* A state with one call more, whose result is there.
LEMMA MoreArrives ==
    ASSUME NEW i \in Inst, NEW d, NEW e, NEW call, NEW store, CallsArrive(i, d, store),
           e.calls = d.calls \union {call}, HaveSeen(i, d.places, e.places),
           NEW b \in DOMAIN Fn[i].blocks,
           IsSiteOf(Fn[i].blocks[b].term, call),
           Arrived(call, Fn[i].blocks[b].term.dest, e.places, store)
    PROVE  CallsArrive(i, e, store)
<1> DEFINE before == [places |-> e.places, calls |-> d.calls]
<1>1. Extends(store, store)
  BY DEF Extends
<1>2. before.places = e.places /\ before.calls = d.calls
  OBVIOUS
<1> HIDE DEF before
<1>3. CallsArrive(i, before, store)
  BY <1>1, <1>2, CallsStay
<1> QED
  BY <1>2, <1>3 DEF CallsArrive

\* A callee is dealt with: its result is where the call puts it.
LEMMA ReturnedFlows ==
    ASSUME NEW f, IsFrame(f), FrameStands(f), NEW store, FrameFlows(f, store), TodoAtSite(f),
           NEW fn \in f.todo, NEW call, NEW ty, CanReturnTo(f, ty),
           call.args = Term(f).args, CalledDef(call) = Fn[fn.inst].def,
           call.kind = "WithBody" =>
               \E k \in DOMAIN store :
                   /\ Answers(store[k], call)
                   /\ ReturnTy(store[k], Fn[call.id].decl[ReturnPlace]) = ty
    PROVE  LET new == Returned(f, fn, call, ty)
           IN  /\ new.fn = f.fn
               /\ FrameFlows(new, store)
               /\ TodoAtSite(new)
<1> DEFINE i == f.fn.inst
           dest == Term(f).dest
           called == AddCall(f.st, call)
           st == IF dest = NoPlace THEN called ELSE UpdateWith(called, dest, ty)
           new == [f EXCEPT !.todo = f.todo \ {fn}, !.st = st]
<1>1. /\ i \in Inst /\ IsDomain(f.st) /\ Sound(i, f.st.places)
      /\ f.pc = "callees" /\ f.bb \in DOMAIN Fn[i].blocks
  BY DEF IsFrame, IsFunction, IsDomainOf, FrameStands, TodoAtSite
<1>2. Term(f) = Fn[i].blocks[f.bb].term /\ IsSiteOf(Term(f), call)
  BY DEF Term, Block, IsSiteOf, TodoAtSite
<1>3. /\ Sound(i, called.places) /\ called.places = f.st.places
      /\ called.calls = f.st.calls \union {call}
  BY <1>1, AddStands, AddShape, AddFinds
<1>4. dest \in DOMAIN Fn[i].decl \union {NoPlace}
  BY <1>1, <1>2, ProgramAssumption DEF IsSiteOf
<1> HIDE DEF called, dest
<1>5. /\ st.calls = f.st.calls \union {call}
      /\ HaveSeen(i, f.st.places, st.places)
      /\ dest # NoPlace => Join(st.places[dest], ty) = st.places[dest]
  <2>1. CASE dest = NoPlace
    BY <1>3, <2>1 DEF HaveSeen
  <2>2. CASE dest # NoPlace
    <3>1. st.calls = called.calls
      BY <2>2 DEF UpdateWith
    <3> QED
      BY <1>3, <1>4, <2>2, <3>1, UpdateSees
  <2> QED
    BY <2>1, <2>2
<1> HIDE DEF st
<1>6. Arrived(call, dest, st.places, store)
  BY <1>5 DEF Arrived
<1>7. CallsArrive(i, st, store)
  <2>1. CallsArrive(i, f.st, store)
    BY DEF FrameFlows
  <2>2. Arrived(call, Fn[i].blocks[f.bb].term.dest, st.places, store)
    BY <1>2, <1>6 DEF dest
  <2> HIDE DEF i
  <2> QED
    BY <1>1, <1>2, <1>5, <2>1, <2>2, MoreArrives
<1>8. Returned(f, fn, call, ty) = new
  BY DEF Returned, st, called, dest
<1>9. /\ new.fn = f.fn /\ new.acc = f.acc /\ new.entry = f.entry /\ new.st = st
      /\ new.pc = f.pc /\ new.bb = f.bb /\ new.todo = f.todo \ {fn}
  BY DEF IsFrame
<1> HIDE DEF new
<1>10. FrameFlows(new, store)
  BY <1>7, <1>9 DEF FrameFlows
<1>11. TodoAtSite(new)
  <2>1. Term(new) = Term(f)
    BY <1>9 DEF Term, Block
  <2> QED
    BY <1>9, <2>1 DEF TodoAtSite
<1> QED
  BY <1>8, <1>9, <1>10, <1>11

\* The top frame after a step, with what has arrived in it.
FlowsTurn(f) == SetTop(f) /\ f.fn = Top.fn /\ FrameFlows(f, fns') /\ TodoAtSite(f)

\* What a step starts from, and what is answered after it.
LEMMA TopFlows ==
    ASSUME TypeOK, TypesInv, FlowInv, [Next]_vars
    PROVE  /\ FrameFlows(Top, fns') /\ TodoAtSite(Top)
           /\ Top.pc # "callees" => Top.todo = {}
<1>1. Len(frames) \in DOMAIN frames /\ IsFrame(Top)
  BY TopIsFrame
<1>2. FrameFlows(Top, fns) /\ TodoAtSite(Top)
  BY <1>1 DEF FlowInv, StackFlows, Top
<1>3. Extends(fns, fns')
  BY StepExtends
<1> QED
  BY <1>1, <1>2, <1>3, FlowsStay DEF TodoAtSite

\* A step that changes no more than the current state.
LEMMA EffectFlows ==
    ASSUME TypeOK, TypesInv, FlowInv, [Next]_vars,
           NEW new, SetTop(new), new.fn = Top.fn, new.acc = Top.acc, new.entry = Top.entry,
           CallsArrive(Top.fn.inst, new.st, fns'), TodoAtSite(new)
    PROVE  \E f : FlowsTurn(f)
  BY TopFlows DEF FlowsTurn, FrameFlows

\* Blocks are entered with the engine's states.
LEMMA EnterBlockFlows ==
    ASSUME TypeOK, TypesInv, FlowInv, [Next]_vars, PickBlock \/ SeekBlock
    PROVE  \E f : FlowsTurn(f)
<1>1. IsFrame(Top) /\ FrameFlows(Top, fns')
  BY TopStands, TopFlows
<1>2. Top.todo = {}
  BY TopFlows DEF PickBlock, SeekBlock, Running
<1>3. ASSUME NEW phase, NEW queue, NEW b \in DOMAIN Top.entry, NEW out,
             SetTop([Top EXCEPT !.phase = phase, !.queue = queue, !.bb = b, !.i = 1,
                                !.out = out, !.st = Top.entry[b], !.pc = "effects"])
      PROVE  \E f : FlowsTurn(f)
  <2> DEFINE st == Top.entry[b]
             new == [Top EXCEPT !.phase = phase, !.queue = queue, !.bb = b, !.i = 1,
                                !.out = out, !.st = st, !.pc = "effects"]
  <2>1. SetTop(new) /\ CallsArrive(Top.fn.inst, st, fns')
    BY <1>1, <1>3 DEF FrameFlows
  <2> HIDE DEF st
  <2>2. /\ new.fn = Top.fn /\ new.acc = Top.acc /\ new.entry = Top.entry
        /\ new.st = st /\ new.todo = Top.todo
    BY <1>1 DEF IsFrame
  <2> HIDE DEF new
  <2>3. TodoAtSite(new)
    BY <1>2, <2>2 DEF TodoAtSite
  <2> QED
    BY <2>1, <2>2, <2>3, EffectFlows
<1> QED
  BY <1>3, EnterBlockShape

\* Effects without a callee to deal with.
LEMMA PlainFlows ==
    ASSUME TypeOK, TypesInv, FlowInv, [Next]_vars,
           \/ Assign \/ SkipStatement \/ SkipTerminator \/ SkipForeignCall
           \/ CallUnhandled \/ CallUnresolved
    PROVE  \E f : FlowsTurn(f)
<1> DEFINE inst == Top.fn.inst
<1>1. /\ IsFrame(Top) /\ IsDomain(Top.st) /\ inst \in Inst
      /\ Sound(inst, Top.st.places) /\ CallsArrive(inst, Top.st, fns')
  BY TopStands, TopFlows DEF FrameStands, FrameFlows
<1>2. Top.pc = "effects" /\ Top.todo = {}
  BY TopFlows DEF Assign, SkipStatement, SkipTerminator, SkipForeignCall, CallUnhandled,
                  CallUnresolved, Running
<1>3. Top.bb \in DOMAIN Fn[inst].blocks /\ Term(Top) = Fn[inst].blocks[Top.bb].term
  BY <1>1, <1>2 DEF IsFrame, Term, Block
<1> HIDE DEF inst
<1>4. ASSUME NEW new, SetTop(new), new.fn = Top.fn, new.acc = Top.acc, new.entry = Top.entry,
             new.todo = Top.todo, CallsArrive(inst, new.st, fns')
      PROVE  \E f : FlowsTurn(f)
  <2>1. TodoAtSite(new)
    BY <1>2, <1>4 DEF TodoAtSite
  <2> QED
    BY <1>4, <2>1, EffectFlows DEF inst
<1>5. ASSUME NEW st, CallsArrive(inst, st, fns'), SetTop([Top EXCEPT !.pc = "callees", !.st = st])
      PROVE  \E f : FlowsTurn(f)
  <2> DEFINE new == [Top EXCEPT !.pc = "callees", !.st = st]
  <2>1. /\ new.fn = Top.fn /\ new.st = st /\ new.acc = Top.acc /\ new.entry = Top.entry
        /\ new.todo = Top.todo
    BY <1>1 DEF IsFrame
  <2>2. SetTop(new)
    BY <1>5
  <2> HIDE DEF new
  <2> QED
    BY <1>4, <1>5, <2>1, <2>2
<1>6. CASE Assign
  <2> DEFINE s == Stmt(Top)
             st == UpdateWith(Top.st, s.place, RvalueTy(Top.st.places, s.rv))
             new == [Top EXCEPT !.i = Top.i + 1, !.st = st]
  <2>1. SetTop(new)
    BY <1>6 DEF Assign
  <2>2. CallsArrive(inst, st, fns')
    BY <1>1, UpdateArrives
  <2> HIDE DEF st
  <2>3. /\ new.fn = Top.fn /\ new.st = st /\ new.acc = Top.acc /\ new.entry = Top.entry
        /\ new.todo = Top.todo
    BY <1>1 DEF IsFrame
  <2> HIDE DEF new
  <2> QED
    BY <1>4, <2>1, <2>2, <2>3
<1>7. CASE SkipStatement
  <2> DEFINE new == [Top EXCEPT !.i = Top.i + 1]
  <2>1. SetTop(new)
    BY <1>7 DEF SkipStatement
  <2>2. /\ new.fn = Top.fn /\ new.st = Top.st /\ new.acc = Top.acc /\ new.entry = Top.entry
        /\ new.todo = Top.todo
    BY <1>1 DEF IsFrame
  <2> HIDE DEF new
  <2> QED
    BY <1>1, <1>4, <2>1, <2>2
<1>8. CASE SkipTerminator \/ SkipForeignCall
  <2> DEFINE new == [Top EXCEPT !.pc = "callees"]
  <2>1. SetTop(new)
    BY <1>8 DEF SkipTerminator, SkipForeignCall
  <2>2. /\ new.fn = Top.fn /\ new.st = Top.st /\ new.acc = Top.acc /\ new.entry = Top.entry
        /\ new.todo = Top.todo
    BY <1>1 DEF IsFrame
  <2> HIDE DEF new
  <2> QED
    BY <1>1, <1>4, <2>1, <2>2
<1>9. CASE CallUnhandled
  <2> DEFINE st == AddUnhandled(Top.st, Term(Top).fun.ty)
  <2>1. SetTop([Top EXCEPT !.pc = "callees", !.st = st])
    BY <1>9 DEF CallUnhandled
  <2>2. st.places = Top.st.places /\ st.calls = Top.st.calls
    BY <1>1, AddShape, AddFinds
  <2> HIDE DEF st
  <2>3. CallsArrive(inst, st, fns')
    BY <1>1, <2>2 DEF CallsArrive
  <2> QED
    BY <1>5, <2>1, <2>3
<1>10. CASE CallUnresolved
  <2> DEFINE call == CallWithoutBody(Term(Top).fun.def, Term(Top).args)
             st == AddCall(Top.st, call)
  <2>1. SetTop([Top EXCEPT !.pc = "callees", !.st = st]) /\ Term(Top).fun.kind = "FnDef"
    BY <1>10 DEF CallUnresolved, Calls
  <2>2. st.places = Top.st.places /\ st.calls = Top.st.calls \union {call}
    BY <1>1, AddShape, AddFinds
  <2>3. IsSiteOf(Term(Top), call) /\ call.kind = "WithoutBody"
    BY <2>1 DEF IsSiteOf, CalledDef, TargetDefs, CallWithoutBody
  <2> HIDE DEF st, call
  <2>4. HaveSeen(inst, Top.st.places, st.places)
    BY <2>2 DEF HaveSeen
  <2>5. Arrived(call, Fn[inst].blocks[Top.bb].term.dest, st.places, fns')
    BY <2>3 DEF Arrived
  <2>6. CallsArrive(inst, st, fns')
    BY <1>1, <1>3, <2>2, <2>3, <2>4, <2>5, MoreArrives
  <2> QED
    BY <1>5, <2>1, <2>6
<1> QED
  BY <1>6, <1>7, <1>8, <1>9, <1>10

\* The callees of the call the top frame is at.
LEMMA CalleesFlow ==
    ASSUME TypeOK, ClosuresKnown, TypesInv, FlowInv, [Next]_vars,
           CallResolved \/ \E fn : SkipRepeated(fn)
    PROVE  \E f : FlowsTurn(f)
<1>1. IsFrame(Top) /\ CallsArrive(Top.fn.inst, Top.st, fns')
  BY TopStands, TopFlows DEF FrameFlows
<1>2. CASE CallResolved
  <2> DEFINE callees == Resolve(Term(Top).fun, CallTys(Top))
             tys == CallTys(Top)
             new == [Top EXCEPT !.pc = "callees", !.todo = callees, !.tys = tys]
  <2>1. /\ SetTop(new) /\ Term(Top).fun.kind = "FnDef"
        /\ \A fn \in callees : NewCallee(fn)
    BY <1>2 DEF CallResolved, Calls, NewCallee
  <2>2. \A fn \in callees : Fn[fn.inst].def \in TargetDefs(Term(Top).fun)
    BY <2>1, CalleeOfTop DEF TargetDefs
  <2> HIDE DEF callees, tys
  <2>3. /\ new.fn = Top.fn /\ new.st = Top.st /\ new.acc = Top.acc /\ new.entry = Top.entry
        /\ new.bb = Top.bb /\ new.pc = "callees" /\ new.todo = callees
    BY <1>1 DEF IsFrame
  <2> HIDE DEF new
  <2>4. Term(new) = Term(Top)
    BY <2>3 DEF Term, Block
  <2>5. TodoAtSite(new)
    BY <2>1, <2>2, <2>3, <2>4 DEF TodoAtSite
  <2> QED
    BY <1>1, <2>1, <2>3, <2>5, EffectFlows
<1>3. ASSUME NEW fn, SkipRepeated(fn)
      PROVE  \E f : FlowsTurn(f)
  <2> DEFINE new == [Top EXCEPT !.todo = Top.todo \ {fn}]
  <2>1. SetTop(new) /\ TodoAtSite(Top)
    BY <1>3, TopFlows DEF SkipRepeated
  <2>2. /\ new.fn = Top.fn /\ new.st = Top.st /\ new.acc = Top.acc /\ new.entry = Top.entry
        /\ new.bb = Top.bb /\ new.pc = Top.pc /\ new.todo \subseteq Top.todo
    BY <1>1 DEF IsFrame
  <2> HIDE DEF new
  <2>3. Term(new) = Term(Top)
    BY <2>2 DEF Term, Block
  <2>4. TodoAtSite(new)
    BY <2>1, <2>2, <2>3 DEF TodoAtSite
  <2> QED
    BY <1>1, <2>1, <2>2, <2>4, EffectFlows
<1> QED
  BY <1>2, <1>3

\* What is inserted is there.
LEMMA InsertedIsThere ==
    ASSUME NEW store, IsSeq(store), NEW info
    PROVE  \E k \in DOMAIN Insert(store, info) : Insert(store, info)[k] = info
<1>1. CASE \E k \in DOMAIN store : store[k] = info
  BY <1>1 DEF Insert
<1>2. CASE ~\E k \in DOMAIN store : store[k] = info
  <2>1. Insert(store, info) = Append(store, info)
    BY <1>2 DEF Insert
  <2>2. /\ IsSeq(Append(store, info))
        /\ Len(Append(store, info)) = Len(store) + 1
        /\ Append(store, info)[Len(store) + 1] = info
    BY AppendFacts
  <2>3. Len(store) + 1 \in DOMAIN Append(store, info)
    BY <2>2 DEF IsSeq
  <2> QED
    BY <2>1, <2>2, <2>3
<1> QED
  BY <1>1, <1>2

\* A result that is known already.
LEMMA KnownResultFlows ==
    ASSUME TypeOK, TypesInv, FlowInv, [Next]_vars, NEW fn, CallBodyless(fn) \/ CallCached(fn)
    PROVE  \E f : FlowsTurn(f)
<1>1. /\ IsFrame(Top) /\ FrameStands(Top) /\ FrameFlows(Top, fns') /\ TodoAtSite(Top)
      /\ fn \in Top.todo
  BY TopStands, TopFlows DEF CallBodyless, CallCached
<1>2. ASSUME NEW call, NEW ty, CanReturnTo(Top, ty), SetTop(Returned(Top, fn, call, ty)),
             call.args = Term(Top).args, CalledDef(call) = Fn[fn.inst].def,
             call.kind = "WithBody" =>
                 \E k \in DOMAIN fns' :
                     /\ Answers(fns'[k], call)
                     /\ ReturnTy(fns'[k], Fn[call.id].decl[ReturnPlace]) = ty
      PROVE  \E f : FlowsTurn(f)
  <2> DEFINE new == Returned(Top, fn, call, ty)
  <2>1. new.fn = Top.fn /\ FrameFlows(new, fns') /\ TodoAtSite(new)
    BY <1>1, <1>2, ReturnedFlows
  <2> QED
    BY <1>2, <2>1 DEF FlowsTurn
<1>3. CASE CallBodyless(fn)
  <2> DEFINE call == BodylessCallOf(Top, fn)
             ty == FromTy(Fn[fn.inst].output)
  <2>1. CanReturnTo(Top, ty) /\ SetTop(Returned(Top, fn, call, ty))
    BY <1>3 DEF CallBodyless
  <2>2. /\ call.args = Term(Top).args /\ CalledDef(call) = Fn[fn.inst].def
        /\ call.kind # "WithBody"
    BY DEF BodylessCallOf, CallWithoutBody, CalledDef
  <2> HIDE DEF call, ty
  <2> QED
    BY <1>2, <2>1, <2>2
<1>4. CASE CallCached(fn)
  <2> DEFINE call == CallOf(Top, fn)
             ty == CalleeReturnTy(fn, CachedResult(fn))
             k == FirstMatch(fns, CallWithBody(fn.inst, <<>>))
  <2>1. CanReturnTo(Top, ty) /\ SetTop(Returned(Top, fn, call, ty))
    BY <1>4 DEF CallCached
  <2>2. /\ call.args = Term(Top).args /\ CalledDef(call) = Fn[fn.inst].def
        /\ call.kind = "WithBody" /\ call.id = fn.inst
    BY DEF CallOf, CallWithBody, CalledDef
  <2>3. k \in DOMAIN fns /\ Answers(fns[k], CallWithBody(fn.inst, <<>>))
    BY <1>4, LookupFinds DEF CallCached, TypeOK, Cached, HasBodyInfo
  <2>4. CachedResult(fn).places = fns[k].places
    BY DEF CachedResult, GetWithBody, GetByCall
  <2>5. k \in DOMAIN fns' /\ fns'[k] = fns[k]
    BY <2>3, StepExtends DEF Extends
  <2> HIDE DEF k
  <2>6. Answers(fns'[k], call)
    BY <2>2, <2>3, <2>5 DEF Answers, CallWithBody
  <2>7. ReturnTy(fns'[k], Fn[call.id].decl[ReturnPlace]) = ty
    BY <2>2, <2>4, <2>5 DEF CalleeReturnTy, ReturnTy
  <2> HIDE DEF call, ty
  <2> QED
    BY <1>2, <2>1, <2>2, <2>5, <2>6, <2>7
<1> QED
  BY <1>3, <1>4

\* The end of a block: the joins forget nothing either.
LEMMA BlockEndFlows ==
    ASSUME TypeOK, TypesInv, FlowInv, [Next]_vars, FlowOut \/ LeaveBlock \/ Accumulate
    PROVE  \E f : FlowsTurn(f)
<1> DEFINE inst == Top.fn.inst
<1>1. /\ IsFrame(Top) /\ inst \in Inst
      /\ FrameStands(Top) /\ FrameFlows(Top, fns')
  BY TopStands, TopFlows
<1>2. Sound(inst, Top.st.places) /\ CallsArrive(inst, Top.st, fns')
  BY <1>1 DEF FrameStands, FrameFlows
<1>3. Top.todo = {}
  BY DEF FlowOut, LeaveBlock, Accumulate
<1>4. CASE FlowOut
  <2> DEFINE b == Head(Top.out)
             joined == JoinDomain(Top.entry[b], Top.st)
             again == Changed(Top.entry[b], joined) /\ b \notin ToSet(Top.queue)
             queue == IF again THEN Append(Top.queue, b) ELSE Top.queue
             new == [Top EXCEPT !.out = Tail(Top.out), !.entry[b] = joined, !.queue = queue]
  <2>1. Top.out \in Seq(DOMAIN Top.entry) /\ Top.out # <<>>
    BY <1>1, <1>4 DEF FlowOut, IsFrame
  <2>2. b \in DOMAIN Top.entry
    BY <2>1, HeadTail
  <2>3. SetTop(new)
    BY <1>4 DEF FlowOut
  <2> HIDE DEF b
  <2>4. CallsArrive(inst, joined, fns')
    <3>1. Sound(inst, Top.entry[b].places) /\ CallsArrive(inst, Top.entry[b], fns')
      BY <1>1, <2>2 DEF FrameStands, FrameFlows
    <3> HIDE DEF inst
    <3> QED
      BY <1>1, <1>2, <3>1, JoinArrives
  <2> HIDE DEF joined, queue
  <2>5. /\ new.fn = Top.fn /\ new.st = Top.st /\ new.acc = Top.acc
        /\ new.entry = [Top.entry EXCEPT ![b] = joined] /\ new.todo = Top.todo
    BY <1>1 DEF IsFrame
  <2> HIDE DEF new
  <2>6. FrameFlows(new, fns') /\ TodoAtSite(new)
    BY <1>1, <1>3, <2>4, <2>5 DEF FrameFlows, TodoAtSite
  <2> QED
    BY <2>3, <2>5, <2>6 DEF FlowsTurn
<1>5. CASE LeaveBlock
  <2> DEFINE new == [Top EXCEPT !.pc = "engine"]
  <2>1. SetTop(new)
    BY <1>5 DEF LeaveBlock
  <2>2. /\ new.fn = Top.fn /\ new.st = Top.st /\ new.acc = Top.acc /\ new.entry = Top.entry
        /\ new.todo = Top.todo
    BY <1>1 DEF IsFrame
  <2> HIDE DEF new
  <2>3. TodoAtSite(new)
    BY <1>3, <2>2 DEF TodoAtSite
  <2> QED
    BY <1>2, <2>1, <2>2, <2>3, EffectFlows
<1>6. CASE Accumulate
  <2> DEFINE acc == IF Top.bb = 1 THEN Top.st ELSE JoinDomain(Top.acc, Top.st)
             new == [Top EXCEPT !.acc = acc, !.pc = "engine"]
  <2>1. SetTop(new)
    BY <1>6 DEF Accumulate
  <2>2. CallsArrive(inst, acc, fns')
    <3>1. Sound(inst, Top.acc.places) /\ CallsArrive(inst, Top.acc, fns')
      BY <1>1 DEF FrameStands, FrameFlows
    <3> HIDE DEF inst
    <3>2. CallsArrive(inst, JoinDomain(Top.acc, Top.st), fns')
      BY <1>1, <1>2, <3>1, JoinArrives
    <3> QED
      BY <1>2, <3>2
  <2> HIDE DEF acc
  <2>3. /\ new.fn = Top.fn /\ new.st = Top.st /\ new.acc = acc /\ new.entry = Top.entry
        /\ new.todo = Top.todo
    BY <1>1 DEF IsFrame
  <2> HIDE DEF new
  <2>4. FrameFlows(new, fns') /\ TodoAtSite(new)
    BY <1>1, <1>3, <2>2, <2>3 DEF FrameFlows, TodoAtSite
  <2> QED
    BY <2>1, <2>3, <2>4 DEF FlowsTurn
<1> QED
  BY <1>4, <1>5, <1>6

\* Every action that changes the top frame only.
LEMMA LocalFlows ==
    ASSUME TypeOK, ClosuresKnown, TypesInv, FlowInv, [Next]_vars, LocalAction
    PROVE  \E f : FlowsTurn(f)
  BY EnterBlockFlows, PlainFlows, CalleesFlow, KnownResultFlows, BlockEndFlows DEF LocalAction

\* A callee starts without calls.
LEMMA NewFrameFlows ==
    ASSUME NEW fn, NEW store
    PROVE  LET new == NewFrame(fn)
           IN  new.fn = fn /\ FrameFlows(new, store) /\ TodoAtSite(new)
<1> DEFINE bottom == BottomValue(fn)
           new == NewFrame(fn)
<1>1. bottom.calls = {}
  BY NewDomainShape DEF BottomValue
<1> HIDE DEF bottom
<1>2. CallsArrive(fn.inst, bottom, store)
  BY <1>1 DEF CallsArrive
<1>3. /\ new.fn = fn /\ new.st = bottom /\ new.acc = bottom /\ new.todo = {}
      /\ new.entry = [b \in DOMAIN Fn[fn.inst].blocks |-> bottom]
  BY DEF NewFrame, bottom
<1> HIDE DEF new
<1>4. FrameFlows(new, store) /\ TodoAtSite(new)
  BY <1>2, <1>3 DEF FrameFlows, TodoAtSite
<1> QED
  BY <1>3, <1>4 DEF new

\* The frames that a step leaves alone.
LEMMA OtherFlows ==
    ASSUME TypeOK, FlowInv, [Next]_vars, NEW k \in DOMAIN frames
    PROVE  FrameFlows(frames[k], fns') /\ TodoAtSite(frames[k])
  BY FlowsStay, StepExtends DEF TypeOK, FlowInv, StackFlows

\* What has to be shown of a step.
LEMMA NextStackFlows ==
    ASSUME \A k \in DOMAIN frames' : FrameFlows(frames'[k], fns') /\ TodoAtSite(frames'[k]),
           \A k \in 1..(Len(frames') - 1) : frames'[k + 1].fn \in frames'[k].todo
    PROVE  StackFlows'
  BY DEF StackFlows, FrameFlows, TodoAtSite, CallsArrive, Arrived

\* A step on the top frame.
LEMMA LocalStackFlows ==
    ASSUME TypeOK, ClosuresKnown, TypesInv, FlowInv, [Next]_vars, LocalAction
    PROVE  StackFlows'
<1> DEFINE top == Len(frames)
<1>1. IsSeq(frames) /\ DOMAIN frames = 1..top /\ top \in Nat \ {0}
  BY TopIsFrame DEF TypeOK
<1>2. PICK f : FlowsTurn(f)
  BY LocalFlows
<1>3. frames' = [frames EXCEPT ![top] = f] /\ f.fn = frames[top].fn
  BY <1>2 DEF FlowsTurn, SetTop, Top
<1>4. FrameFlows(f, fns') /\ TodoAtSite(f)
  BY <1>2 DEF FlowsTurn
<1>5. Len(frames') = top
  <2>1. frames' = [k \in 1..top |-> frames'[k]]
    BY <1>1, <1>3
  <2> QED
    BY <1>1, <2>1, FunctionIsSeq
<1> HIDE DEF top
<1>6. ASSUME NEW k \in DOMAIN frames'
      PROVE  FrameFlows(frames'[k], fns') /\ TodoAtSite(frames'[k])
  BY <1>1, <1>3, <1>4, OtherFlows
<1>7. ASSUME NEW k \in 1..(top - 1)
      PROVE  frames'[k + 1].fn \in frames'[k].todo
  <2>1. k \in 1..top /\ k + 1 \in 1..top /\ k # top
    BY <1>1
  <2>2. frames'[k] = frames[k] /\ frames'[k + 1].fn = frames[k + 1].fn
    BY <1>1, <1>3, <2>1
  <2> QED
    BY <2>2 DEF FlowInv, StackFlows, top
<1> QED
  BY <1>5, <1>6, <1>7, NextStackFlows

\* A callee is entered: it is one that its caller has left.
LEMMA EnterStackFlows ==
    ASSUME TypeOK, FlowInv, [Next]_vars, NEW fn \in Top.todo, Enter(fn)
    PROVE  StackFlows'
<1> DEFINE top == Len(frames)
           new == NewFrame(fn)
<1>1. IsSeq(frames) /\ DOMAIN frames = 1..top /\ top \in Nat \ {0}
  BY TopIsFrame DEF TypeOK
<1>2. new.fn = fn /\ FrameFlows(new, fns') /\ TodoAtSite(new)
  BY NewFrameFlows
<1>3. frames' = Append(frames, new)
  BY DEF Enter
<1> HIDE DEF new
<1>4. /\ IsSeq(frames') /\ Len(frames') = top + 1
      /\ frames'[top + 1] = new
      /\ \A k \in DOMAIN frames : frames'[k] = frames[k]
  BY <1>1, <1>3, AppendFacts
<1>5. DOMAIN frames' = 1..(top + 1)
  BY <1>4, SeqOverElements
<1> HIDE DEF top
<1>6. ASSUME NEW k \in DOMAIN frames'
      PROVE  FrameFlows(frames'[k], fns') /\ TodoAtSite(frames'[k])
  <2>1. CASE k = top + 1
    BY <1>2, <1>4, <2>1
  <2>2. CASE k \in 1..top
    BY <1>1, <1>4, <2>2, OtherFlows
  <2> QED
    BY <1>1, <1>5, <2>1, <2>2
<1>7. ASSUME NEW k \in 1..(Len(frames') - 1)
      PROVE  frames'[k + 1].fn \in frames'[k].todo
  <2>1. k \in 1..top /\ frames'[k] = frames[k]
    BY <1>1, <1>4
  <2>2. CASE k = top
    BY <1>2, <1>4, <2>1, <2>2 DEF Top, top
  <2>3. CASE k # top
    <3>1. k \in 1..(top - 1) /\ k + 1 \in DOMAIN frames
      BY <1>1, <2>1, <2>3
    <3> QED
      BY <1>4, <2>1, <3>1 DEF FlowInv, StackFlows, top
  <2> QED
    BY <2>2, <2>3
<1> QED
  BY <1>6, <1>7, NextStackFlows

\* The top frame leaves: its caller is at a site that calls it.
LEMMA ReturnStackFlows ==
    ASSUME TypeOK, TypesInv, FlowInv, [Next]_vars, Return
    PROVE  StackFlows'
<1> DEFINE n == Len(frames) - 1
           ty == CalleeReturnTy(Top.fn, Top.acc)
           call == CallOf(frames[n], Top.fn)
           info == WithBody(Top.fn.inst, Top.acc)
           new == Returned(frames[n], Top.fn, call, ty)
<1>1. /\ n \in DOMAIN frames /\ n \in Nat \ {0}
      /\ CanReturnTo(frames[n], ty)
      /\ frames' = [k \in 1..n |-> IF k = n THEN new ELSE frames[k]]
  BY ReturnShape
<1>2. DOMAIN frames = 1..Len(frames) /\ Len(frames) \in Nat /\ IsSeq(fns)
  BY DEF TypeOK, IsSeq
<1>3. Top.fn \in frames[n].todo
  <2>1. n \in 1..(Len(frames) - 1) /\ n + 1 = Len(frames)
    <3>1. n \in Nat \ {0} /\ Len(frames) \in Nat
      BY <1>1, <1>2
    <3>2. \A m \in Nat : m - 1 \in Nat \ {0} => m - 1 \in 1..(m - 1) /\ (m - 1) + 1 = m
      OBVIOUS
    <3> QED
      BY <3>1, <3>2
  <2>2. frames[n + 1].fn \in frames[n].todo
    BY <2>1 DEF FlowInv, StackFlows
  <2> QED
    BY <2>1, <2>2 DEF Top
<1>4. call.kind = "WithBody" =>
          \E k \in DOMAIN fns' :
              /\ Answers(fns'[k], call)
              /\ ReturnTy(fns'[k], Fn[call.id].decl[ReturnPlace]) = ty
  <2>1. fns' = Insert(fns, info)
    BY DEF Return
  <2>2. Answers(info, call) /\ ReturnTy(info, Fn[call.id].decl[ReturnPlace]) = ty
    BY DEF Answers, WithBody, CallOf, CallWithBody, CalleeReturnTy, ReturnTy
  <2>3. PICK k \in DOMAIN fns' : fns'[k] = info
    BY <1>2, <2>1, InsertedIsThere
  <2> HIDE DEF call, info, ty
  <2> QED
    BY <2>2, <2>3
<1>5. call.args = Term(frames[n]).args /\ CalledDef(call) = Fn[Top.fn.inst].def
  BY DEF CallOf, CallWithBody, CalledDef
<1>6. IsFrame(frames[n]) /\ FrameStands(frames[n])
  BY <1>1 DEF TypeOK, TypesInv
<1>7. FrameFlows(frames[n], fns') /\ TodoAtSite(frames[n])
  BY <1>1, OtherFlows
<1> HIDE DEF call, ty
<1>8. new.fn = frames[n].fn /\ FrameFlows(new, fns') /\ TodoAtSite(new)
  <2> HIDE DEF n
  <2> QED
    BY <1>1, <1>3, <1>4, <1>5, <1>6, <1>7, ReturnedFlows
<1> HIDE DEF new
<1>9. Len(frames') = n
  <2>1. frames' = [k \in 1..n |-> frames'[k]]
    BY <1>1
  <2> QED
    BY <1>1, <2>1, FunctionIsSeq
<1>10. ASSUME NEW k \in DOMAIN frames'
       PROVE  FrameFlows(frames'[k], fns') /\ TodoAtSite(frames'[k])
  <2>1. k \in 1..n
    BY <1>1
  <2>2. k \in DOMAIN frames
    BY <1>2, <2>1
  <2> QED
    BY <1>1, <1>8, <2>1, <2>2, OtherFlows
<1>11. ASSUME NEW k \in 1..(n - 1)
       PROVE  frames'[k + 1].fn \in frames'[k].todo
  <2>1. k \in 1..n /\ k + 1 \in 1..n /\ k # n /\ k \in 1..(Len(frames) - 1)
    BY <1>1
  <2>2. frames'[k] = frames[k] /\ frames'[k + 1].fn = frames[k + 1].fn
    BY <1>1, <1>8, <2>1
  <2> QED
    BY <2>1, <2>2 DEF FlowInv, StackFlows
<1> QED
  BY <1>9, <1>10, <1>11, NextStackFlows

\* The records.
LEMMA StepResults ==
    ASSUME TypeOK, TypesInv, SitesInv, FlowInv, [Next]_vars
    PROVE  ResultsFlow'
<1>1. Extends(fns, fns') /\ IsSeq(fns)
  BY StepExtends DEF TypeOK
<1>2. ASSUME NEW k \in DOMAIN fns, fns[k].kind = "WithBody"
      PROVE  CallsArrive(fns[k].id, fns[k], fns')
  BY <1>1, <1>2, CallsStayAlone DEF FlowInv, ResultsFlow
<1>3. CASE fns' = fns
  <2>1. ResultsFlow
    BY DEF FlowInv
  <2> QED
    BY <1>3, <2>1 DEF ResultsFlow, CallsArrive, Arrived
<1>4. ASSUME NEW info, fns' = Insert(fns, info),
             info.kind = "WithBody" => CallsArrive(info.id, info, fns')
      PROVE  ResultsFlow'
  <2>1. ASSUME NEW k \in DOMAIN fns', fns'[k].kind = "WithBody"
        PROVE  CallsArrive(fns'[k].id, fns'[k], fns')
    <3>1. (k \in DOMAIN fns /\ fns'[k] = fns[k]) \/ fns'[k] = info
      BY <1>1, <1>4, InsertHolds
    <3> QED
      BY <1>2, <1>4, <2>1, <3>1
  <2> QED
    BY <2>1 DEF ResultsFlow, CallsArrive, Arrived
<1>5. ASSUME NEW def, NEW args, fns' = Insert(fns, WithoutBody(def, args))
      PROVE  ResultsFlow'
  <2>1. WithoutBody(def, args).kind # "WithBody"
    BY DEF WithoutBody
  <2> QED
    BY <1>4, <1>5, <2>1
<1>6. ASSUME fns' = Insert(fns, WithBody(Top.fn.inst, Top.acc))
      PROVE  ResultsFlow'
  <2> DEFINE info == WithBody(Top.fn.inst, Top.acc)
  <2>1. CallsArrive(Top.fn.inst, Top.acc, fns')
    BY TopFlows DEF FrameFlows
  <2>2. info.id = Top.fn.inst /\ info.calls = Top.acc.calls /\ info.places = Top.acc.places
    BY DEF WithBody
  <2>3. fns' = Insert(fns, info)
    BY <1>6
  <2> HIDE DEF info
  <2>4. CallsArrive(info.id, info, fns')
    BY <2>1, <2>2 DEF CallsArrive
  <2> QED
    BY <1>4, <2>3, <2>4
<1> QED
  BY <1>3, <1>5, <1>6, CachedIsStored, StepRecordsTurn DEF RecordsTurn

\* Every step.
LEMMA StepFlows ==
    ASSUME TypeOK, ClosuresKnown, TypesInv, SitesInv, FlowInv, [Next]_vars
    PROVE  FlowInv'
<1>1. StackFlows'
  <2>1. CASE frames' = frames
    BY <2>1, OtherFlows, NextStackFlows DEF FlowInv, StackFlows
  <2>2. \/ LocalAction \/ Return
        \/ \E fn \in Top.todo : Enter(fn)
        \/ frames' = frames
    BY DEF Next, Callee, LocalAction, Finish, Panic, Stopped, vars
  <2> QED
    BY <2>1, <2>2, LocalStackFlows, EnterStackFlows, ReturnStackFlows
<1> QED
  BY <1>1, StepResults DEF FlowInv

\* The start: no calls yet.
LEMMA InitFlows ==
    ASSUME Init
    PROVE  FlowInv
<1>1. PICK new : frames = <<new>> /\ FrameFlows(new, fns) /\ TodoAtSite(new)
  BY NewFrameFlows DEF Init
<1>2. DOMAIN frames = {1} /\ frames[1] = new /\ Len(frames) = 1
  BY <1>1
<1>3. StackFlows
  BY <1>1, <1>2 DEF StackFlows
<1>4. ResultsFlow
  BY DEF Init, ResultsFlow
<1> QED
  BY <1>3, <1>4 DEF FlowInv

\* For every program: a call in a record (perform_call and the returns of
\* collector.rs) is made at a terminator of the record's body that may make
\* it, and what the callee's own record says of its result has reached the
\* place it is assigned to there: through a fresh analysis, through the
\* storage, and through all joins and later assignments.
THEOREM ResultsArrive == Spec => []ResultsFlow
<1>1. Init => SitesInv /\ FlowInv
  BY InitSites, InitFlows
<1>2. /\ TypeOK /\ ClosuresKnown /\ TypesInv /\ SitesInv /\ FlowInv /\ [Next]_vars
      => (SitesInv /\ FlowInv)'
  BY StepSites, StepFlows
<1>3. FlowInv => ResultsFlow
  BY DEF FlowInv
<1> QED
  BY <1>1, <1>2, <1>3, TypeCorrect, TypesHold, ClosuresAreKnown, PTL DEF Spec

============================================================================
