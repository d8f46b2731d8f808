-------------------------- MODULE CollectorProofs --------------------------
(***************************************************************************)
(* Proofs about Collector: type correctness, the order of the function     *)
(* storage, that the storage is the log CallLog describes, and that the    *)
(* declared types stand.                                                   *)
(***************************************************************************)
EXTENDS Collector, FunctionInfoProofs

----------------------------------------------------------------------------
(* Domain values.                                                          *)

\* A new domain value has the places it is given and no calls.
LEMMA NewDomainShape ==
    ASSUME NEW places
    PROVE  /\ IsDomain(NewDomain(places))
           /\ NewDomain(places).places = places
           /\ NewDomain(places).calls = {}
  BY DEF IsDomain, NewDomain

\* update_with() changes neither the set of places nor the calls.
LEMMA UpdateShape ==
    ASSUME NEW d, IsDomain(d), NEW p, NEW t
    PROVE  /\ IsDomain(UpdateWith(d, p, t))
           /\ DOMAIN UpdateWith(d, p, t).places = DOMAIN d.places
           /\ UpdateWith(d, p, t).calls = d.calls
  BY DEF IsDomain, UpdateWith, Propagate

\* Adding a call or an unhandled type leaves the places alone.
LEMMA AddShape ==
    ASSUME NEW d, IsDomain(d), NEW x
    PROVE  /\ IsDomain(AddCall(d, x)) /\ IsDomain(AddUnhandled(d, x))
           /\ AddCall(d, x).places = d.places /\ AddUnhandled(d, x).places = d.places
           /\ AddCall(d, x).calls = d.calls \union {x} /\ AddUnhandled(d, x).calls = d.calls
  BY DEF IsDomain, AddCall, AddUnhandled

\* A join keeps the places of its left side and the calls of both.
LEMMA JoinShape ==
    ASSUME NEW d, NEW e
    PROVE  /\ IsDomain(JoinDomain(d, e))
           /\ DOMAIN JoinDomain(d, e).places = DOMAIN d.places
           /\ JoinDomain(d, e).calls = d.calls \union e.calls
  BY DEF IsDomain, JoinDomain

----------------------------------------------------------------------------
(* Frames.                                                                 *)

\* There is a top frame, and it is well-formed.
LEMMA TopIsFrame ==
    ASSUME TypeOK
    PROVE  /\ Len(frames) \in Nat \ {0}
           /\ DOMAIN frames = 1..Len(frames)
           /\ Len(frames) \in DOMAIN frames
           /\ IsFrame(Top)
<1>1. DOMAIN frames = 1..Len(frames) /\ Len(frames) \in Nat
  BY DEF TypeOK, IsSeq
<1>2. Len(frames) # 0
  BY <1>1 DEF TypeOK, IsSeq
<1> QED
  BY <1>1, <1>2 DEF TypeOK, Top

\* A step that replaces the top frame leaves a stack of the same height.
LEMMA SetTopTyped ==
    ASSUME TypeOK, NEW f, IsFrame(f), SetTop(f)
    PROVE  /\ IsSeq(frames') /\ frames' # <<>> /\ Len(frames') = Len(frames)
           /\ DOMAIN frames' = DOMAIN frames
           /\ Top' = f
           /\ \A k \in DOMAIN frames : k # Len(frames) => frames'[k] = frames[k]
           /\ \A k \in DOMAIN frames' : IsFrame(frames'[k])
<1>1. /\ Len(frames) \in Nat \ {0} /\ DOMAIN frames = 1..Len(frames) /\ Len(frames) \in DOMAIN frames
  BY TopIsFrame
<1>2. frames' = [k \in 1..Len(frames) |-> IF k = Len(frames) THEN f ELSE frames[k]]
  BY <1>1 DEF SetTop
<1>3. Len(frames') = Len(frames)
  <2>1. frames' = [k \in 1..Len(frames) |-> frames'[k]]
    BY <1>2
  <2> QED
    BY <1>1, <2>1, FunctionIsSeq
<1>4. IsSeq(frames') /\ frames' # <<>> /\ DOMAIN frames' = DOMAIN frames
  BY <1>1, <1>2, <1>3 DEF IsSeq
<1>5. Top' = f
  BY <1>1, <1>2, <1>3 DEF Top
<1>6. \A k \in DOMAIN frames : k # Len(frames) => frames'[k] = frames[k]
  BY <1>1, <1>2
<1>7. \A k \in DOMAIN frames' : IsFrame(frames'[k])
  BY <1>1, <1>2 DEF TypeOK
<1> QED
  BY <1>3, <1>4, <1>5, <1>6, <1>7

----------------------------------------------------------------------------
(* Functions and new frames.                                               *)

\* find_plausible_instances() finds instances of the program only.
LEMMA PlausibleTyped ==
    ASSUME NEW fun, {fun.def, ResolvedDef(fun)} \subseteq DOMAIN Generics, NEW args
    PROVE  PlausibleInstances(fun, args) \subseteq Inst
<1> DEFINE d == ResolvedDef(fun)
           n == Generics[fun.def].count
           substs == [k \in 1..n |-> ExtractSubsts(args, Generics[d].inputs, k)]
<1>1. ASSUME NEW s \in [1..n -> UNION {substs[k] : k \in 1..n}],
             \A k \in 1..n : s[k] \in substs[k]
      PROVE  s \in [1..n -> Ty]
  <2>1. \A k \in 1..n : substs[k] \subseteq Ty
    BY DEF ExtractSubsts
  <2> QED
    BY <1>1, <2>1
<1>2. \A s \in [1..n -> Ty] : InstanceOf(d, s) \in Inst \union {NoInst}
  BY ResolutionAssumption
<1> QED
  BY <1>1, <1>2 DEF PlausibleInstances

\* What a program says of the function a terminator calls.
IsCallee(fun) ==
    /\ fun.inst \in Inst \union {NoInst}
    /\ ResolvedDef(fun) \in Mir \/ {fun.def, ResolvedDef(fun)} \subseteq DOMAIN Generics
    /\ ~(ResolvedDef(fun) \in Mir /\ fun.inst = NoInst)

\* resolve() yields functions of the program only.
LEMMA ResolveTyped ==
    ASSUME TypeOK, NEW fun, IsCallee(fun), NEW args, NEW fn \in Resolve(fun, args)
    PROVE  IsFunction(fn)
<1>1. Candidates(fun, args) \subseteq Inst
  BY PlausibleTyped DEF Candidates, IsCallee
<1>2. PICK i \in Candidates(fun, args) :
        /\ fn = Assemble(i, args)
        /\ IsClosure(i) => Fn[i].def \in DOMAIN closures
  BY DEF Resolve
<1>3. IsClosure(i) => closures[Fn[i].def].inst \in Inst
  BY <1>2 DEF TypeOK, IsClosureInfo
<1> QED
  BY <1>1, <1>2, <1>3 DEF Assemble, IsFunction

\* The frame of a function that is entered is well-formed and holds no call.
LEMMA NewFrameTyped ==
    ASSUME NEW fn, IsFunction(fn), Fn[fn.inst].blocks # <<>>
    PROVE  IsFrame(NewFrame(fn)) /\ CallsIn(NewFrame(fn)) = {}
<1> DEFINE bottom == BottomValue(fn)
           new == NewFrame(fn)
           blocks == DOMAIN Fn[fn.inst].blocks
<1>1. IsDomain(bottom) /\ bottom.calls = {}
  BY NewDomainShape DEF BottomValue
<1>2. Fn[fn.inst].rpo \in Seq(blocks)
  BY ProgramAssumption DEF IsFunction
<1> HIDE DEF bottom
<1>3. new = [fn |-> fn, phase |-> "fixpoint", pc |-> "engine",
             entry |-> [b \in blocks |-> bottom],
             queue |-> Fn[fn.inst].rpo, bb |-> 0, i |-> 0, out |-> <<>>,
             st |-> bottom, acc |-> bottom, todo |-> {}, tys |-> <<>>]
  BY DEF NewFrame, bottom
<1> HIDE DEF new
<1>4. IsFrame(new)
  BY <1>1, <1>2, <1>3 DEF IsFrame, IsDomainOf
<1>5. CallsIn(new) = {}
  BY <1>1, <1>3 DEF CallsIn
<1> QED
  BY <1>4, <1>5 DEF new

\* A caller's frame stays well-formed and gains the call that returned.
LEMMA ReturnedTyped ==
    ASSUME NEW f, IsFrame(f), NEW fn, NEW call, NEW ty
    PROVE  /\ IsFrame(Returned(f, fn, call, ty))
           /\ CallsIn(Returned(f, fn, call, ty)) = CallsIn(f) \union {call}
<1> DEFINE new == Returned(f, fn, call, ty)
           called == AddCall(f.st, call)
           st == IF Term(f).dest = NoPlace THEN called ELSE UpdateWith(called, Term(f).dest, ty)
<1>1. /\ IsDomain(st)
      /\ DOMAIN st.places = DOMAIN f.st.places
      /\ st.calls = f.st.calls \union {call}
  <2>1. /\ IsDomain(called)
        /\ called.places = f.st.places
        /\ called.calls = f.st.calls \union {call}
    BY AddShape DEF IsFrame, IsDomainOf
  <2> HIDE DEF called
  <2> QED
    BY <2>1, UpdateShape
<1>2. new = [f EXCEPT !.todo = f.todo \ {fn}, !.st = st]
  BY DEF Returned
<1> HIDE DEF new, st
<1>3. IsFrame(new)
  BY <1>1, <1>2 DEF IsFrame, IsDomainOf
<1>4. CallsIn(new) = CallsIn(f) \union {call}
  BY <1>1, <1>2 DEF IsFrame, CallsIn
<1> QED
  BY <1>3, <1>4 DEF new

----------------------------------------------------------------------------
(* Type correctness.                                                       *)

\* Whoever is past the engine is in an existing block.
LEMMA TopBlock ==
    ASSUME TypeOK, Top.pc # "engine"
    PROVE  /\ Top.bb \in DOMAIN Fn[Top.fn.inst].blocks
           /\ Top.fn.inst \in Inst
           /\ Term(Top).fun.kind = "FnDef" /\ ~CannotResolve(Top) => IsCallee(Term(Top).fun)
<1>1. Top.bb \in DOMAIN Fn[Top.fn.inst].blocks /\ Top.fn.inst \in Inst
  BY TopIsFrame DEF IsFrame, IsFunction
<1>2. IsBody(Fn[Top.fn.inst].blocks)
  BY <1>1, ProgramAssumption
<1> QED
  BY <1>1, <1>2 DEF IsBody, IsCallee, CannotResolve, Term, Block

\* The successors of a block are blocks of the same body.
LEMMA SuccTyped ==
    ASSUME NEW f, IsFrame(f), NEW b \in DOMAIN f.entry
    PROVE  Succ(f, b) \in Seq(DOMAIN f.entry)
  BY ProgramAssumption DEF IsFrame, IsFunction, IsBody, Succ

\* Frame f at the start of block b.
Entered(f, ph, q, b, out) ==
    [fn |-> f.fn, phase |-> ph, pc |-> "effects", entry |-> f.entry, queue |-> q,
     bb |-> b, i |-> 1, out |-> out, st |-> f.entry[b], acc |-> f.acc,
     todo |-> f.todo, tys |-> f.tys]

\* The frame that enters a block is well-formed and holds no new call.
LEMMA EnteredTyped ==
    ASSUME NEW f, IsFrame(f), NEW b \in DOMAIN f.entry, NEW q \in Seq(DOMAIN f.entry),
           NEW out \in Seq(DOMAIN f.entry), NEW ph \in {"fixpoint", "cursor"}
    PROVE  /\ IsFrame(Entered(f, ph, q, b, out))
           /\ CallsIn(Entered(f, ph, q, b, out)) \subseteq CallsIn(f)
<1> DEFINE new == Entered(f, ph, q, b, out)
<1>1. new = [fn |-> f.fn, phase |-> ph, pc |-> "effects", entry |-> f.entry, queue |-> q,
             bb |-> b, i |-> 1, out |-> out, st |-> f.entry[b], acc |-> f.acc,
             todo |-> f.todo, tys |-> f.tys]
  BY DEF Entered
<1> HIDE DEF new
<1>2. IsFrame(new)
  BY <1>1 DEF IsFrame, IsDomainOf
<1>3. CallsIn(new) \subseteq CallsIn(f)
  BY <1>1 DEF CallsIn
<1> QED
  BY <1>2, <1>3 DEF new

\* Entering a block, as PickBlock and SeekBlock do.
LEMMA EnterBlockFrame ==
    ASSUME NEW f, IsFrame(f), NEW b \in DOMAIN f.entry, NEW q \in Seq(DOMAIN f.entry),
           NEW out \in Seq(DOMAIN f.entry), NEW ph \in {"fixpoint", "cursor"}, NEW new,
           new = [f EXCEPT !.phase = ph, !.queue = q, !.bb = b, !.i = 1, !.out = out,
                           !.st = f.entry[b], !.pc = "effects"]
    PROVE  IsFrame(new) /\ CallsIn(new) \subseteq CallsIn(f)
<1>1. new = Entered(f, ph, q, b, out)
  BY DEF IsFrame, Entered
<1> QED
  BY <1>1, EnteredTyped

----------------------------------------------------------------------------
(* The actions that only change the top frame and the storages.            *)

LocalAction ==
    \/ PickBlock \/ SeekBlock
    \/ Assign \/ SkipStatement
    \/ SkipTerminator \/ SkipForeignCall \/ CallUnhandled
    \/ CallUnresolved \/ CallResolved
    \/ \E fn \in Top.todo : SkipRepeated(fn) \/ CallBodyless(fn) \/ CallCached(fn)
    \/ FlowOut \/ LeaveBlock \/ Accumulate

\* f is the top frame after the step; its calls were there or are answered.
FrameStep(f) ==
    /\ SetTop(f)
    /\ IsFrame(f)
    /\ \A call \in CallsIn(f) : call \in CallsIn(Top) \/ Answered(fns', call)

\* The actions that change the top frame only, one lemma each: taking a block
\* off the work queue.
LEMMA PickBlockFrame ==
    ASSUME TypeOK, PickBlock
    PROVE  \E f : FrameStep(f)
<1> DEFINE b == Head(Top.queue)
           new == [Top EXCEPT !.queue = Tail(Top.queue), !.bb = b, !.i = 1,
                              !.out = Succ(Top, b), !.st = Top.entry[b], !.pc = "effects"]
<1>1. IsFrame(Top)
  BY TopIsFrame
<1>2. Top.queue \in Seq(DOMAIN Top.entry) /\ Top.queue # <<>>
  BY <1>1 DEF PickBlock, IsFrame
<1>3. b \in DOMAIN Top.entry /\ Tail(Top.queue) \in Seq(DOMAIN Top.entry)
  BY <1>2, HeadTail
<1>4. SetTop(new)
  BY DEF PickBlock
<1> HIDE DEF b
<1>5. new = [Top EXCEPT !.phase = Top.phase, !.queue = Tail(Top.queue), !.bb = b, !.i = 1,
                        !.out = Succ(Top, b), !.st = Top.entry[b], !.pc = "effects"]
  BY <1>1 DEF IsFrame
<1>6. Top.phase \in {"fixpoint", "cursor"} /\ Succ(Top, b) \in Seq(DOMAIN Top.entry)
  BY <1>1, <1>3, SuccTyped DEF IsFrame
<1> HIDE DEF new
<1>7. IsFrame(new) /\ CallsIn(new) \subseteq CallsIn(Top)
  BY <1>1, <1>3, <1>5, <1>6, EnterBlockFrame
<1> QED
  BY <1>4, <1>7 DEF FrameStep

\* The cursor has a block to move to until the body is exhausted.
LEMMA SeekBlockTarget ==
    ASSUME TypeOK, SeekBlock
    PROVE  NextBlock(Top) \in DOMAIN Top.entry
<1>1. IsFrame(Top)
  BY TopIsFrame
<1>2. DOMAIN Top.entry = 1..Len(Fn[Top.fn.inst].blocks)
  BY <1>1, ProgramAssumption DEF IsFrame, IsFunction, IsBody, IsSeq
<1>3. Len(Fn[Top.fn.inst].blocks) \in Nat /\ Fn[Top.fn.inst].blocks # <<>>
  BY <1>1, <1>2 DEF IsFrame
<1>4. Top.bb \in 0..Len(Fn[Top.fn.inst].blocks) /\ Top.phase \in {"fixpoint", "cursor"}
  BY <1>1, <1>2, <1>3 DEF IsFrame
<1>5. Top.pc = "engine" /\ ~Exhausted(Top)
  BY DEF SeekBlock, Running
<1> QED
  BY <1>2, <1>3, <1>4, <1>5 DEF Exhausted, NextBlock

\* Moving the cursor to the next block.
LEMMA SeekBlockFrame ==
    ASSUME TypeOK, SeekBlock
    PROVE  \E f : FrameStep(f)
<1> DEFINE b == NextBlock(Top)
           new == [Top EXCEPT !.phase = "cursor", !.bb = b, !.i = 1,
                              !.out = <<>>, !.st = Top.entry[b], !.pc = "effects"]
<1>1. IsFrame(Top)
  BY TopIsFrame
<1>2. /\ Top.queue \in Seq(DOMAIN Top.entry)
      /\ <<>> \in Seq(DOMAIN Top.entry)
      /\ "cursor" \in {"fixpoint", "cursor"}
  BY <1>1 DEF IsFrame
<1>3. b \in DOMAIN Top.entry
  BY SeekBlockTarget
<1>4. SetTop(new)
  BY DEF SeekBlock
<1> HIDE DEF b
<1>5. new = [Top EXCEPT !.phase = "cursor", !.queue = Top.queue, !.bb = b, !.i = 1,
                        !.out = <<>>, !.st = Top.entry[b], !.pc = "effects"]
  BY <1>1 DEF IsFrame
<1> HIDE DEF new
<1>6. IsFrame(new) /\ CallsIn(new) \subseteq CallsIn(Top)
  BY <1>1, <1>2, <1>3, <1>5, EnterBlockFrame
<1> QED
  BY <1>4, <1>6 DEF FrameStep

\* A change of the top frame's state, as the effects of a block make.
LEMMA EffectFrame ==
    ASSUME TypeOK, Top.pc # "engine",
           NEW st, IsDomain(st), DOMAIN st.places = DOMAIN Top.st.places,
           \A call \in st.calls : call \in CallsIn(Top) \/ Answered(fns', call),
           NEW todo, \A fn \in todo : IsFunction(fn),
           NEW pc \in {"effects", "callees"}, NEW i, pc = "effects" => i \in Nat \ {0}, NEW tys,
           SetTop([Top EXCEPT !.pc = pc, !.i = i, !.st = st, !.todo = todo, !.tys = tys])
    PROVE  \E f : FrameStep(f)
<1> DEFINE new == [Top EXCEPT !.pc = pc, !.i = i, !.st = st, !.todo = todo, !.tys = tys]
<1>1. IsFrame(Top)
  BY TopIsFrame
<1>2. SetTop(new) /\ new = [Top EXCEPT !.pc = pc, !.i = i, !.st = st, !.todo = todo, !.tys = tys]
  OBVIOUS
<1> HIDE DEF new
<1>3. IsFrame(new)
  BY <1>1, <1>2 DEF IsFrame, IsDomainOf
<1>4. CallsIn(new) \subseteq CallsIn(Top) \union st.calls
  BY <1>1, <1>2 DEF IsFrame, CallsIn
<1> QED
  BY <1>2, <1>3, <1>4 DEF FrameStep

\* What an effect starts from.
LEMMA TopState ==
    ASSUME TypeOK
    PROVE  /\ IsDomain(Top.st)
           /\ Top.st.calls \subseteq CallsIn(Top)
           /\ \A fn \in Top.todo : IsFunction(fn)
           /\ Top.pc = "effects" => Top.i + 1 \in Nat \ {0}
           /\ Top = [Top EXCEPT !.pc = Top.pc, !.i = Top.i, !.st = Top.st,
                                !.todo = Top.todo, !.tys = Top.tys]
<1>1. IsFrame(Top)
  BY TopIsFrame
<1>2. Top.pc = "effects" => Top.i + 1 \in Nat \ {0}
  BY <1>1 DEF IsFrame
<1>3. Top = [Top EXCEPT !.pc = Top.pc, !.i = Top.i, !.st = Top.st,
                        !.todo = Top.todo, !.tys = Top.tys]
  BY <1>1 DEF IsFrame
<1>4. /\ IsDomain(Top.st)
      /\ Top.st.calls \subseteq CallsIn(Top)
      /\ \A fn \in Top.todo : IsFunction(fn)
  BY <1>1 DEF IsFrame, IsDomainOf, CallsIn
<1> QED
  BY <1>2, <1>3, <1>4

\* An assignment.
LEMMA AssignFrame ==
    ASSUME TypeOK, Assign
    PROVE  \E f : FrameStep(f)
<1> DEFINE s == Stmt(Top)
           st == UpdateWith(Top.st, s.place, RvalueTy(Top.st.places, s.rv))
<1>1. Top.pc = "effects"
  BY DEF Assign, Running
<1>2. IsDomain(st) /\ DOMAIN st.places = DOMAIN Top.st.places /\ st.calls = Top.st.calls
  BY TopState, UpdateShape
<1>3. SetTop([Top EXCEPT !.i = Top.i + 1, !.st = st])
  BY DEF Assign
<1> HIDE DEF st
<1>4. SetTop([Top EXCEPT !.pc = "effects", !.i = Top.i + 1, !.st = st,
                         !.todo = Top.todo, !.tys = Top.tys])
  <2>1. IsFrame(Top)
    BY TopIsFrame
  <2>2. [Top EXCEPT !.i = Top.i + 1, !.st = st]
          = [Top EXCEPT !.pc = "effects", !.i = Top.i + 1, !.st = st,
                        !.todo = Top.todo, !.tys = Top.tys]
    BY <1>1, <2>1 DEF IsFrame
  <2> QED
    BY <1>3, <2>2
<1> QED
  BY <1>1, <1>2, <1>4, TopState, EffectFrame

\* A step of the effects that leaves the state alone, or adds to it.
LEMMA SkipFrame ==
    ASSUME TypeOK, Top.pc # "engine", NEW pc \in {"effects", "callees"},
           NEW i, pc = "effects" => i \in Nat \ {0},
           SetTop([Top EXCEPT !.pc = pc, !.i = i])
    PROVE  \E f : FrameStep(f)
<1>1. IsFrame(Top)
  BY TopIsFrame
<1>2. [Top EXCEPT !.pc = pc, !.i = i]
        = [Top EXCEPT !.pc = pc, !.i = i, !.st = Top.st, !.todo = Top.todo, !.tys = Top.tys]
  BY <1>1 DEF IsFrame
<1>3. SetTop([Top EXCEPT !.pc = pc, !.i = i, !.st = Top.st, !.todo = Top.todo, !.tys = Top.tys])
  BY <1>2
<1> QED
  BY <1>3, TopState, EffectFrame

\* The end of a terminator's effects that changes calls or unhandled types.
LEMMA StateFrame ==
    ASSUME TypeOK, Top.pc # "engine", NEW st, IsDomain(st), st.places = Top.st.places,
           \A call \in st.calls : call \in CallsIn(Top) \/ Answered(fns', call),
           SetTop([Top EXCEPT !.pc = "callees", !.st = st])
    PROVE  \E f : FrameStep(f)
<1>1. IsFrame(Top)
  BY TopIsFrame
<1>2. [Top EXCEPT !.pc = "callees", !.st = st]
        = [Top EXCEPT !.pc = "callees", !.i = Top.i, !.st = st, !.todo = Top.todo, !.tys = Top.tys]
  BY <1>1 DEF IsFrame
<1>3. SetTop([Top EXCEPT !.pc = "callees", !.i = Top.i, !.st = st,
                         !.todo = Top.todo, !.tys = Top.tys])
  BY <1>2
<1> QED
  BY <1>3, TopState, EffectFrame

\* Statements and terminators without an effect.
LEMMA SkipFrames ==
    ASSUME TypeOK, SkipStatement \/ SkipTerminator \/ SkipForeignCall
    PROVE  \E f : FrameStep(f)
<1>1. IsFrame(Top)
  BY TopIsFrame
<1>2. CASE SkipStatement
  <2>1. Top.pc = "effects" /\ SetTop([Top EXCEPT !.i = Top.i + 1])
    BY <1>2 DEF SkipStatement, Running
  <2>2. [Top EXCEPT !.i = Top.i + 1] = [Top EXCEPT !.pc = "effects", !.i = Top.i + 1]
    BY <1>1, <2>1 DEF IsFrame
  <2>3. SetTop([Top EXCEPT !.pc = "effects", !.i = Top.i + 1])
    BY <2>1, <2>2
  <2> QED
    BY <2>1, <2>3, TopState, SkipFrame
<1>3. CASE SkipTerminator \/ SkipForeignCall
  <2>1. Top.pc = "effects" /\ SetTop([Top EXCEPT !.pc = "callees"])
    BY <1>3 DEF SkipTerminator, SkipForeignCall, Running
  <2>2. [Top EXCEPT !.pc = "callees"] = [Top EXCEPT !.pc = "callees", !.i = Top.i]
    BY <1>1 DEF IsFrame
  <2>3. SetTop([Top EXCEPT !.pc = "callees", !.i = Top.i])
    BY <2>1, <2>2
  <2> QED
    BY <2>1, <2>3, SkipFrame
<1> QED
  BY <1>2, <1>3

\* A call through anything but a function item.
LEMMA CallUnhandledFrame ==
    ASSUME TypeOK, CallUnhandled
    PROVE  \E f : FrameStep(f)
<1> DEFINE st == AddUnhandled(Top.st, Term(Top).fun.ty)
<1>1. Top.pc = "effects" /\ SetTop([Top EXCEPT !.pc = "callees", !.st = st])
  BY DEF CallUnhandled, Running
<1>2. IsDomain(st) /\ st.places = Top.st.places /\ st.calls = Top.st.calls
  BY TopState, AddShape
<1> HIDE DEF st
<1> QED
  BY <1>1, <1>2, TopState, StateFrame

\* A call without a callee that can be named: its record is stored with it.
LEMMA CallUnresolvedFrame ==
    ASSUME TypeOK, CallUnresolved
    PROVE  \E f : FrameStep(f)
<1> DEFINE call == CallWithoutBody(Term(Top).fun.def, Term(Top).args)
           st == AddCall(Top.st, call)
           info == WithoutBody(Term(Top).fun.def, CallTys(Top))
<1>1. Top.pc = "effects" /\ SetTop([Top EXCEPT !.pc = "callees", !.st = st])
  BY DEF CallUnresolved, Running
<1>2. IsDomain(st) /\ st.places = Top.st.places /\ st.calls = Top.st.calls \union {call}
  BY TopState, AddShape
<1>3. fns' = Insert(fns, info) /\ IsSeq(fns)
  BY DEF CallUnresolved, TypeOK
<1>4. Answers(info, call)
  BY DEF Answers, WithoutBody, CallWithoutBody
<1> HIDE DEF st, call, info
<1>5. Answered(fns', call)
  BY <1>3, <1>4, InsertedAnswers
<1> QED
  BY <1>1, <1>2, <1>5, TopState, StateFrame

\* A call whose callees are known.
LEMMA CallResolvedFrame ==
    ASSUME TypeOK, CallResolved
    PROVE  \E f : FrameStep(f)
<1> DEFINE callees == Resolve(Term(Top).fun, CallTys(Top))
           tys == CallTys(Top)
<1>1. Top.pc = "effects" /\ SetTop([Top EXCEPT !.pc = "callees", !.todo = callees, !.tys = tys])
  BY DEF CallResolved, Running
<1>2. Term(Top).fun.kind = "FnDef" /\ ~CannotResolve(Top)
  BY DEF CallResolved, Calls
<1>3. IsCallee(Term(Top).fun)
  BY <1>1, <1>2, TopBlock
<1>4. \A fn \in callees : IsFunction(fn)
  BY <1>3, ResolveTyped
<1> HIDE DEF callees, tys
<1>5. IsFrame(Top)
  BY TopIsFrame
<1>6. [Top EXCEPT !.pc = "callees", !.todo = callees, !.tys = tys]
        = [Top EXCEPT !.pc = "callees", !.i = Top.i, !.st = Top.st, !.todo = callees, !.tys = tys]
  BY <1>5 DEF IsFrame
<1>7. SetTop([Top EXCEPT !.pc = "callees", !.i = Top.i, !.st = Top.st,
                         !.todo = callees, !.tys = tys])
  BY <1>1, <1>6
<1> QED
  BY <1>1, <1>4, <1>7, TopState, EffectFrame

\* A callee that is being analysed already.
LEMMA SkipRepeatedFrame ==
    ASSUME TypeOK, NEW fn, SkipRepeated(fn)
    PROVE  \E f : FrameStep(f)
<1> DEFINE todo == Top.todo \ {fn}
<1>1. Top.pc = "callees" /\ SetTop([Top EXCEPT !.todo = todo])
  BY DEF SkipRepeated, Running
<1>2. \A g \in todo : IsFunction(g)
  BY TopState
<1> HIDE DEF todo
<1>3. IsFrame(Top)
  BY TopIsFrame
<1>4. [Top EXCEPT !.todo = todo]
        = [Top EXCEPT !.pc = "callees", !.i = Top.i, !.st = Top.st, !.todo = todo, !.tys = Top.tys]
  BY <1>1, <1>3 DEF IsFrame
<1>5. SetTop([Top EXCEPT !.pc = "callees", !.i = Top.i, !.st = Top.st,
                         !.todo = todo, !.tys = Top.tys])
  BY <1>1, <1>4
<1> QED
  BY <1>1, <1>2, <1>5, TopState, EffectFrame

\* A callee whose result is known comes back at once.
LEMMA ReturnedFrame ==
    ASSUME TypeOK, NEW fn, NEW call, NEW ty, SetTop(Returned(Top, fn, call, ty)),
           Answered(fns', call)
    PROVE  \E f : FrameStep(f)
<1>1. IsFrame(Top)
  BY TopIsFrame
<1>2. /\ IsFrame(Returned(Top, fn, call, ty))
      /\ CallsIn(Returned(Top, fn, call, ty)) = CallsIn(Top) \union {call}
  BY <1>1, ReturnedTyped
<1> QED
  BY <1>2 DEF FrameStep

\* A callee without a body: its record is stored before the call is added.
LEMMA CallBodylessFrame ==
    ASSUME TypeOK, NEW fn, CallBodyless(fn)
    PROVE  \E f : FrameStep(f)
<1> DEFINE call == BodylessCallOf(Top, fn)
           info == WithoutBody(Fn[fn.inst].def, Top.tys)
<1>1. SetTop(Returned(Top, fn, call, FromTy(Fn[fn.inst].output)))
  BY DEF CallBodyless
<1>2. fns' = Insert(fns, info) /\ IsSeq(fns)
  BY DEF CallBodyless, TypeOK
<1>3. Answers(info, call)
  BY DEF Answers, WithoutBody, CallWithoutBody, BodylessCallOf
<1> HIDE DEF call, info
<1>4. Answered(fns', call)
  BY <1>2, <1>3, InsertedAnswers
<1> QED
  BY <1>1, <1>4, ReturnedFrame

\* A callee with a stored result.
LEMMA CallCachedFrame ==
    ASSUME TypeOK, NEW fn, CallCached(fn)
    PROVE  \E f : FrameStep(f)
<1> DEFINE call == CallOf(Top, fn)
           info == WithBody(fn.inst, CachedResult(fn))
           ty == CalleeReturnTy(fn, CachedResult(fn))
<1>1. SetTop(Returned(Top, fn, call, ty))
  BY DEF CallCached
<1>2. fns' = Insert(fns, info) /\ IsSeq(fns)
  BY DEF CallCached, TypeOK
<1>3. Answers(info, call)
  BY DEF Answers, WithBody, CallWithBody, CallOf
<1> HIDE DEF call, info, ty
<1>4. Answered(fns', call)
  BY <1>2, <1>3, InsertedAnswers
<1> QED
  BY <1>1, <1>4, ReturnedFrame

\* The flow into one successor: the joined state holds the calls of both.
LEMMA FlowOutFrame ==
    ASSUME TypeOK, FlowOut
    PROVE  \E f : FrameStep(f)
<1> DEFINE b == Head(Top.out)
           joined == JoinDomain(Top.entry[b], Top.st)
           again == Changed(Top.entry[b], joined) /\ b \notin ToSet(Top.queue)
           queue == IF again THEN Append(Top.queue, b) ELSE Top.queue
           new == [Top EXCEPT !.out = Tail(Top.out), !.entry[b] = joined, !.queue = queue]
<1>1. IsFrame(Top)
  BY TopIsFrame
<1>2. Top.out \in Seq(DOMAIN Top.entry) /\ Top.out # <<>> /\ Top.queue \in Seq(DOMAIN Top.entry)
  BY <1>1 DEF FlowOut, IsFrame
<1>3. b \in DOMAIN Top.entry /\ Tail(Top.out) \in Seq(DOMAIN Top.entry)
  BY <1>2, HeadTail
<1>4. SetTop(new)
  BY DEF FlowOut
<1> HIDE DEF b
<1>5. /\ IsDomain(joined)
      /\ DOMAIN joined.places = DOMAIN Top.entry[b].places
      /\ joined.calls = Top.entry[b].calls \union Top.st.calls
  BY JoinShape
<1> HIDE DEF joined, again
<1>6. queue \in Seq(DOMAIN Top.entry)
  <2>1. Append(Top.queue, b) \in Seq(DOMAIN Top.entry)
    BY <1>2, <1>3, AppendTyped
  <2> QED
    BY <1>2, <2>1
<1> HIDE DEF queue
<1>7. new = [Top EXCEPT !.out = Tail(Top.out), !.queue = queue,
                        !.entry = [Top.entry EXCEPT ![b] = joined]]
  BY <1>1 DEF IsFrame
<1> HIDE DEF new
<1>8. IsFrame(new)
  BY <1>1, <1>3, <1>5, <1>6, <1>7 DEF IsFrame, IsDomainOf
<1>9. CallsIn(new) \subseteq CallsIn(Top)
  BY <1>1, <1>3, <1>5, <1>7 DEF IsFrame, CallsIn
<1> QED
  BY <1>4, <1>8, <1>9 DEF FrameStep

\* The end of a block.
LEMMA LeaveBlockFrame ==
    ASSUME TypeOK, LeaveBlock
    PROVE  \E f : FrameStep(f)
<1> DEFINE new == [Top EXCEPT !.pc = "engine"]
<1>1. IsFrame(Top) /\ SetTop(new)
  BY TopIsFrame DEF LeaveBlock
<1>2. IsFrame(new) /\ CallsIn(new) = CallsIn(Top)
  BY <1>1 DEF IsFrame, IsDomainOf, CallsIn
<1> QED
  BY <1>1, <1>2 DEF FrameStep

\* The end of a block under the cursor.
LEMMA AccumulateFrame ==
    ASSUME TypeOK, Accumulate
    PROVE  \E f : FrameStep(f)
<1> DEFINE acc == IF Top.bb = 1 THEN Top.st ELSE JoinDomain(Top.acc, Top.st)
           new == [Top EXCEPT !.acc = acc, !.pc = "engine"]
<1>1. IsFrame(Top) /\ SetTop(new)
  BY TopIsFrame DEF Accumulate
<1>2. /\ IsDomain(acc)
      /\ DOMAIN acc.places = DOMAIN Top.st.places
      /\ acc.calls \subseteq Top.acc.calls \union Top.st.calls
  BY <1>1, JoinShape DEF IsFrame, IsDomainOf
<1> HIDE DEF acc
<1>3. new = [Top EXCEPT !.acc = acc, !.pc = "engine"]
  OBVIOUS
<1> HIDE DEF new
<1>4. IsFrame(new)
  BY <1>1, <1>2, <1>3 DEF IsFrame, IsDomainOf
<1>5. CallsIn(new) \subseteq CallsIn(Top)
  BY <1>1, <1>2, <1>3 DEF IsFrame, CallsIn
<1> QED
  BY <1>1, <1>4, <1>5 DEF FrameStep

\* Every action that changes the top frame only.
LEMMA LocalFrame ==
    ASSUME TypeOK, LocalAction
    PROVE  \E f : FrameStep(f)
  BY PickBlockFrame, SeekBlockFrame, AssignFrame, SkipFrames, CallUnhandledFrame,
     CallUnresolvedFrame, CallResolvedFrame, SkipRepeatedFrame, CallBodylessFrame,
     CallCachedFrame, FlowOutFrame, LeaveBlockFrame, AccumulateFrame DEF LocalAction

----------------------------------------------------------------------------
(* The storages.                                                           *)

\* Nothing happens to the function storage, or a record is inserted whose
\* calls are answered already.
StorageStep ==
    \/ fns' = fns
    \/ \E info : /\ fns' = Insert(fns, info)
                 /\ \A call \in CallsOf(info) : Answered(fns, call)

\* The invariant that makes every step a StorageStep: a record is built from
\* the state of an analysis, or from a record that was stored before.
IInv == TypeOK /\ StorageOrdered /\ LiveCallsAnswered

\* A storage step keeps the storage ordered and every answer it gave.
LEMMA StorageStepFacts ==
    ASSUME TypeOK, StorageOrdered, StorageStep
    PROVE  /\ IsSeq(fns')
           /\ StorageOrdered'
           /\ \A call : Answered(fns, call) => Answered(fns', call)
<1>1. IsSeq(fns)
  BY DEF TypeOK
<1>2. CASE fns' = fns
  BY <1>1, <1>2 DEF StorageOrdered
<1>3. CASE \E info : /\ fns' = Insert(fns, info)
                     /\ \A call \in CallsOf(info) : Answered(fns, call)
  <2>1. PICK info : /\ fns' = Insert(fns, info)
                    /\ \A call \in CallsOf(info) : Answered(fns, call)
    BY <1>3
  <2>2. IsSeq(fns') /\ \A call : Answered(fns, call) => Answered(fns', call)
    BY <1>1, <2>1, InsertExtends, InsertAnswers
  <2>3. CallsAnsweredEarlier(fns')
    BY <1>1, <2>1, InsertKeepsOrder DEF StorageOrdered
  <2> QED
    BY <2>2, <2>3 DEF StorageOrdered
<1> QED
  BY <1>2, <1>3 DEF StorageStep

\* A stored result was stored after everything it calls.
LEMMA CachedCallsAnswered ==
    ASSUME TypeOK, StorageOrdered, NEW fn, Cached(fn), NEW call \in CachedResult(fn).calls
    PROVE  Answered(fns, call)
<1> DEFINE k == FirstMatch(fns, CallWithBody(fn.inst, <<>>))
<1>1. k \in DOMAIN fns /\ Answers(fns[k], CallWithBody(fn.inst, <<>>))
  BY LookupFinds DEF TypeOK, Cached, HasBodyInfo
<1>2. call \in fns[k].calls
  BY DEF CachedResult, GetWithBody, GetByCall
<1> HIDE DEF k
<1>3. call \in CallsOf(fns[k])
  BY <1>1, <1>2 DEF Answers, CallsOf, CallWithBody
<1>4. PICK j \in 1..(k - 1) : Answers(fns[j], call)
  BY <1>1, <1>3 DEF StorageOrdered, CallsAnsweredEarlier
<1>5. DOMAIN fns = 1..Len(fns) /\ Len(fns) \in Nat
  BY DEF TypeOK, IsSeq
<1>6. j \in DOMAIN fns
  BY <1>1, <1>5
<1> QED
  BY <1>4, <1>6 DEF Answered

\* Every action makes a storage step.
LEMMA StepsStorage ==
    ASSUME IInv, Next
    PROVE  StorageStep
<1> USE DEF IInv
<1>1. ASSUME NEW def, NEW args, fns' = Insert(fns, WithoutBody(def, args))
      PROVE  StorageStep
  <2>1. CallsOf(WithoutBody(def, args)) = {}
    BY DEF CallsOf, WithoutBody
  <2> QED
    BY <1>1, <2>1 DEF StorageStep
<1>2. ASSUME NEW inst, NEW d, fns' = Insert(fns, WithBody(inst, d)),
             \A call \in d.calls : Answered(fns, call)
      PROVE  StorageStep
  <2>1. CallsOf(WithBody(inst, d)) = d.calls
    BY DEF CallsOf, WithBody
  <2> QED
    BY <1>2, <2>1 DEF StorageStep
<1>3. \A call \in Top.acc.calls : Answered(fns, call)
  BY TopIsFrame DEF LiveCallsAnswered, CallsIn, Top
<1>4. CASE CallUnresolved
  BY <1>1, <1>4 DEF CallUnresolved
<1>5. ASSUME NEW fn, CallBodyless(fn)
      PROVE  StorageStep
  BY <1>1, <1>5 DEF CallBodyless
<1>6. ASSUME NEW fn, CallCached(fn)
      PROVE  StorageStep
  <2>1. Cached(fn) /\ fns' = Insert(fns, WithBody(fn.inst, CachedResult(fn)))
    BY <1>6 DEF CallCached
  <2>2. \A call \in CachedResult(fn).calls : Answered(fns, call)
    BY <2>1, CachedCallsAnswered
  <2> QED
    BY <1>2, <2>1, <2>2
<1>7. CASE Return \/ Finish
  BY <1>2, <1>3, <1>7 DEF Return, Finish
<1>8. CASE fns' = fns
  BY <1>8 DEF StorageStep
<1>9. \/ CallUnresolved \/ Return \/ Finish \/ fns' = fns
      \/ \E fn : CallBodyless(fn) \/ CallCached(fn)
  BY DEF Next, Callee, PickBlock, SeekBlock, Assign, SkipStatement, SkipTerminator,
         SkipForeignCall, CallUnhandled, CallResolved, SkipRepeated, Enter, FlowOut, LeaveBlock,
         Accumulate, Panic, Stopped, vars
<1> QED
  BY <1>4, <1>5, <1>6, <1>7, <1>8, <1>9

\* A closure storage of the right type.
AllInfos(infos) == \A def \in DOMAIN infos : IsClosureInfo(infos[def])

\* update_with() of the closure storage keeps it well-formed.
LEMMA UpdateClosureTyped ==
    ASSUME NEW infos, AllInfos(infos), NEW def, NEW inst \in Inst, NEW upvars
    PROVE  AllInfos(UpdateClosure(infos, def, inst, upvars))
<1> DEFINE updated == UpdateClosure(infos, def, inst, upvars)
<1>1. CASE def \notin DOMAIN infos
  <2>1. updated = [d \in DOMAIN infos \union {def} |->
                      IF d = def THEN [inst |-> inst, upvars |-> upvars] ELSE infos[d]]
    BY <1>1 DEF UpdateClosure
  <2> HIDE DEF updated
  <2>2. AllInfos(updated)
    BY <2>1 DEF AllInfos, IsClosureInfo
  <2> QED
    BY <2>2 DEF updated
<1>2. CASE def \in DOMAIN infos
  <2>1. PICK new : updated = [infos EXCEPT ![def].upvars = new]
    BY <1>2 DEF UpdateClosure
  <2> HIDE DEF updated
  <2>2. AllInfos(updated)
    BY <1>2, <2>1 DEF AllInfos, IsClosureInfo
  <2> QED
    BY <2>2 DEF updated
<1> QED
  BY <1>1, <1>2

\* collect_closures() keeps the closure storage well-formed.
LEMMA CollectClosuresTyped ==
    ASSUME NEW infos, AllInfos(infos), NEW i \in Inst
    PROVE  AllInfos(CollectClosures(infos, Fn[i].closures))
<1> DEFINE mentioned == Fn[i].closures
           first(def) == CHOOSE c \in mentioned : c.def = def
           collected == CollectClosures(infos, mentioned)
<1>1. \A c \in mentioned : c.inst \in Inst
  BY ProgramAssumption DEF IsClosureOf
<1>2. ASSUME NEW def \in {c.def : c \in mentioned}
      PROVE  first(def).inst \in Inst
  <2>1. \E c \in mentioned : c.def = def
    OBVIOUS
  <2>2. first(def) \in mentioned
    BY <2>1
  <2> QED
    BY <1>1, <2>2
<1>3. collected = [def \in DOMAIN infos \union {c.def : c \in mentioned} |->
                      IF def \in DOMAIN infos THEN infos[def]
                      ELSE [inst |-> first(def).inst, upvars |-> <<>>]]
  BY DEF CollectClosures
<1> HIDE DEF first, collected
<1>4. AllInfos(collected)
  BY <1>2, <1>3 DEF AllInfos, IsClosureInfo
<1> QED
  BY <1>4 DEF collected

\* A statement that is due is one of the body's.
LEMMA TopStatement ==
    ASSUME TypeOK, AtStatement(Top)
    PROVE  /\ Top.fn.inst \in Inst
           /\ Top.bb \in DOMAIN Fn[Top.fn.inst].blocks
           /\ Top.i \in DOMAIN Fn[Top.fn.inst].blocks[Top.bb].stmts
           /\ Stmt(Top) = Fn[Top.fn.inst].blocks[Top.bb].stmts[Top.i]
<1>1. Top.pc = "effects"
  BY DEF AtStatement
<1>2. Top.bb \in DOMAIN Fn[Top.fn.inst].blocks /\ Top.fn.inst \in Inst
  BY <1>1, TopBlock
<1>3. IsBody(Fn[Top.fn.inst].blocks)
  BY <1>2, ProgramAssumption
<1>4. DOMAIN Block(Top).stmts = 1..Len(Block(Top).stmts) /\ Len(Block(Top).stmts) \in Nat
  BY <1>2, <1>3 DEF IsBody, IsSeq, Block
<1>5. Top.i \in DOMAIN Block(Top).stmts
  BY <1>1, <1>4, TopIsFrame DEF IsFrame, AtStatement
<1> QED
  BY <1>2, <1>5 DEF Block, Stmt

\* Every action keeps the closure storage well-formed.
LEMMA StepsClosures ==
    ASSUME IInv, Next
    PROVE  AllInfos(closures')
<1>1. AllInfos(closures)
  BY DEF IInv, TypeOK, AllInfos
<1>2. CASE Assign
  <2> DEFINE rv == Stmt(Top).rv
             upvars == OperandTys(Top.st.places, rv.ops)
  <2>1. CASE rv.kind = "Closure"
    <3>1. AtStatement(Top) /\ Stmt(Top).kind = "Assign"
      BY <1>2 DEF Assign
    <3>2. /\ Top.fn.inst \in Inst
          /\ Top.bb \in DOMAIN Fn[Top.fn.inst].blocks
          /\ Top.i \in DOMAIN Fn[Top.fn.inst].blocks[Top.bb].stmts
          /\ Stmt(Top) = Fn[Top.fn.inst].blocks[Top.bb].stmts[Top.i]
      BY <3>1, TopStatement DEF IInv
    <3>3. IsBody(Fn[Top.fn.inst].blocks)
      BY <3>2, ProgramAssumption
    <3>4. rv.inst \in Inst
      BY <2>1, <3>1, <3>2, <3>3 DEF IsBody, IsClosureOf
    <3>5. closures' = UpdateClosure(closures, rv.def, rv.inst, upvars)
      BY <1>2, <2>1 DEF Assign
    <3> HIDE DEF rv, upvars
    <3> QED
      BY <1>1, <3>4, <3>5, UpdateClosureTyped
  <2>2. CASE rv.kind # "Closure"
    BY <1>1, <1>2, <2>2 DEF Assign
  <2> QED
    BY <2>1, <2>2
<1>3. ASSUME NEW fn \in Top.todo, Enter(fn)
      PROVE  AllInfos(closures')
  <2>1. fn.inst \in Inst
    BY TopState DEF IInv, IsFunction
  <2> QED
    BY <1>1, <1>3, <2>1, CollectClosuresTyped DEF Enter
<1>4. CASE closures' = closures
  BY <1>1, <1>4
<1>5. \/ Assign \/ closures' = closures
      \/ \E fn \in Top.todo : Enter(fn)
  BY DEF Next, Callee, PickBlock, SeekBlock, SkipStatement, SkipTerminator, SkipForeignCall,
         CallUnhandled, CallUnresolved, CallResolved, SkipRepeated, CallBodyless, CallCached,
         FlowOut, LeaveBlock, Accumulate, Return, Finish, Panic, Stopped, vars
<1> QED
  BY <1>2, <1>3, <1>4, <1>5

----------------------------------------------------------------------------
(* The call stack.                                                         *)

\* The frames after a step: typed, with calls that were there or are
\* answered by now.
FramesStep ==
    /\ IsSeq(frames')
    /\ frames' # <<>>
    /\ \A k \in DOMAIN frames' :
          /\ IsFrame(frames'[k])
          /\ \A call \in CallsIn(frames'[k]) : Answered(fns, call) \/ Answered(fns', call)

\* The steps of the stack as a whole: the top frame changes.
LEMMA LocalFrames ==
    ASSUME IInv, LocalAction
    PROVE  FramesStep
<1> USE DEF IInv
<1>1. PICK f : FrameStep(f)
  BY LocalFrame
<1>2. SetTop(f) /\ IsFrame(f)
  BY <1>1 DEF FrameStep
<1>3. /\ IsSeq(frames') /\ frames' # <<>> /\ Len(frames') = Len(frames)
      /\ DOMAIN frames' = DOMAIN frames
      /\ Top' = f
      /\ \A k \in DOMAIN frames : k # Len(frames) => frames'[k] = frames[k]
      /\ \A k \in DOMAIN frames' : IsFrame(frames'[k])
  BY <1>2, SetTopTyped
<1>4. ASSUME NEW k \in DOMAIN frames', NEW call \in CallsIn(frames'[k])
      PROVE  Answered(fns, call) \/ Answered(fns', call)
  <2>1. CASE k = Len(frames)
    <3>1. frames'[k] = f
      BY <1>3, <2>1 DEF Top
    <3>2. call \in CallsIn(Top) \/ Answered(fns', call)
      BY <1>1, <1>4, <3>1 DEF FrameStep
    <3>3. \A c \in CallsIn(Top) : Answered(fns, c)
      BY TopIsFrame DEF LiveCallsAnswered, Top
    <3> QED
      BY <3>2, <3>3
  <2>2. CASE k # Len(frames)
    BY <1>3, <1>4, <2>2 DEF LiveCallsAnswered
  <2> QED
    BY <2>1, <2>2
<1> QED
  BY <1>3, <1>4 DEF FramesStep

\* The stack grows by a frame.
LEMMA EnterFrames ==
    ASSUME IInv, NEW fn \in Top.todo, Enter(fn)
    PROVE  FramesStep
<1> USE DEF IInv
<1> DEFINE new == NewFrame(fn)
<1>1. IsFunction(fn) /\ Fn[fn.inst].blocks # <<>>
  BY TopState DEF Enter, CanStart
<1>2. IsFrame(new) /\ CallsIn(new) = {}
  BY <1>1, NewFrameTyped
<1>3. frames' = Append(frames, new) /\ IsSeq(frames)
  BY DEF Enter, TypeOK
<1> HIDE DEF new
<1>4. /\ IsSeq(frames')
      /\ Len(frames') = Len(frames) + 1
      /\ frames'[Len(frames) + 1] = new
      /\ \A k \in DOMAIN frames : frames'[k] = frames[k]
  BY <1>3, AppendFacts
<1>5. /\ DOMAIN frames = 1..Len(frames) /\ Len(frames) \in Nat
      /\ DOMAIN frames' = 1..(Len(frames) + 1)
  BY <1>3, <1>4 DEF IsSeq
<1>6. frames' # <<>>
  BY <1>5
<1>7. ASSUME NEW k \in DOMAIN frames'
      PROVE  /\ IsFrame(frames'[k])
             /\ \A call \in CallsIn(frames'[k]) : Answered(fns, call)
  <2>1. CASE k \in DOMAIN frames
    BY <1>4, <2>1 DEF TypeOK, LiveCallsAnswered
  <2>2. CASE k = Len(frames) + 1
    BY <1>2, <1>4, <2>2
  <2> QED
    BY <1>5, <2>1, <2>2
<1> QED
  BY <1>4, <1>6, <1>7 DEF FramesStep

\* The top frame leaves and its caller takes the result over.
LEMMA ReturnFrames ==
    ASSUME IInv, Return
    PROVE  FramesStep
<1> USE DEF IInv
<1> DEFINE fn == Top.fn
           ty == CalleeReturnTy(fn, Top.acc)
           n == Len(frames) - 1
           call == CallOf(Caller, fn)
           info == WithBody(fn.inst, Top.acc)
           new == Returned(Caller, fn, call, ty)
<1>1. /\ IsSeq(frames) /\ DOMAIN frames = 1..Len(frames)
      /\ n \in DOMAIN frames /\ n \in Nat /\ Len(frames) \in Nat
  BY TopIsFrame DEF TypeOK, Return
<1>2. IsFrame(Caller) /\ \A c \in CallsIn(Caller) : Answered(fns, c)
  BY <1>1 DEF TypeOK, LiveCallsAnswered, Caller
<1>3. frames' = [k \in 1..n |-> IF k = n THEN new ELSE frames[k]]
  <2>1. Front(frames) = [k \in 1..n |-> frames[k]]
    BY <1>1 DEF Front, IsSeq
  <2>2. frames' = [Front(frames) EXCEPT ![n] = Returned(@, fn, CallOf(@, fn), ty)]
    BY DEF Return
  <2>3. Front(frames)[n] = Caller
    BY <1>1, <2>1 DEF Caller
  <2> HIDE DEF ty
  <2> QED
    BY <1>1, <2>1, <2>2, <2>3
<1>4. IsFrame(new) /\ CallsIn(new) = CallsIn(Caller) \union {call}
  BY <1>2, ReturnedTyped
<1>5. fns' = Insert(fns, info) /\ IsSeq(fns)
  BY DEF Return, TypeOK
<1>6. Answers(info, call)
  BY DEF Answers, WithBody, CallWithBody, CallOf
<1> HIDE DEF new, call, info, n
<1>7. Answered(fns', call)
  BY <1>5, <1>6, InsertedAnswers
<1>8. IsSeq(frames') /\ frames' # <<>>
  <2>1. frames' = [k \in 1..n |-> frames'[k]]
    BY <1>3
  <2> QED
    BY <1>1, <2>1, FunctionIsSeq
<1>9. ASSUME NEW k \in DOMAIN frames'
      PROVE  /\ IsFrame(frames'[k])
             /\ \A c \in CallsIn(frames'[k]) : Answered(fns, c) \/ Answered(fns', c)
  <2>1. CASE k = n
    BY <1>2, <1>3, <1>4, <1>7, <2>1
  <2>2. CASE k # n
    <3>1. k \in 1..n /\ frames'[k] = frames[k]
      BY <1>3, <2>2
    <3>2. k \in DOMAIN frames
      BY <1>1, <3>1
    <3> QED
      BY <3>1, <3>2 DEF TypeOK, LiveCallsAnswered
  <2> QED
    BY <2>1, <2>2
<1> QED
  BY <1>8, <1>9 DEF FramesStep

\* Every action makes a frames step.
LEMMA StepsFrames ==
    ASSUME IInv, Next
    PROVE  FramesStep
<1>1. CASE frames' = frames
  BY <1>1 DEF IInv, TypeOK, LiveCallsAnswered, FramesStep
<1>2. \/ LocalAction \/ Return
      \/ \E fn \in Top.todo : Enter(fn)
      \/ frames' = frames
  BY DEF Next, Callee, LocalAction, Finish, Panic, Stopped, vars
<1> QED
  BY <1>1, <1>2, LocalFrames, EnterFrames, ReturnFrames

----------------------------------------------------------------------------
(* The theorems.                                                           *)

\* The invariant holds at the start of every analysis.
LEMMA InitIInv ==
    ASSUME Init
    PROVE  IInv
<1>1. PICK fn : /\ fn.inst = origin
                /\ fn = [inst |-> fn.inst, args |-> fn.args, upvars |-> fn.upvars]
                /\ frames = <<NewFrame(fn)>>
  BY DEF Init, OriginFn
<1>2. origin \in Origins /\ origin \in Inst /\ Fn[origin].blocks # <<>>
  BY ProgramAssumption DEF Init
<1>3. IsFrame(NewFrame(fn)) /\ CallsIn(NewFrame(fn)) = {}
  BY <1>1, <1>2, NewFrameTyped DEF IsFunction
<1>4. AllInfos(closures)
  <2>1. AllInfos(<<>>)
    BY DEF AllInfos
  <2> QED
    BY <1>2, <2>1, CollectClosuresTyped DEF Init
<1>5. IsSeq(frames) /\ frames # <<>> /\ DOMAIN frames = {1} /\ frames[1] = NewFrame(fn)
  BY <1>1 DEF IsSeq
<1>6. IsSeq(fns) /\ CallsAnsweredEarlier(fns)
  BY DEF Init, IsSeq, CallsAnsweredEarlier
<1>7. TypeOK
  BY <1>2, <1>3, <1>4, <1>5, <1>6 DEF Init, TypeOK, AllInfos
<1>8. LiveCallsAnswered
  BY <1>3, <1>5 DEF LiveCallsAnswered
<1> QED
  BY <1>6, <1>7, <1>8 DEF IInv, StorageOrdered

\* ... and every step keeps it.
LEMMA NextIInv ==
    ASSUME IInv, [Next]_vars
    PROVE  IInv'
<1>1. CASE Next
  <2>1. FramesStep /\ StorageStep /\ AllInfos(closures')
    BY <1>1, StepsFrames, StepsStorage, StepsClosures
  <2>2. /\ IsSeq(fns')
        /\ StorageOrdered'
        /\ \A call : Answered(fns, call) => Answered(fns', call)
    BY <2>1, StorageStepFacts DEF IInv
  <2>3. origin' \in Origins /\ status' \in {"running", "done", "panicked"}
    BY <1>1 DEF IInv, TypeOK, Next, Callee, PickBlock, SeekBlock, Assign, SkipStatement,
           SkipTerminator, SkipForeignCall, CallUnhandled, CallUnresolved, CallResolved,
           SkipRepeated, CallBodyless, CallCached, Enter, FlowOut, LeaveBlock, Accumulate,
           Return, Finish, Panic, Stopped, vars
  <2>4. TypeOK'
    BY <2>1, <2>2, <2>3 DEF TypeOK, FramesStep, AllInfos
  <2>5. LiveCallsAnswered'
    BY <2>1, <2>2 DEF LiveCallsAnswered, FramesStep
  <2> QED
    BY <2>2, <2>4, <2>5 DEF IInv
<1>2. CASE UNCHANGED vars
  BY <1>2 DEF vars, IInv, TypeOK, StorageOrdered, LiveCallsAnswered
<1> QED
  BY <1>1, <1>2

\* For every program, every analysis keeps the storage ordered, the calls of
\* its live states answered and all its variables in their types.
THEOREM InvariantHolds == Spec => []IInv
<1>1. Init => IInv
  BY InitIInv
<1>2. IInv /\ [Next]_vars => IInv'
  BY NextIInv
<1> QED
  BY <1>1, <1>2, PTL DEF Spec

\* The collector never leaves its types: every domain value of a body has
\* the body's places, so that no lookup or join of the fixpoint, the final
\* pass (collector.rs:109-128) or the accumulation misses one, and every
\* block, callee and closure instance in use exists.
THEOREM TypeCorrect == Spec => []TypeOK
<1>1. IInv => TypeOK
  BY DEF IInv
<1> QED
  BY <1>1, InvariantHolds, PTL

\* Whatever the call graph, recursion, closures and cached results: every call
\* of a stored function is answered by a function stored before it, which is
\* what get_by_call() unwraps and the analyzer's recursion rests on.
THEOREM StorageIsOrdered == Spec => []StorageOrdered
<1>1. IInv => StorageOrdered
  BY DEF IInv
<1> QED
  BY <1>1, InvariantHolds, PTL

\* No state of a running analysis ever holds a call that the storage cannot
\* answer: process_call() stores the callee before it adds the call.
THEOREM LiveCallsAreAnswered == Spec => []LiveCallsAnswered
<1>1. IInv => LiveCallsAnswered
  BY DEF IInv
<1> QED
  BY <1>1, InvariantHolds, PTL

\* The function storage of the collector is the append-only log of CallLog.
THEOREM CollectorIsCallLog == Spec => ImplementsCallLog
<1>1. Init => Log!Init
  BY DEF Init, Log!Init
<1>2. IInv /\ [Next]_vars => [Log!Record]_fns
  <2> SUFFICES ASSUME IInv, [Next]_vars, fns' # fns
               PROVE  Log!Record
    OBVIOUS
  <2>1. StorageStep
    BY StepsStorage DEF vars
  <2>2. PICK info : /\ fns' = Insert(fns, info)
                    /\ \A call \in CallsOf(info) : Answered(fns, call)
    BY <2>1 DEF StorageStep
  <2>3. (\A k \in DOMAIN fns : fns[k] # info) /\ fns' = Append(fns, info)
    BY <2>2 DEF Insert
  <2>4. Len(fns') = Len(fns) + 1 /\ fns'[Len(fns) + 1] = info
    BY <2>3, AppendFacts DEF IInv, TypeOK
  <2> QED
    BY <2>2, <2>3, <2>4 DEF Log!Record, Log!CallsOf, Log!Answered, Log!Answers,
                            CallsOf, Answered, Answers
<1> QED
  BY <1>1, <1>2, InvariantHolds, PTL DEF Spec, ImplementsCallLog, Log!Spec

----------------------------------------------------------------------------
(* The declared types stand: whatever arguments, captures and results flow *)
(* into the states of a body, in the engine's entry states, the cursor and *)
(* the accumulated result alike, a place of a concrete declared type keeps *)
(* that type.  First, tracked types.                                       *)

\* A classified type is Present, or Erased with nothing in it.
LEMMA FromTyCases ==
    ASSUME NEW ty
    PROVE  \/ IsPresent(FromTy(ty)) /\ FromTy(ty) = Present(ty)
           \/ ~IsPresent(FromTy(ty)) /\ FromTy(ty) = Erased({})
  BY DEF IsPresent, FromTy, Present, Erased

\* A declaration holds of itself.
LEMMA DeclaredHolds ==
    ASSUME NEW ty
    PROVE  Holds(FromTy(ty), FromTy(ty))
  BY FromTyCases DEF Holds, Erased

\* Types of the program may flow into a place; what it holds stays right.
LEMMA JoinHolds ==
    ASSUME NEW declared, NEW t, Holds(declared, t), NEW other,
           IsPresent(declared) \/ other.deps \subseteq Ty
    PROVE  Holds(declared, Join(t, other))
  BY DEF Holds, Join, IsPresent, Erased

\* The images map() is given are all there is in its result.
LEMMA MapTyDeps ==
    ASSUME NEW t, NEW image, image \subseteq Ty
    PROVE  MapTy(t, image).deps \subseteq Ty
  BY DEF MapTy, Erased

----------------------------------------------------------------------------
(* Projections.                                                            *)

\* A path below p begins where p ends.
LEMMA PrefixOfItself ==
    ASSUME NEW p, IsSeq(p)
    PROVE  IsPrefix(p, p)
<1>1. Len(p) \in Nat
  BY DEF IsSeq
<1> QED
  BY <1>1 DEF IsPrefix

\* No projections lead from a type to itself.
LEMMA ProjectNothing ==
    ASSUME NEW p, IsSeq(p), NEW ty
    PROVE  Project(ty, p, p) = ty
<1> DEFINE n == Len(p)
           IsWalk(f) == f = [k \in n..n |->
                               IF k = n THEN ty
                               ELSE IF f[k - 1] = NoTy THEN NoTy ELSE Component(f[k - 1], p[k])]
           walk == CHOOSE f : IsWalk(f)
<1>1. n \in Nat
  BY DEF IsSeq
<1>2. Project(ty, p, p) = walk[n]
  BY DEF Project
<1>3. \E f : IsWalk(f)
  <2>1. IsWalk([k \in n..n |-> ty])
    BY <1>1
  <2> QED
    BY <2>1
<1>4. IsWalk(walk)
  BY <1>3
<1> HIDE DEF walk, n
<1>5. walk[n] = ty
  BY <1>1, <1>4
<1> QED
  BY <1>2, <1>5

----------------------------------------------------------------------------
(* Domain values.                                                          *)

\* The places of a body are sequences.
LEMMA PlacesAreSeqs ==
    ASSUME NEW i \in Inst, Fn[i].blocks # <<>>, NEW p \in DOMAIN Fn[i].decl
    PROVE  IsSeq(p)
  BY ProgramAssumption

\* No place is without a local, the mark of an operand that is a constant.
Sound(i, places) == Stands(i, places) /\ NoPlace \notin DOMAIN places

\* An update that the code completes: every type that reaches a place is a
\* type of the program.
LEMMA UpdateStands ==
    ASSUME NEW i \in Inst, Fn[i].blocks # <<>>, NEW d, Sound(i, d.places),
           NEW p, NEW t, CanUpdate(d, p, t)
    PROVE  Sound(i, UpdateWith(d, p, t).places)
<1> DEFINE joined == Join(d.places[p], t)
           start == [d.places EXCEPT ![p] = joined]
           paths == Paths(start, p, joined)
           image(q) == {Project(ty, p, q) : ty \in joined.deps}
           after == UpdateWith(d, p, t).places
<1>1. p \in DOMAIN d.places /\ CanPropagate(d.places, p, joined)
  BY DEF CanUpdate
<1>2. DOMAIN start = DOMAIN d.places
  OBVIOUS
<1>3. paths = Paths(d.places, p, joined)
  BY <1>2 DEF Paths, Interior
<1>4. \A q \in paths : q \in DOMAIN d.places /\ image(q) \subseteq Ty
  BY <1>1, <1>3 DEF CanPropagate
<1>5. DOMAIN after = DOMAIN d.places
  BY <1>2 DEF UpdateWith, Propagate
<1>6. \A q \in DOMAIN d.places :
        after[q] = IF q \in paths THEN Join(start[q], MapTy(joined, image(q))) ELSE start[q]
  BY <1>2 DEF UpdateWith, Propagate
<1> SUFFICES ASSUME NEW q \in DOMAIN Fn[i].decl
             PROVE  q \in DOMAIN after /\ Holds(FromTy(Fn[i].decl[q]), after[q])
  BY <1>5 DEF Sound, Stands
<1>7. q \in DOMAIN d.places /\ Holds(FromTy(Fn[i].decl[q]), d.places[q])
  BY DEF Sound, Stands
<1>8. Holds(FromTy(Fn[i].decl[q]), start[q])
  <2>1. CASE q # p
    BY <1>7, <2>1
  <2>2. CASE q = p
    <3>1. IsSeq(p)
      BY <2>2, PlacesAreSeqs
    <3>2. p \in paths
      BY <1>1, <1>3, <3>1, PrefixOfItself DEF Paths, Interior
    <3>3. image(p) = joined.deps
      BY <3>1, ProjectNothing
    <3>4. joined.deps \subseteq Ty
      BY <1>4, <3>2, <3>3
    <3>5. Holds(FromTy(Fn[i].decl[q]), joined)
      <4>1. joined = IF IsPresent(d.places[p]) THEN d.places[p]
                     ELSE Erased(d.places[p].deps \union t.deps)
        BY DEF Join
      <4> HIDE DEF joined
      <4> QED
        BY <1>7, <2>2, <3>4, <4>1 DEF Holds, Erased, IsPresent
    <3> QED
      BY <1>7, <2>2, <3>5
  <2> QED
    BY <2>1, <2>2
<1> HIDE DEF joined, start, paths, image, after
<1>9. CASE q \in paths
  <2>1. MapTy(joined, image(q)).deps \subseteq Ty
    BY <1>4, <1>9, MapTyDeps
  <2> QED
    BY <1>5, <1>6, <1>7, <1>8, <1>9, <2>1, JoinHolds
<1>10. CASE q \notin paths
  BY <1>5, <1>6, <1>7, <1>8, <1>10
<1> QED
  BY <1>9, <1>10

\* What is not a change of the places leaves them right.
LEMMA AddStands ==
    ASSUME NEW i, NEW d, IsDomain(d), Sound(i, d.places), NEW x
    PROVE  Sound(i, AddCall(d, x).places) /\ Sound(i, AddUnhandled(d, x).places)
  BY AddShape

\* So does a join of two states of the same body.
LEMMA JoinDomainStands ==
    ASSUME NEW i, NEW d, Sound(i, d.places), NEW e, Sound(i, e.places)
    PROVE  Sound(i, JoinDomain(d, e).places)
<1> DEFINE after == JoinDomain(d, e).places
<1> SUFFICES ASSUME NEW q \in DOMAIN Fn[i].decl
             PROVE  q \in DOMAIN after /\ Holds(FromTy(Fn[i].decl[q]), after[q])
  BY JoinShape DEF Sound, Stands
<1>1. /\ q \in DOMAIN d.places /\ Holds(FromTy(Fn[i].decl[q]), d.places[q])
      /\ q \in DOMAIN e.places /\ Holds(FromTy(Fn[i].decl[q]), e.places[q])
  BY DEF Sound, Stands
<1>2. q \in DOMAIN after /\ after[q] = Join(d.places[q], e.places[q])
  BY <1>1 DEF JoinDomain
<1>3. IsPresent(FromTy(Fn[i].decl[q])) \/ e.places[q].deps \subseteq Ty
  BY <1>1 DEF Holds
<1> QED
  BY <1>1, <1>2, <1>3, JoinHolds

\* And an injection the code completes.
LEMMA InjectStands ==
    ASSUME NEW i \in Inst, Fn[i].blocks # <<>>, NEW places, Sound(i, places),
           NEW ts, NEW at, NEW paths, CanInjectAll(places, ts, at, paths), NoPlace \notin ToSet(at)
    PROVE  Sound(i, InjectAll(places, ts, at, paths))
<1> DEFINE region == [k \in DOMAIN ts |-> {at[k]} \union paths[k]]
           hit(q) == {k \in DOMAIN ts : q \in region[k]}
           from(q) == CHOOSE k \in hit(q) : TRUE
           image(k, q) == {Project(ty, at[k], q) : ty \in ts[k].deps}
           after == InjectAll(places, ts, at, paths)
<1>0. DOMAIN after = DOMAIN places \union ToSet(at)
  BY DEF InjectAll
<1> SUFFICES ASSUME NEW q \in DOMAIN Fn[i].decl
             PROVE  q \in DOMAIN after /\ Holds(FromTy(Fn[i].decl[q]), after[q])
  BY <1>0 DEF Sound, Stands
<1>1. q \in DOMAIN places /\ Holds(FromTy(Fn[i].decl[q]), places[q])
  BY DEF Sound, Stands
<1>2. /\ q \in DOMAIN after
      /\ after[q] = IF hit(q) = {} THEN places[q]
                    ELSE Join(places[q], MapTy(ts[from(q)], image(from(q), q)))
  BY <1>1 DEF InjectAll
<1>3. ASSUME NEW k \in hit(q)
      PROVE  image(k, q) \subseteq Ty
  <2>1. k \in DOMAIN ts /\ q \in {at[k]} \union paths[k]
    OBVIOUS
  <2> QED
    BY <2>1 DEF CanInjectAll
<1> HIDE DEF after, hit, image
<1>4. CASE hit(q) = {}
  BY <1>1, <1>2, <1>4
<1>5. CASE hit(q) # {}
  <2>1. from(q) \in hit(q)
    BY <1>5
  <2>2. MapTy(ts[from(q)], image(from(q), q)).deps \subseteq Ty
    BY <1>3, <2>1, MapTyDeps
  <2> HIDE DEF from
  <2> QED
    BY <1>1, <1>2, <1>5, <2>2, JoinHolds
<1> QED
  BY <1>4, <1>5


----------------------------------------------------------------------------
(* Frames.                                                                 *)

\* In a frame, the declarations hold of the current state, of what the cursor
\* has joined up and of every state the engine enters a block with.
FrameStands(f) ==
    /\ Sound(f.fn.inst, f.st.places)
    /\ Sound(f.fn.inst, f.acc.places)
    /\ \A b \in DOMAIN f.entry : Sound(f.fn.inst, f.entry[b].places)

\* The inductive invariant: what DeclaredTypesStand says of the current
\* states is taken from, and flows into, all the others.
TypesInv == \A k \in DOMAIN frames : FrameStands(frames[k])

\* A body is entered with its declarations.
LEMMA BottomStands ==
    ASSUME NEW fn, fn.inst \in Inst, CanStart(fn)
    PROVE  Sound(fn.inst, BottomValue(fn).places)
<1> DEFINE i == fn.inst
<1>1. Fn[i].blocks # <<>>
  BY DEF CanStart
<1>2. Sound(i, Declared(i))
  <2>1. NoPlace \notin DOMAIN Fn[i].decl
    BY <1>1, ProgramAssumption
  <2> QED
    BY <2>1, DeclaredHolds DEF Sound, Stands, Declared
<1>3. NoPlace \notin ToSet(UpvarPlaces(fn)) /\ NoPlace \notin ToSet(ArgPlaces(fn))
  <2>1. ASSUME NEW k
        PROVE  UpvarPlace(fn.inst, k) # NoPlace
    <3> DEFINE env == IF Fn[fn.inst].decl[<<1>>] \in RefTy THEN <<1, Deref>> ELSE <<1>>
    <3>1. IsSeq(env)
      BY DEF IsSeq
    <3> HIDE DEF env
    <3>2. Append(env, k - 1) # <<>>
      BY <3>1, AppendFacts
    <3> QED
      BY <3>2 DEF UpvarPlace, NoPlace, env
  <2>2. \A k : <<k + FirstArg(fn.inst)>> # NoPlace
    BY DEF NoPlace
  <2> QED
    BY <2>1, <2>2 DEF ToSet, UpvarPlaces, ArgPlaces
<1>4. Sound(i, WithUpvars(fn))
  BY <1>1, <1>2, <1>3, InjectStands DEF WithUpvars, CanStart
<1>5. Sound(i, InjectAll(WithUpvars(fn), InjectedArgs(fn), ArgPlaces(fn), ArgPaths(fn)))
  BY <1>1, <1>3, <1>4, InjectStands DEF CanStart
<1> QED
  BY <1>5 DEF BottomValue, NewDomain

\* So is its frame.
LEMMA NewFrameStands ==
    ASSUME NEW fn, fn.inst \in Inst, CanStart(fn)
    PROVE  FrameStands(NewFrame(fn))
<1> DEFINE bottom == BottomValue(fn)
           new == NewFrame(fn)
           blocks == DOMAIN Fn[fn.inst].blocks
<1>1. Sound(fn.inst, bottom.places)
  BY BottomStands
<1> HIDE DEF bottom
<1>2. new = [fn |-> fn, phase |-> "fixpoint", pc |-> "engine",
             entry |-> [b \in blocks |-> bottom],
             queue |-> Fn[fn.inst].rpo, bb |-> 0, i |-> 0, out |-> <<>>,
             st |-> bottom, acc |-> bottom, todo |-> {}, tys |-> <<>>]
  BY DEF NewFrame, bottom
<1> HIDE DEF new
<1>3. FrameStands(new)
  BY <1>1, <1>2 DEF FrameStands
<1> QED
  BY <1>3 DEF new

\* A callee's result flows into its caller, if the caller can take it.
LEMMA ReturnedStands ==
    ASSUME NEW f, IsFrame(f), FrameStands(f), NEW fn, NEW call, NEW ty, CanReturnTo(f, ty)
    PROVE  FrameStands(Returned(f, fn, call, ty)) /\ Returned(f, fn, call, ty).fn = f.fn
<1> DEFINE new == Returned(f, fn, call, ty)
           called == AddCall(f.st, call)
           st == IF Term(f).dest = NoPlace THEN called ELSE UpdateWith(called, Term(f).dest, ty)
<1>1. f.fn.inst \in Inst /\ Fn[f.fn.inst].blocks # <<>> /\ IsDomain(f.st)
  BY DEF IsFrame, IsFunction, IsDomainOf
<1>2. Sound(f.fn.inst, called.places) /\ called.places = f.st.places
  BY <1>1, AddStands, AddShape DEF FrameStands
<1>3. Term(f).dest # NoPlace => CanUpdate(called, Term(f).dest, ty)
  BY <1>2 DEF CanReturnTo, CanUpdate
<1> HIDE DEF called
<1>4. Sound(f.fn.inst, st.places)
  BY <1>1, <1>2, <1>3, UpdateStands
<1>5. new = [f EXCEPT !.todo = f.todo \ {fn}, !.st = st]
  BY DEF Returned, called
<1> HIDE DEF new, st
<1>6. FrameStands(new) /\ new.fn = f.fn
  BY <1>4, <1>5 DEF IsFrame, FrameStands
<1> QED
  BY <1>6 DEF new

\* The top frame after a step: the same function, and right.
FrameKeeps(f) == SetTop(f) /\ f.fn = Top.fn /\ FrameStands(f)

\* What a step starts from.
LEMMA TopStands ==
    ASSUME TypeOK, TypesInv
    PROVE  /\ IsFrame(Top) /\ FrameStands(Top) /\ IsDomain(Top.st)
           /\ Top.fn.inst \in Inst /\ Fn[Top.fn.inst].blocks # <<>>
<1>1. IsFrame(Top) /\ FrameStands(Top)
  BY TopIsFrame DEF TypesInv, Top
<1> QED
  BY <1>1 DEF IsFrame, IsDomainOf, IsFunction

\* Blocks are entered with the engine's states.
LEMMA EnterBlockShape ==
    ASSUME TypeOK, PickBlock \/ SeekBlock
    PROVE  \E b \in DOMAIN Top.entry : \E phase, queue, out :
             SetTop([Top EXCEPT !.phase = phase, !.queue = queue, !.bb = b, !.i = 1,
                                !.out = out, !.st = Top.entry[b], !.pc = "effects"])
<1>1. IsFrame(Top)
  BY TopIsFrame
<1>2. CASE PickBlock
  <2> DEFINE b == Head(Top.queue)
  <2>1. Top.queue \in Seq(DOMAIN Top.entry) /\ Top.queue # <<>>
    BY <1>1, <1>2 DEF PickBlock, IsFrame
  <2>2. b \in DOMAIN Top.entry
    BY <2>1, HeadTail
  <2>3. SetTop([Top EXCEPT !.queue = Tail(Top.queue), !.bb = b, !.i = 1,
                           !.out = Succ(Top, b), !.st = Top.entry[b], !.pc = "effects"])
    BY <1>2 DEF PickBlock
  <2> HIDE DEF b
  <2>4. [Top EXCEPT !.queue = Tail(Top.queue), !.bb = b, !.i = 1,
                    !.out = Succ(Top, b), !.st = Top.entry[b], !.pc = "effects"]
          = [Top EXCEPT !.phase = Top.phase, !.queue = Tail(Top.queue), !.bb = b, !.i = 1,
                        !.out = Succ(Top, b), !.st = Top.entry[b], !.pc = "effects"]
    BY <1>1 DEF IsFrame
  <2> QED
    BY <2>2, <2>3, <2>4
<1>3. CASE SeekBlock
  <2> DEFINE b == NextBlock(Top)
  <2>1. b \in DOMAIN Top.entry
    BY <1>3, SeekBlockTarget
  <2>2. SetTop([Top EXCEPT !.phase = "cursor", !.bb = b, !.i = 1,
                           !.out = <<>>, !.st = Top.entry[b], !.pc = "effects"])
    BY <1>3 DEF SeekBlock
  <2> HIDE DEF b
  <2>3. [Top EXCEPT !.phase = "cursor", !.bb = b, !.i = 1,
                    !.out = <<>>, !.st = Top.entry[b], !.pc = "effects"]
          = [Top EXCEPT !.phase = "cursor", !.queue = Top.queue, !.bb = b, !.i = 1,
                        !.out = <<>>, !.st = Top.entry[b], !.pc = "effects"]
    BY <1>1 DEF IsFrame
  <2>4. SetTop([Top EXCEPT !.phase = "cursor", !.queue = Top.queue, !.bb = b, !.i = 1,
                           !.out = <<>>, !.st = Top.entry[b], !.pc = "effects"])
    BY <2>2, <2>3
  <2> QED
    BY <2>1, <2>4
<1> QED
  BY <1>2, <1>3

\* They are right, as those are.
LEMMA EnterBlockStands ==
    ASSUME TypeOK, TypesInv, PickBlock \/ SeekBlock
    PROVE  \E f : FrameKeeps(f)
<1>1. IsFrame(Top) /\ FrameStands(Top)
  BY TopStands
<1>2. ASSUME NEW b \in DOMAIN Top.entry, NEW phase, NEW queue, NEW out,
             SetTop([Top EXCEPT !.phase = phase, !.queue = queue, !.bb = b, !.i = 1,
                                !.out = out, !.st = Top.entry[b], !.pc = "effects"])
      PROVE  \E f : FrameKeeps(f)
  <2> DEFINE new == [Top EXCEPT !.phase = phase, !.queue = queue, !.bb = b, !.i = 1,
                                !.out = out, !.st = Top.entry[b], !.pc = "effects"]
  <2>1. new.fn = Top.fn /\ new.st = Top.entry[b] /\ new.acc = Top.acc /\ new.entry = Top.entry
    BY <1>1 DEF IsFrame
  <2>2. SetTop(new)
    BY <1>2
  <2> HIDE DEF new
  <2>3. FrameStands(new)
    BY <1>1, <2>1 DEF FrameStands
  <2> QED
    BY <2>1, <2>2, <2>3 DEF FrameKeeps
<1> QED
  BY <1>2, EnterBlockShape

\* A step of a block's effects: the current state changes, if anything.
LEMMA EffectStands ==
    ASSUME TypeOK, TypesInv, NEW new, SetTop(new), new.fn = Top.fn,
           Sound(Top.fn.inst, new.st.places), new.acc = Top.acc, new.entry = Top.entry
    PROVE  \E f : FrameKeeps(f)
  BY TopStands DEF FrameKeeps, FrameStands

\* An assignment that the code completes.
LEMMA AssignStands ==
    ASSUME TypeOK, TypesInv, Assign
    PROVE  \E f : FrameKeeps(f)
<1> DEFINE s == Stmt(Top)
           st == UpdateWith(Top.st, s.place, RvalueTy(Top.st.places, s.rv))
           new == [Top EXCEPT !.i = Top.i + 1, !.st = st]
<1>1. /\ IsFrame(Top) /\ FrameStands(Top)
      /\ Top.fn.inst \in Inst /\ Fn[Top.fn.inst].blocks # <<>>
  BY TopStands
<1>2. CanUpdate(Top.st, s.place, RvalueTy(Top.st.places, s.rv)) /\ SetTop(new)
  BY DEF Assign, CanAssign
<1>3. Sound(Top.fn.inst, st.places)
  BY <1>1, <1>2, UpdateStands DEF FrameStands
<1> HIDE DEF st
<1>4. new.fn = Top.fn /\ new.st = st /\ new.acc = Top.acc /\ new.entry = Top.entry
  BY <1>1 DEF IsFrame
<1> HIDE DEF new
<1> QED
  BY <1>2, <1>3, <1>4, EffectStands

\* Effects that leave the places of the current state alone.
LEMMA SkipStands ==
    ASSUME TypeOK, TypesInv,
           \/ SkipStatement \/ SkipTerminator \/ SkipForeignCall
           \/ CallUnhandled \/ CallUnresolved \/ CallResolved
           \/ \E fn : SkipRepeated(fn)
    PROVE  \E f : FrameKeeps(f)
<1>1. IsFrame(Top) /\ FrameStands(Top) /\ IsDomain(Top.st)
  BY TopStands
<1>2. ASSUME NEW new, SetTop(new), new.fn = Top.fn, new.st.places = Top.st.places,
             new.acc = Top.acc, new.entry = Top.entry
      PROVE  \E f : FrameKeeps(f)
  <2>1. Sound(Top.fn.inst, new.st.places)
    BY <1>1, <1>2 DEF FrameStands
  <2> QED
    BY <1>2, <2>1, EffectStands
<1>3. ASSUME NEW st, st.places = Top.st.places, SetTop([Top EXCEPT !.pc = "callees", !.st = st])
      PROVE  \E f : FrameKeeps(f)
  <2> DEFINE new == [Top EXCEPT !.pc = "callees", !.st = st]
  <2>1. new.fn = Top.fn /\ new.st = st /\ new.acc = Top.acc /\ new.entry = Top.entry
    BY <1>1 DEF IsFrame
  <2>2. SetTop(new)
    BY <1>3
  <2> HIDE DEF new
  <2> QED
    BY <1>2, <1>3, <2>1, <2>2
<1>4. CASE SkipStatement
  <2> DEFINE new == [Top EXCEPT !.i = Top.i + 1]
  <2>1. SetTop(new)
    BY <1>4 DEF SkipStatement
  <2>2. new.fn = Top.fn /\ new.st = Top.st /\ new.acc = Top.acc /\ new.entry = Top.entry
    BY <1>1 DEF IsFrame
  <2> HIDE DEF new
  <2> QED
    BY <1>2, <2>1, <2>2
<1>5. CASE SkipTerminator \/ SkipForeignCall
  <2> DEFINE new == [Top EXCEPT !.pc = "callees"]
  <2>1. SetTop(new)
    BY <1>5 DEF SkipTerminator, SkipForeignCall
  <2>2. new.fn = Top.fn /\ new.st = Top.st /\ new.acc = Top.acc /\ new.entry = Top.entry
    BY <1>1 DEF IsFrame
  <2> HIDE DEF new
  <2> QED
    BY <1>2, <2>1, <2>2
<1>6. CASE CallUnhandled
  <2> DEFINE st == AddUnhandled(Top.st, Term(Top).fun.ty)
  <2>1. SetTop([Top EXCEPT !.pc = "callees", !.st = st])
    BY <1>6 DEF CallUnhandled
  <2>2. st.places = Top.st.places
    BY <1>1, AddShape
  <2> HIDE DEF st
  <2> QED
    BY <1>3, <2>1, <2>2
<1>7. CASE CallUnresolved
  <2> DEFINE st == AddCall(Top.st, CallWithoutBody(Term(Top).fun.def, Term(Top).args))
  <2>1. SetTop([Top EXCEPT !.pc = "callees", !.st = st])
    BY <1>7 DEF CallUnresolved
  <2>2. st.places = Top.st.places
    BY <1>1, AddShape
  <2> HIDE DEF st
  <2> QED
    BY <1>3, <2>1, <2>2
<1>8. CASE CallResolved
  <2> DEFINE callees == Resolve(Term(Top).fun, CallTys(Top))
             tys == CallTys(Top)
             new == [Top EXCEPT !.pc = "callees", !.todo = callees, !.tys = tys]
  <2>1. SetTop(new)
    BY <1>8 DEF CallResolved
  <2> HIDE DEF callees, tys
  <2>2. new.fn = Top.fn /\ new.st = Top.st /\ new.acc = Top.acc /\ new.entry = Top.entry
    BY <1>1 DEF IsFrame
  <2> HIDE DEF new
  <2> QED
    BY <1>2, <2>1, <2>2
<1>9. ASSUME NEW fn, SkipRepeated(fn)
      PROVE  \E f : FrameKeeps(f)
  <2> DEFINE new == [Top EXCEPT !.todo = Top.todo \ {fn}]
  <2>1. SetTop(new)
    BY <1>9 DEF SkipRepeated
  <2>2. new.fn = Top.fn /\ new.st = Top.st /\ new.acc = Top.acc /\ new.entry = Top.entry
    BY <1>1 DEF IsFrame
  <2> HIDE DEF new
  <2> QED
    BY <1>2, <2>1, <2>2
<1> QED
  BY <1>4, <1>5, <1>6, <1>7, <1>8, <1>9

\* A result that is known already flows into the caller.
LEMMA KnownResultStands ==
    ASSUME TypeOK, TypesInv, NEW fn, CallBodyless(fn) \/ CallCached(fn)
    PROVE  \E f : FrameKeeps(f)
<1>1. ASSUME NEW call, NEW ty, CanReturnTo(Top, ty), SetTop(Returned(Top, fn, call, ty))
      PROVE  \E f : FrameKeeps(f)
  BY <1>1, TopStands, ReturnedStands DEF FrameKeeps
<1>2. CASE CallBodyless(fn)
  BY <1>1, <1>2 DEF CallBodyless
<1>3. CASE CallCached(fn)
  BY <1>1, <1>3 DEF CallCached
<1> QED
  BY <1>2, <1>3

\* The state at the end of a block flows into a successor, under the engine,
\* and into the result, under the cursor.
LEMMA BlockEndStands ==
    ASSUME TypeOK, TypesInv, FlowOut \/ LeaveBlock \/ Accumulate
    PROVE  \E f : FrameKeeps(f)
<1>1. IsFrame(Top) /\ FrameStands(Top)
  BY TopStands
<1>2. CASE FlowOut
  <2> DEFINE b == Head(Top.out)
             joined == JoinDomain(Top.entry[b], Top.st)
             again == Changed(Top.entry[b], joined) /\ b \notin ToSet(Top.queue)
             queue == IF again THEN Append(Top.queue, b) ELSE Top.queue
             new == [Top EXCEPT !.out = Tail(Top.out), !.entry[b] = joined, !.queue = queue]
  <2>1. Top.out \in Seq(DOMAIN Top.entry) /\ Top.out # <<>>
    BY <1>1, <1>2 DEF FlowOut, IsFrame
  <2>2. b \in DOMAIN Top.entry
    BY <2>1, HeadTail
  <2>3. SetTop(new)
    BY <1>2 DEF FlowOut
  <2>4. Sound(Top.fn.inst, joined.places)
    BY <1>1, <2>2, JoinDomainStands DEF FrameStands
  <2> HIDE DEF b, joined, queue
  <2>5. /\ new.fn = Top.fn /\ new.st = Top.st /\ new.acc = Top.acc
        /\ new.entry = [Top.entry EXCEPT ![b] = joined]
    BY <1>1 DEF IsFrame
  <2> HIDE DEF new
  <2>6. FrameStands(new)
    BY <1>1, <2>4, <2>5 DEF FrameStands
  <2> QED
    BY <2>3, <2>5, <2>6 DEF FrameKeeps
<1>3. CASE LeaveBlock
  <2> DEFINE new == [Top EXCEPT !.pc = "engine"]
  <2>1. SetTop(new)
    BY <1>3 DEF LeaveBlock
  <2>2. new.fn = Top.fn /\ new.st = Top.st /\ new.acc = Top.acc /\ new.entry = Top.entry
    BY <1>1 DEF IsFrame
  <2> HIDE DEF new
  <2> QED
    BY <1>1, <2>1, <2>2, EffectStands DEF FrameStands
<1>4. CASE Accumulate
  <2> DEFINE acc == IF Top.bb = 1 THEN Top.st ELSE JoinDomain(Top.acc, Top.st)
             new == [Top EXCEPT !.acc = acc, !.pc = "engine"]
  <2>1. SetTop(new)
    BY <1>4 DEF Accumulate
  <2>2. Sound(Top.fn.inst, acc.places)
    BY <1>1, JoinDomainStands DEF FrameStands
  <2> HIDE DEF acc
  <2>3. new.fn = Top.fn /\ new.st = Top.st /\ new.acc = acc /\ new.entry = Top.entry
    BY <1>1 DEF IsFrame
  <2> HIDE DEF new
  <2>4. FrameStands(new)
    BY <1>1, <2>2, <2>3 DEF FrameStands
  <2> QED
    BY <2>1, <2>3, <2>4 DEF FrameKeeps
<1> QED
  BY <1>2, <1>3, <1>4

\* Every action that changes the top frame only.
LEMMA LocalStands ==
    ASSUME TypeOK, TypesInv, LocalAction
    PROVE  \E f : FrameKeeps(f)
  BY EnterBlockStands, AssignStands, SkipStands, KnownResultStands, BlockEndStands
     DEF LocalAction

----------------------------------------------------------------------------
(* The call stack.                                                         *)

\* A callee's frame is put on the stack.
LEMMA EnterStands ==
    ASSUME TypeOK, TypesInv, NEW fn \in Top.todo, Enter(fn)
    PROVE  TypesInv'
<1> DEFINE new == NewFrame(fn)
<1>1. fn.inst \in Inst /\ CanStart(fn)
  BY TopState DEF Enter, IsFunction
<1>2. FrameStands(new)
  BY <1>1, NewFrameStands
<1>3. frames' = Append(frames, new) /\ IsSeq(frames)
  BY DEF Enter, TypeOK
<1> HIDE DEF new
<1>4. /\ IsSeq(frames')
      /\ Len(frames') = Len(frames) + 1
      /\ frames'[Len(frames) + 1] = new
      /\ \A k \in DOMAIN frames : frames'[k] = frames[k]
  BY <1>3, AppendFacts
<1>5. /\ DOMAIN frames = 1..Len(frames) /\ Len(frames) \in Nat
      /\ DOMAIN frames' = 1..(Len(frames) + 1)
  BY <1>3, <1>4 DEF IsSeq
<1>6. ASSUME NEW k \in DOMAIN frames'
      PROVE  FrameStands(frames'[k])
  <2>1. CASE k \in DOMAIN frames
    BY <1>4, <2>1 DEF TypesInv
  <2>2. CASE k = Len(frames) + 1
    BY <1>2, <1>4, <2>2
  <2> QED
    BY <1>5, <2>1, <2>2
<1> QED
  BY <1>6 DEF TypesInv

\* What Return leaves on the stack: the frames below, the caller's changed.
LEMMA ReturnShape ==
    ASSUME TypeOK, Return
    PROVE  LET n == Len(frames) - 1
               ty == CalleeReturnTy(Top.fn, Top.acc)
           IN  /\ n \in DOMAIN frames /\ n \in Nat \ {0}
               /\ CanReturnTo(frames[n], ty)
               /\ frames' = [k \in 1..n |->
                                IF k = n THEN Returned(frames[n], Top.fn, CallOf(frames[n], Top.fn), ty)
                                ELSE frames[k]]
<1> DEFINE fn == Top.fn
           ty == CalleeReturnTy(fn, Top.acc)
           n == Len(frames) - 1
<1>1. /\ IsSeq(frames) /\ DOMAIN frames = 1..Len(frames)
      /\ n \in DOMAIN frames /\ n \in Nat \ {0} /\ Len(frames) \in Nat
  BY TopIsFrame DEF TypeOK, Return
<1>2. Front(frames) = [k \in 1..n |-> frames[k]]
  BY <1>1 DEF Front, IsSeq
<1>3. /\ frames' = [Front(frames) EXCEPT ![n] = Returned(@, fn, CallOf(@, fn), ty)]
      /\ CanReturnTo(frames[n], ty)
  BY DEF Return, Caller
<1>4. Front(frames)[n] = frames[n]
  BY <1>1, <1>2
<1> HIDE DEF ty
<1>5. frames' = [k \in 1..n |-> IF k = n THEN Returned(frames[n], fn, CallOf(frames[n], fn), ty)
                                ELSE frames[k]]
  BY <1>1, <1>2, <1>3, <1>4
<1> QED
  BY <1>1, <1>3, <1>5 DEF ty

\* The top frame leaves the stack.
LEMMA ReturnStands ==
    ASSUME TypeOK, TypesInv, Return
    PROVE  TypesInv'
<1> DEFINE n == Len(frames) - 1
           ty == CalleeReturnTy(Top.fn, Top.acc)
           call == CallOf(frames[n], Top.fn)
           new == Returned(frames[n], Top.fn, call, ty)
<1>1. /\ n \in DOMAIN frames /\ n \in Nat \ {0}
      /\ CanReturnTo(frames[n], ty)
      /\ frames' = [k \in 1..n |-> IF k = n THEN new ELSE frames[k]]
  BY ReturnShape
<1>2. FrameStands(new)
  <2>1. IsFrame(frames[n]) /\ FrameStands(frames[n])
    BY <1>1 DEF TypeOK, TypesInv
  <2> HIDE DEF n, ty, call
  <2> QED
    BY <1>1, <2>1, ReturnedStands
<1>3. DOMAIN frames = 1..Len(frames) /\ Len(frames) \in Nat
  BY DEF TypeOK, IsSeq
<1> HIDE DEF new, ty
<1>4. ASSUME NEW k \in DOMAIN frames'
      PROVE  FrameStands(frames'[k])
  <2>1. k \in 1..n /\ frames'[k] = IF k = n THEN new ELSE frames[k]
    BY <1>1
  <2>2. k \in DOMAIN frames
    BY <1>3, <2>1
  <2> QED
    BY <1>2, <2>1, <2>2 DEF TypesInv
<1> QED
  BY <1>4 DEF TypesInv

\* Every step.
LEMMA StepStands ==
    ASSUME TypeOK, TypesInv, [Next]_vars
    PROVE  TypesInv'
<1>1. CASE LocalAction
  <2>1. PICK f : FrameKeeps(f)
    BY <1>1, LocalStands
  <2>2. /\ DOMAIN frames' = DOMAIN frames
        /\ frames' = [frames EXCEPT ![Len(frames)] = f]
    BY <2>1 DEF FrameKeeps, SetTop
  <2>3. ASSUME NEW k \in DOMAIN frames'
        PROVE  FrameStands(frames'[k])
    <3>1. frames'[k] = IF k = Len(frames) THEN f ELSE frames[k]
      BY <2>2
    <3> QED
      BY <2>1, <2>2, <3>1 DEF FrameKeeps, TypesInv
  <2> QED
    BY <2>3 DEF TypesInv
<1>2. CASE frames' = frames
  BY <1>2 DEF TypesInv
<1>3. \/ LocalAction \/ Return
      \/ \E fn \in Top.todo : Enter(fn)
      \/ frames' = frames
  BY DEF Next, Callee, LocalAction, Finish, Panic, Stopped, vars
<1> QED
  BY <1>1, <1>2, <1>3, EnterStands, ReturnStands

----------------------------------------------------------------------------
(* Captures.                                                               *)

\* One type, or a set of types.
Tracked(t) == IsPresent(t) \/ t = Erased(t.deps)
AllTracked(infos) ==
    \A def \in DOMAIN infos : \A k \in DOMAIN infos[def].upvars : Tracked(infos[def].upvars[k])

\* The inductive invariant: joins absorb what flowed into a capture before,
\* because every capture is one of the two.
CapturesTracked == AllTracked(closures)

\* What a join absorbs.
LEMMA JoinAbsorbs ==
    ASSUME NEW t, Tracked(t), NEW u
    PROVE  /\ Join(t, t) = t
           /\ Join(Join(t, u), t) = Join(t, u)
           /\ Tracked(Join(t, u))
<1>1. CASE IsPresent(t)
  BY <1>1 DEF Join, Tracked
<1>2. CASE ~IsPresent(t)
  <2> DEFINE both == t.deps \union u.deps
  <2>1. t = Erased(t.deps) /\ Join(t, u) = Erased(both)
    BY <1>2 DEF Tracked, Join
  <2>2. \A S : Erased(S).deps = S /\ ~IsPresent(Erased(S))
    BY DEF Erased, IsPresent
  <2>3. Join(t, t) = Erased(t.deps \union t.deps) /\ t.deps \union t.deps = t.deps
    BY <1>2 DEF Join
  <2>4. Join(Join(t, u), t) = Erased(both \union t.deps)
    BY <2>1, <2>2 DEF Join
  <2>5. both \union t.deps = both
    OBVIOUS
  <2>6. Tracked(Erased(both))
    BY <2>2 DEF Tracked
  <2> HIDE DEF both
  <2> QED
    BY <2>1, <2>3, <2>4, <2>5, <2>6
<1> QED
  BY <1>1, <1>2

\* A closure storage that knows all that old knew.
Grown(old, new) ==
    \A def \in DOMAIN old :
        /\ def \in DOMAIN new
        /\ new[def].inst = old[def].inst
        /\ \A k \in DOMAIN old[def].upvars :
              LET seen == old[def].upvars[k]
              IN  Join(new[def].upvars[k], seen) = new[def].upvars[k]

\* Nothing is lost while nothing happens.
LEMMA GrownItself ==
    ASSUME NEW infos, AllTracked(infos)
    PROVE  Grown(infos, infos)
  BY JoinAbsorbs DEF Grown, AllTracked

\* update_with() of the closure storage forgets nothing.
LEMMA UpdateClosureGrows ==
    ASSUME NEW infos, AllInfos(infos), AllTracked(infos), NEW def, NEW inst,
           NEW upvars, \A k \in DOMAIN upvars : Tracked(upvars[k])
    PROVE  /\ Grown(infos, UpdateClosure(infos, def, inst, upvars))
           /\ AllTracked(UpdateClosure(infos, def, inst, upvars))
<1> DEFINE updated == UpdateClosure(infos, def, inst, upvars)
<1>1. Grown(infos, infos)
  BY GrownItself
<1>2. CASE def \notin DOMAIN infos
  <2>1. updated = [d \in DOMAIN infos \union {def} |->
                      IF d = def THEN [inst |-> inst, upvars |-> upvars] ELSE infos[d]]
    BY <1>2 DEF UpdateClosure
  <2> HIDE DEF updated
  <2>2. \A d \in DOMAIN infos : d \in DOMAIN updated /\ updated[d] = infos[d]
    BY <1>2, <2>1
  <2>3. Grown(infos, updated)
    BY <1>1, <2>2 DEF Grown
  <2>4. AllTracked(updated)
    BY <2>1 DEF AllTracked
  <2> QED
    BY <2>3, <2>4 DEF updated
<1>3. CASE def \in DOMAIN infos
  <2> DEFINE old == infos[def].upvars
             new == IF old = <<>> THEN upvars
                    ELSE IF upvars = <<>> THEN old
                    ELSE [i \in DOMAIN old |-> Join(old[i], upvars[i])]
  <2>1. updated = [infos EXCEPT ![def].upvars = new]
    BY <1>3 DEF UpdateClosure
  <2>2. \A k \in DOMAIN old : Tracked(old[k])
    BY <1>3 DEF AllTracked
  <2>3. \A k \in DOMAIN old : Join(new[k], old[k]) = new[k]
    BY <2>2, JoinAbsorbs
  <2>4. \A k \in DOMAIN new : Tracked(new[k])
    BY <2>2, JoinAbsorbs
  <2> HIDE DEF new, updated
  <2>5. /\ DOMAIN updated = DOMAIN infos
        /\ \A d \in DOMAIN infos : d # def => updated[d] = infos[d]
        /\ updated[def].inst = infos[def].inst /\ updated[def].upvars = new
    BY <1>3, <2>1 DEF AllInfos, IsClosureInfo
  <2>6. Grown(infos, updated)
    BY <1>1, <2>3, <2>5 DEF Grown
  <2>7. AllTracked(updated)
    BY <2>4, <2>5 DEF AllTracked
  <2> QED
    BY <2>6, <2>7 DEF updated
<1> QED
  BY <1>2, <1>3

\* Nor does collect_closures().
LEMMA CollectClosuresGrow ==
    ASSUME NEW infos, AllTracked(infos), NEW mentioned
    PROVE  /\ Grown(infos, CollectClosures(infos, mentioned))
           /\ AllTracked(CollectClosures(infos, mentioned))
<1> DEFINE first(def) == CHOOSE c \in mentioned : c.def = def
           collected == CollectClosures(infos, mentioned)
<1>1. collected = [def \in DOMAIN infos \union {c.def : c \in mentioned} |->
                      IF def \in DOMAIN infos THEN infos[def]
                      ELSE [inst |-> first(def).inst, upvars |-> <<>>]]
  BY DEF CollectClosures
<1> HIDE DEF first, collected
<1>2. \A d \in DOMAIN infos : d \in DOMAIN collected /\ collected[d] = infos[d]
  BY <1>1
<1>3. Grown(infos, collected)
  BY <1>2, GrownItself DEF Grown
<1>4. AllTracked(collected)
  BY <1>1 DEF AllTracked
<1> QED
  BY <1>3, <1>4 DEF collected

\* What a closure captures has been followed, or is a constant.
LEMMA CapturedIsTracked ==
    ASSUME TypeOK, TypesInv, Assign, Stmt(Top).rv.kind = "Closure",
           NEW k \in DOMAIN Stmt(Top).rv.ops
    PROVE  Tracked(OperandTy(Top.st.places, Stmt(Top).rv.ops[k]))
<1> DEFINE i == Top.fn.inst
           o == Stmt(Top).rv.ops[k]
           places == Top.st.places
<1>1. Sound(i, places)
  BY TopStands DEF FrameStands
<1>2. AtStatement(Top) /\ Stmt(Top).kind = "Assign"
  BY DEF Assign
<1>3. o.place \in Captured(Stmt(Top))
  BY <1>2 DEF Captured
<1>4. o.place \in DOMAIN Fn[i].decl \union {NoPlace}
  BY <1>2, <1>3, TopStatement, ProgramAssumption
<1>5. \A ty : Tracked(FromTy(ty))
  BY FromTyCases DEF Tracked, Erased
<1>6. CASE o.place \in DOMAIN Fn[i].decl
  <2>1. o.place \in DOMAIN places /\ Holds(FromTy(Fn[i].decl[o.place]), places[o.place])
    BY <1>1, <1>6 DEF Sound, Stands
  <2>2. Tracked(places[o.place])
    BY <2>1 DEF Holds, Tracked
  <2> QED
    BY <2>1, <2>2 DEF OperandTy
<1>7. CASE o.place = NoPlace
  <2>1. o.place \notin DOMAIN places
    BY <1>1, <1>7 DEF Sound
  <2> QED
    BY <1>5, <2>1 DEF OperandTy
<1> QED
  BY <1>4, <1>6, <1>7

\* Every step.
LEMMA StepGrows ==
    ASSUME TypeOK, TypesInv, CapturesTracked, [Next]_vars
    PROVE  Grown(closures, closures') /\ CapturesTracked'
<1>1. AllInfos(closures) /\ AllTracked(closures)
  BY DEF TypeOK, AllInfos, CapturesTracked
<1>2. CASE closures' = closures
  BY <1>1, <1>2, GrownItself DEF CapturesTracked
<1>3. CASE Assign /\ Stmt(Top).rv.kind = "Closure"
  <2> DEFINE rv == Stmt(Top).rv
             upvars == OperandTys(Top.st.places, rv.ops)
  <2>1. closures' = UpdateClosure(closures, rv.def, rv.inst, upvars)
    BY <1>3 DEF Assign
  <2>2. \A k \in DOMAIN upvars : Tracked(upvars[k])
    BY <1>3, CapturedIsTracked DEF OperandTys
  <2> HIDE DEF rv, upvars
  <2> QED
    BY <1>1, <2>1, <2>2, UpdateClosureGrows DEF CapturesTracked
<1>4. ASSUME NEW fn, Enter(fn)
      PROVE  Grown(closures, closures') /\ CapturesTracked'
  BY <1>1, <1>4, CollectClosuresGrow DEF Enter, CapturesTracked
<1>5. \/ Assign /\ Stmt(Top).rv.kind = "Closure"
      \/ closures' = closures
      \/ \E fn : Enter(fn)
  BY DEF Next, Callee, PickBlock, SeekBlock, Assign, SkipStatement, SkipTerminator,
         SkipForeignCall, CallUnhandled, CallUnresolved, CallResolved, SkipRepeated,
         CallBodyless, CallCached, FlowOut, LeaveBlock, Accumulate, Return, Finish, Panic,
         Stopped, vars
<1> QED
  BY <1>2, <1>3, <1>4, <1>5

----------------------------------------------------------------------------
(* The theorems.                                                           *)

\* The invariants of this module hold of every analysis.
LEMMA TypesHold == Spec => []TypesInv
<1>1. Init => TypesInv
  <2> SUFFICES ASSUME Init PROVE TypesInv
    OBVIOUS
  <2> DEFINE fn == OriginFn(origin)
             new == NewFrame(fn)
  <2>1. origin \in Origins /\ frames = <<new>>
    BY DEF Init
  <2>2. fn.inst \in Inst /\ CanStart(fn)
    BY <2>1, OriginAssumption, ProgramAssumption DEF OriginFn
  <2>3. FrameStands(new)
    BY <2>2, NewFrameStands
  <2> HIDE DEF new
  <2> QED
    BY <2>1, <2>3 DEF TypesInv
<1>2. TypeOK /\ TypesInv /\ [Next]_vars => TypesInv'
  BY StepStands
<1> QED
  BY <1>1, <1>2, TypeCorrect, PTL DEF Spec

\* For every program: what the compiler says of a place is never overridden,
\* and what it leaves open is filled with types of the program only, through
\* assignments along all projections (collector_domain.rs), captures and
\* arguments (partial_function_info.rs), results of callees and every join.
THEOREM DeclaredTypesHold == Spec => []DeclaredTypesStand
<1>1. TypesInv => DeclaredTypesStand
  BY DEF TypesInv, FrameStands, Sound, DeclaredTypesStand
<1> QED
  BY <1>1, TypesHold, PTL

\* However often, from whatever function and at whatever types a closure is
\* created (update_with of storage/closure.rs): what flowed into its captures
\* once stays in them, under the instance it was met at first.
THEOREM CapturesAreKept == Spec => ClosuresGrow
<1>1. Init => CapturesTracked
  <2>1. AllTracked(<<>>)
    BY DEF AllTracked
  <2> QED
    BY <2>1, CollectClosuresGrow DEF Init, CapturesTracked
<1>2. TypeOK /\ TypesInv /\ CapturesTracked /\ [Next]_vars => CapturesTracked'
  BY StepGrows
<1>3. TypeOK /\ TypesInv /\ CapturesTracked /\ [Next]_vars =>
        [\A def \in DOMAIN closures :
            /\ def \in DOMAIN closures'
            /\ closures'[def].inst = closures[def].inst
            /\ \A k \in DOMAIN closures[def].upvars :
                  LET seen == closures[def].upvars[k]
                  IN  Join(closures'[def].upvars[k], seen) = closures'[def].upvars[k]]_closures
  BY StepGrows DEF Grown
<1> QED
  BY <1>1, <1>2, <1>3, TypeCorrect, TypesHold, PTL DEF Spec, ClosuresGrow

=============================================================================
