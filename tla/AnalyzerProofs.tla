--------------------------- MODULE AnalyzerProofs ---------------------------
(***************************************************************************)
(* Proofs about Analyzer: its recursion goes down the storage, a single    *)
(* failing call decides the verdict, and all it reports is justified.      *)
(***************************************************************************)
EXTENDS Analyzer, FunctionInfoProofs

----------------------------------------------------------------------------
(* The stack after each kind of step.                                      *)

\* Changing one element of a sequence leaves a sequence of the same length.
LEMMA ExceptFacts ==
    ASSUME NEW s, IsSeq(s), NEW i \in DOMAIN s, NEW e
    PROVE  /\ IsSeq([s EXCEPT ![i] = e])
           /\ Len([s EXCEPT ![i] = e]) = Len(s)
           /\ [s EXCEPT ![i] = e][i] = e
           /\ \A k \in DOMAIN s : k # i => [s EXCEPT ![i] = e][k] = s[k]
<1> DEFINE t == [s EXCEPT ![i] = e]
<1>1. DOMAIN s = 1..Len(s) /\ Len(s) \in Nat
  BY DEF IsSeq
<1>2. t = [k \in 1..Len(s) |-> t[k]]
  BY <1>1
<1>3. IsSeq(t) /\ Len(t) = Len(s)
  BY <1>1, <1>2, FunctionIsSeq
<1> QED
  BY <1>1, <1>3

\* A visit with some of its fields changed.
LEMMA VisitExcept ==
    ASSUME NEW f, VisitOK(f), NEW todo
    PROVE  /\ [f EXCEPT !.phase = "calls", !.todo = todo] =
                [item |-> f.item, locals |-> f.locals, phase |-> "calls",
                 todo |-> todo, clean |-> f.clean]
           /\ [f EXCEPT !.todo = todo] =
                [item |-> f.item, locals |-> f.locals, phase |-> f.phase,
                 todo |-> todo, clean |-> f.clean]
<1> f = [item |-> f.item, locals |-> f.locals, phase |-> f.phase,
         todo |-> f.todo, clean |-> f.clean]
  BY DEF VisitOK
<1> DEFINE g == [f EXCEPT !.phase = "calls", !.todo = todo]
           h == [f EXCEPT !.todo = todo]
           Fields == {"item", "locals", "phase", "todo", "clean"}
<1>1. /\ g.item = f.item /\ g.locals = f.locals /\ g.phase = "calls"
      /\ g.todo = todo /\ g.clean = f.clean
      /\ g = [k \in Fields |-> g[k]]
  OBVIOUS
<1>2. /\ h.item = f.item /\ h.locals = f.locals /\ h.phase = f.phase
      /\ h.todo = todo /\ h.clean = f.clean
      /\ h = [k \in Fields |-> h[k]]
  OBVIOUS
<1> HIDE DEF g, h
<1>3. g = [item |-> f.item, locals |-> f.locals, phase |-> "calls",
           todo |-> todo, clean |-> f.clean]
  BY <1>1
<1>4. h = [item |-> f.item, locals |-> f.locals, phase |-> f.phase,
           todo |-> todo, clean |-> f.clean]
  BY <1>2
<1> QED
  BY <1>3, <1>4 DEF g, h

\* What is below the top of a stack.
LEMMA BelowFacts ==
    ASSUME IsSeq(stack), stack # <<>>
    PROVE  /\ Len(stack) \in Nat \ {0}
           /\ DOMAIN stack = 1..Len(stack)
           /\ IsSeq(Below)
           /\ Len(Below) = Len(stack) - 1
           /\ \A k \in 1..(Len(stack) - 1) : Below[k] = stack[k]
<1> DEFINE S == {stack[k] : k \in DOMAIN stack}
<1>1. stack \in Seq(S) /\ DOMAIN stack = 1..Len(stack)
  BY SeqOverElements
<1>2. Len(stack) \in Nat \ {0}
  BY <1>1
<1>3. Below \in Seq(S) /\ Len(Below) = Len(stack) - 1
  BY <1>1, <1>2 DEF Below
<1>4. \A k \in 1..(Len(stack) - 1) : Below[k] = stack[k]
  BY <1>1, <1>2 DEF Below
<1> QED
  BY <1>1, <1>2, <1>3, <1>4, SeqIsSeq

\* The visit ok is returned to, with what it has been told so far.
Told(ok) == [item  |-> stack[Len(stack) - 1].item,  locals |-> stack[Len(stack) - 1].locals,
             phase |-> stack[Len(stack) - 1].phase, todo   |-> stack[Len(stack) - 1].todo,
             clean |-> stack[Len(stack) - 1].clean /\ ok]

\* A return takes the top off the stack; the first visit returns the verdict.
LEMMA ReturnShape ==
    ASSUME TypeOK, stack # <<>>, NEW ok \in BOOLEAN, Return(ok)
    PROVE  \/ /\ Len(stack) = 1
              /\ stack' = <<>>
              /\ verdict' = IF ok THEN "pure" ELSE "impure"
           \/ /\ Len(stack) > 1
              /\ verdict' = verdict
              /\ IsSeq(stack')
              /\ Len(stack') = Len(stack) - 1
              /\ stack'[Len(stack) - 1] = Told(ok)
              /\ \A k \in 1..(Len(stack) - 2) : stack'[k] = stack[k]
<1>1. CASE Len(stack) = 1
  BY <1>1 DEF Return
<1>2. CASE Len(stack) # 1
  <2> DEFINE n == Len(stack) - 1
  <2>1. /\ Len(stack) \in Nat \ {0}
        /\ DOMAIN stack = 1..Len(stack)
        /\ IsSeq(Below)
        /\ Len(Below) = n
        /\ \A k \in 1..n : Below[k] = stack[k]
    BY BelowFacts DEF TypeOK
  <2>2. n \in DOMAIN Below /\ n \in DOMAIN stack /\ Len(stack) > 1
    BY <1>2, <2>1 DEF IsSeq
  <2>3. VisitOK(stack[n])
    BY <2>2 DEF TypeOK
  <2>4. stack' = [Below EXCEPT ![n].clean = @ /\ ok] /\ verdict' = verdict
    BY <1>2 DEF Return
  <2>5. [Below[n] EXCEPT !.clean = @ /\ ok] = Told(ok)
    BY <2>1, <2>2, <2>3 DEF VisitOK, Told
  <2>6. stack' = [Below EXCEPT ![n] = Told(ok)]
    BY <2>4, <2>5
  <2>7. DOMAIN Below = 1..n
    BY <2>1 DEF IsSeq
  <2> HIDE DEF n
  <2>8. /\ IsSeq(stack')
        /\ Len(stack') = n
        /\ stack'[n] = Told(ok)
        /\ \A k \in 1..n : k # n => stack'[k] = stack[k]
    BY <2>1, <2>2, <2>6, <2>7, ExceptFacts
  <2> Len(stack) \in Nat
    BY <2>1
  <2>9. \A k \in 1..(Len(stack) - 2) : k \in 1..n /\ k # n
    BY DEF n
  <2> QED
    BY <2>2, <2>4, <2>8, <2>9 DEF n
<1> QED
  BY <1>1, <1>2

\* The top of the stack once it has been opened.
Opened == [item |-> Top.item, locals |-> Top.locals, phase |-> "calls",
           todo |-> CallsOf(Info), clean |-> Top.clean]

\* Opening a visit changes the top of the stack.
LEMMA OpenShape ==
    ASSUME TypeOK, Open
    PROVE  /\ IsSeq(stack')
           /\ Len(stack') = Len(stack)
           /\ stack'[Len(stack)] = Opened
           /\ \A k \in 1..(Len(stack) - 1) : stack'[k] = stack[k]
<1>1. Len(stack) \in DOMAIN stack /\ IsSeq(stack) /\ DOMAIN stack = 1..Len(stack)
  BY BelowFacts DEF TypeOK, Open, At
<1>2. VisitOK(stack[Len(stack)])
  BY <1>1 DEF TypeOK
<1>3. [Top EXCEPT !.phase = "calls", !.todo = CallsOf(Info)] = Opened
  BY <1>2, VisitExcept DEF Opened, Top
<1>4. stack' = [stack EXCEPT ![Len(stack)] = Opened]
  BY <1>3 DEF Open
<1>5. /\ IsSeq(stack')
      /\ Len(stack') = Len(stack)
      /\ stack'[Len(stack)] = Opened
      /\ \A k \in DOMAIN stack : k # Len(stack) => stack'[k] = stack[k]
  BY <1>1, <1>4, ExceptFacts
<1> QED
  BY <1>1, <1>5 DEF IsSeq

\* The top of the stack while a call of it is followed.
Following(call) == [item |-> Top.item, locals |-> Top.locals, phase |-> Top.phase,
                    todo |-> Top.todo \ {call}, clean |-> Top.clean]

\* Following a call puts a new visit on the stack.
LEMMA FollowShape ==
    ASSUME TypeOK, At("calls"), NEW call \in Top.todo, Follow(call)
    PROVE  /\ IsSeq(stack')
           /\ Len(stack') = Len(stack) + 1
           /\ stack'[Len(stack) + 1] = NewVisit(VisitOf(fns, Top, call))
           /\ stack'[Len(stack)] = Following(call)
           /\ \A k \in 1..(Len(stack) - 1) : stack'[k] = stack[k]
<1>1. /\ Len(stack) \in DOMAIN stack /\ IsSeq(stack) /\ DOMAIN stack = 1..Len(stack)
      /\ Len(stack) \in Nat
  BY BelowFacts DEF TypeOK, At
<1>2. VisitOK(stack[Len(stack)])
  BY <1>1 DEF TypeOK
<1> DEFINE s == [stack EXCEPT ![Len(stack)] = Following(call)]
           v == NewVisit(VisitOf(fns, Top, call))
<1>2a. [Top EXCEPT !.todo = @ \ {call}] = Following(call)
  BY <1>2, VisitExcept DEF Following, Top
<1>3. stack' = Append(s, v)
  BY <1>2a DEF Follow
<1>4. /\ IsSeq(s) /\ Len(s) = Len(stack) /\ s[Len(stack)] = Following(call)
      /\ \A k \in DOMAIN stack : k # Len(stack) => s[k] = stack[k]
  BY <1>1, ExceptFacts
<1> HIDE DEF s, v
<1>5. /\ IsSeq(stack')
      /\ Len(stack') = Len(s) + 1
      /\ stack'[Len(s) + 1] = v
      /\ \A k \in DOMAIN s : stack'[k] = s[k]
  BY <1>3, <1>4, AppendFacts
<1>6. DOMAIN s = 1..Len(stack)
  BY <1>4 DEF IsSeq
<1> QED
  BY <1>1, <1>4, <1>5, <1>6 DEF v

----------------------------------------------------------------------------
(* Types.                                                                  *)

\* What the analyzer is promised of the storage.
StorageOK == CallsAnsweredEarlier(fns) /\ HasBodyInfo(fns, origin)

\* The inputs of the analyzer never change.
LEMMA InputsStay ==
    ASSUME [Next \/ Terminated]_vars
    PROVE  UNCHANGED <<fns, origin, important>>
  BY DEF Next, Terminated, vars, Begin, Excuse, Open, Follow, Judge, Panic

\* The first visit is about a record with a body.
LEMMA RootExists ==
    ASSUME TypeOK, StorageOK
    PROVE  Root.item \in DOMAIN fns
  BY LookupFinds DEF TypeOK, StorageOK, HasBodyInfo, Root

\* A call is looked up in the records before that of its caller.
LEMMA CalleeBefore ==
    ASSUME TypeOK, StorageOK, NEW i \in DOMAIN fns, NEW call \in CallsOf(fns[i])
    PROVE  FirstMatch(fns, call) \in DOMAIN fns /\ FirstMatch(fns, call) < i
<1>1. IsSeq(fns) /\ DOMAIN fns = 1..Len(fns) /\ Len(fns) \in Nat
  BY DEF TypeOK, IsSeq
<1>2. PICK j \in 1..(i - 1) : Answers(fns[j], call)
  BY DEF StorageOK, CallsAnsweredEarlier
<1>3. j \in DOMAIN fns /\ j < i
  BY <1>1, <1>2
<1>4. /\ FirstMatch(fns, call) \in DOMAIN fns
      /\ \A k \in 1..(FirstMatch(fns, call) - 1) : ~Answers(fns[k], call)
  BY <1>1, <1>2, <1>3, LookupFinds DEF Answered
<1>5. FirstMatch(fns, call) \in Nat /\ i \in Nat /\ j \in 1..Len(fns)
  BY <1>1, <1>3, <1>4
<1>6. ~(j < FirstMatch(fns, call))
  BY <1>2, <1>4, <1>5
<1> QED
  BY <1>3, <1>4, <1>5, <1>6

\* The top of the stack is a visit of a stored record.
LEMMA TopExists ==
    ASSUME TypeOK, stack # <<>>
    PROVE  /\ Len(stack) \in DOMAIN stack
           /\ Len(stack) \in Nat \ {0}
           /\ VisitOK(Top)
           /\ Top.item \in DOMAIN fns
<1>1. Len(stack) \in DOMAIN stack /\ Len(stack) \in Nat \ {0}
  BY BelowFacts DEF TypeOK
<1>2. VisitOK(Top)
  BY <1>1 DEF TypeOK, Top
<1> QED
  BY <1>1, <1>2 DEF VisitOK

\* A new visit is a visit if its record is stored.
LEMMA NewVisitOK ==
    ASSUME NEW v, v.item \in DOMAIN fns
    PROVE  VisitOK(NewVisit(v))
  BY DEF VisitOK, NewVisit

\* A report on the visit on top is one.
LEMMA NewReportOK ==
    ASSUME TypeOK, stack # <<>>, NEW raw, NEW transmute
    PROVE  ReportOK(Report(raw, transmute))
<1> Top.item \in DOMAIN fns
  BY TopExists
<1> QED
  BY DEF ReportOK, Report

\* Appending a report to the reports leaves reports.
LEMMA AppendReport ==
    ASSUME NEW reports, IsSeq(reports), \A k \in DOMAIN reports : ReportOK(reports[k]),
           NEW r, ReportOK(r)
    PROVE  /\ IsSeq(Append(reports, r))
           /\ \A k \in DOMAIN Append(reports, r) : ReportOK(Append(reports, r)[k])
<1>1. /\ IsSeq(Append(reports, r))
      /\ Len(Append(reports, r)) = Len(reports) + 1
      /\ Append(reports, r)[Len(reports) + 1] = r
      /\ \A k \in DOMAIN reports : Append(reports, r)[k] = reports[k]
  BY AppendFacts
<1>2. /\ DOMAIN reports = 1..Len(reports)
      /\ Len(reports) \in Nat
      /\ DOMAIN Append(reports, r) = 1..(Len(reports) + 1)
  BY <1>1 DEF IsSeq
<1>3. ASSUME NEW k \in DOMAIN Append(reports, r)
      PROVE  ReportOK(Append(reports, r)[k])
  <2>1. CASE k = Len(reports) + 1
    BY <1>1, <2>1
  <2>2. CASE k \in DOMAIN reports
    BY <1>1, <2>2
  <2> QED
    BY <1>2, <2>1, <2>2
<1> QED
  BY <1>1, <1>3

\* The visits on the stack after a return.
LEMMA ReturnTypes ==
    ASSUME TypeOK, stack # <<>>, NEW ok \in BOOLEAN, Return(ok)
    PROVE  /\ IsSeq(stack') /\ \A k \in DOMAIN stack' : VisitOK(stack'[k])
           /\ verdict' \in {"pending", "pure", "impure", "panicked"}
<1>1. CASE stack' = <<>> /\ verdict' = IF ok THEN "pure" ELSE "impure"
  BY <1>1 DEF IsSeq
<1>2. CASE /\ Len(stack) > 1
           /\ verdict' = verdict
           /\ IsSeq(stack')
           /\ Len(stack') = Len(stack) - 1
           /\ stack'[Len(stack) - 1] = Told(ok)
           /\ \A k \in 1..(Len(stack) - 2) : stack'[k] = stack[k]
  <2>1. Len(stack) \in Nat /\ DOMAIN stack = 1..Len(stack) /\ DOMAIN stack' = 1..(Len(stack) - 1)
    BY <1>2, BelowFacts DEF TypeOK, IsSeq
  <2>2. VisitOK(stack[Len(stack) - 1])
    BY <1>2, <2>1 DEF TypeOK
  <2>3. VisitOK(Told(ok))
    BY <2>2 DEF VisitOK, Told
  <2>4. ASSUME NEW k \in DOMAIN stack'
        PROVE  VisitOK(stack'[k])
    <3>1. CASE k = Len(stack) - 1
      BY <3>1, <1>2, <2>3
    <3>2. CASE k \in 1..(Len(stack) - 2)
      <4>1. k \in DOMAIN stack
        BY <2>1, <3>2
      <4> QED
        BY <4>1, <3>2, <1>2 DEF TypeOK
    <3> QED
      BY <2>1, <3>1, <3>2
  <2> QED
    BY <1>2, <2>4 DEF TypeOK
<1> QED
  BY <1>1, <1>2, ReturnShape

\* Init establishes the types ...
LEMMA InitTypes == Init => TypeOK /\ StorageOK
  BY HandedAssumption DEF Init, TypeOK, StorageOK, IsSeq

\* ... and every step keeps them.
LEMMA StepTypes == TypeOK /\ StorageOK /\ [Next \/ Terminated]_vars => TypeOK' /\ StorageOK'
<1> SUFFICES ASSUME TypeOK, StorageOK, [Next \/ Terminated]_vars
             PROVE  TypeOK' /\ StorageOK'
  OBVIOUS
<1> UNCHANGED <<fns, origin, important>>
  BY InputsStay
<1>0. StorageOK'
  BY DEF StorageOK
<1> DEFINE StackOK == IsSeq(stack') /\ \A k \in DOMAIN stack' : VisitOK(stack'[k])
           PassingOK == IsSeq(passing') /\ \A k \in DOMAIN passing' : ReportOK(passing'[k])
           FailingOK == IsSeq(failing') /\ \A k \in DOMAIN failing' : ReportOK(failing'[k])
<1>1. SUFFICES /\ StackOK /\ PassingOK /\ FailingOK
               /\ verdict' \in {"pending", "pure", "impure", "panicked"}
  BY <1>0 DEF TypeOK, VisitOK, ReportOK
<1>2. CASE Begin
  <2>1. VisitOK(NewVisit(Root))
    BY RootExists, NewVisitOK
  <2>2. stack' = <<NewVisit(Root)>> /\ UNCHANGED <<passing, failing, verdict>>
    BY <1>2 DEF Begin
  <2> QED
    BY <2>1, <2>2 DEF TypeOK, IsSeq
<1>3. CASE Excuse
  <2>1. stack # <<>> /\ Return(TRUE)
    BY <1>3 DEF Excuse, At
  <2>2. StackOK /\ verdict' \in {"pending", "pure", "impure", "panicked"}
    BY <2>1, ReturnTypes
  <2>3. PassingOK
    BY <2>1, <1>3, NewReportOK, AppendReport DEF Excuse, TypeOK
  <2> QED
    BY <2>2, <2>3, <1>3 DEF Excuse, TypeOK
<1>4. CASE Open
  <2>1. stack # <<>> /\ UNCHANGED <<passing, failing, verdict>>
    BY <1>4 DEF Open, At
  <2>2. VisitOK(Opened)
    BY <2>1, TopExists DEF VisitOK, Opened, Info
  <2>3. /\ IsSeq(stack')
        /\ Len(stack') = Len(stack)
        /\ stack'[Len(stack)] = Opened
        /\ \A k \in 1..(Len(stack) - 1) : stack'[k] = stack[k]
    BY <1>4, OpenShape
  <2>4. Len(stack) \in Nat /\ DOMAIN stack = 1..Len(stack) /\ DOMAIN stack' = 1..Len(stack)
    BY <2>1, <2>3, BelowFacts DEF TypeOK, IsSeq
  <2>5. \A k \in DOMAIN stack' : VisitOK(stack'[k])
    BY <2>2, <2>3, <2>4 DEF TypeOK
  <2> QED
    BY <2>1, <2>3, <2>5 DEF TypeOK
<1>5. ASSUME At("calls"), NEW call \in Top.todo, Follow(call)
      PROVE  /\ StackOK /\ PassingOK /\ FailingOK
             /\ verdict' \in {"pending", "pure", "impure", "panicked"}
  <2>1. stack # <<>> /\ UNCHANGED <<passing, failing, verdict>>
    BY <1>5 DEF Follow, At
  <2>2. VisitOK(Top) /\ Top.item \in DOMAIN fns
    BY <2>1, TopExists
  <2>3. VisitOK(Following(call))
    BY <2>2 DEF VisitOK, Following
  <2>4. FirstMatch(fns, call) \in DOMAIN fns
    BY <2>2, CalleeBefore DEF VisitOK
  <2>5. VisitOK(NewVisit(VisitOf(fns, Top, call)))
    BY <2>4, NewVisitOK DEF VisitOf
  <2>6. /\ IsSeq(stack')
        /\ Len(stack') = Len(stack) + 1
        /\ stack'[Len(stack) + 1] = NewVisit(VisitOf(fns, Top, call))
        /\ stack'[Len(stack)] = Following(call)
        /\ \A k \in 1..(Len(stack) - 1) : stack'[k] = stack[k]
    BY <1>5, FollowShape
  <2>7. Len(stack) \in Nat /\ DOMAIN stack = 1..Len(stack) /\ DOMAIN stack' = 1..(Len(stack) + 1)
    BY <2>1, <2>6, BelowFacts DEF TypeOK, IsSeq
  <2>8. \A k \in DOMAIN stack' :
           k = Len(stack) + 1 \/ k = Len(stack) \/ (k \in 1..(Len(stack) - 1) /\ k \in DOMAIN stack)
    BY <2>7
  <2>9. \A k \in DOMAIN stack' : VisitOK(stack'[k])
    BY <2>3, <2>5, <2>6, <2>8 DEF TypeOK
  <2> QED
    BY <2>1, <2>6, <2>9 DEF TypeOK
<1>6. CASE Judge
  <2>1. stack # <<>> /\ Top.clean \in BOOLEAN
    BY <1>6, TopExists DEF Judge, Finished, At, VisitOK
  <2> DEFINE report == Report(HasRawPtr(Info), HasMutTransmute(Info))
             ok == Top.clean /\ ~Suspicious(Info)
  <2>2. /\ passing' = IF ok THEN Append(passing, report) ELSE passing
        /\ failing' = IF ok THEN failing ELSE Append(failing, report)
        /\ Return(ok)
    BY <1>6 DEF Judge
  <2>3. ReportOK(report)
    BY <2>1, NewReportOK
  <2>4. ok \in BOOLEAN
    OBVIOUS
  <2> HIDE DEF ok, report
  <2>5. StackOK /\ verdict' \in {"pending", "pure", "impure", "panicked"}
    BY <2>1, <2>2, <2>4, ReturnTypes
  <2>6. PassingOK
    BY <2>2, <2>3, AppendReport DEF TypeOK
  <2>7. FailingOK
    BY <2>2, <2>3, AppendReport DEF TypeOK
  <2> QED
    BY <2>5, <2>6, <2>7
<1>7. CASE Panic
  BY <1>7 DEF Panic, TypeOK
<1>8. CASE UNCHANGED vars
  BY <1>8 DEF vars, TypeOK
<1> QED
  BY <1>2, <1>3, <1>4, <1>5, <1>6, <1>7, <1>8 DEF Next, Terminated

----------------------------------------------------------------------------
(* The recursion goes down the storage.                                    *)

\* The first visit is the one run() starts.
BottomIsRoot ==
    stack # <<>> => stack[1].item = Root.item /\ stack[1].locals = Root.locals

\* A stack that is cut off, or whose visits are told something, descends.
LEMMA SameItemsDescend ==
    ASSUME TypeOK, StackDescends, BottomIsRoot, UNCHANGED <<fns, origin, important>>,
           IsSeq(stack'), Len(stack') \in 1..Len(stack),
           \A k \in 1..Len(stack') : /\ stack'[k].item = stack[k].item
                                     /\ stack'[k].locals = stack[k].locals
    PROVE  StackDescends' /\ BottomIsRoot'
<1>1. DOMAIN stack = 1..Len(stack) /\ DOMAIN stack' = 1..Len(stack') /\ Len(stack) \in Nat
  BY DEF TypeOK, IsSeq
<1>2. stack # <<>> /\ 1 \in 1..Len(stack')
  BY <1>1
<1>3. StackDescends'
  BY <1>1 DEF StackDescends
<1>4. BottomIsRoot'
  BY <1>2 DEF BottomIsRoot, Root
<1> QED
  BY <1>3, <1>4

\* A return leaves the order of the visits below.
LEMMA ReturnDescends ==
    ASSUME TypeOK, StackDescends, BottomIsRoot, UNCHANGED <<fns, origin, important>>,
           stack # <<>>, NEW ok \in BOOLEAN, Return(ok)
    PROVE  StackDescends' /\ BottomIsRoot'
<1>1. CASE stack' = <<>>
  BY <1>1 DEF StackDescends, BottomIsRoot
<1>2. CASE /\ Len(stack) > 1
           /\ IsSeq(stack')
           /\ Len(stack') = Len(stack) - 1
           /\ stack'[Len(stack) - 1] = Told(ok)
           /\ \A k \in 1..(Len(stack) - 2) : stack'[k] = stack[k]
  <2>1. Len(stack) \in Nat
    BY DEF TypeOK, IsSeq
  <2>2. Len(stack') \in 1..Len(stack)
    BY <1>2, <2>1
  <2>3. ASSUME NEW k \in 1..Len(stack')
        PROVE  stack'[k].item = stack[k].item /\ stack'[k].locals = stack[k].locals
    <3>1. k = Len(stack) - 1 \/ k \in 1..(Len(stack) - 2)
      BY <1>2, <2>1
    <3> QED
      BY <3>1, <1>2 DEF Told
  <2> QED
    BY <1>2, <2>2, <2>3, SameItemsDescend
<1> QED
  BY <1>1, <1>2, ReturnShape

\* Every step keeps the order.
LEMMA StepDescends ==
    TypeOK /\ StorageOK /\ StackDescends /\ BottomIsRoot /\ [Next \/ Terminated]_vars
        => StackDescends' /\ BottomIsRoot'
<1> SUFFICES ASSUME TypeOK, StorageOK, StackDescends, BottomIsRoot, [Next \/ Terminated]_vars
             PROVE  StackDescends' /\ BottomIsRoot'
  OBVIOUS
<1>1. UNCHANGED <<fns, origin, important>>
  BY InputsStay
<1>2. CASE Begin
  <2>1. stack' = <<NewVisit(Root)>>
    BY <1>2 DEF Begin
  <2> QED
    BY <1>1, <2>1 DEF StackDescends, BottomIsRoot, NewVisit, Root
<1>3. CASE Excuse
  BY <1>1, <1>3, ReturnDescends DEF Excuse, At
<1>4. CASE Open
  <2>1. /\ IsSeq(stack')
        /\ Len(stack') = Len(stack)
        /\ stack'[Len(stack)] = Opened
        /\ \A k \in 1..(Len(stack) - 1) : stack'[k] = stack[k]
    BY <1>4, OpenShape
  <2>2. Len(stack) \in Nat \ {0}
    BY <1>4, TopExists DEF Open, At
  <2>3. \A k \in 1..Len(stack') : k = Len(stack) \/ k \in 1..(Len(stack) - 1)
    BY <2>1, <2>2
  <2>4. \A k \in 1..Len(stack') :
           stack'[k].item = stack[k].item /\ stack'[k].locals = stack[k].locals
    BY <2>1, <2>3 DEF Opened, Top
  <2> QED
    BY <1>1, <2>1, <2>2, <2>4, SameItemsDescend
<1>5. ASSUME At("calls"), NEW call \in Top.todo, Follow(call)
      PROVE  StackDescends' /\ BottomIsRoot'
  <2>1. /\ IsSeq(stack')
        /\ Len(stack') = Len(stack) + 1
        /\ stack'[Len(stack) + 1] = NewVisit(VisitOf(fns, Top, call))
        /\ stack'[Len(stack)] = Following(call)
        /\ \A k \in 1..(Len(stack) - 1) : stack'[k] = stack[k]
    BY <1>5, FollowShape
  <2>2. stack # <<>> /\ Len(stack) \in Nat \ {0} /\ Top.item \in DOMAIN fns /\ VisitOK(Top)
    BY <1>5, TopExists DEF At
  <2>3. DOMAIN stack = 1..Len(stack) /\ DOMAIN stack' = 1..(Len(stack) + 1) /\ DOMAIN fns \subseteq Nat
    BY <2>1, <2>2 DEF TypeOK, IsSeq
  <2>4. FirstMatch(fns, call) \in DOMAIN fns /\ FirstMatch(fns, call) < Top.item
    BY <2>2, CalleeBefore DEF VisitOK
  <2>5. stack'[Len(stack) + 1].item = FirstMatch(fns, call)
    BY <2>1 DEF NewVisit, VisitOf
  <2>6. \A k \in 1..Len(stack) :
           stack'[k].item = stack[k].item /\ stack'[k].locals = stack[k].locals
    <3>1. \A k \in 1..Len(stack) : k = Len(stack) \/ k \in 1..(Len(stack) - 1)
      BY <2>2
    <3> QED
      BY <2>1, <3>1 DEF Following, Top
  <2>7. \A k \in 1..Len(stack) : stack[k].item \in Nat
    BY <2>3 DEF TypeOK, VisitOK
  <2>8. \A k \in 1..Len(stack) : FirstMatch(fns, call) < stack[k].item
    <3> SUFFICES ASSUME NEW k \in 1..Len(stack)
                 PROVE  FirstMatch(fns, call) < stack[k].item
      OBVIOUS
    <3>1. CASE k = Len(stack)
      BY <3>1, <2>4 DEF Top
    <3>2. CASE k < Len(stack)
      <4>1. Top.item < stack[k].item
        BY <3>2, <2>2, <2>3 DEF StackDescends, Top
      <4> QED
        BY <4>1, <2>3, <2>4, <2>7, <2>2
    <3> QED
      BY <3>1, <3>2, <2>2
  <2>9. StackDescends'
    <3> SUFFICES ASSUME NEW j \in 1..(Len(stack) + 1), NEW k \in 1..(Len(stack) + 1), j < k
                 PROVE  stack'[k].item < stack'[j].item
      BY <2>3 DEF StackDescends
    <3>1. CASE k = Len(stack) + 1
      BY <3>1, <2>2, <2>5, <2>6, <2>8
    <3>2. CASE k \in 1..Len(stack)
      BY <3>2, <2>2, <2>3, <2>6 DEF StackDescends
    <3> QED
      BY <3>1, <3>2, <2>2
  <2>10. BottomIsRoot'
    <3>1. 1 \in 1..Len(stack)
      BY <2>2
    <3> QED
      BY <3>1, <1>1, <2>2, <2>6 DEF BottomIsRoot, Root
  <2> QED
    BY <2>9, <2>10
<1>6. CASE Judge
  BY <1>1, <1>6, TopExists, ReturnDescends DEF Judge, Finished, At, VisitOK
<1>7. CASE UNCHANGED stack
  BY <1>1, <1>7 DEF StackDescends, BottomIsRoot, Root
<1> QED
  BY <1>2, <1>3, <1>4, <1>5, <1>6, <1>7 DEF Next, Terminated, Panic, vars

----------------------------------------------------------------------------
(* A failing call decides the verdict.                                     *)

\* Only the visit on top is new, and nothing is held against it yet.
OnlyTopIsNew ==
    \A k \in DOMAIN stack : stack[k].phase = "new" => k = Len(stack) /\ stack[k].clean

\* A return uncovers a visit that has been opened.
LEMMA ReturnUncovers ==
    ASSUME TypeOK, OnlyTopIsNew, stack # <<>>, NEW ok \in BOOLEAN, Return(ok)
    PROVE  OnlyTopIsNew'
<1>1. CASE stack' = <<>>
  BY <1>1 DEF OnlyTopIsNew
<1>2. CASE /\ Len(stack) > 1
           /\ IsSeq(stack')
           /\ Len(stack') = Len(stack) - 1
           /\ stack'[Len(stack) - 1] = Told(ok)
           /\ \A k \in 1..(Len(stack) - 2) : stack'[k] = stack[k]
  <2>1. Len(stack) \in Nat /\ DOMAIN stack = 1..Len(stack) /\ DOMAIN stack' = 1..(Len(stack) - 1)
    BY <1>2, BelowFacts DEF TypeOK, IsSeq
  <2>2. \A k \in DOMAIN stack' :
           /\ k \in DOMAIN stack /\ k # Len(stack)
           /\ k = Len(stack) - 1 \/ k \in 1..(Len(stack) - 2)
    BY <2>1
  <2>3. \A k \in DOMAIN stack' : stack'[k].phase = stack[k].phase
    BY <1>2, <2>2 DEF Told
  <2> QED
    BY <2>2, <2>3 DEF OnlyTopIsNew
<1> QED
  BY <1>1, <1>2, ReturnShape

\* Every step leaves at most the top new.
LEMMA StepNew == TypeOK /\ OnlyTopIsNew /\ [Next \/ Terminated]_vars => OnlyTopIsNew'
<1> SUFFICES ASSUME TypeOK, OnlyTopIsNew, [Next \/ Terminated]_vars
             PROVE  OnlyTopIsNew'
  OBVIOUS
<1>1. CASE Begin
  <2>1. stack' = <<NewVisit(Root)>>
    BY <1>1 DEF Begin
  <2> QED
    BY <2>1 DEF OnlyTopIsNew, NewVisit
<1>2. CASE Excuse
  BY <1>2, ReturnUncovers DEF Excuse, At
<1>3. CASE Open
  <2>1. /\ IsSeq(stack')
        /\ Len(stack') = Len(stack)
        /\ stack'[Len(stack)] = Opened
        /\ \A k \in 1..(Len(stack) - 1) : stack'[k] = stack[k]
    BY <1>3, OpenShape
  <2>2. Len(stack) \in Nat \ {0} /\ DOMAIN stack = 1..Len(stack)
    BY <1>3, BelowFacts DEF Open, At, TypeOK
  <2>3. /\ DOMAIN stack' = DOMAIN stack
        /\ \A k \in DOMAIN stack : k = Len(stack) \/ k \in 1..(Len(stack) - 1)
    BY <2>1, <2>2 DEF IsSeq
  <2>4. Opened.phase # "new"
    BY DEF Opened
  <2> QED
    BY <2>1, <2>3, <2>4 DEF OnlyTopIsNew
<1>4. ASSUME At("calls"), NEW call \in Top.todo, Follow(call)
      PROVE  OnlyTopIsNew'
  <2>1. /\ IsSeq(stack')
        /\ Len(stack') = Len(stack) + 1
        /\ stack'[Len(stack) + 1] = NewVisit(VisitOf(fns, Top, call))
        /\ stack'[Len(stack)] = Following(call)
        /\ \A k \in 1..(Len(stack) - 1) : stack'[k] = stack[k]
    BY <1>4, FollowShape
  <2>2. Len(stack) \in Nat \ {0} /\ DOMAIN stack = 1..Len(stack)
    BY <1>4, BelowFacts DEF At, TypeOK
  <2>3. \A k \in DOMAIN stack' :
           k = Len(stack) + 1 \/ k = Len(stack) \/ (k \in 1..(Len(stack) - 1) /\ k \in DOMAIN stack)
    BY <2>1, <2>2 DEF IsSeq
  <2>4. Following(call).phase = "calls" /\ NewVisit(VisitOf(fns, Top, call)).clean
    BY <1>4 DEF Following, At, NewVisit
  <2> Len(stack) \in Nat
    BY <2>2
  <2>5. \A k \in 1..(Len(stack) - 1) : k # Len(stack)
    OBVIOUS
  <2> QED
    BY <2>1, <2>3, <2>4, <2>5 DEF OnlyTopIsNew
<1>5. CASE Judge
  BY <1>5, TopExists, ReturnUncovers DEF Judge, Finished, At, VisitOK
<1>6. CASE UNCHANGED stack
  BY <1>6 DEF OnlyTopIsNew
<1> QED
  BY <1>1, <1>2, <1>3, <1>4, <1>5, <1>6 DEF Next, Terminated, Panic, vars

\* While the analysis lasts, a failure is remembered by some visit on the
\* stack, and only a failure is.
FailureRemembered ==
    /\ \A k \in DOMAIN stack : ~stack[k].clean => failing # <<>>
    /\ verdict = "pending" /\ failing # <<>> => \E k \in DOMAIN stack : ~stack[k].clean

\* A reported failure stays reported.
LEMMA AppendNotEmpty ==
    ASSUME NEW s, IsSeq(s), NEW e
    PROVE  Append(s, e) # <<>>
<1>1. Len(Append(s, e)) = Len(s) + 1 /\ Len(s) \in Nat
  BY AppendFacts DEF IsSeq
<1> QED
  BY <1>1

\* A return without a failure, or with one that is reported, keeps the two in step.
LEMMA ReturnRemembers ==
    ASSUME TypeOK, FailureRemembered, verdict = "pending", stack # <<>>,
           NEW ok \in BOOLEAN, Return(ok), ok => Top.clean,
           failing' = failing \/ failing' # <<>>,
           ok => failing' = failing, ~ok => failing' # <<>>
    PROVE  FailureRemembered' /\ PureIffNoFailure'
<1>1. Len(stack) \in DOMAIN stack /\ Len(stack) \in Nat \ {0} /\ DOMAIN stack = 1..Len(stack)
  BY BelowFacts DEF TypeOK
<1>2. CASE /\ Len(stack) = 1
           /\ stack' = <<>>
           /\ verdict' = IF ok THEN "pure" ELSE "impure"
  <2>1. ok => failing = <<>>
    BY <1>1, <1>2 DEF FailureRemembered, Top
  <2> QED
    BY <1>2, <2>1 DEF FailureRemembered, PureIffNoFailure
<1>3. CASE /\ Len(stack) > 1
           /\ verdict' = verdict
           /\ IsSeq(stack')
           /\ Len(stack') = Len(stack) - 1
           /\ stack'[Len(stack) - 1] = Told(ok)
           /\ \A k \in 1..(Len(stack) - 2) : stack'[k] = stack[k]
  <2>1. DOMAIN stack' = 1..(Len(stack) - 1)
    BY <1>3 DEF IsSeq
  <2>2. \A k \in DOMAIN stack' : k = Len(stack) - 1 \/ k \in 1..(Len(stack) - 2)
    BY <2>1, <1>1
  <2>3. \A k \in DOMAIN stack' : k \in DOMAIN stack
    BY <2>1, <1>1
  <2>4. Len(stack) - 1 \in DOMAIN stack' /\ Told(ok).clean = (stack[Len(stack) - 1].clean /\ ok)
    BY <1>1, <1>3, <2>1 DEF Told
  <2>5. ASSUME NEW k \in DOMAIN stack', ~stack'[k].clean
        PROVE  failing' # <<>>
    <3>1. ~ok \/ ~stack[k].clean
      BY <1>3, <2>2, <2>4, <2>5
    <3> QED
      BY <3>1, <2>3 DEF FailureRemembered
  <2>6. ASSUME failing' # <<>>
        PROVE  \E k \in DOMAIN stack' : ~stack'[k].clean
    <3>1. CASE ~ok
      BY <3>1, <2>4, <1>3
    <3>2. CASE ok
      <4>1. PICK k \in DOMAIN stack : ~stack[k].clean
        BY <3>2, <2>6 DEF FailureRemembered
      <4>2. k # Len(stack)
        BY <3>2, <4>1 DEF Top
      <4>3. k \in DOMAIN stack' /\ (k = Len(stack) - 1 \/ k \in 1..(Len(stack) - 2))
        BY <4>2, <1>1, <2>1
      <4> QED
        BY <4>1, <4>3, <1>3, <2>4
    <3> QED
      BY <3>1, <3>2
  <2> QED
    BY <1>3, <2>5, <2>6 DEF FailureRemembered, PureIffNoFailure
<1> QED
  BY <1>2, <1>3, ReturnShape

\* Every step keeps them in step.
LEMMA StepRemembers ==
    TypeOK /\ OnlyTopIsNew /\ FailureRemembered /\ PureIffNoFailure /\ [Next \/ Terminated]_vars
        => FailureRemembered' /\ PureIffNoFailure'
<1> SUFFICES ASSUME TypeOK, OnlyTopIsNew, FailureRemembered, PureIffNoFailure, [Next \/ Terminated]_vars
             PROVE  FailureRemembered' /\ PureIffNoFailure'
  OBVIOUS
<1>1. CASE Begin
  <2>1. /\ stack = <<>> /\ verdict = "pending" /\ failing' = failing /\ verdict' = verdict
        /\ stack' = <<NewVisit(Root)>>
    BY <1>1 DEF Begin
  <2>2. failing = <<>>
    BY <2>1 DEF FailureRemembered
  <2>3. \A k \in DOMAIN stack' : stack'[k].clean
    BY <2>1 DEF NewVisit
  <2> QED
    BY <2>1, <2>2, <2>3 DEF FailureRemembered, PureIffNoFailure
<1>2. CASE Excuse
  <2>1. /\ verdict = "pending" /\ stack # <<>> /\ Return(TRUE) /\ failing' = failing
        /\ Top.phase = "new"
    BY <1>2 DEF Excuse, At
  <2>2. Top.clean
    BY <2>1, TopExists DEF OnlyTopIsNew, Top
  <2> QED
    BY <2>1, <2>2, ReturnRemembers
<1>3. CASE Open
  <2>1. /\ IsSeq(stack')
        /\ Len(stack') = Len(stack)
        /\ stack'[Len(stack)] = Opened
        /\ \A k \in 1..(Len(stack) - 1) : stack'[k] = stack[k]
    BY <1>3, OpenShape
  <2>2. /\ Len(stack) \in Nat \ {0} /\ DOMAIN stack = 1..Len(stack)
        /\ failing' = failing /\ verdict' = verdict
    BY <1>3, BelowFacts DEF Open, At, TypeOK
  <2>3. \A k \in DOMAIN stack : stack'[k].clean = stack[k].clean
    <3>1. \A k \in DOMAIN stack : k = Len(stack) \/ k \in 1..(Len(stack) - 1)
      BY <2>2
    <3> QED
      BY <2>1, <3>1 DEF Opened, Top
  <2>4. DOMAIN stack' = DOMAIN stack
    BY <2>1, <2>2 DEF IsSeq
  <2> QED
    BY <2>2, <2>3, <2>4 DEF FailureRemembered, PureIffNoFailure
<1>4. ASSUME At("calls"), NEW call \in Top.todo, Follow(call)
      PROVE  FailureRemembered' /\ PureIffNoFailure'
  <2>1. /\ IsSeq(stack')
        /\ Len(stack') = Len(stack) + 1
        /\ stack'[Len(stack) + 1] = NewVisit(VisitOf(fns, Top, call))
        /\ stack'[Len(stack)] = Following(call)
        /\ \A k \in 1..(Len(stack) - 1) : stack'[k] = stack[k]
    BY <1>4, FollowShape
  <2>2. /\ Len(stack) \in Nat \ {0} /\ DOMAIN stack = 1..Len(stack)
        /\ failing' = failing /\ verdict' = verdict
    BY <1>4, BelowFacts DEF Follow, At, TypeOK
  <2>3. \A k \in DOMAIN stack : stack'[k].clean = stack[k].clean
    <3>1. \A k \in DOMAIN stack : k = Len(stack) \/ k \in 1..(Len(stack) - 1)
      BY <2>2
    <3> QED
      BY <2>1, <3>1 DEF Following, Top
  <2>4. DOMAIN stack' = DOMAIN stack \union {Len(stack) + 1} /\ stack'[Len(stack) + 1].clean
    BY <2>1, <2>2 DEF IsSeq, NewVisit
  <2> QED
    BY <2>2, <2>3, <2>4 DEF FailureRemembered, PureIffNoFailure
<1>5. CASE Judge
  <2> DEFINE report == Report(HasRawPtr(Info), HasMutTransmute(Info))
             ok == Top.clean /\ ~Suspicious(Info)
  <2>1. /\ failing' = IF ok THEN failing ELSE Append(failing, report)
        /\ Return(ok)
    BY <1>5 DEF Judge
  <2>2. verdict = "pending" /\ stack # <<>> /\ Top.clean \in BOOLEAN
    BY <1>5, TopExists DEF Judge, Finished, At, VisitOK
  <2>3. ok \in BOOLEAN /\ (ok => Top.clean)
    BY <2>2
  <2> HIDE DEF ok, report
  <2>4. ~ok => failing' # <<>>
    BY <2>1, AppendNotEmpty DEF TypeOK
  <2> QED
    BY <2>1, <2>2, <2>3, <2>4, ReturnRemembers
<1>6. CASE Panic
  BY <1>6 DEF Panic, FailureRemembered, PureIffNoFailure
<1>7. CASE UNCHANGED vars
  BY <1>7 DEF vars, FailureRemembered, PureIffNoFailure
<1> QED
  BY <1>1, <1>2, <1>3, <1>4, <1>5, <1>6, <1>7 DEF Next, Terminated

----------------------------------------------------------------------------
(* Every judgement is justified.                                           *)

VisitAt(f) == [item |-> f.item, locals |-> f.locals]

\* The visits of the calls of f that have been followed.
Done(f) == {VisitOf(fns, f, call) : call \in CallsOf(fns[f.item]) \ f.todo}

\* What an opened visit f owes to the judgements P and F of its calls, of
\* which those in under are still being judged.
Accounted(f, under, P, F) ==
    f.phase = "calls" =>
        /\ ~Excused(fns[f.item], f.locals)
        /\ under \subseteq Done(f)
        /\ Done(f) \subseteq P \union F \union under
        /\ f.clean => Done(f) \subseteq P \union under
        /\ ~f.clean => Done(f) \cap F # {}

Under(k) == IF k < Len(stack) THEN {VisitAt(stack[k + 1])} ELSE {}

AllAccounted == \A k \in DOMAIN stack : Accounted(stack[k], Under(k), Passed, Failed)

\* Calls followed depend on the record, the important locals and what is left.
LEMMA SameDone ==
    ASSUME NEW f, NEW g, f.item = g.item, f.locals = g.locals, f.todo = g.todo
    PROVE  Done(f) = Done(g)
  BY DEF Done, VisitOf

\* More judgements do no harm.
LEMMA MoreJudgements ==
    ASSUME NEW f, NEW under, NEW P, NEW F, Accounted(f, under, P, F),
           NEW Q, P \subseteq Q, NEW G, F \subseteq G
    PROVE  Accounted(f, under, Q, G)
  BY DEF Accounted

\* A report adds its visit to the visits reported.
LEMMA AppendVisit ==
    ASSUME NEW reports, IsSeq(reports), NEW r
    PROVE  Visits(Append(reports, r)) = Visits(reports) \union {VisitAt(r)}
<1>1. /\ IsSeq(Append(reports, r))
      /\ Len(Append(reports, r)) = Len(reports) + 1
      /\ Append(reports, r)[Len(reports) + 1] = r
      /\ \A k \in DOMAIN reports : Append(reports, r)[k] = reports[k]
  BY AppendFacts
<1>2. /\ DOMAIN reports = 1..Len(reports)
      /\ Len(reports) \in Nat
      /\ DOMAIN Append(reports, r) = 1..(Len(reports) + 1)
  BY <1>1 DEF IsSeq
<1>3. DOMAIN Append(reports, r) = DOMAIN reports \union {Len(reports) + 1}
  BY <1>2
<1>4. ToSet(Append(reports, r)) = ToSet(reports) \union {r}
  BY <1>1, <1>3 DEF ToSet
<1> QED
  BY <1>4 DEF Visits, VisitAt

\* A return settles what the visit below owes.
LEMMA ReturnAccounts ==
    ASSUME TypeOK, OnlyTopIsNew, AllAccounted, stack # <<>>, fns' = fns,
           NEW ok \in BOOLEAN, Return(ok), Passed \subseteq Passed', Failed \subseteq Failed',
           VisitAt(Top) \in IF ok THEN Passed' ELSE Failed'
    PROVE  AllAccounted'
<1>1. CASE stack' = <<>>
  BY <1>1 DEF AllAccounted
<1>2. CASE /\ Len(stack) > 1
           /\ IsSeq(stack')
           /\ Len(stack') = Len(stack) - 1
           /\ stack'[Len(stack) - 1] = Told(ok)
           /\ \A k \in 1..(Len(stack) - 2) : stack'[k] = stack[k]
  <2> DEFINE n == Len(stack) - 1
             f == stack[n]
  <2>0. Len(stack) \in Nat
    BY DEF TypeOK, IsSeq
  <2>1. DOMAIN stack = 1..Len(stack) /\ DOMAIN stack' = 1..n
    BY <1>2 DEF TypeOK, IsSeq
  <2>2. n \in DOMAIN stack /\ n < Len(stack) /\ n + 1 = Len(stack) /\ n # Len(stack)
    BY <1>2, <2>0, <2>1
  <2>3. Under(n) = {VisitAt(Top)} /\ Accounted(f, Under(n), Passed, Failed)
    BY <2>2 DEF Under, Top, AllAccounted
  <2>4. Accounted(f, {VisitAt(Top)}, Passed', Failed')
    BY <2>3, MoreJudgements
  <2>5. /\ Told(ok).item = f.item /\ Told(ok).locals = f.locals
        /\ Told(ok).phase = f.phase /\ Told(ok).todo = f.todo
        /\ Told(ok).clean = (f.clean /\ ok)
    BY DEF Told
  <2>6. Done(Told(ok)) = Done(f)
    BY <2>5, SameDone
  <2>7. VisitOK(f) /\ f.phase = "calls" /\ f.clean \in BOOLEAN
    BY <2>2 DEF TypeOK, VisitOK, OnlyTopIsNew
  <2> HIDE DEF f
  <2>8. Accounted(Told(ok), {}, Passed', Failed')
    BY <2>4, <2>5, <2>6, <2>7 DEF Accounted
  <2>9. ASSUME NEW k \in DOMAIN stack'
        PROVE  Accounted(stack'[k], Under(k)', Passed', Failed')
    <3>1. CASE k = n
      <4>1. Under(k)' = {}
        BY <3>1, <1>2, <2>0 DEF Under
      <4> QED
        BY <3>1, <4>1, <2>8, <1>2
    <3>2. CASE k \in 1..(Len(stack) - 2)
      <4>1. /\ k \in DOMAIN stack /\ k < Len(stack) /\ k < Len(stack')
            /\ k + 1 = n \/ k + 1 \in 1..(Len(stack) - 2)
        BY <3>2, <1>2, <2>0, <2>1
      <4>2. VisitAt(stack'[k + 1]) = VisitAt(stack[k + 1])
        BY <4>1, <1>2, <2>5 DEF VisitAt, f
      <4>3. Under(k)' = Under(k)
        BY <4>1, <4>2 DEF Under, VisitAt
      <4>4. stack'[k] = stack[k] /\ Accounted(stack[k], Under(k), Passed, Failed)
        BY <3>2, <4>1, <1>2 DEF AllAccounted
      <4> QED
        BY <4>3, <4>4, MoreJudgements
    <3>3. k = n \/ k \in 1..(Len(stack) - 2)
      BY <2>0, <2>1
    <3> QED
      BY <3>1, <3>2, <3>3
  <2> QED
    BY <2>9 DEF AllAccounted, Accounted, Done
<1> QED
  BY <1>1, <1>2, ReturnShape

\* What the visit on top is judged by: all its calls, and it is not excused.
LEMMA TopAccounted ==
    ASSUME TypeOK, AllAccounted, Finished
    PROVE  /\ Callees(fns, VisitAt(Top)) = Done(Top)
           /\ Accounted(Top, {}, Passed, Failed)
           /\ Top.phase = "calls"
<1>1. stack # <<>> /\ Top.phase = "calls" /\ Top.todo = {}
  BY DEF Finished, At
<1>2. Len(stack) \in DOMAIN stack /\ Len(stack) \in Nat
  BY <1>1, TopExists
<1>3. Under(Len(stack)) = {}
  BY <1>2 DEF Under
<1>4. Accounted(Top, {}, Passed, Failed)
  BY <1>2, <1>3 DEF AllAccounted, Top
<1>5. Callees(fns, VisitAt(Top)) = Done(Top)
  BY <1>1 DEF Callees, Done, VisitAt, VisitOf
<1> QED
  BY <1>1, <1>4, <1>5

\* What an excused visit and a judged one add to the judgements.
LEMMA ExcuseAdds ==
    ASSUME TypeOK, Excuse
    PROVE  Passed' = Passed \union {VisitAt(Top)} /\ Failed' = Failed
<1>1. VisitAt(Report(FALSE, FALSE)) = VisitAt(Top)
  BY DEF VisitAt, Report
<1>2. /\ passing' = Append(passing, Report(FALSE, FALSE))
      /\ failing' = failing
      /\ IsSeq(passing)
  BY DEF Excuse, TypeOK
<1>3. Visits(Append(passing, Report(FALSE, FALSE))) = Visits(passing) \union {VisitAt(Top)}
  BY <1>1, <1>2, AppendVisit
<1> QED
  BY <1>2, <1>3 DEF Passed, Failed, Visits

\* The judgement of the visit on top.
VerdictOfTop == Top.clean /\ ~Suspicious(Info)

\* A judged visit is added to the ones passed or to the ones failed.
LEMMA JudgeAdds ==
    ASSUME TypeOK, Judge
    PROVE  /\ Passed' = IF VerdictOfTop THEN Passed \union {VisitAt(Top)} ELSE Passed
           /\ Failed' = IF VerdictOfTop THEN Failed ELSE Failed \union {VisitAt(Top)}
           /\ VerdictOfTop \in BOOLEAN
           /\ Return(VerdictOfTop)
           /\ stack # <<>>
           /\ verdict = "pending"
<1> DEFINE report == Report(HasRawPtr(Info), HasMutTransmute(Info))
<1>1. VisitAt(report) = VisitAt(Top)
  BY DEF VisitAt, Report
<1>2. /\ passing' = IF VerdictOfTop THEN Append(passing, report) ELSE passing
      /\ failing' = IF VerdictOfTop THEN failing ELSE Append(failing, report)
      /\ Return(VerdictOfTop)
      /\ IsSeq(passing) /\ IsSeq(failing)
  BY DEF Judge, TypeOK, VerdictOfTop
<1>3. stack # <<>> /\ verdict = "pending" /\ VerdictOfTop \in BOOLEAN
  BY TopExists DEF Judge, Finished, At, VerdictOfTop, VisitOK
<1> HIDE DEF report
<1>4. /\ Visits(Append(passing, report)) = Visits(passing) \union {VisitAt(Top)}
      /\ Visits(Append(failing, report)) = Visits(failing) \union {VisitAt(Top)}
  BY <1>1, <1>2, AppendVisit
<1>5. Passed' = IF VerdictOfTop THEN Passed \union {VisitAt(Top)} ELSE Passed
  BY <1>2, <1>4 DEF Passed, Visits
<1>6. Failed' = IF VerdictOfTop THEN Failed ELSE Failed \union {VisitAt(Top)}
  BY <1>2, <1>4 DEF Failed, Visits
<1> QED
  BY <1>2, <1>3, <1>5, <1>6

\* Every step keeps all visits accounted for.
LEMMA StepAccounts ==
    TypeOK /\ StorageOK /\ OnlyTopIsNew /\ AllAccounted /\ [Next \/ Terminated]_vars
        => AllAccounted'
<1> SUFFICES ASSUME TypeOK, StorageOK, OnlyTopIsNew, AllAccounted, [Next \/ Terminated]_vars
             PROVE  AllAccounted'
  OBVIOUS
<1>0. fns' = fns
  BY InputsStay
<1>1. CASE Begin
  <2>1. stack' = <<NewVisit(Root)>>
    BY <1>1 DEF Begin
  <2>2. \A k \in DOMAIN stack' : stack'[k].phase = "new"
    BY <2>1 DEF NewVisit
  <2> QED
    BY <2>2 DEF AllAccounted, Accounted
<1>2. CASE Excuse
  <2>1. Passed' = Passed \union {VisitAt(Top)} /\ Failed' = Failed
    BY <1>2, ExcuseAdds
  <2>2. stack # <<>> /\ Return(TRUE)
    BY <1>2 DEF Excuse, At
  <2>3. Passed \subseteq Passed' /\ Failed \subseteq Failed' /\ VisitAt(Top) \in Passed'
    BY <2>1
  <2> QED
    BY <1>0, <2>2, <2>3, ReturnAccounts
<1>3. CASE Open
  <2>1. /\ IsSeq(stack')
        /\ Len(stack') = Len(stack)
        /\ stack'[Len(stack)] = Opened
        /\ \A k \in 1..(Len(stack) - 1) : stack'[k] = stack[k]
    BY <1>3, OpenShape
  <2>2. Len(stack) \in Nat \ {0} /\ DOMAIN stack = 1..Len(stack) /\ Len(stack) \in DOMAIN stack
    BY <1>3, BelowFacts DEF Open, At, TypeOK
  <2> Len(stack) \in Nat
    BY <2>2
  <2>3. Passed' = Passed /\ Failed' = Failed
    BY <1>3 DEF Open, Passed, Failed, Visits
  <2>4. Top.phase = "new" /\ ~Excused(Info, Top.locals)
    BY <1>3 DEF Open, At
  <2>5. Top.clean
    BY <2>2, <2>4 DEF OnlyTopIsNew, Top
  <2>6. Accounted(Opened, {}, Passed, Failed)
    <3>1. Done(Opened) = {}
      BY DEF Done, Opened, Info
    <3> QED
      BY <3>1, <2>4, <2>5 DEF Accounted, Opened, Info
  <2>7. ASSUME NEW k \in DOMAIN stack'
        PROVE  Accounted(stack'[k], Under(k)', Passed', Failed')
    <3>1. CASE k = Len(stack)
      <4>1. Under(k)' = {}
        BY <3>1, <2>1 DEF Under
      <4> QED
        BY <3>1, <4>1, <2>1, <2>3, <2>6
    <3>2. CASE k \in 1..(Len(stack) - 1)
      <4>1. /\ k \in DOMAIN stack /\ k < Len(stack) /\ k < Len(stack')
            /\ k + 1 = Len(stack) \/ k + 1 \in 1..(Len(stack) - 1)
        BY <3>2, <2>1, <2>2
      <4>2. VisitAt(stack'[k + 1]) = VisitAt(stack[k + 1])
        BY <4>1, <2>1 DEF VisitAt, Opened, Top
      <4>3. Under(k)' = Under(k)
        BY <4>1, <4>2 DEF Under, VisitAt
      <4> QED
        BY <3>2, <4>1, <4>3, <2>1, <2>3 DEF AllAccounted
    <3>3. k = Len(stack) \/ k \in 1..(Len(stack) - 1)
      <4>1. k \in 1..Len(stack)
        BY <2>1 DEF IsSeq
      <4> QED
        BY <4>1
    <3> QED
      BY <3>1, <3>2, <3>3
  <2> QED
    BY <2>7, <1>0 DEF AllAccounted, Accounted, Done
<1>4. ASSUME At("calls"), NEW call \in Top.todo, Follow(call)
      PROVE  AllAccounted'
  <2> DEFINE w == VisitOf(fns, Top, call)
  <2>1. /\ IsSeq(stack')
        /\ Len(stack') = Len(stack) + 1
        /\ stack'[Len(stack) + 1] = NewVisit(w)
        /\ stack'[Len(stack)] = Following(call)
        /\ \A k \in 1..(Len(stack) - 1) : stack'[k] = stack[k]
    BY <1>4, FollowShape
  <2>2. Len(stack) \in Nat \ {0} /\ DOMAIN stack = 1..Len(stack) /\ Len(stack) \in DOMAIN stack
    BY <1>4, BelowFacts DEF At, TypeOK
  <2> Len(stack) \in Nat
    BY <2>2
  <2>3. Passed' = Passed /\ Failed' = Failed
    BY <1>4 DEF Follow, Passed, Failed, Visits
  <2>4. Top.phase = "calls" /\ VisitOK(Top)
    BY <1>4, TopExists DEF At
  <2>5. Accounted(Top, {}, Passed, Failed)
    <3>1. Under(Len(stack)) = {}
      BY DEF Under
    <3> QED
      BY <2>2, <3>1 DEF AllAccounted, Top
  <2>6. VisitAt(NewVisit(w)) = w
    BY DEF VisitAt, NewVisit, VisitOf
  <2>7. Done(Following(call)) = Done(Top) \union {w}
    BY <1>4, <2>4 DEF Done, Following, VisitOf, VisitOK
  <2>8. Accounted(Following(call), {w}, Passed, Failed)
    <3>1. /\ Following(call).item = Top.item /\ Following(call).locals = Top.locals
          /\ Following(call).phase = Top.phase /\ Following(call).clean = Top.clean
      BY DEF Following
    <3> QED
      BY <3>1, <2>4, <2>5, <2>7 DEF Accounted
  <2>9. ASSUME NEW k \in DOMAIN stack'
        PROVE  Accounted(stack'[k], Under(k)', Passed', Failed')
    <3>1. CASE k = Len(stack) + 1
      BY <3>1, <2>1 DEF Accounted, NewVisit
    <3>2. CASE k = Len(stack)
      <4>1. Under(k)' = {VisitAt(stack'[Len(stack) + 1])}
        BY <3>2, <2>1 DEF Under, VisitAt
      <4> QED
        BY <3>2, <4>1, <2>1, <2>3, <2>6, <2>8
    <3>3. CASE k \in 1..(Len(stack) - 1)
      <4>1. /\ k \in DOMAIN stack /\ k < Len(stack) /\ k < Len(stack')
            /\ k + 1 = Len(stack) \/ k + 1 \in 1..(Len(stack) - 1)
        BY <3>3, <2>1, <2>2
      <4>2. VisitAt(stack'[k + 1]) = VisitAt(stack[k + 1])
        BY <4>1, <2>1 DEF VisitAt, Following, Top
      <4>3. Under(k)' = Under(k)
        BY <4>1, <4>2 DEF Under, VisitAt
      <4> QED
        BY <3>3, <4>1, <4>3, <2>1, <2>3 DEF AllAccounted
    <3>4. k = Len(stack) + 1 \/ k = Len(stack) \/ k \in 1..(Len(stack) - 1)
      <4>1. k \in 1..(Len(stack) + 1)
        BY <2>1 DEF IsSeq
      <4> QED
        BY <4>1
    <3> QED
      BY <3>1, <3>2, <3>3, <3>4
  <2> QED
    BY <2>9, <1>0 DEF AllAccounted, Accounted, Done
<1>5. CASE Judge
  <2>1. /\ Passed' = IF VerdictOfTop THEN Passed \union {VisitAt(Top)} ELSE Passed
        /\ Failed' = IF VerdictOfTop THEN Failed ELSE Failed \union {VisitAt(Top)}
        /\ VerdictOfTop \in BOOLEAN /\ Return(VerdictOfTop) /\ stack # <<>>
    BY <1>5, JudgeAdds
  <2>2. /\ Passed \subseteq Passed' /\ Failed \subseteq Failed'
        /\ VisitAt(Top) \in IF VerdictOfTop THEN Passed' ELSE Failed'
    BY <2>1
  <2> QED
    BY <1>0, <2>1, <2>2, ReturnAccounts
<1>6. CASE UNCHANGED <<stack, passing, failing>>
  BY <1>0, <1>6 DEF AllAccounted, Under, Accounted, Done, Passed, Failed, Visits
<1> QED
  BY <1>1, <1>2, <1>3, <1>4, <1>5, <1>6 DEF Next, Terminated, Panic, vars

----------------------------------------------------------------------------
(* Theorems.                                                               *)

\* The inductive invariant.
IInv ==
    /\ TypeOK
    /\ StorageOK
    /\ StackDescends
    /\ BottomIsRoot
    /\ OnlyTopIsNew
    /\ FailureRemembered
    /\ PureIffNoFailure
    /\ AllAccounted

\* Types, order, failures and judgements hold together in every analysis of
\* every storage that is ordered as the collector leaves it.
THEOREM AnalysisInvariant == Spec => []IInv
<1>1. Init => IInv
  BY InitTypes DEF Init, IInv, StackDescends, BottomIsRoot, OnlyTopIsNew,
                   FailureRemembered, PureIffNoFailure, AllAccounted
<1>2. IInv /\ [Next \/ Terminated]_vars => IInv'
  BY StepTypes, StepDescends, StepNew, StepRemembers, StepAccounts DEF IInv
<1> QED
  BY <1>1, <1>2, PTL DEF Spec

\* Visits and reports are about stored records.
THEOREM AnalyzerTypeCorrect == Spec => []TypeOK
<1>1. IInv => TypeOK
  BY DEF IInv
<1> QED
  BY <1>1, AnalysisInvariant, PTL

\* The unguarded recursion of analyze_item goes down the storage, whichever
\* record a call is looked up to.
THEOREM RecursionDescends == Spec => []StackDescends
<1>1. IInv => StackDescends
  BY DEF IInv
<1> QED
  BY <1>1, AnalysisInvariant, PTL

\* A verdict is pure exactly if nothing that was visited failed.
THEOREM FailureDecides == Spec => []PureIffNoFailure
<1>1. IInv => PureIffNoFailure
  BY DEF IInv
<1> QED
  BY <1>1, AnalysisInvariant, PTL

\* No lookup that is unwrapped fails: every call still to be followed, and
\* the origin, has a record.
THEOREM LookupsSucceed ==
    Spec => [](/\ HasBodyInfo(fns, origin)
               /\ \A k \in DOMAIN stack : \A call \in stack[k].todo : Answered(fns, call))
<1>1. IInv => /\ HasBodyInfo(fns, origin)
              /\ \A k \in DOMAIN stack : \A call \in stack[k].todo : Answered(fns, call)
  <2> SUFFICES ASSUME IInv, NEW k \in DOMAIN stack, NEW call \in stack[k].todo
               PROVE  Answered(fns, call)
    BY DEF IInv, StorageOK
  <2>1. stack[k].item \in DOMAIN fns /\ call \in CallsOf(fns[stack[k].item])
    BY DEF IInv, TypeOK, VisitOK
  <2>2. PICK j \in 1..(stack[k].item - 1) : Answers(fns[j], call)
    BY <2>1 DEF IInv, StorageOK, CallsAnsweredEarlier
  <2>3. DOMAIN fns = 1..Len(fns) /\ Len(fns) \in Nat
    BY DEF IInv, TypeOK, IsSeq
  <2>4. j \in DOMAIN fns
    BY <2>1, <2>3
  <2> QED
    BY <2>2, <2>4 DEF Answered
<1> QED
  BY <1>1, AnalysisInvariant, PTL

\* The visit on top is the origin's exactly if it is the only one.
LEMMA TopIsRoot ==
    ASSUME IInv, stack # <<>>
    PROVE  VisitAt(Top) = Root <=> Len(stack) = 1
<1>1. Len(stack) \in DOMAIN stack /\ Len(stack) \in Nat \ {0} /\ DOMAIN stack = 1..Len(stack)
  BY BelowFacts, TopExists DEF IInv, TypeOK
<1> Len(stack) \in Nat
  BY <1>1
<1>2. CASE Len(stack) = 1
  BY <1>2, <1>1 DEF IInv, BottomIsRoot, Top, VisitAt, Root
<1>3. CASE Len(stack) # 1
  <2>1. 1 \in DOMAIN stack /\ 1 < Len(stack)
    BY <1>1, <1>3
  <2>2. Top.item < stack[1].item /\ stack[1].item = Root.item
    BY <1>1, <2>1 DEF IInv, StackDescends, BottomIsRoot, Top
  <2>3. Top.item \in Nat
    BY TopExists DEF IInv, TypeOK, IsSeq
  <2>4. Top.item # Root.item
    BY <2>2, <2>3
  <2> QED
    BY <1>3, <2>4 DEF VisitAt
<1> QED
  BY <1>2, <1>3

\* What a return does to the verdict.
LEMMA ReturnVerdict ==
    ASSUME IInv, verdict = "pending", stack # <<>>, NEW ok \in BOOLEAN, Return(ok)
    PROVE  verdict' = IF VisitAt(Top) = Root THEN (IF ok THEN "pure" ELSE "impure") ELSE "pending"
<1>1. CASE Len(stack) = 1
  BY <1>1, TopIsRoot DEF Return
<1>2. CASE Len(stack) # 1
  BY <1>2, TopIsRoot DEF Return
<1> QED
  BY <1>1, <1>2

\* Every step of the analyzer is one of the verdict, or none.
LEMMA StepJudges ==
    IInv /\ [Next \/ Terminated]_vars => [Verdict!Next]_<<fns, Root, Passed, Failed, verdict>>
<1> SUFFICES ASSUME IInv, [Next \/ Terminated]_vars
             PROVE  [Verdict!Next]_<<fns, Root, Passed, Failed, verdict>>
  OBVIOUS
<1>0. fns' = fns /\ Root' = Root
  BY InputsStay DEF Root
<1>1. CASE Excuse
  <2>1. Passed' = Passed \union {VisitAt(Top)} /\ Failed' = Failed
    BY <1>1, ExcuseAdds DEF IInv
  <2>2. /\ verdict = "pending" /\ stack # <<>> /\ Return(TRUE)
        /\ Excused(Info, Top.locals)
    BY <1>1 DEF Excuse, At
  <2>3. verdict' = IF VisitAt(Top) = Root THEN "pure" ELSE "pending"
    BY <2>2, ReturnVerdict
  <2>4. Verdict!MayPass(VisitAt(Top))
    BY <2>2 DEF Verdict!MayPass, VisitAt, Info
  <2>5. Verdict!Pass(VisitAt(Top)) /\ VisitAt(Top) \in Passed'
    BY <2>1, <2>3, <2>4 DEF Verdict!Pass
  <2> QED
    BY <1>0, <2>2, <2>5 DEF Verdict!Next
<1>2. CASE Judge
  <2> DEFINE v == VisitAt(Top)
  <2>1. /\ Passed' = IF VerdictOfTop THEN Passed \union {v} ELSE Passed
        /\ Failed' = IF VerdictOfTop THEN Failed ELSE Failed \union {v}
        /\ VerdictOfTop \in BOOLEAN /\ Return(VerdictOfTop) /\ stack # <<>>
        /\ verdict = "pending"
    BY <1>2, JudgeAdds DEF IInv
  <2>2. verdict' = IF v = Root THEN (IF VerdictOfTop THEN "pure" ELSE "impure") ELSE "pending"
    BY <2>1, ReturnVerdict
  <2>3. /\ Callees(fns, v) = Done(Top)
        /\ Accounted(Top, {}, Passed, Failed)
        /\ Top.phase = "calls"
    BY <1>2, TopAccounted DEF Judge, IInv
  <2>4. /\ fns[v.item] = Info /\ v.locals = Top.locals
        /\ ~Excused(Info, Top.locals)
        /\ Callees(fns, v) \subseteq Passed \union Failed
        /\ Top.clean => Callees(fns, v) \subseteq Passed
        /\ ~Top.clean => Callees(fns, v) \cap Failed # {}
    BY <2>3 DEF Accounted, VisitAt, Info
  <2>5. CASE VerdictOfTop
    <3>1. Verdict!MayPass(v)
      BY <2>4, <2>5 DEF Verdict!MayPass, VerdictOfTop
    <3>2. Verdict!Pass(v) /\ v \in Passed'
      BY <2>1, <2>2, <2>5, <3>1 DEF Verdict!Pass
    <3> QED
      BY <1>0, <2>1, <3>2 DEF Verdict!Next
  <2>6. CASE ~VerdictOfTop
    <3>1. Verdict!MayFail(v)
      BY <2>4, <2>6 DEF Verdict!MayFail, VerdictOfTop
    <3>2. Verdict!Fail(v) /\ v \in Failed'
      BY <2>1, <2>2, <2>6, <3>1 DEF Verdict!Fail
    <3> QED
      BY <1>0, <2>1, <3>2 DEF Verdict!Next
  <2> QED
    BY <2>5, <2>6
<1>3. CASE Panic
  BY <1>0, <1>3 DEF Panic, Verdict!Next, Verdict!Abort, Passed, Failed, Visits
<1>4. CASE UNCHANGED <<passing, failing, verdict>>
  BY <1>0, <1>4 DEF Passed, Failed, Visits
<1> QED
  BY <1>1, <1>2, <1>3, <1>4 DEF Next, Begin, Open, Follow, Terminated, vars

\* The analyzer implements PurityVerdict: every record it lets pass is
\* excused or has nothing but passing calls and a clean body, every record it
\* fails has a reason, and its verdict is its judgement of the origin.
THEOREM AnalyzerImplementsVerdict == Spec => ImplementsVerdict
<1>1. Init => Verdict!Init
  BY DEF Init, Verdict!Init, Passed, Failed, Visits, ToSet
<1>2. IInv /\ [Next \/ Terminated]_vars => [Verdict!Next]_<<fns, Root, Passed, Failed, verdict>>
  BY StepJudges
<1> QED
  BY <1>1, <1>2, AnalysisInvariant, PTL DEF Spec, ImplementsVerdict, Verdict!Spec

=============================================================================
