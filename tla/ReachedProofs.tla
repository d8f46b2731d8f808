---------------------------- MODULE ReachedProofs ----------------------------
(***************************************************************************)
(* Proofs about what Analyzer reports: Reached is the least set of visits  *)
(* that is closed under calls, and the reports are that set, divided into  *)
(* the visits that lead to something suspicious and those that do not.     *)
(***************************************************************************)
EXTENDS AnalyzerProofs

----------------------------------------------------------------------------
(* What is reached.                                                        *)

\* f is the function Within(v) is defined as, up to m calls.
WithinUpTo(f, v, m) ==
    f = [n \in 0..m |-> IF n = 0 THEN {v}
                        ELSE f[n - 1] \union UNION {Onward(w) : w \in f[n - 1]}]

\* There is such a function: each is the one before it and one more step.
LEMMA WithinExists ==
    ASSUME NEW v, NEW m \in Nat
    PROVE  \E f : WithinUpTo(f, v, m)
<1> DEFINE T == {k \in Nat : ~\E f : WithinUpTo(f, v, k)}
<1>1. SUFFICES T = {}
  OBVIOUS
<1>2. SUFFICES ASSUME T # {} PROVE FALSE
  OBVIOUS
<1>3. PICK k \in T : \A j \in T : k <= j
  BY <1>2, LeastNatural
<1>4. CASE k = 0
  <2> DEFINE f == [n \in 0..0 |-> {v}]
  <2>1. WithinUpTo(f, v, 0)
    BY DEF WithinUpTo
  <2> QED
    BY <1>3, <1>4, <2>1
<1>5. CASE k # 0
  <2>1. k - 1 \in Nat /\ k - 1 \notin T /\ k \in Nat
    BY <1>3, <1>5
  <2>2. PICK f : WithinUpTo(f, v, k - 1)
    BY <2>1
  <2> DEFINE Grown(X) == X \union UNION {Onward(w) : w \in X}
             g == [n \in 0..k |-> IF n = k THEN Grown(f[k - 1]) ELSE f[n]]
  <2>3. ASSUME NEW n \in 0..k
        PROVE  g[n] = IF n = 0 THEN {v} ELSE Grown(g[n - 1])
    <3>1. CASE n = k
      <4>1. k - 1 \in 0..k /\ k - 1 # k
        BY <2>1
      <4>2. g[n] = Grown(f[k - 1]) /\ g[k - 1] = f[k - 1]
        BY <3>1, <4>1
      <4> QED
        BY <1>5, <3>1, <4>2
    <3>2. CASE n # k /\ n # 0
      <4>1. n \in 0..(k - 1) /\ n - 1 \in 0..k /\ n - 1 # k
        BY <2>1, <3>2
      <4>2. g[n] = f[n] /\ g[n - 1] = f[n - 1]
        BY <3>2, <4>1
      <4>3. f[n] = Grown(f[n - 1])
        BY <2>2, <3>2, <4>1 DEF WithinUpTo
      <4> QED
        BY <3>2, <4>2, <4>3
    <3>3. CASE n = 0
      <4>1. 0 \in 0..(k - 1)
        BY <2>1
      <4> QED
        BY <1>5, <2>2, <3>3, <4>1 DEF WithinUpTo
    <3> QED
      BY <3>1, <3>2, <3>3
  <2>4. g = [n \in 0..k |-> g[n]]
    OBVIOUS
  <2> HIDE DEF g
  <2>5. g = [n \in 0..k |-> IF n = 0 THEN {v} ELSE Grown(g[n - 1])]
    BY <2>3, <2>4
  <2>6. WithinUpTo(g, v, k)
    BY <2>5 DEF WithinUpTo
  <2> QED
    BY <1>3, <2>6
<1> QED
  BY <1>4, <1>5

\* So Within(v) is what it is defined as.
LEMMA WithinSteps ==
    ASSUME NEW v, Len(fns) \in Nat
    PROVE  /\ Within(v)[0] = {v}
           /\ \A n \in 1..Len(fns) :
                 Within(v)[n] = Within(v)[n - 1] \union UNION {Onward(w) : w \in Within(v)[n - 1]}
<1>1. \E f : WithinUpTo(f, v, Len(fns))
  BY WithinExists
<1>2. WithinUpTo(Within(v), v, Len(fns))
  BY <1>1 DEF Within, WithinUpTo
<1> DEFINE W == Within(v)
<1>3. W = [n \in 0..Len(fns) |-> IF n = 0 THEN {v}
                        ELSE W[n - 1] \union UNION {Onward(w) : w \in W[n - 1]}]
  BY <1>2 DEF WithinUpTo
<1> HIDE DEF W
<1>4. 0 \in 0..Len(fns) /\ \A n \in 1..Len(fns) : n \in 0..Len(fns) /\ n # 0
  OBVIOUS
<1>5. W[0] = {v}
  BY <1>3, <1>4
<1>6. \A n \in 1..Len(fns) : W[n] = W[n - 1] \union UNION {Onward(w) : w \in W[n - 1]}
  BY <1>3, <1>4
<1> QED
  BY <1>5, <1>6 DEF W

\* A set of visits is closed under calls.
Closed(S) == \A w \in S : Onward(w) \subseteq S

\* Whatever is closed and holds v holds all that is reached from v.
LEMMA ReachedIsLeast ==
    ASSUME NEW v, Len(fns) \in Nat, NEW S, v \in S, Closed(S)
    PROVE  Reached(v) \subseteq S
<1> DEFINE W == Within(v)
           T == {n \in 0..Len(fns) : ~(W[n] \subseteq S)}
<1>1. /\ W[0] = {v}
      /\ \A n \in 1..Len(fns) : W[n] = W[n - 1] \union UNION {Onward(w) : w \in W[n - 1]}
  BY WithinSteps
<1> HIDE DEF W
<1>2. SUFFICES ASSUME T # {} PROVE FALSE
  BY DEF Reached, W
<1>2a. T \in SUBSET Nat
  OBVIOUS
<1>3. PICK n \in T : \A j \in T : n <= j
  <2> HIDE DEF T
  <2> QED
    BY <1>2, <1>2a, LeastNatural
<1>4. n # 0
  BY <1>1, <1>3
<1>5. n \in 1..Len(fns) /\ n - 1 \in 0..Len(fns) /\ n - 1 \notin T
  BY <1>3, <1>4
<1>6. W[n - 1] \subseteq S
  BY <1>5
<1>7. UNION {Onward(w) : w \in W[n - 1]} \subseteq S
  BY <1>6 DEF Closed
<1> QED
  BY <1>1, <1>3, <1>5, <1>6, <1>7

\* A call leads to a visit of an earlier record.
LEMMA OnwardDescends ==
    ASSUME TypeOK, StorageOK, NEW v, v.item \in DOMAIN fns, NEW w \in Onward(v)
    PROVE  w.item \in DOMAIN fns /\ w.item < v.item
<1>1. w \in Callees(fns, v)
  BY DEF Onward
<1>2. PICK call \in CallsOf(fns[v.item]) : w = VisitOf(fns, v, call)
  BY <1>1 DEF Callees
<1>3. w.item = FirstMatch(fns, call)
  BY <1>2 DEF VisitOf
<1> QED
  BY <1>3, CalleeBefore

\* What n calls lead to and fewer do not is among the first records but n.
LEMMA WithinDescends ==
    ASSUME TypeOK, StorageOK, NEW v, v.item \in DOMAIN fns
    PROVE  \A n \in 0..Len(fns) : \A w \in Within(v)[n] :
              /\ w.item \in DOMAIN fns
              /\ n > 0 /\ w \notin Within(v)[n - 1] => w.item <= Len(fns) - n
<1> DEFINE W == Within(v)
           Fits(n) == \A w \in W[n] :
                         /\ w.item \in DOMAIN fns
                         /\ n > 0 /\ w \notin W[n - 1] => w.item <= Len(fns) - n
           T == {n \in 0..Len(fns) : ~Fits(n)}
<1>1. DOMAIN fns = 1..Len(fns) /\ Len(fns) \in Nat
  BY DEF TypeOK, IsSeq
<1>2. /\ W[0] = {v}
      /\ \A n \in 1..Len(fns) : W[n] = W[n - 1] \union UNION {Onward(w) : w \in W[n - 1]}
  BY <1>1, WithinSteps
<1> HIDE DEF W
<1>3. SUFFICES ASSUME T # {} PROVE FALSE
  BY DEF W
<1>3a. T \in SUBSET Nat
  BY <1>1
<1>4. PICK n \in T : \A j \in T : n <= j
  <2> HIDE DEF T
  <2> QED
    BY <1>3, <1>3a, LeastNatural
<1>5. n # 0
  BY <1>2, <1>4
<1>6. /\ n \in 1..Len(fns) /\ n - 1 \in 0..Len(fns)
      /\ n > 1 => n - 2 \in 0..Len(fns) /\ n - 1 \in 1..Len(fns) /\ (n - 1) - 1 = n - 2
  BY <1>1, <1>4, <1>5
<1>7. Fits(n - 1)
  <2>1. n - 1 \notin T
    BY <1>1, <1>4, <1>6
  <2> QED
    BY <1>6, <2>1
<1>8. W[n] = W[n - 1] \union UNION {Onward(w) : w \in W[n - 1]}
  BY <1>2, <1>6
<1>9. ASSUME NEW w \in W[n]
      PROVE  w.item \in DOMAIN fns /\ (w \notin W[n - 1] => w.item <= Len(fns) - n)
  <2>1. CASE w \in W[n - 1]
    BY <1>7, <2>1
  <2>2. CASE w \notin W[n - 1]
    <3>1. PICK x \in W[n - 1] : w \in Onward(x)
      BY <1>8, <1>9, <2>2
    <3>2. x.item \in DOMAIN fns
      BY <1>7, <3>1
    <3>3. w.item \in DOMAIN fns /\ w.item < x.item
      BY <3>1, <3>2, OnwardDescends
    <3>4. x.item <= Len(fns) - (n - 1)
      <4>1. CASE n = 1
        BY <4>1, <3>2, <1>1
      <4>2. CASE n > 1
        <5>1. W[n - 1] = W[n - 2] \union UNION {Onward(y) : y \in W[n - 2]}
          BY <1>2, <1>6, <4>2
        <5>2. x \notin W[n - 2]
          BY <2>2, <3>1, <5>1, <1>2, <1>6, <4>2
        <5>3. n - 1 > 0 /\ (n - 1) - 1 = n - 2
          BY <1>6, <4>2
        <5> QED
          BY <1>7, <3>1, <5>2, <5>3
      <4> QED
        BY <4>1, <4>2, <1>6
    <3> QED
      BY <1>1, <1>6, <3>2, <3>3, <3>4
  <2> QED
    BY <2>1, <2>2
<1> QED
  BY <1>4, <1>9

\* What is reached is closed: after as many calls as there are records,
\* nothing new is left to be found.
LEMMA ReachedIsClosed ==
    ASSUME TypeOK, StorageOK, NEW v, v.item \in DOMAIN fns
    PROVE  /\ v \in Reached(v)
           /\ Closed(Reached(v))
           /\ \A w \in Reached(v) : w.item \in DOMAIN fns
<1> DEFINE W == Within(v)
           N == Len(fns)
<1>1. DOMAIN fns = 1..N /\ N \in Nat
  BY DEF TypeOK, IsSeq
<1>2. N # 0
  BY <1>1
<1>3. /\ W[0] = {v}
      /\ \A n \in 1..N : W[n] = W[n - 1] \union UNION {Onward(w) : w \in W[n - 1]}
  BY <1>1, WithinSteps
<1>4. \A n \in 0..N : \A w \in W[n] :
              /\ w.item \in DOMAIN fns
              /\ n > 0 /\ w \notin W[n - 1] => w.item <= N - n
  BY WithinDescends
<1> HIDE DEF W, N
<1>5. \A w \in W[N] : w.item \in DOMAIN fns
  BY <1>1, <1>4
<1>6. W[N] \subseteq W[N - 1]
  <2>1. ASSUME NEW w \in W[N], w \notin W[N - 1] PROVE FALSE
    <3>1. w.item <= N - N
      BY <1>1, <1>2, <1>4, <2>1
    <3> QED
      BY <1>1, <1>5, <2>1, <3>1
  <2> QED
    BY <2>1
<1>7. W[N] = W[N - 1] \union UNION {Onward(w) : w \in W[N - 1]}
  BY <1>1, <1>2, <1>3
<1>8. \A w \in W[N] : Onward(w) \subseteq W[N]
  BY <1>6, <1>7
<1>9. v \in W[N]
  <2> DEFINE T == {n \in 0..N : v \notin W[n]}
  <2>1. SUFFICES ASSUME T # {} PROVE FALSE
    BY <1>1
  <2>1a. T \in SUBSET Nat
    BY <1>1
  <2>2. PICK n \in T : \A j \in T : n <= j
    <3> HIDE DEF T
    <3> QED
      BY <2>1, <2>1a, LeastNatural
  <2>3. n # 0
    BY <1>3, <2>2
  <2>4. n \in 1..N /\ n - 1 \in 0..N /\ n - 1 \notin T
    BY <1>1, <2>2, <2>3
  <2>5. v \in W[n - 1]
    BY <2>4
  <2> QED
    BY <1>3, <2>2, <2>4, <2>5
<1> QED
  BY <1>5, <1>8, <1>9 DEF Reached, Closed, W, N

\* What is reached from something reached is reached.
LEMMA ReachedIsTransitive ==
    ASSUME TypeOK, StorageOK, NEW v, v.item \in DOMAIN fns, NEW w \in Reached(v)
    PROVE  Reached(w) \subseteq Reached(v)
<1>1. Closed(Reached(v)) /\ w.item \in DOMAIN fns
  BY ReachedIsClosed
<1>2. Len(fns) \in Nat
  BY DEF TypeOK, IsSeq
<1> QED
  BY <1>1, <1>2, ReachedIsLeast

\* The storage stays, and so does what is reached.
LEMMA ReachedStays ==
    ASSUME [Next \/ Terminated]_vars
    PROVE  /\ fns' = fns /\ Root' = Root
           /\ Reached(Root)' = Reached(Root)
           /\ \A v : Leaks(v)' = Leaks(v)
<1>1. fns' = fns /\ origin' = origin /\ important' = important
  BY InputsStay
<1>2. Root' = Root
  BY <1>1 DEF Root
<1>3. ASSUME NEW v PROVE Within(v)' = Within(v)
  BY <1>1 DEF Within, Onward
<1>4. ASSUME NEW v PROVE Reached(v)' = Reached(v)
  BY <1>1, <1>3 DEF Reached
<1> QED
  BY <1>1, <1>2, <1>4 DEF Leaks

----------------------------------------------------------------------------
(* What is visited and what is judged.                                     *)

Visiting == {VisitAt(stack[k]) : k \in DOMAIN stack}
Judged == Passed \union Failed

\* The record of v has had its dependencies collected into D.
Collected(v, D) == DepsOf(fns[v.item]) \subseteq D

\* The visit on top is under way.
LEMMA TopIsVisited ==
    ASSUME TypeOK, stack # <<>>
    PROVE  VisitAt(Top) \in Visiting /\ VisitAt(Top).item = Top.item /\ VisitAt(Top).locals = Top.locals
<1>1. Len(stack) \in DOMAIN stack
  BY TopExists
<1> QED
  BY <1>1 DEF Visiting, Top, VisitAt

\* A return leaves nothing but what was under way.
LEMMA ReturnVisits ==
    ASSUME TypeOK, stack # <<>>, NEW ok \in BOOLEAN, Return(ok)
    PROVE  Visiting' \subseteq Visiting
<1>1. CASE stack' = <<>>
  BY <1>1 DEF Visiting
<1>2. CASE /\ Len(stack) > 1
           /\ IsSeq(stack')
           /\ Len(stack') = Len(stack) - 1
           /\ stack'[Len(stack) - 1] = Told(ok)
           /\ \A k \in 1..(Len(stack) - 2) : stack'[k] = stack[k]
  <2>1. Len(stack) \in Nat /\ DOMAIN stack = 1..Len(stack) /\ DOMAIN stack' = 1..(Len(stack) - 1)
    BY <1>2, BelowFacts DEF TypeOK, IsSeq
  <2>2. ASSUME NEW k \in DOMAIN stack'
        PROVE  VisitAt(stack'[k]) = VisitAt(stack[k]) /\ k \in DOMAIN stack
    <3>1. k \in DOMAIN stack /\ (k = Len(stack) - 1 \/ k \in 1..(Len(stack) - 2))
      BY <2>1
    <3> QED
      BY <3>1, <1>2 DEF Told, VisitAt
  <2> QED
    BY <2>2 DEF Visiting, VisitAt
<1> QED
  BY <1>1, <1>2, ReturnShape

\* A call that is followed leads on from the visit on top.
LEMMA FollowedIsOnward ==
    ASSUME IInv, At("calls"), NEW call \in Top.todo
    PROVE  stack # <<>> /\ VisitOf(fns, VisitAt(Top), call) \in Onward(VisitAt(Top))
<1>1. stack # <<>> /\ Len(stack) \in DOMAIN stack
  BY BelowFacts, TopExists DEF At, IInv
<1>2. call \in CallsOf(fns[VisitAt(Top).item])
  BY <1>1, TopExists, TopIsVisited DEF IInv, VisitOK
<1>3. Accounted(Top, Under(Len(stack)), Passed, Failed) /\ Top.phase = "calls"
  BY <1>1 DEF IInv, AllAccounted, Top, At
<1>4. ~Excused(fns[VisitAt(Top).item], VisitAt(Top).locals)
  BY <1>1, <1>3, TopIsVisited DEF Accounted, IInv
<1> QED
  BY <1>1, <1>2, <1>4 DEF Onward, Callees

\* Only calls of the visit on top are visited anew, once their dependencies
\* are collected.
LEMMA NewlyVisited ==
    ASSUME IInv, [Next \/ Terminated]_vars, NEW v \in Visiting'
    PROVE  \/ v \in Visiting
           \/ v = Root /\ Collected(v, deps')
           \/ stack # <<>> /\ v \in Onward(VisitAt(Top)) /\ Collected(v, deps')
<1>1. CASE Begin
  <2>1. stack' = <<NewVisit(Root)>> /\ deps' = deps \union DepsOf(fns[Root.item])
    BY <1>1 DEF Begin
  <2>2. v = Root
    BY <2>1 DEF Visiting, VisitAt, NewVisit, Root
  <2> QED
    BY <2>1, <2>2 DEF Collected
<1>2. CASE Excuse
  BY <1>2, ReturnVisits DEF Excuse, At, IInv
<1>3. CASE Open
  <2>1. /\ IsSeq(stack')
        /\ Len(stack') = Len(stack)
        /\ stack'[Len(stack)] = Opened
        /\ \A k \in 1..(Len(stack) - 1) : stack'[k] = stack[k]
    BY <1>3, OpenShape DEF IInv
  <2>2. Len(stack) \in Nat \ {0} /\ DOMAIN stack = 1..Len(stack)
    BY <1>3, BelowFacts DEF Open, At, IInv, TypeOK
  <2>3. DOMAIN stack' = DOMAIN stack
    BY <2>1, <2>2 DEF IsSeq
  <2>4. ASSUME NEW k \in DOMAIN stack
        PROVE  VisitAt(stack'[k]) = VisitAt(stack[k])
    <3>1. k = Len(stack) \/ k \in 1..(Len(stack) - 1)
      BY <2>2
    <3> QED
      BY <3>1, <2>1 DEF Opened, Top, VisitAt
  <2> QED
    BY <2>3, <2>4 DEF Visiting, VisitAt
<1>4. ASSUME At("calls"), NEW call \in Top.todo, Follow(call)
      PROVE  \/ v \in Visiting
             \/ stack # <<>> /\ v \in Onward(VisitAt(Top)) /\ Collected(v, deps')
  <2>1. /\ IsSeq(stack')
        /\ Len(stack') = Len(stack) + 1
        /\ stack'[Len(stack) + 1] = NewVisit(VisitOf(fns, Top, call))
        /\ stack'[Len(stack)] = Following(call)
        /\ \A k \in 1..(Len(stack) - 1) : stack'[k] = stack[k]
    BY <1>4, FollowShape DEF IInv
  <2>2. /\ Len(stack) \in Nat \ {0} /\ DOMAIN stack = 1..Len(stack) /\ stack # <<>>
        /\ Len(stack) \in DOMAIN stack
    BY <1>4, BelowFacts DEF At, IInv, TypeOK
  <2>3. PICK k \in DOMAIN stack' : v = VisitAt(stack'[k])
    BY DEF Visiting, VisitAt
  <2>4. k = Len(stack) + 1 \/ k = Len(stack) \/ k \in 1..(Len(stack) - 1)
    BY <2>1, <2>2 DEF IsSeq
  <2>5. CASE k # Len(stack) + 1
    <3>1. v = VisitAt(stack[k]) /\ k \in DOMAIN stack
      BY <2>1, <2>2, <2>3, <2>4, <2>5 DEF VisitAt, Following, Top
    <3> QED
      BY <3>1 DEF Visiting
  <2>6. CASE k = Len(stack) + 1
    <3>1. v = VisitOf(fns, VisitAt(Top), call)
      BY <2>1, <2>3, <2>6 DEF VisitAt, NewVisit, VisitOf
    <3>2. v \in Onward(VisitAt(Top))
      BY <1>4, <3>1, FollowedIsOnward
    <3>3. Collected(v, deps')
      BY <3>1, <1>4 DEF Collected, Follow, VisitOf
    <3> QED
      BY <2>2, <3>2, <3>3
  <2> QED
    BY <2>5, <2>6
<1>5. CASE Judge
  BY <1>5, JudgeAdds, ReturnVisits DEF IInv
<1>6. CASE UNCHANGED stack
  BY <1>6 DEF Visiting, VisitAt
<1> QED
  BY <1>1, <1>2, <1>3, <1>4, <1>5, <1>6 DEF Next, Terminated, Panic, vars

\* Only the visit on top is judged, and what is judged or collected stays so.
LEMMA NewlyJudged ==
    ASSUME IInv, [Next \/ Terminated]_vars
    PROVE  /\ Judged \subseteq Judged'
           /\ \A v \in Judged' : v \in Judged \/ (stack # <<>> /\ v = VisitAt(Top))
           /\ deps \subseteq deps'
<1>1. CASE Excuse
  BY <1>1, ExcuseAdds DEF Excuse, At, Judged, IInv
<1>2. CASE Judge
  <2>1. deps' = deps
    BY <1>2 DEF Judge
  <2> QED
    BY <1>2, <2>1, JudgeAdds DEF Judged, IInv
<1>3. CASE UNCHANGED <<passing, failing>> /\ deps \subseteq deps'
  BY <1>3 DEF Judged, Passed, Failed, Visits
<1> QED
  BY <1>1, <1>2, <1>3 DEF Next, Begin, Open, Follow, Panic, Terminated, vars

----------------------------------------------------------------------------
(* The reports are what is reached.                                        *)

\* Judgements stand once they are made, and the verdict is that of the origin.
Justified ==
    /\ \A v \in Passed : Verdict!MayPass(v)
    /\ \A v \in Failed : Verdict!MayFail(v)
    /\ verdict = "pure" => Root \in Passed
    /\ verdict = "impure" => Root \in Failed

\* The crates called from what is reachable.
CratesReached == UNION {DepsOf(fns[v.item]) : v \in Reached(Root)}

\* All that is visited, reported or collected is due to the origin.
Due ==
    /\ Visiting \union Judged \subseteq Reached(Root)
    /\ \A v \in Visiting \union Judged : Collected(v, deps)
    /\ deps \subseteq CratesReached

\* Every step leaves justified what is justified.
LEMMA StepJustifies == IInv /\ Justified /\ [Next \/ Terminated]_vars => Justified'
<1> SUFFICES ASSUME IInv, Justified, [Next \/ Terminated]_vars
             PROVE  Justified'
  OBVIOUS
<1>0. fns' = fns /\ Root' = Root
  BY ReachedStays
<1>1. [Verdict!Next]_<<fns, Root, Passed, Failed, verdict>>
  BY StepJudges
<1>2. CASE UNCHANGED <<fns, Root, Passed, Failed, verdict>>
  BY <1>2 DEF Justified, Verdict!MayPass, Verdict!MayFail
<1>3. ASSUME NEW u \in Passed', Verdict!Pass(u), verdict = "pending"
      PROVE  Justified'
  <2>1. /\ Passed' = Passed \union {u} /\ Failed' = Failed
        /\ verdict' = IF u = Root THEN "pure" ELSE "pending"
        /\ Verdict!MayPass(u)
    BY <1>3 DEF Verdict!Pass
  <2>2. \A v \in Passed' : Verdict!MayPass(v)'
    BY <1>0, <2>1 DEF Justified, Verdict!MayPass
  <2>3. \A v \in Failed' : Verdict!MayFail(v)'
    BY <1>0, <2>1 DEF Justified, Verdict!MayFail
  <2>4. verdict' = "pure" => Root' \in Passed'
    BY <1>0, <2>1
  <2>5. verdict' # "impure"
    BY <2>1
  <2> QED
    BY <2>2, <2>3, <2>4, <2>5 DEF Justified
<1>4. ASSUME NEW u \in Failed', Verdict!Fail(u), verdict = "pending"
      PROVE  Justified'
  <2>1. /\ Failed' = Failed \union {u} /\ Passed' = Passed
        /\ verdict' = IF u = Root THEN "impure" ELSE "pending"
        /\ Verdict!MayFail(u)
    BY <1>4 DEF Verdict!Fail
  <2>2. \A v \in Passed' : Verdict!MayPass(v)'
    BY <1>0, <2>1 DEF Justified, Verdict!MayPass
  <2>3. \A v \in Failed' : Verdict!MayFail(v)'
    BY <1>0, <2>1 DEF Justified, Verdict!MayFail
  <2>4. verdict' = "impure" => Root' \in Failed'
    BY <1>0, <2>1
  <2>5. verdict' # "pure"
    BY <2>1
  <2> QED
    BY <2>2, <2>3, <2>4, <2>5 DEF Justified
<1>5. CASE Verdict!Abort
  <2>1. Passed' = Passed /\ Failed' = Failed /\ verdict' = "panicked"
    BY <1>5 DEF Verdict!Abort
  <2>2. \A v \in Passed' : Verdict!MayPass(v)'
    BY <1>0, <2>1 DEF Justified, Verdict!MayPass
  <2>3. \A v \in Failed' : Verdict!MayFail(v)'
    BY <1>0, <2>1 DEF Justified, Verdict!MayFail
  <2> QED
    BY <2>1, <2>2, <2>3 DEF Justified
<1> QED
  BY <1>1, <1>2, <1>3, <1>4, <1>5 DEF Verdict!Next

\* Every step keeps to what is due.
LEMMA StepDue == IInv /\ Due /\ [Next \/ Terminated]_vars => Due'
<1> SUFFICES ASSUME IInv, Due, [Next \/ Terminated]_vars
             PROVE  Due'
  OBVIOUS
<1>0. fns' = fns /\ Root' = Root /\ Reached(Root)' = Reached(Root)
  BY ReachedStays
<1>1. /\ Root \in Reached(Root)
      /\ Closed(Reached(Root))
  BY RootExists, ReachedIsClosed DEF IInv
<1>2. stack # <<>> => VisitAt(Top) \in Visiting /\ VisitAt(Top) \in Reached(Root)
  BY TopIsVisited DEF IInv, Due
<1>3. ASSUME NEW v \in Visiting'
      PROVE  v \in Reached(Root) /\ Collected(v, deps')
  <2>1. CASE v \in Visiting
    BY <2>1, NewlyJudged DEF Due, Collected
  <2>2. CASE v = Root /\ Collected(v, deps')
    BY <1>1, <2>2
  <2>3. CASE stack # <<>> /\ v \in Onward(VisitAt(Top)) /\ Collected(v, deps')
    BY <1>1, <1>2, <2>3 DEF Closed
  <2> QED
    BY <2>1, <2>2, <2>3, NewlyVisited
<1>4. ASSUME NEW v \in Judged'
      PROVE  v \in Reached(Root) /\ Collected(v, deps')
  <2>1. v \in Judged \union Visiting
    BY <1>2, NewlyJudged
  <2>2. deps \subseteq deps'
    BY NewlyJudged
  <2> QED
    BY <2>1, <2>2 DEF Due, Collected
<1>5. \A v \in Visiting' \union Judged' : v \in Reached(Root)' /\ Collected(v, deps)'
  BY <1>0, <1>3, <1>4 DEF Collected
<1>6. deps' \subseteq CratesReached
  <2>1. CASE Begin
    <3>1. deps' = deps \union DepsOf(fns[Root.item])
      BY <2>1 DEF Begin
    <3> QED
      BY <1>1, <3>1 DEF Due, CratesReached
  <2>2. ASSUME At("calls"), NEW call \in Top.todo, Follow(call)
        PROVE  deps' \subseteq CratesReached
    <3> DEFINE v == VisitOf(fns, VisitAt(Top), call)
    <3>1. deps' = deps \union DepsOf(fns[v.item])
      BY <2>2 DEF Follow, VisitOf
    <3>2. v \in Onward(VisitAt(Top)) /\ stack # <<>>
      BY <2>2, FollowedIsOnward
    <3>3. v \in Reached(Root)
      BY <1>1, <1>2, <3>2 DEF Closed
    <3> HIDE DEF v
    <3> QED
      BY <3>1, <3>3 DEF Due, CratesReached
  <2>3. CASE UNCHANGED deps
    BY <2>3 DEF Due
  <2> QED
    BY <2>1, <2>2, <2>3 DEF Next, Excuse, Open, Judge, Panic, Terminated, vars
<1>7. CratesReached' = CratesReached
  BY <1>0 DEF CratesReached, DepsOf
<1> QED
  BY <1>5, <1>6, <1>7 DEF Due

\* A visit that passed leads to nothing suspicious.
LEMMA PassedDoesNotLeak ==
    ASSUME IInv, Justified, NEW v \in Passed
    PROVE  ~Leaks(v)
<1>1. Closed(Passed)
  BY DEF Closed, Onward, Justified, Verdict!MayPass
<1>2. Len(fns) \in Nat
  BY DEF IInv, TypeOK, IsSeq
<1>3. Reached(v) \subseteq Passed
  BY <1>1, <1>2, ReachedIsLeast
<1> QED
  BY <1>3 DEF Leaks, Justified, Verdict!MayPass

\* A visit that failed leads to something suspicious: its own body, or the
\* callee that failed before it.
LEMMA FailedLeaks ==
    ASSUME IInv, Justified, Due, NEW v \in Failed
    PROVE  Leaks(v)
<1> DEFINE T == {n \in Nat : \E w \in Failed : w.item = n /\ ~Leaks(w)}
<1>1. DOMAIN fns = 1..Len(fns) /\ Len(fns) \in Nat /\ TypeOK /\ StorageOK
  BY DEF IInv, TypeOK, IsSeq
<1>2. \A w \in Failed : w.item \in DOMAIN fns /\ w.item \in Nat
  BY <1>1, RootExists, ReachedIsClosed DEF Due, Judged
<1>3. SUFFICES ASSUME T # {} PROVE FALSE
  BY <1>2
<1>4. PICK n \in T : \A m \in T : n <= m
  BY <1>3, LeastNatural
<1>5. PICK w \in Failed : w.item = n /\ ~Leaks(w)
  BY <1>4
<1>6. w \in Reached(w) /\ Closed(Reached(w))
  BY <1>1, <1>2, ReachedIsClosed
<1>7. /\ ~Excused(fns[w.item], w.locals)
      /\ Suspicious(fns[w.item]) \/ Callees(fns, w) \cap Failed # {}
  BY DEF Justified, Verdict!MayFail
<1>8. ~Suspicious(fns[w.item])
  BY <1>5, <1>6, <1>7 DEF Leaks
<1>9. PICK u \in Failed : u \in Onward(w)
  BY <1>7, <1>8 DEF Onward
<1>10. u.item < w.item /\ u.item \in Nat
  BY <1>1, <1>2, <1>9, OnwardDescends
<1>11. Leaks(u)
  <2>1. u.item \notin T
    BY <1>4, <1>5, <1>10
  <2> QED
    BY <1>10, <2>1
<1>12. u \in Reached(w)
  BY <1>6, <1>9 DEF Closed
<1>13. Reached(u) \subseteq Reached(w)
  BY <1>1, <1>2, <1>12, ReachedIsTransitive
<1> QED
  BY <1>5, <1>11, <1>13 DEF Leaks

\* With a verdict on the origin, all that is reached is judged.
LEMMA JudgedIsReached ==
    ASSUME IInv, Justified, Due, verdict \in {"pure", "impure"}
    PROVE  Reached(Root) = Judged
<1>1. Root \in Judged
  BY DEF Justified, Judged
<1>2. Closed(Judged)
  BY DEF Closed, Onward, Judged, Justified, Verdict!MayPass, Verdict!MayFail
<1>3. Len(fns) \in Nat
  BY DEF IInv, TypeOK, IsSeq
<1> QED
  BY <1>1, <1>2, <1>3, ReachedIsLeast DEF Due

\* So the reports are what is reached.
LEMMA ReportsFollow == IInv /\ Justified /\ Due => ReportsWhatIsReached
<1> SUFFICES ASSUME IInv, Justified, Due, verdict \in {"pure", "impure"}
             PROVE  /\ Passed = {v \in Reached(Root) : ~Leaks(v)}
                    /\ Failed = {v \in Reached(Root) : Leaks(v)}
  BY DEF ReportsWhatIsReached
<1>1. Reached(Root) = Passed \union Failed
  BY JudgedIsReached DEF Judged
<1>2. \A v \in Passed : ~Leaks(v)
  BY PassedDoesNotLeak
<1>3. \A v \in Failed : Leaks(v)
  BY FailedLeaks
<1> QED
  BY <1>1, <1>2, <1>3

\* What an analysis gives up on is due to the origin.
LEMMA StepPanics == IInv /\ Due /\ PanicsForAReason /\ [Next \/ Terminated]_vars => PanicsForAReason'
<1> SUFFICES ASSUME IInv, Due, PanicsForAReason, [Next \/ Terminated]_vars, verdict' = "panicked"
             PROVE  PanicsForAReason'
  BY DEF PanicsForAReason
<1>0. fns' = fns /\ Root' = Root /\ Reached(Root)' = Reached(Root)
  BY ReachedStays
<1> DEFINE Reason(v) ==
             /\ ~Excused(fns[v.item], v.locals)
             /\ \/ Overflows(fns[v.item])
                \/ \E call \in CallsOf(fns[v.item]) : ~CanTransition(v.locals, call.args, DefOf(call))
<1>1. SUFFICES \E v \in Reached(Root) : Reason(v)
  BY <1>0 DEF PanicsForAReason
<1>2. CASE verdict = "panicked"
  BY <1>2 DEF PanicsForAReason
<1>3. CASE Panic /\ verdict = "pending"
  <2>1. Stuck /\ HasBodyInfo(fns, origin)
    BY <1>3 DEF Panic, IInv, StorageOK
  <2>2. stack # <<>>
    BY <2>1 DEF Stuck, At
  <2>3. /\ VisitAt(Top) \in Reached(Root)
        /\ VisitAt(Top).item = Top.item /\ VisitAt(Top).locals = Top.locals
    BY <2>2, TopIsVisited DEF Due, IInv
  <2>4. Reason(VisitAt(Top))
    <3>1. CASE ~Excused(Info, Top.locals) /\ Overflows(Info)
      BY <3>1, <2>3 DEF Info
    <3>2. ASSUME At("calls"), NEW call \in Top.todo,
                 ~Answered(fns, call) \/ ~CanTransition(Top.locals, call.args, DefOf(call))
          PROVE  Reason(VisitAt(Top))
      <4>1. call \in CallsOf(fns[Top.item]) /\ Top.item \in DOMAIN fns
        BY <2>2, TopExists DEF IInv, VisitOK
      <4>2. Answered(fns, call)
        <5>1. PICK j \in 1..(Top.item - 1) : Answers(fns[j], call)
          BY <4>1 DEF IInv, StorageOK, CallsAnsweredEarlier
        <5>2. DOMAIN fns = 1..Len(fns) /\ Len(fns) \in Nat
          BY DEF IInv, TypeOK, IsSeq
        <5>3. j \in DOMAIN fns
          BY <4>1, <5>2
        <5> QED
          BY <5>1, <5>3 DEF Answered
      <4>3. Len(stack) \in DOMAIN stack
        BY <2>2, TopExists DEF IInv
      <4>4. ~Excused(Info, Top.locals)
        BY <3>2, <4>3 DEF IInv, AllAccounted, Accounted, Top, At, Info
      <4> QED
        BY <3>2, <4>1, <4>2, <4>4, <2>3 DEF Info
    <3> QED
      BY <2>1, <2>2, <3>1, <3>2 DEF Stuck
  <2> QED
    BY <2>3, <2>4
<1>4. CASE verdict # "panicked" /\ ~Panic
  <2>1. verdict' # "panicked"
    BY <1>4 DEF Next, Begin, Excuse, Open, Follow, Judge, Return, Terminated, vars
  <2> QED
    BY <2>1
<1>5. Panic => verdict = "pending"
  BY DEF Panic
<1> QED
  BY <1>2, <1>3, <1>4, <1>5

----------------------------------------------------------------------------
(* Theorems.                                                               *)

\* The inductive invariant of the reports.
ReportInv == IInv /\ Justified /\ Due /\ PanicsForAReason

\* Judgements are justified, due to the origin, and so is giving up.
THEOREM ReportInvariant == Spec => []ReportInv
<1>1. Init => IInv
  BY InitTypes DEF Init, IInv, StackDescends, BottomIsRoot, OnlyTopIsNew,
                   FailureRemembered, PureIffNoFailure, AllAccounted
<1>2. Init => Justified /\ Due /\ PanicsForAReason
  <2> SUFFICES ASSUME Init PROVE Justified /\ Due /\ PanicsForAReason
    OBVIOUS
  <2>1. Visiting = {} /\ Passed = {} /\ Failed = {} /\ verdict = "pending" /\ deps = {}
    BY DEF Init, Visiting, Passed, Failed, Visits, ToSet
  <2> QED
    BY <2>1 DEF Justified, Due, Judged, PanicsForAReason
<1>3. IInv /\ [Next \/ Terminated]_vars => IInv'
  BY StepTypes, StepDescends, StepNew, StepRemembers, StepAccounts DEF IInv
<1>4. ReportInv /\ [Next \/ Terminated]_vars => ReportInv'
  BY <1>3, StepJustifies, StepDue, StepPanics DEF ReportInv
<1> QED
  BY <1>1, <1>2, <1>4, PTL DEF Spec, ReportInv

\* The result reports what is reachable from the origin through functions
\* that are not excused, no more and no less, as failing exactly if something
\* suspicious is reachable, in whatever order the calls are visited.
THEOREM ReportsAreWhatIsReached == Spec => []ReportsWhatIsReached
<1>1. ReportInv => ReportsWhatIsReached
  BY ReportsFollow DEF ReportInv
<1> QED
  BY <1>1, ReportInvariant, PTL

\* An analysis gives up only on a function it has to look at, for a transmute
\* it cannot search or a call whose arguments it cannot follow.
THEOREM PanicHasAReason == Spec => []PanicsForAReason
<1>1. ReportInv => PanicsForAReason
  BY DEF ReportInv
<1> QED
  BY <1>1, ReportInvariant, PTL

\* The crates called from reported bodies are among the dependencies, and in
\* the end those called from what is reachable are all of them.
THEOREM DependenciesCoverReports == Spec => []DepsCoverReports
<1>1. ReportInv => DepsCoverReports
  <2>1. ASSUME Due, NEW r \in ToSet(passing) \union ToSet(failing)
        PROVE  DepsOf(fns[r.item]) \subseteq deps
    <3>1. VisitAt(r) \in Judged /\ VisitAt(r).item = r.item
      BY DEF Judged, Passed, Failed, Visits, VisitAt
    <3> QED
      BY <2>1, <3>1 DEF Due, Collected
  <2>2. ASSUME IInv, Justified, Due, verdict \in {"pure", "impure"}
        PROVE  deps = CratesReached
    <3>1. CratesReached = UNION {DepsOf(fns[v.item]) : v \in Judged}
      BY <2>2, JudgedIsReached DEF CratesReached
    <3> QED
      BY <2>2, <3>1 DEF Due, Collected
  <2> QED
    BY <2>1, <2>2 DEF ReportInv, DepsCoverReports, CratesReached
<1> QED
  BY <1>1, ReportInvariant, PTL

----------------------------------------------------------------------------
(* Fewer important arguments.                                              *)

\* The more arguments of a definition are asked about, the more depends on
\* them: flowistry joins what depends on each.
InfluenceGrows ==
    \A def, fewer, args : fewer \subseteq args => Influenced(def, fewer) \subseteq Influenced(def, args)

\* The same record, with no more to protect.
Milder(v, w) == v.item = w.item /\ v.locals \subseteq w.locals

\* Fewer important locals make fewer important locals of a callee.
LEMMA TransitionGrows ==
    ASSUME InfluenceGrows, NEW fewer, NEW locals, fewer \subseteq locals, NEW operands, NEW def
    PROVE  Transition(fewer, operands, def) \subseteq Transition(locals, operands, def)
<1>1. ImportantArgs(fewer, operands, def) \subseteq ImportantArgs(locals, operands, def)
  BY DEF ImportantArgs
<1> DEFINE few == ImportantArgs(fewer, operands, def)
           all == ImportantArgs(locals, operands, def)
<1> HIDE DEF few, all
<1>2. Influenced(def, few) \subseteq Influenced(def, all)
  BY <1>1 DEF InfluenceGrows, few, all
<1>3. DependentLocals(def, few) \subseteq DependentLocals(def, all)
  BY <1>2 DEF DependentLocals
<1> QED
  BY <1>1, <1>3 DEF Transition, few, all

\* What is reached with fewer important locals is reached with more.
LEMMA ReachedGrows ==
    ASSUME InfluenceGrows, TypeOK, StorageOK,
           NEW v, NEW w, Milder(v, w), w.item \in DOMAIN fns,
           NEW x \in Reached(v)
    PROVE  \E y \in Reached(w) : Milder(x, y)
<1> DEFINE S == {z \in Reached(v) : \E y \in Reached(w) : Milder(z, y)}
<1>1. /\ v.item \in DOMAIN fns /\ Len(fns) \in Nat
      /\ v \in Reached(v) /\ Closed(Reached(v))
      /\ w \in Reached(w) /\ Closed(Reached(w))
  BY ReachedIsClosed DEF Milder, TypeOK, IsSeq
<1>2. v \in S
  BY <1>1
<1>3. ASSUME NEW z \in S, NEW u \in Onward(z)
      PROVE  u \in S
  <2>1. PICK y \in Reached(w) : Milder(z, y)
    OBVIOUS
  <2>2. ~Excused(fns[z.item], z.locals) /\ u \in Callees(fns, z)
    BY DEF Onward
  <2>3. ~Excused(fns[y.item], y.locals)
    BY <2>1, <2>2 DEF Excused, Milder
  <2>4. PICK call \in CallsOf(fns[z.item]) : u = VisitOf(fns, z, call)
    BY <2>2 DEF Callees
  <2> DEFINE t == VisitOf(fns, y, call)
  <2>5. t \in Onward(y)
    BY <2>1, <2>3, <2>4 DEF Onward, Callees, Milder
  <2>6. Milder(u, t)
    BY <2>1, <2>4, TransitionGrows DEF Milder, VisitOf
  <2>7. t \in Reached(w) /\ u \in Reached(v)
    BY <1>1, <2>5 DEF Closed
  <2> QED
    BY <2>6, <2>7
<1>4. Closed(S)
  BY <1>3 DEF Closed
<1>5. Reached(v) \subseteq S
  BY <1>1, <1>2, <1>4, ReachedIsLeast
<1> QED
  BY <1>5

\* Declaring fewer arguments important never turns a pure function impure,
\* as long as fewer arguments influence less.
THEOREM FewerArgumentsStayPure ==
    ASSUME InfluenceGrows
    PROVE  Spec => []ImportanceMonotone
<1>1. ReportInv => ImportanceMonotone
  <2> SUFFICES ASSUME ReportInv, verdict = "pure", NEW fewer \in SUBSET important,
                      Leaks([Root EXCEPT !.locals = fewer])
               PROVE  FALSE
    BY DEF ImportanceMonotone
  <2> DEFINE v == [Root EXCEPT !.locals = fewer]
  <2>1. v.item = Root.item /\ v.locals = fewer /\ Root.locals = important
    BY DEF Root
  <2>2. Milder(v, Root) /\ Root.item \in DOMAIN fns
    BY <2>1, RootExists DEF Milder, ReportInv, IInv
  <2>3. PICK x \in Reached(v) : ~Excused(fns[x.item], x.locals) /\ Suspicious(fns[x.item])
    BY DEF Leaks
  <2> HIDE DEF v
  <2>4. PICK y \in Reached(Root) : Milder(x, y)
    BY <2>2, ReachedGrows DEF ReportInv, IInv
  <2>5. ~Excused(fns[y.item], y.locals) /\ Suspicious(fns[y.item])
    BY <2>3, <2>4 DEF Excused, Milder
  <2>6. Leaks(Root)
    BY <2>5 DEF Leaks
  <2> QED
    BY <2>6, PassedDoesNotLeak DEF ReportInv, Justified
<1> QED
  BY <1>1, ReportInvariant, PTL

=============================================================================
