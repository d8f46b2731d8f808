------------------------------ MODULE Analyzer ------------------------------
(***************************************************************************)
(* The analyzer (analyzer/analyzer.rs): one verdict for the function the   *)
(* storage was collected for, by recursion over the records.  The recursion*)
(* is the sequence stack, the record under analysis on top; the calls of a *)
(* record are visited in the order of a hash set, that is, in any order,   *)
(* and all of them, whatever the first ones yield.                         *)
(***************************************************************************)
EXTENDS Judgement

CONSTANT Handed  \* storages the analyzer may be handed, with what they are for

ASSUME HandedAssumption ==
    \A job \in Handed :
        /\ IsSeq(job.fns)
        /\ CallsAnsweredEarlier(job.fns)
        /\ HasBodyInfo(job.fns, job.origin)
        /\ CanDepend(Program[job.origin].def, job.args)

VARIABLES
    fns,        \* the function storage
    origin,     \* the instance it was collected for
    important,  \* the important locals of the origin
    stack,      \* the visits under way, innermost last
    passing,    \* passing_calls
    failing,    \* failing_calls
    deps,       \* the crates that were called
    verdict     \* "pending", "pure", "impure" or "panicked"

vars == <<fns, origin, important, stack, passing, failing, deps, verdict>>

Init ==
    /\ \E job \in Handed :
          /\ fns = job.fns
          /\ origin = job.origin
          /\ important = FromImportantArgs(job.args, Program[job.origin].def)
    /\ stack = <<>>
    /\ passing = <<>>
    /\ failing = <<>>
    /\ deps = {}
    /\ verdict = "pending"

Root == [item |-> FirstMatch(fns, CallWithBody(origin, <<>>)), locals |-> important]

Top == stack[Len(stack)]
Below == SubSeq(stack, 1, Len(stack) - 1)
Info == fns[Top.item]
At(phase) == verdict = "pending" /\ stack # <<>> /\ Top.phase = phase

\* One call of analyze_item, of which nothing is done yet.
NewVisit(v) ==
    [item |-> v.item, locals |-> v.locals, phase |-> "new", todo |-> {}, clean |-> TRUE]

\* What is reported of the visit on top.
Report(raw, transmute) ==
    [item        |-> Top.item,
     locals      |-> Top.locals,
     raw         |-> raw,
     allowlisted |-> IsAllowlisted(Info),
     transmute   |-> transmute]

\* Mutant: the caller forgets what the calls before this one yielded.
Return_LastCall(ok) ==
    IF Len(stack) = 1 THEN /\ stack' = <<>>
                           /\ verdict' = IF ok THEN "pure" ELSE "impure"
    ELSE /\ stack' = [Below EXCEPT ![Len(stack) - 1].clean = ok]
         /\ verdict' = verdict

\* analyze_item returns ok to the visit below, or to run().
Return(ok) ==
    IF Len(stack) = 1 THEN /\ stack' = <<>>
                           /\ verdict' = IF ok THEN "pure" ELSE "impure"
    ELSE /\ stack' = [Below EXCEPT ![Len(stack) - 1].clean = @ /\ ok]
         /\ verdict' = verdict

----------------------------------------------------------------------------
\* run(): the origin's record is unwrapped and analysed.
Begin ==
    /\ verdict = "pending"
    /\ stack = <<>>
    /\ HasBodyInfo(fns, origin)
    /\ stack' = <<NewVisit(Root)>>
    /\ deps' = deps \union DepsOf(fns[Root.item])
    /\ UNCHANGED <<fns, origin, important, passing, failing, verdict>>

Excuse ==
    /\ At("new")
    /\ Excused(Info, Top.locals)
    /\ passing' = Append(passing, Report(FALSE, FALSE))
    /\ Return(TRUE)
    /\ UNCHANGED <<fns, origin, important, failing, deps>>

\* The body is searched; then its calls are followed.
Open ==
    /\ At("new")
    /\ ~Excused(Info, Top.locals)
    /\ ~Overflows(Info)
    /\ stack' = [stack EXCEPT ![Len(stack)] = [Top EXCEPT !.phase = "calls", !.todo = CallsOf(Info)]]
    /\ UNCHANGED <<fns, origin, important, passing, failing, deps, verdict>>

\* Mutant: the dependencies of the origin alone are collected.
Follow_NoDeps(call) ==
    /\ Answered(fns, call)
    /\ CanTransition(Top.locals, call.args, DefOf(call))
    /\ stack' = Append([stack EXCEPT ![Len(stack)] = [Top EXCEPT !.todo = @ \ {call}]],
                       NewVisit(VisitOf(fns, Top, call)))
    /\ UNCHANGED <<fns, origin, important, passing, failing, deps, verdict>>

Follow(call) ==
    /\ Answered(fns, call)
    /\ CanTransition(Top.locals, call.args, DefOf(call))
    /\ stack' = Append([stack EXCEPT ![Len(stack)] = [Top EXCEPT !.todo = @ \ {call}]],
                       NewVisit(VisitOf(fns, Top, call)))
    /\ deps' = deps \union DepsOf(fns[FirstMatch(fns, call)])
    /\ UNCHANGED <<fns, origin, important, passing, failing, verdict>>

\* Mutant: all() over an iterator that stops at the first call that fails.
Finished_ShortCircuit == At("calls") /\ (Top.todo = {} \/ ~Top.clean)

\* All calls have been visited.
Finished == At("calls") /\ Top.todo = {}

\* Mutant: what the calls yielded is not looked at.
Judge_OwnBodyOnly ==
    /\ Finished
    /\ LET info == Info
           report == Report(HasRawPtr(info), HasMutTransmute(info))
           ok == ~Suspicious(info)
       IN  /\ passing' = IF ok THEN Append(passing, report) ELSE passing
           /\ failing' = IF ok THEN failing ELSE Append(failing, report)
           /\ Return(ok)
    /\ UNCHANGED <<fns, origin, important, deps>>

Judge ==
    /\ Finished
    /\ LET info == Info
           report == Report(HasRawPtr(info), HasMutTransmute(info))
           ok == Top.clean /\ ~Suspicious(info)
       IN  /\ passing' = IF ok THEN Append(passing, report) ELSE passing
           /\ failing' = IF ok THEN failing ELSE Append(failing, report)
           /\ Return(ok)
    /\ UNCHANGED <<fns, origin, important, deps>>

\* Mutant: bodies are searched before it is known whether that is needed.
Stuck_Eager ==
    \/ stack = <<>> /\ ~HasBodyInfo(fns, origin)
    \/ At("new") /\ Overflows(Info)
    \/ At("calls") /\ \E call \in Top.todo :
          ~Answered(fns, call) \/ ~CanTransition(Top.locals, call.args, DefOf(call))

\* A lookup without an answer is unwrapped, a closure is called with operands
\* nobody expects, a dependence is on something else than an assignment, or
\* the search for mutable references overflows the stack.
Stuck ==
    \/ stack = <<>> /\ ~HasBodyInfo(fns, origin)
    \/ At("new") /\ ~Excused(Info, Top.locals) /\ Overflows(Info)
    \/ At("calls") /\ \E call \in Top.todo :
          ~Answered(fns, call) \/ ~CanTransition(Top.locals, call.args, DefOf(call))

Panic ==
    /\ verdict = "pending"
    /\ Stuck
    /\ verdict' = "panicked"
    /\ UNCHANGED <<fns, origin, important, stack, passing, failing, deps>>

Next ==
    \/ Begin
    \/ Excuse
    \/ Open
    \/ At("calls") /\ \E call \in Top.todo : Follow(call)
    \/ Judge
    \/ Panic

Terminated == verdict # "pending" /\ UNCHANGED vars

Spec == Init /\ [][Next \/ Terminated]_vars

----------------------------------------------------------------------------
(* Properties.                                                             *)

Visits(reports) == {[item |-> r.item, locals |-> r.locals] : r \in ToSet(reports)}
Passed == Visits(passing)
Failed == Visits(failing)

Verdict == INSTANCE PurityVerdict WITH root <- Root, passed <- Passed, failed <- Failed

ReportOK(r) ==
    /\ r = [item |-> r.item, locals |-> r.locals, raw |-> r.raw,
            allowlisted |-> r.allowlisted, transmute |-> r.transmute]
    /\ r.item \in DOMAIN fns

VisitOK(f) ==
    /\ f = [item |-> f.item, locals |-> f.locals, phase |-> f.phase,
            todo |-> f.todo, clean |-> f.clean]
    /\ f.item \in DOMAIN fns
    /\ f.phase \in {"new", "calls"}
    /\ f.todo \subseteq CallsOf(fns[f.item])
    /\ f.clean \in BOOLEAN

\* Visits and reports are about records of the storage, and a visit has yet
\* to follow calls of its own record only.
TypeOK ==
    /\ IsSeq(fns)
    /\ IsSeq(stack) /\ \A k \in DOMAIN stack : VisitOK(stack[k])
    /\ IsSeq(passing) /\ \A k \in DOMAIN passing : ReportOK(passing[k])
    /\ IsSeq(failing) /\ \A k \in DOMAIN failing : ReportOK(failing[k])
    /\ verdict \in {"pending", "pure", "impure", "panicked"}

\* The recursion goes down the storage: each visit under way is about a
\* record stored before that of the visit below it, although a call is
\* looked up by instance and an instance may have several records.  So the
\* unguarded recursion ends.
StackDescends == \A j, k \in DOMAIN stack : j < k => stack[k].item < stack[j].item

\* One failing call at any depth makes the whole verdict impure, and an
\* impure verdict comes with the call it is due to.
PureIffNoFailure ==
    /\ verdict = "pure" => failing = <<>>
    /\ verdict = "impure" => failing # <<>>

\* Each judgement reported is justified by the body it is about and by the
\* judgements of the calls it makes, and the verdict is that of the origin.
ImplementsVerdict == Verdict!Spec

\* The visits a visit leads to, unless its record is excused.
Onward(w) == IF Excused(fns[w.item], w.locals) THEN {} ELSE Callees(fns, w)

\* The visits that at most n calls lead to from v, for n up to the number of
\* records: a call goes to an earlier record, so there are no longer paths.
Within(v) ==
    LET within[n \in 0..Len(fns)] ==
          IF n = 0 THEN {v}
          ELSE within[n - 1] \union UNION {Onward(w) : w \in within[n - 1]}
    IN  within

\* The visits reachable from v through records that are not excused.
Reached(v) == Within(v)[Len(fns)]

Leaks(v) == \E w \in Reached(v) : ~Excused(fns[w.item], w.locals) /\ Suspicious(fns[w.item])

\* The result reports what is reachable, no more and no less, and each visit
\* fails exactly if something suspicious is reachable from it: neither the
\* order of calls, nor a failure found earlier, nor a second record of an
\* instance makes a difference.
ReportsWhatIsReached ==
    verdict \in {"pure", "impure"} =>
        /\ Passed = {v \in Reached(Root) : ~Leaks(v)}
        /\ Failed = {v \in Reached(Root) : Leaks(v)}

\* The analysis gives up only on something it had to look at.
PanicsForAReason ==
    verdict = "panicked" =>
        \E v \in Reached(Root) :
            LET info == fns[v.item] IN
            /\ ~Excused(info, v.locals)
            /\ \/ Overflows(info)
               \/ \E call \in CallsOf(info) : ~CanTransition(v.locals, call.args, DefOf(call))

\* Declaring fewer arguments important never turns a pure function impure.
ImportanceMonotone ==
    verdict = "pure" => \A fewer \in SUBSET important : ~Leaks([Root EXCEPT !.locals = fewer])

\* The crates called from a reported body are among the dependencies at once,
\* and the result has those of the bodies that are reachable and no others,
\* in whatever order the calls are visited.
DepsCoverReports ==
    /\ \A r \in ToSet(passing) \union ToSet(failing) : DepsOf(fns[r.item]) \subseteq deps
    /\ verdict \in {"pure", "impure"} => deps = UNION {DepsOf(fns[v.item]) : v \in Reached(Root)}

=============================================================================
