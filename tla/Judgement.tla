------------------------------ MODULE Judgement ------------------------------
(***************************************************************************)
(* What the analyzer decides about one record of the function storage, for *)
(* given important locals (analyzer.rs): whether it is excused, whether    *)
(* its own body is suspicious, and which records it has to look at next.   *)
(***************************************************************************)
EXTENDS FunctionInfo, ImportantLocals, Heuristics

CONSTANTS
    Allowlist,      \* definitions the configured allowlist matches
    TrustedStdlib,  \* definitions the configured trusted library matches
    SelfTy,         \* SelfTy[i]: the type of i's self, of whatever kind
    ImmutRef        \* the types &T

\* The definition of a record or of a call.
DefOf(info) == IF info.kind = "WithBody" THEN Program[info.id].def ELSE info.id

IsAllowlisted(info) == DefOf(info) \in Allowlist

HasImmutSelfRef(info) == info.kind = "WithBody" /\ SelfTy[info.id] \in ImmutRef

IsTrusted(info) == DefOf(info) \in TrustedStdlib /\ ~HasImmutSelfRef(info)

\* Passes without a look at its body or its calls.
Excused(info, locals) == locals = {} \/ IsAllowlisted(info) \/ IsTrusted(info)

HasUnhandled(info) == info.kind = "WithBody" /\ info.unhandled # {}
HasRawPtr(info) == info.kind = "WithBody" /\ HasRawPtrDeref(info.id)
HasMutTransmute(info) == info.kind = "WithBody" /\ HasTransmute(info.id)

\* Fails whatever it calls.  A function without a body has no calls that
\* could be found not to leak.
Suspicious(info) ==
    info.kind = "WithoutBody" \/ HasUnhandled(info) \/ HasRawPtr(info) \/ HasMutTransmute(info)

Overflows(info) == info.kind = "WithBody" /\ TransmuteOverflows(info.id)

DepsOf(info) == IF info.kind = "WithBody" THEN CratesFromCalls(info.id) ELSE {}

\* Mutant: records are counted from zero.
VisitOf_ZeroBased(fns, v, call) ==
    [item   |-> FirstMatch(fns, call) - 1,
     locals |-> Transition(v.locals, call.args, DefOf(call))]

\* A visit is a record, by its index in the storage, and the important locals
\* it is looked at with.
VisitOf(fns, v, call) ==
    [item   |-> FirstMatch(fns, call),
     locals |-> Transition(v.locals, call.args, DefOf(call))]

Callees(fns, v) == {VisitOf(fns, v, call) : call \in CallsOf(fns[v.item])}

==============================================================================
