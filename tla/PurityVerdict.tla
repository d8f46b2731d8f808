---------------------------- MODULE PurityVerdict ----------------------------
(***************************************************************************)
(* What a verdict means: visits are judged one by one, callees first.  A   *)
(* visit passes if it is excused, or if nothing in its body is suspicious  *)
(* and all its callees have passed; it fails only with a reason that is    *)
(* its own or a callee's, and with all its callees judged.  The verdict is *)
(* the judgement of the visit root.  An analysis may also give up.         *)
(***************************************************************************)
CONSTANTS
    Excused(_, _),  \* a record passes for important locals whatever it does
    Suspicious(_),  \* a record's own body leaks
    Callees(_, _)   \* the visits a visit leads to, given the storage

VARIABLES
    fns,     \* the function storage
    root,    \* the visit the analysis is about
    passed,  \* the visits judged not to leak
    failed,  \* the visits judged to leak
    verdict  \* "pending", "pure", "impure" or "panicked"

Init == passed = {} /\ failed = {} /\ verdict = "pending"

MayPass(v) ==
    LET info == fns[v.item] IN
    Excused(info, v.locals) \/ (~Suspicious(info) /\ Callees(fns, v) \subseteq passed)

MayFail(v) ==
    LET info == fns[v.item] IN
    /\ ~Excused(info, v.locals)
    /\ Callees(fns, v) \subseteq passed \union failed
    /\ Suspicious(info) \/ Callees(fns, v) \cap failed # {}

Pass(v) ==
    /\ MayPass(v)
    /\ passed' = passed \union {v}
    /\ failed' = failed
    /\ verdict' = IF v = root THEN "pure" ELSE "pending"

Fail(v) ==
    /\ MayFail(v)
    /\ failed' = failed \union {v}
    /\ passed' = passed
    /\ verdict' = IF v = root THEN "impure" ELSE "pending"

Abort == verdict' = "panicked" /\ UNCHANGED <<passed, failed>>

Next ==
    /\ verdict = "pending"
    /\ UNCHANGED <<fns, root>>
    /\ \/ \E v \in passed' : Pass(v)
       \/ \E v \in failed' : Fail(v)
       \/ Abort

Spec == Init /\ [][Next]_<<fns, root, passed, failed, verdict>>

==============================================================================
