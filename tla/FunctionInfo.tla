---------------------------- MODULE FunctionInfo ----------------------------
(***************************************************************************)
(* The records the collector leaves for the analyzer: one FunctionInfo per *)
(* analysed function (common/function_info.rs), the calls it makes         *)
(* (function_call.rs) and the storage they are kept in, a vector without   *)
(* duplicates that is only ever appended to (storage/function.rs).         *)
(***************************************************************************)
EXTENDS Naturals, Sequences

\* A function whose body was analysed, with what its dataflow result d holds.
WithBody(inst, d) ==
    [kind |-> "WithBody", id |-> inst,
     places |-> d.places, calls |-> d.calls, unhandled |-> d.unhandled]

\* A function that was called but has no body to look at.
WithoutBody(def, args) == [kind |-> "WithoutBody", id |-> def, args |-> args]

CallWithBody(inst, operands) == [kind |-> "WithBody", id |-> inst, args |-> operands]
CallWithoutBody(def, operands) == [kind |-> "WithoutBody", id |-> def, args |-> operands]

CallsOf(info) == IF info.kind = "WithBody" THEN info.calls ELSE {}

\* s is a sequence, of whatever.
IsSeq(s) == Len(s) \in Nat /\ s = [k \in 1..Len(s) |-> s[k]]

\* Mutant: no check for a record that is there already.
Insert_Duplicates(fns, info) == Append(fns, info)

Insert(fns, info) ==
    IF \E i \in DOMAIN fns : fns[i] = info THEN fns ELSE Append(fns, info)

\* info is what a lookup for the call may return.
Answers(info, call) == info.kind = call.kind /\ info.id = call.id

Answered(fns, call) == \E i \in DOMAIN fns : Answers(fns[i], call)

\* Mutant: the record stored last wins.
FirstMatch_Last(fns, call) ==
    CHOOSE i \in DOMAIN fns : /\ Answers(fns[i], call)
                              /\ \A j \in (i + 1)..Len(fns) : ~Answers(fns[j], call)

\* The first record that answers the call: get_with_body, get_without_body
\* and get_by_call all search from the front.
FirstMatch(fns, call) ==
    CHOOSE i \in DOMAIN fns : /\ Answers(fns[i], call)
                              /\ \A j \in 1..(i - 1) : ~Answers(fns[j], call)

GetByCall(fns, call) == fns[FirstMatch(fns, call)]

HasBodyInfo(fns, inst) == Answered(fns, CallWithBody(inst, <<>>))
GetWithBody(fns, inst) == GetByCall(fns, CallWithBody(inst, <<>>))

\* Every call of a stored function is answered by a function stored earlier.
CallsAnsweredEarlier(fns) ==
    \A i \in DOMAIN fns : \A call \in CallsOf(fns[i]) :
        \E j \in 1..(i - 1) : Answers(fns[j], call)

============================================================================
