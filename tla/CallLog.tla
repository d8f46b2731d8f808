------------------------------- MODULE CallLog -------------------------------
(***************************************************************************)
(* What the collector promises the analyzer about the function storage:    *)
(* records are appended one at a time and never change, none is stored     *)
(* twice, and a function is stored only after everything it calls.  The    *)
(* analyzer unwraps every lookup of a callee and recurses into it without  *)
(* a guard, so both of its lookups and its recursion rest on this order.   *)
(***************************************************************************)
EXTENDS FunctionInfo

VARIABLE fns

Init == fns = <<>>

Record ==
    /\ Len(fns') = Len(fns) + 1
    /\ LET info == fns'[Len(fns) + 1] IN
       /\ fns' = Append(fns, info)
       /\ \A i \in DOMAIN fns : fns[i] # info
       /\ \A call \in CallsOf(info) : Answered(fns, call)

Spec == Init /\ [][Record]_fns

=============================================================================
