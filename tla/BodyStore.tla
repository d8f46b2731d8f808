------------------------------ MODULE BodyStore ------------------------------
(***************************************************************************)
(* What the body cache promises an analysis: every crate it can see offers *)
(* the bodies of exactly one version, all of them, and a lookup answers    *)
(* with the body of that version, or that there is none.                   *)
(***************************************************************************)
EXTENDS Naturals, Sequences

CONSTANTS
    Crate,   \* the crates of a build
    Bodies,  \* Bodies[c][v]: the functions with a body in version v of c
    Def,     \* the definitions
    Missing  \* the answer of a lookup that finds no body

VARIABLES
    offered,  \* offered[r][c]: the version of c that r's analysis sees, or 0
    seen      \* what the last lookup of an analysis was for, and its answer

HasBody(c, v, def) == \E k \in DOMAIN Bodies[c][v] : Bodies[c][v][k] = def

Init == offered = [r \in Crate |-> [c \in Crate |-> 0]] /\ seen = <<>>

NothingOffered == [c \in Crate |-> 0]

\* Analyses begin and end; what one of them sees does not change meanwhile.
Change ==
    /\ \A r \in Crate : offered[r] # NothingOffered => offered'[r] \in {offered[r], NothingOffered}
    /\ seen' \in {seen, <<>>}

Lookup(r, c, def) ==
    /\ offered[r][c] # 0
    /\ LET v == offered[r][c]
       IN  seen' = [reader |-> r, crate |-> c, def |-> def,
                    answer |-> IF HasBody(c, v, def) THEN v ELSE Missing]
    /\ offered' = offered

Next == Change \/ \E r, c \in Crate, def \in Def : Lookup(r, c, def)

Spec == Init /\ [][Next]_<<offered, seen>>

==============================================================================
