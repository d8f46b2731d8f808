----------------------------- MODULE ClosureInfo -----------------------------
(***************************************************************************)
(* The closure storage (common/storage/closure.rs, closure_info.rs): for   *)
(* every closure definition met so far, the instance it was met at first   *)
(* and the tracked types of the variables it captures.                     *)
(***************************************************************************)
EXTENDS TrackedTy

\* Mutant: the captures seen last replace the ones before.
UpdateClosure_Overwrites(closures, def, inst, upvars) ==
    [d \in DOMAIN closures \union {def} |->
        IF d # def THEN closures[d]
        ELSE [inst   |-> IF def \in DOMAIN closures THEN closures[def].inst ELSE inst,
              upvars |-> upvars]]

\* update_with(): the first call fixes the instance; captures are added once
\* they are known and joined from then on.
UpdateClosure(closures, def, inst, upvars) ==
    IF def \notin DOMAIN closures
    THEN [d \in DOMAIN closures \union {def} |->
             IF d = def THEN [inst |-> inst, upvars |-> upvars] ELSE closures[d]]
    ELSE LET old == closures[def].upvars
         IN  [closures EXCEPT ![def].upvars =
                IF old = <<>> THEN upvars
                ELSE IF upvars = <<>> THEN old
                ELSE [i \in DOMAIN old |-> Join(old[i], upvars[i])]]

\* update_with() asserts that a closure captures as many variables each time.
CanUpdateClosure(closures, def, upvars) ==
    def \in DOMAIN closures /\ closures[def].upvars # <<>> /\ upvars # <<>> =>
        Len(upvars) = Len(closures[def].upvars)

\* collect_closures(): every closure type a body mentions, captures unknown.
CollectClosures(closures, mentioned) ==
    [def \in DOMAIN closures \union {c.def : c \in mentioned} |->
        IF def \in DOMAIN closures THEN closures[def]
        ELSE [inst |-> (CHOOSE c \in mentioned : c.def = def).inst, upvars |-> <<>>]]

============================================================================
