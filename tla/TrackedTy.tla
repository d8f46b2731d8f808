----------------------------- MODULE TrackedTy -----------------------------
(***************************************************************************)
(* Tracked types and argument types (common/tracked_ty.rs, arg_tys.rs).    *)
(*                                                                         *)
(* The collector follows, for every place of a body, either the one type   *)
(* the compiler knows (Present) or, where the declared type hides the      *)
(* concrete one (a trait object, a raw or function pointer, a type         *)
(* parameter), the set of types that were seen flowing into it (Erased).   *)
(* Rust's type system itself is external: the operators below that are     *)
(* CONSTANTS stand for the queries the code makes of the compiler.         *)
(***************************************************************************)
EXTENDS Naturals, SequencesExt

CONSTANTS
    Ty,              \* the types that occur
    NoTy,            \* the outcome of a failed projection or peeling
    ErasedTy,        \* the types contains_erased() answers true for
    TupleFields(_),  \* the component types of a tuple type, in order
    Peel(_, _, _)    \* what the k-th parameter of a generic type stands for in
                     \* a type of that form, or NoTy

ASSUME ErasedAssumption == ErasedTy \subseteq Ty /\ NoTy \notin Ty

----------------------------------------------------------------------------
Present(ty) == [kind |-> "Present", deps |-> {ty}]
Erased(deps) == [kind |-> "Erased", deps |-> deps]
IsPresent(t) == t.kind = "Present"

FromTy(ty) == IF ty \in ErasedTy THEN Erased({}) ELSE Present(ty)

\* Mutant: a Present type replaces what was there.
Join_Overwrites(self, other) ==
    IF IsPresent(other) THEN other ELSE Erased(self.deps \union other.deps)

\* A Present type is never changed by what flows into it.
Join(self, other) ==
    IF IsPresent(self) THEN self ELSE Erased(self.deps \union other.deps)

\* TrackedTy::map and try_map, given the images of t's types: a Present type
\* is classified anew.
MapTy(t, image) ==
    IF IsPresent(t) /\ image \cap ErasedTy # {} THEN Erased({})
    ELSE [kind |-> t.kind, deps |-> image]

\* The types of a tuple's components; an Erased tuple nothing flowed into
\* stays one component.
SpreadTuple(t) ==
    IF IsPresent(t)
    THEN LET fields == TupleFields(CHOOSE ty \in t.deps : TRUE)
         IN  [i \in DOMAIN fields |-> FromTy(fields[i])]
    ELSE IF t.deps = {} THEN <<t>>
    ELSE LET arity == Len(TupleFields(CHOOSE ty \in t.deps : TRUE))
         IN  [i \in 1..arity |-> Erased({TupleFields(ty)[i] : ty \in t.deps})]

----------------------------------------------------------------------------
(* ArgTys: one tracked type per argument.                                  *)

\* Closures are called with a tuple of arguments and receive them spread out.
AsClosure(args) == <<args[1]>> \o SpreadTuple(args[2])

\* The signature wins where it is concrete, the call site where it is not.
Merge(inferred, provided) ==
    IF Len(inferred) # Len(provided) THEN inferred
    ELSE [i \in DOMAIN inferred |->
            IF IsPresent(provided[i]) THEN provided[i] ELSE inferred[i]]

\* Every type the k-th parameter of a signature may stand for, given the
\* types the arguments were seen to have.
ExtractSubsts(args, generics, k) ==
    Ty \cap UNION {{Peel(generics[i], ty, k) : ty \in args[i].deps} :
                      i \in DOMAIN args \cap DOMAIN generics}

============================================================================
