-------------------------- MODULE CollectorDomain --------------------------
(***************************************************************************)
(* The dataflow domain of the collector (collector_domain.rs) and the      *)
(* tracked type of an rvalue (has_tracked_ty.rs).                          *)
(*                                                                         *)
(* A domain value holds the tracked type of every place of one body, the   *)
(* calls found so far and the function types that could not be handled.    *)
(* A place is the sequence of its local and its projections; a projection  *)
(* is a field number or Deref.  An operand is a place with its declared    *)
(* type, or a constant: the empty place.                                   *)
(***************************************************************************)
EXTENDS TrackedTy, Integers

CONSTANTS
    RefTy,            \* the reference types
    Component(_, _),  \* the type a projection of a type has, or NoTy
    Construct(_, _),  \* a type built from one other: reference, pointer, ...
    TupleTy(_)        \* the tuple type with the given component types

Deref == -1
ReturnPlace == <<0>>
NoPlace == <<>>

Interior(places, p) == {q \in DOMAIN places : IsPrefix(p, q)}

\* propagate() also follows one dereference when any type of t is a reference.
ThroughRef(p, t) == IF t.deps \cap RefTy # {} THEN {Append(p, Deref)} ELSE {}
Paths(places, p, t) == Interior(places, p) \union ThroughRef(p, t)

\* The type reached from ty through the projections q has beyond p.
Project(ty, p, q) ==
    LET reached[k \in Len(p)..Len(q)] ==
          IF k = Len(p) THEN ty
          ELSE IF reached[k - 1] = NoTy THEN NoTy ELSE Component(reached[k - 1], q[k])
    IN  reached[Len(q)]

\* Every type can be projected along every path, and every path is known.
CanPropagate(places, p, t) ==
    \A q \in Paths(places, p, t) :
        /\ q \in DOMAIN places
        /\ \A ty \in t.deps : Project(ty, p, q) \in Ty

Propagate(places, p, t) ==
    LET paths == Paths(places, p, t) IN
    [q \in DOMAIN places |->
        IF q \in paths
        THEN Join(places[q], MapTy(t, {Project(ty, p, q) : ty \in t.deps}))
        ELSE places[q]]

----------------------------------------------------------------------------
NewDomain(places) == [places |-> places, calls |-> {}, unhandled |-> {}]

IsDomain(d) == d = [places |-> d.places, calls |-> d.calls, unhandled |-> d.unhandled]

CanUpdate(d, p, t) ==
    /\ p \in DOMAIN d.places
    /\ CanPropagate(d.places, p, Join(d.places[p], t))

UpdateWith(d, p, t) ==
    LET joined == Join(d.places[p], t)
    IN  [places    |-> Propagate([d.places EXCEPT ![p] = joined], p, joined),
         calls     |-> d.calls,
         unhandled |-> d.unhandled]

AddCall(d, call) == [d EXCEPT !.calls = @ \union {call}]
AddUnhandled(d, ty) == [d EXCEPT !.unhandled = @ \union {ty}]

JoinDomain(self, other) ==
    [places    |-> [p \in DOMAIN self.places |->
                      IF p \in DOMAIN other.places
                      THEN Join(self.places[p], other.places[p]) ELSE self.places[p]],
     calls     |-> self.calls \union other.calls,
     unhandled |-> self.unhandled \union other.unhandled]

\* What a caller sees: the declared return type unless it is erased.
ReturnTy(d, declared) ==
    IF IsPresent(FromTy(declared)) THEN FromTy(declared) ELSE d.places[ReturnPlace]

----------------------------------------------------------------------------
(* Initial state of a body: declared types, then upvars, then arguments.   *)

\* Type ts[i] flows into place at[i], which is created if it is not known,
\* and along paths[i].  These regions are disjoint.
InjectAll(places, ts, at, paths) ==
    LET region == [i \in DOMAIN ts |-> {at[i]} \union paths[i]]
    IN  [q \in DOMAIN places \union ToSet(at) |->
           LET hit == {i \in DOMAIN ts : q \in region[i]}
               i == CHOOSE k \in hit : TRUE
               flow == MapTy(ts[i], {Project(ty, at[i], q) : ty \in ts[i].deps})
           IN  IF hit = {} THEN places[q]
               ELSE IF q \in DOMAIN places THEN Join(places[q], flow) ELSE flow]

CanInjectAll(places, ts, at, paths) ==
    \A i \in DOMAIN ts : \A q \in {at[i]} \union paths[i] :
        /\ q \in DOMAIN places \union {at[i]}
        /\ \A ty \in ts[i].deps : Project(ty, at[i], q) \in Ty

----------------------------------------------------------------------------
(* Tracked types of operands and rvalues.                                  *)

OperandTy(places, o) ==
    IF o.place \in DOMAIN places THEN places[o.place] ELSE FromTy(o.ty)

OperandTys(places, os) == [i \in DOMAIN os |-> OperandTy(places, os[i])]

\* Arithmetic asserts that both operands carry the same tracked type.
CanEvaluate(places, rv) ==
    rv.kind \in {"Arith", "CheckedArith"} =>
        OperandTy(places, rv.ops[1]) = OperandTy(places, rv.ops[2])

RvalueTy(places, rv) ==
    LET tys == OperandTys(places, rv.ops) IN
    CASE rv.kind \in {"Use", "Arith"} -> tys[1]
      [] rv.kind \in {"Wrap", "CheckedArith"} ->
            MapTy(tys[1], {Construct(rv.con, ty) : ty \in tys[1].deps})
      [] rv.kind \in {"Typed", "Closure"} -> FromTy(rv.ty)
      [] rv.kind = "Tuple" ->
            LET tuples == {TupleTy(s) : s \in
                             {f \in [DOMAIN tys -> Ty] : \A i \in DOMAIN tys : f[i] \in tys[i].deps}}
            IN  IF \A i \in DOMAIN tys : IsPresent(tys[i])
                THEN FromTy(CHOOSE ty \in tuples : TRUE)
                ELSE Erased(tuples)

============================================================================
