----------------------------- MODULE Heuristics -----------------------------
(***************************************************************************)
(* What the analyzer looks for in one body: writes through raw pointers    *)
(* (heuristics/raw_ptr.rs), transmutes into something with a mutable       *)
(* reference (heuristics/transmute.rs) and the crates it calls (deps.rs).  *)
(* Bodies are those of Collector: blocks of statements and a terminator,   *)
(* and the declared type of every place.                                   *)
(***************************************************************************)
EXTENDS Integers, Sequences, FiniteSets, SequencesExt

CONSTANTS
    Program,    \* definition and body of every instance
    RawMutPtr,  \* the types *mut T
    MutRef,     \* the types &mut T
    Types,      \* the types that occur
    Parts(_),   \* the types a type is made of: fields, arguments, pointees
    Transmutes, \* the definitions named like core's transmute: the pattern is
                \* not anchored, so that transmute_unchecked is one of them
    Crate       \* the crate of a definition

Step == -1      \* the dereference among the projections of a place

Statements(i) == UNION {ToSet(Program[i].blocks[b].stmts) : b \in DOMAIN Program[i].blocks}
NamedCalls(i) ==
    {t \in {Program[i].blocks[b].term : b \in DOMAIN Program[i].blocks} :
        t.kind = "Call" /\ t.fun.kind = "FnDef"}

\* Place p goes through a raw pointer one may write to.
DerefsRawPtr(i, p) ==
    \E k \in 2..Len(p) : p[k] = Step /\ Program[i].decl[SubSeq(p, 1, k - 1)] \in RawMutPtr

HasRawPtrDeref(i) ==
    \E s \in Statements(i) :
        /\ s.kind = "Assign"
        /\ \/ DerefsRawPtr(i, s.place)
           \/ /\ s.rv.kind = "Wrap"
              /\ s.rv.con = "mutref"
              /\ DerefsRawPtr(i, s.rv.ops[1].place)

\* The types n levels inside ty.
Inside(ty) ==
    LET at[n \in 0..Cardinality(Types)] ==
          IF n = 0 THEN {ty} ELSE UNION {Parts(t) : t \in at[n - 1]}
    IN  at

ContainsMutRef(ty) == \E n \in 0..Cardinality(Types) : Inside(ty)[n] \cap MutRef # {}

\* The visitor descends into fields without a memory of where it has been.
Unbounded(ty) == Inside(ty)[Cardinality(Types)] # {}

TransmutedInto(i) == {t.fun.into : t \in {t \in NamedCalls(i) : t.fun.def \in Transmutes}}

HasTransmute(i) == \E ty \in TransmutedInto(i) : ContainsMutRef(ty)
TransmuteOverflows(i) == \E ty \in TransmutedInto(i) : Unbounded(ty)

CratesFromCalls(i) == {Crate[t.fun.def] : t \in NamedCalls(i)}

=============================================================================
