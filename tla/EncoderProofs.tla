---------------------------- MODULE EncoderProofs ---------------------------
(***************************************************************************)
(* Proofs about the format of body files.  What is proved says where in    *)
(* the file each value is: Encodings is the relation between a position, a *)
(* value and the position the next value has.  The writer establishes it   *)
(* for the body, and each call of the reader has a value that it is there  *)
(* to read, at a place where that value is.                                *)
(***************************************************************************)
EXTENDS Encoder, FunctionInfoProofs

----------------------------------------------------------------------------
(* Where in a file a value is.                                             *)

Items == Spans \union Types

Triples == {t \in Nat \X Items \X Nat : t[1] < t[3]}

Rising(m, i, j) == \A k, l \in i..j : k <= l => m[k] <= m[l]

\* The values i to j - 1 of a sequence follow one another from p to q.
Leads(E, args, i, j, p, q) ==
    \E m \in [i..j -> Nat] :
        /\ m[i] = p /\ m[j] = q /\ Rising(m, i, j)
        /\ \A k \in i..(j - 1) : <<m[k], args[k], m[k + 1]>> \in E

\* v is written at p, given where its arguments are and which types are
\* pointed at; the next value is at q.
Codes(tp, tys, E, p, v, q) ==
    /\ p \in DOMAIN tp
    /\ \/ v \in Spans /\ tp[p] = SpanCell(v) /\ q = p + 1
       \/ v \in Types /\ v \in DOMAIN tys /\ tp[p] = ShorthandCell(tys[v]) /\ q = p + 1
       \/ v \in Types /\ tp[p] = TypeCell(v) /\ Leads(E, v.args, 1, Len(v.args) + 1, p + 1, q)

Sound(tp, tys, E) ==
    E \subseteq Triples /\ \A p, v, q : <<p, v, q>> \in E => Codes(tp, tys, E, p, v, q)

Encodings(tp, tys) == UNION {E \in SUBSET Triples : Sound(tp, tys, E)}

\* What leads through some triples leads through more.
LEMMA LeadsMonotone ==
    ASSUME NEW E, NEW F, E \subseteq F, NEW args, NEW i, NEW j, NEW p, NEW q,
           Leads(E, args, i, j, p, q)
    PROVE  Leads(F, args, i, j, p, q)
  BY DEF Leads

\* They do not lead back.
LEMMA LeadsOn ==
    ASSUME NEW E, NEW args, NEW i \in Nat, NEW j \in Nat, i <= j, NEW p, NEW q,
           Leads(E, args, i, j, p, q)
    PROVE  p \in Nat /\ q \in Nat /\ p <= q
<1>1. PICK m \in [i..j -> Nat] : m[i] = p /\ m[j] = q /\ Rising(m, i, j)
  BY DEF Leads
<1>2. i \in i..j /\ j \in i..j
  OBVIOUS
<1> QED
  BY <1>1, <1>2 DEF Rising

\* No values take no room.
LEMMA LeadsNowhere ==
    ASSUME NEW E, NEW args, NEW i \in Nat, NEW p \in Nat
    PROVE  /\ Leads(E, args, i, i, p, p)
           /\ \A q : Leads(E, args, i, i, p, q) => q = p
<1> DEFINE m == [k \in i..i |-> p]
<1>1. m \in [i..i -> Nat] /\ Rising(m, i, i)
  BY DEF Rising
<1>2. i..(i - 1) = {} /\ i \in i..i
  OBVIOUS
<1>3. m[i] = p
  BY <1>2
<1> HIDE DEF m
<1>4. Leads(E, args, i, i, p, p)
  BY <1>1, <1>2, <1>3 DEF Leads
<1>5. \A q : Leads(E, args, i, i, p, q) => q = p
  BY DEF Leads
<1> QED
  BY <1>4, <1>5

\* The first value of several is where they begin.
LEMMA LeadsFirst ==
    ASSUME NEW E, NEW args, NEW i \in Nat, NEW j \in Nat, i < j, NEW p, NEW q,
           Leads(E, args, i, j, p, q)
    PROVE  \E r \in Nat : <<p, args[i], r>> \in E /\ Leads(E, args, i + 1, j, r, q)
<1>1. PICK m \in [i..j -> Nat] :
         /\ m[i] = p /\ m[j] = q /\ Rising(m, i, j)
         /\ \A k \in i..(j - 1) : <<m[k], args[k], m[k + 1]>> \in E
  BY DEF Leads
<1> DEFINE n == [k \in (i + 1)..j |-> m[k]]
<1>2. i \in i..(j - 1) /\ i + 1 \in (i + 1)..j /\ j \in (i + 1)..j /\ i + 1 \in i..j
  OBVIOUS
<1>3. \A k \in (i + 1)..(j - 1) : k \in i..(j - 1) /\ k \in (i + 1)..j /\ k + 1 \in (i + 1)..j
  OBVIOUS
<1>4. n \in [(i + 1)..j -> Nat] /\ n[i + 1] = m[i + 1] /\ n[j] = q
  BY <1>1, <1>2
<1>5. \A k \in (i + 1)..(j - 1) : n[k] = m[k] /\ n[k + 1] = m[k + 1]
  BY <1>3
<1>6. Rising(n, i + 1, j)
  <2>1. \A k \in (i + 1)..j : k \in i..j /\ n[k] = m[k]
    OBVIOUS
  <2> HIDE DEF n
  <2> QED
    BY <1>1, <2>1 DEF Rising
<1>7. Leads(E, args, i + 1, j, m[i + 1], q)
  <2> HIDE DEF n
  <2>1. \A k \in (i + 1)..(j - 1) : <<n[k], args[k], n[k + 1]>> \in E
    BY <1>1, <1>3, <1>5
  <2> QED
    BY <1>4, <1>6, <2>1 DEF Leads
<1> QED
  BY <1>1, <1>2, <1>7

\* A value after several is one more of them.
LEMMA LeadsMore ==
    ASSUME NEW E, NEW args, NEW i \in Nat, NEW j \in Nat, i <= j, NEW p, NEW q,
           Leads(E, args, i, j, p, q), NEW r \in Nat, q < r, <<q, args[j], r>> \in E
    PROVE  Leads(E, args, i, j + 1, p, r)
<1>1. PICK m \in [i..j -> Nat] :
         /\ m[i] = p /\ m[j] = q /\ Rising(m, i, j)
         /\ \A k \in i..(j - 1) : <<m[k], args[k], m[k + 1]>> \in E
  BY DEF Leads
<1> DEFINE n == [k \in i..(j + 1) |-> IF k = j + 1 THEN r ELSE m[k]]
<1>2. n \in [i..(j + 1) -> Nat] /\ n[i] = p /\ n[j] = q /\ n[j + 1] = r
  BY <1>1
<1>3. \A k \in i..(j - 1) : n[k] = m[k] /\ n[k + 1] = m[k + 1]
  BY <1>1
<1>4. \A k \in i..((j + 1) - 1) : k = j \/ k \in i..(j - 1)
  OBVIOUS
<1>5. \A k \in i..j : n[k] = m[k]
  OBVIOUS
<1> HIDE DEF n
<1>6. \A k \in i..((j + 1) - 1) : <<n[k], args[k], n[k + 1]>> \in E
  BY <1>1, <1>2, <1>3, <1>4
<1>7. Rising(n, i, j + 1)
  <2> SUFFICES ASSUME NEW k \in i..(j + 1), NEW l \in i..(j + 1), k <= l PROVE n[k] <= n[l]
    BY DEF Rising
  <2>1. CASE l \in i..j
    <3>1. k \in i..j
      BY <2>1
    <3> QED
      BY <1>1, <1>5, <2>1, <3>1 DEF Rising
  <2>2. CASE l = j + 1 /\ k = j + 1
    BY <1>2, <2>2
  <2>3. CASE l = j + 1 /\ k \in i..j
    <3>1. j \in i..j /\ k <= j
      BY <2>3
    <3>2. m[k] <= q /\ m[k] \in Nat /\ q \in Nat
      BY <1>1, <2>3, <3>1 DEF Rising
    <3> QED
      BY <1>2, <1>5, <2>3, <3>2
  <2>4. \A x \in i..(j + 1) : x = j + 1 \/ x \in i..j
    OBVIOUS
  <2> QED
    BY <2>1, <2>2, <2>3, <2>4
<1> QED
  BY <1>2, <1>6, <1>7 DEF Leads

\* What is at a position stays there when more is written.
LEMMA CodesMonotone ==
    ASSUME NEW tp, NEW tys, NEW tp2, NEW tys2, NEW E, NEW F, E \subseteq F,
           \A p \in DOMAIN tp : p \in DOMAIN tp2 /\ tp2[p] = tp[p],
           \A ty \in DOMAIN tys : ty \in DOMAIN tys2 /\ tys2[ty] = tys[ty],
           NEW p, NEW v, NEW q, Codes(tp, tys, E, p, v, q)
    PROVE  Codes(tp2, tys2, F, p, v, q)
<1>1. Leads(E, v.args, 1, Len(v.args) + 1, p + 1, q) => Leads(F, v.args, 1, Len(v.args) + 1, p + 1, q)
  BY LeadsMonotone
<1> QED
  BY <1>1 DEF Codes

\* A value takes some room.
LEMMA TriplesAre ==
    ASSUME NEW p, NEW v, NEW q
    PROVE  <<p, v, q>> \in Triples <=> p \in Nat /\ v \in Items /\ q \in Nat /\ p < q
  BY DEF Triples

\* Encodings is one of the relations it is made of.
LEMMA EncodingsSound ==
    ASSUME NEW tp, NEW tys
    PROVE  Sound(tp, tys, Encodings(tp, tys))
<1>1. Encodings(tp, tys) \subseteq Triples
  BY DEF Encodings
<1>2. ASSUME NEW p, NEW v, NEW q, <<p, v, q>> \in Encodings(tp, tys)
      PROVE  Codes(tp, tys, Encodings(tp, tys), p, v, q)
  <2>1. PICK E \in SUBSET Triples : Sound(tp, tys, E) /\ <<p, v, q>> \in E
    BY <1>2 DEF Encodings
  <2>2. E \subseteq Encodings(tp, tys)
    BY <2>1 DEF Encodings
  <2>3. Codes(tp, tys, E, p, v, q)
    BY <2>1 DEF Sound
  <2> QED
    BY <2>2, <2>3, CodesMonotone
<1> QED
  BY <1>1, <1>2 DEF Sound

\* ... and has every value that is written where it says.
LEMMA EncodingsComplete ==
    ASSUME NEW tp, NEW tys, NEW p \in Nat, NEW v \in Items, NEW q \in Nat, p < q,
           Codes(tp, tys, Encodings(tp, tys), p, v, q)
    PROVE  <<p, v, q>> \in Encodings(tp, tys)
<1> DEFINE E == Encodings(tp, tys)
           F == E \union {<<p, v, q>>}
<1>1. Sound(tp, tys, E)
  BY EncodingsSound
<1>2. F \subseteq Triples
  BY <1>1, TriplesAre DEF Sound
<1>3. ASSUME NEW a, NEW w, NEW b, <<a, w, b>> \in F
      PROVE  Codes(tp, tys, F, a, w, b)
  <2>1. E \subseteq F
    OBVIOUS
  <2>2. Codes(tp, tys, E, a, w, b)
    BY <1>1, <1>3 DEF Sound
  <2> HIDE DEF E, F
  <2> QED
    BY <2>1, <2>2, CodesMonotone
<1>4. Sound(tp, tys, F)
  <2> HIDE DEF F
  <2> QED
    BY <1>2, <1>3 DEF Sound
<1> QED
  BY <1>2, <1>4 DEF Encodings

\* Writing more, and remembering more types, takes nothing away.
LEMMA EncodingsGrow ==
    ASSUME NEW tp, NEW tys, NEW tp2, NEW tys2,
           \A p \in DOMAIN tp : p \in DOMAIN tp2 /\ tp2[p] = tp[p],
           \A ty \in DOMAIN tys : ty \in DOMAIN tys2 /\ tys2[ty] = tys[ty]
    PROVE  Encodings(tp, tys) \subseteq Encodings(tp2, tys2)
<1> DEFINE E == Encodings(tp, tys)
<1>1. Sound(tp, tys, E)
  BY EncodingsSound
<1>2. ASSUME NEW p, NEW v, NEW q, <<p, v, q>> \in E
      PROVE  Codes(tp2, tys2, E, p, v, q)
  <2>1. Codes(tp, tys, E, p, v, q)
    BY <1>1, <1>2 DEF Sound
  <2> HIDE DEF E
  <2> QED
    BY <2>1, CodesMonotone
<1>3. Sound(tp2, tys2, E)
  <2> HIDE DEF E
  <2> QED
    BY <1>1, <1>2 DEF Sound
<1>4. E \in SUBSET Triples
  BY <1>1 DEF Sound
<1> QED
  BY <1>3, <1>4 DEF Encodings

----------------------------------------------------------------------------
(* The writer.                                                             *)

\* A shorthand points back at a type.
ShorthandsPoint(tp) ==
    \A p \in DOMAIN tp :
        tp[p].tag = "shorthand" => tp[p].at \in DOMAIN tp /\ tp[p].at < p /\ tp[tp[p].at].tag = "type"

\* What is remembered of a type is where it is, and of no two types the same.
Remembers(tp, tys) ==
    /\ \A ty \in DOMAIN tys :
          /\ ty \in Types /\ tys[ty] \in DOMAIN tp /\ tp[tys[ty]] = TypeCell(ty)
          /\ \E q \in Nat : q <= Len(tp) + 1 /\ <<tys[ty], ty, q>> \in Encodings(tp, tys)
    /\ \A t1, t2 \in DOMAIN tys : tys[t1] = tys[t2] => t1 = t2

\* A shorthand points at what was written before it to its end.
ShorthandsFollow(tp, tys) ==
    \A p \in DOMAIN tp :
        tp[p].tag = "shorthand" =>
            \E ty \in DOMAIN tys, q \in Nat :
                tys[ty] = tp[p].at /\ q <= p /\ <<tys[ty], ty, q>> \in Encodings(tp, tys)

\* The call at place j of the stack.
CallOK(tp, b, f, j) ==
    /\ f = Encoding(f.ty, f.args, f.at, f.k)
    /\ IsSeq(f.args) /\ f.k \in 0..Len(f.args)
    /\ IF j = 1 THEN f.args = b /\ f.at = 0
       ELSE /\ f.ty \in Types /\ f.args = f.ty.args
            /\ f.at \in DOMAIN tp /\ tp[f.at] = TypeCell(f.ty)

\* The type of a call that is under way is not yet remembered.
NotYet(tys, f) == \A ty \in DOMAIN tys : tys[ty] # f.at

\* A call whose last argument is being written by the next one.
Suspended(E, f, g) ==
    /\ f.k >= 1 /\ f.args[f.k] = g.ty
    /\ Leads(E, f.args, 1, f.k, f.at + 1, g.at)

\* A call whose arguments so far are written.
Active(E, f, q) == Leads(E, f.args, 1, f.k + 1, f.at + 1, q)

WriterInv(tp, tys, b, w) ==
    /\ IsSeq(tp) /\ b \in Bodies
    /\ ShorthandsPoint(tp) /\ Remembers(tp, tys) /\ ShorthandsFollow(tp, tys)
    /\ IsSeq(w) /\ Len(w) >= 1
    /\ \A j \in 1..Len(w) : CallOK(tp, b, w[j], j) /\ NotYet(tys, w[j])
    /\ \A j \in 1..(Len(w) - 1) : Suspended(Encodings(tp, tys), w[j], w[j + 1])
    /\ \A i, j \in 1..Len(w) : i < j => w[i].at < w[j].at
    /\ Active(Encodings(tp, tys), w[Len(w)], Len(tp) + 1)

\* The arguments of a body and of a type are spans and types.
LEMMA ArgumentsAreItems ==
    /\ \A b \in Bodies : b \in Seq(Items)
    /\ \A ty \in Types : ty.args \in Seq(Types) /\ ty.args \in Seq(Items) /\ ty.kind = "type"
    /\ \A s \in Spans : s.kind = "span"
    /\ \A s : IsSeq(s) => DOMAIN s = 1..Len(s)
<1>1. \A s \in Spans : s.kind = "span"
  BY SpansAssumption DEF SpansAssumption, Span
<1>2. \A ty \in Types : ty.args \in Seq(Types) /\ ty.kind = "type"
  BY TypesAssumption DEF TypesAssumption
<1>3. ASSUME NEW S, NEW s \in Seq(S) PROVE s \in Seq(Spans \union S) /\ s \in Seq(S \union Spans)
  BY <1>3
<1>4. \A ty \in Types : ty.args \in Seq(Items)
  BY <1>2, <1>3 DEF Items
<1> QED
  BY <1>1, <1>2, <1>4, BodiesAssumption DEF BodiesAssumption, Items, IsSeq

\* The file with one more cell.
Lengthened(tp, tys, b, w, c, tp2) ==
    /\ IsSeq(tp2) /\ Len(tp2) = Len(tp) + 1 /\ tp2[Len(tp) + 1] = c /\ Len(tp) \in Nat
    /\ DOMAIN tp = 1..Len(tp) /\ DOMAIN tp2 = 1..(Len(tp) + 1)
    /\ Encodings(tp, tys) \subseteq Encodings(tp2, tys)
    /\ ShorthandsPoint(tp2) /\ Remembers(tp2, tys) /\ ShorthandsFollow(tp2, tys)
    /\ \A j \in 1..Len(w) : CallOK(tp2, b, w[j], j)
    /\ \A j \in 1..(Len(w) - 1) : Suspended(Encodings(tp2, tys), w[j], w[j + 1])
    /\ Active(Encodings(tp2, tys), w[Len(w)], Len(tp) + 1)

\* One more cell at the end changes nothing of what there was.
LEMMA CellAppended ==
    ASSUME NEW tp, NEW tys, NEW b, NEW w, WriterInv(tp, tys, b, w), NEW c,
           c.tag = "shorthand" => \E ty \in DOMAIN tys : c.at = tys[ty],
           NEW tp2, tp2 = Append(tp, c)
    PROVE  Lengthened(tp, tys, b, w, c, tp2)
<1>1. /\ IsSeq(tp2) /\ Len(tp2) = Len(tp) + 1 /\ tp2[Len(tp) + 1] = c
      /\ Len(tp) \in Nat /\ DOMAIN tp = 1..Len(tp)
      /\ \A p \in DOMAIN tp : tp2[p] = tp[p]
  BY AppendFacts DEF WriterInv, IsSeq
<1>2. DOMAIN tp2 = 1..(Len(tp) + 1)
  BY <1>1 DEF IsSeq
<1>3. \A p \in DOMAIN tp : p \in DOMAIN tp2 /\ tp2[p] = tp[p]
  BY <1>1, <1>2
<1>4. Encodings(tp, tys) \subseteq Encodings(tp2, tys)
  BY <1>3, EncodingsGrow
<1>5. ShorthandsPoint(tp2)
  <2>1. ASSUME c.tag = "shorthand" PROVE c.at \in DOMAIN tp /\ tp[c.at].tag = "type"
    <3>1. PICK ty \in DOMAIN tys : c.at = tys[ty]
      BY <2>1
    <3>2. tys[ty] \in DOMAIN tp /\ tp[tys[ty]] = TypeCell(ty)
      BY DEF WriterInv, Remembers
    <3>3. TypeCell(ty).tag = "type"
      BY DEF TypeCell
    <3> QED
      BY <3>1, <3>2, <3>3
  <2> QED
    BY <1>1, <1>2, <1>3, <2>1 DEF ShorthandsPoint, WriterInv
<1>6. Remembers(tp2, tys) /\ ShorthandsFollow(tp2, tys)
  <2>1. \A q \in Nat : q <= Len(tp) + 1 => q <= Len(tp2) + 1
    BY <1>1
  <2>2. Remembers(tp2, tys)
    BY <1>3, <1>4, <2>1 DEF Remembers, WriterInv
  <2>3. ASSUME NEW p \in DOMAIN tp2, tp2[p].tag = "shorthand"
        PROVE  \E ty \in DOMAIN tys, q \in Nat :
                  tys[ty] = tp2[p].at /\ q <= p /\ <<tys[ty], ty, q>> \in Encodings(tp2, tys)
    <3>1. CASE p \in DOMAIN tp
      BY <1>3, <1>4, <2>3, <3>1 DEF ShorthandsFollow, WriterInv
    <3>2. CASE p = Len(tp) + 1
      <4>1. PICK ty \in DOMAIN tys : c.at = tys[ty]
        BY <1>1, <2>3, <3>2
      <4>2. PICK q \in Nat : q <= Len(tp) + 1 /\ <<tys[ty], ty, q>> \in Encodings(tp, tys)
        BY <4>1 DEF WriterInv, Remembers
      <4> QED
        BY <1>1, <1>4, <3>2, <4>1, <4>2
    <3>3. \A k \in 1..(Len(tp) + 1) : k \in 1..Len(tp) \/ k = Len(tp) + 1
      BY <1>1
    <3> QED
      BY <1>1, <1>2, <3>1, <3>2, <3>3
  <2> QED
    BY <2>2, <2>3 DEF ShorthandsFollow
<1>7. \A j \in 1..Len(w) : CallOK(tp2, b, w[j], j)
  BY <1>3 DEF CallOK, WriterInv
<1>8. \A j \in 1..(Len(w) - 1) : Suspended(Encodings(tp2, tys), w[j], w[j + 1])
  BY <1>4, LeadsMonotone DEF Suspended, WriterInv
<1>9. Active(Encodings(tp2, tys), w[Len(w)], Len(tp) + 1)
  BY <1>4, LeadsMonotone DEF Active, WriterInv
<1> QED
  BY <1>1, <1>2, <1>4, <1>5, <1>6, <1>7, <1>8, <1>9 DEF Lengthened

\* The writer's stack when it has begun one more argument.
BegunOf(w) == [w EXCEPT ![Len(w)] = Encoding(@.ty, @.args, @.at, @.k + 1)]

\* w2 is w but for the number of arguments its last call has begun.
IsBegun(tp, b, w, w2) ==
    /\ IsSeq(w2) /\ Len(w2) = Len(w)
    /\ \A j \in 1..(Len(w) - 1) : w2[j] = w[j]
    /\ w2[Len(w)].ty = w[Len(w)].ty /\ w2[Len(w)].args = w[Len(w)].args
    /\ w2[Len(w)].at = w[Len(w)].at /\ w2[Len(w)].k = w[Len(w)].k + 1
    /\ w[Len(w)].k \in Nat
    /\ \A j \in 1..Len(w) : CallOK(tp, b, w2[j], j) /\ w2[j].at = w[j].at

\* Only that number differs.
LEMMA BegunFacts ==
    ASSUME NEW tp, NEW b, NEW w, IsSeq(w), Len(w) >= 1,
           \A j \in 1..Len(w) : CallOK(tp, b, w[j], j),
           w[Len(w)].k < Len(w[Len(w)].args),
           NEW w2, w2 = BegunOf(w)
    PROVE  IsBegun(tp, b, w, w2)
<1> DEFINE n == Len(w)
           f == w[n]
<1>1. n \in Nat /\ n \in 1..n /\ w = [j \in 1..n |-> w[j]] /\ DOMAIN w = 1..n
  BY DEF IsSeq
<1>2. w2 = [j \in 1..n |-> IF j = n THEN Encoding(f.ty, f.args, f.at, f.k + 1) ELSE w[j]]
  BY <1>1 DEF BegunOf
<1>3. w2 = [j \in 1..n |-> w2[j]]
  BY <1>2
<1>4. IsSeq(w2) /\ Len(w2) = n
  BY <1>1, <1>3, FunctionIsSeq
<1>5. w2[n] = Encoding(f.ty, f.args, f.at, f.k + 1) /\ \A j \in 1..(n - 1) : w2[j] = w[j]
  BY <1>1, <1>2
<1>6. /\ w2[n].ty = f.ty /\ w2[n].args = f.args /\ w2[n].at = f.at /\ w2[n].k = f.k + 1
      /\ w2[n] = Encoding(w2[n].ty, w2[n].args, w2[n].at, w2[n].k)
  BY <1>5 DEF Encoding
<1>7. CallOK(tp, b, f, n) /\ f.k \in Nat /\ Len(f.args) \in Nat
  BY <1>1 DEF CallOK, IsSeq
<1>8. CallOK(tp, b, w2[n], n)
  <2>1. f.k + 1 \in 0..Len(f.args)
    BY <1>7
  <2> HIDE DEF n, f
  <2> QED
    BY <1>6, <1>7, <2>1 DEF CallOK
<1>9. \A j \in 1..n : j = n \/ j \in 1..(n - 1)
  BY <1>1
<1> QED
  BY <1>4, <1>5, <1>6, <1>7, <1>8, <1>9 DEF IsBegun

SuspendedBelow(E, w, n) == \A j \in 1..(n - 1) : Suspended(E, w[j], w[j + 1])

\* A call that began one more argument is where it was for those below.
LEMMA StillSuspended ==
    ASSUME NEW E, NEW n \in Nat, NEW w, NEW w2, SuspendedBelow(E, w, n),
           \A j \in 1..(n - 1) : w2[j] = w[j],
           w2[n].ty = w[n].ty, w2[n].at = w[n].at
    PROVE  SuspendedBelow(E, w2, n)
<1> SUFFICES ASSUME NEW j \in 1..(n - 1) PROVE Suspended(E, w2[j], w2[j + 1])
  BY DEF SuspendedBelow
<1>1. Suspended(E, w[j], w[j + 1]) /\ w2[j] = w[j] /\ (j + 1 = n \/ j + 1 \in 1..(n - 1))
  BY DEF SuspendedBelow
<1>2. w2[j + 1].at = w[j + 1].at /\ w2[j + 1].ty = w[j + 1].ty
  BY <1>1
<1> QED
  BY <1>1, <1>2 DEF Suspended

\* A value in one cell is written.
LEMMA LeafWritten ==
    ASSUME NEW tp, NEW tys, NEW b, NEW w, WriterInv(tp, tys, b, w), NEW c,
           c.tag = "shorthand" => \E ty \in DOMAIN tys : c.at = tys[ty],
           w[Len(w)].k < Len(w[Len(w)].args),
           NEW v, v = w[Len(w)].args[w[Len(w)].k + 1],
           \/ v \in Spans /\ c = SpanCell(v)
           \/ v \in Types /\ v \in DOMAIN tys /\ c = ShorthandCell(tys[v]),
           NEW tp2, tp2 = Append(tp, c), NEW w2, w2 = BegunOf(w)
    PROVE  WriterInv(tp2, tys, b, w2)
<1> DEFINE n == Len(w)
           f == w[n]
           E == Encodings(tp2, tys)
<1>1. Lengthened(tp, tys, b, w, c, tp2)
  BY CellAppended
<1>2. /\ IsSeq(tp2) /\ Len(tp2) = Len(tp) + 1 /\ tp2[Len(tp) + 1] = c /\ Len(tp) \in Nat
      /\ DOMAIN tp2 = 1..(Len(tp) + 1)
  BY <1>1 DEF Lengthened
<1>3. /\ ShorthandsPoint(tp2) /\ Remembers(tp2, tys) /\ ShorthandsFollow(tp2, tys)
      /\ \A j \in 1..n : CallOK(tp2, b, w[j], j)
  BY <1>1 DEF Lengthened
<1>4. \A j \in 1..(n - 1) : Suspended(E, w[j], w[j + 1])
  BY <1>1 DEF Lengthened
<1>5. Leads(E, f.args, 1, f.k + 1, f.at + 1, Len(tp) + 1)
  BY <1>1 DEF Lengthened, Active
<1>6. IsSeq(w) /\ n \in Nat /\ n >= 1 /\ b \in Bodies
  BY DEF WriterInv, IsSeq
<1>7. \A j \in 1..n : NotYet(tys, w[j])
  BY DEF WriterInv
<1>8. \A i, j \in 1..n : i < j => w[i].at < w[j].at
  BY DEF WriterInv
<1>9. IsBegun(tp2, b, w, w2)
  BY <1>3, <1>6, BegunFacts
<1>10. /\ IsSeq(w2) /\ Len(w2) = n /\ \A j \in 1..(n - 1) : w2[j] = w[j]
       /\ w2[n].ty = f.ty /\ w2[n].at = f.at
  BY <1>9 DEF IsBegun
<1>11. w2[n].args = f.args /\ w2[n].k = f.k + 1 /\ f.k \in Nat
  BY <1>9 DEF IsBegun
<1>12. \A j \in 1..n : CallOK(tp2, b, w2[j], j) /\ w2[j].at = w[j].at
  BY <1>9 DEF IsBegun
<1>13. <<Len(tp) + 1, v, Len(tp) + 2>> \in E
  <2>1. /\ Len(tp) + 1 \in DOMAIN tp2 /\ v \in Items
        /\ Len(tp) + 2 = (Len(tp) + 1) + 1 /\ Len(tp) + 1 < Len(tp) + 2
    BY <1>2 DEF Items
  <2>2. Codes(tp2, tys, E, Len(tp) + 1, v, Len(tp) + 2)
    BY <1>2, <2>1 DEF Codes
  <2> QED
    BY <1>2, <2>1, <2>2, EncodingsComplete
<1> HIDE DEF E
<1>14. Active(E, w2[n], Len(tp2) + 1)
  <2>1. Leads(E, f.args, 1, (f.k + 1) + 1, f.at + 1, Len(tp) + 2)
    <3>1. Len(tp) + 1 < Len(tp) + 2
      BY <1>2
    <3> QED
      BY <1>2, <1>5, <1>11, <1>13, <3>1, LeadsMore
  <2>2. Len(tp2) + 1 = Len(tp) + 2
    BY <1>2
  <2> QED
    BY <1>10, <1>11, <2>1, <2>2 DEF Active
<1>15. \A j \in 1..(n - 1) : Suspended(E, w2[j], w2[j + 1])
  <2>1. SuspendedBelow(E, w, n)
    BY <1>4 DEF SuspendedBelow
  <2>2. SuspendedBelow(E, w2, n)
    BY <1>6, <1>10, <2>1, StillSuspended
  <2> QED
    BY <2>2 DEF SuspendedBelow
<1>16. \A j \in 1..n : NotYet(tys, w2[j])
  BY <1>7, <1>12 DEF NotYet
<1>17. \A i, j \in 1..n : i < j => w2[i].at < w2[j].at
  BY <1>8, <1>12
<1> QED
  BY <1>2, <1>3, <1>6, <1>10, <1>12, <1>14, <1>15, <1>16, <1>17 DEF WriterInv, E

\* The writer's stack with a call for a type.
BegunHead(tp, w, v) == Append(BegunOf(w), Encoding(v, v.args, Len(tp) + 1, 0))

\* The head of a type is written.
LEMMA HeadWritten ==
    ASSUME NEW tp, NEW tys, NEW b, NEW w, WriterInv(tp, tys, b, w),
           w[Len(w)].k < Len(w[Len(w)].args),
           NEW v \in Types, v = w[Len(w)].args[w[Len(w)].k + 1],
           NEW tp2, tp2 = Append(tp, TypeCell(v)),
           NEW w2, w2 = BegunHead(tp, w, v)
    PROVE  WriterInv(tp2, tys, b, w2)
<1> DEFINE n == Len(w)
           f == w[n]
           c == TypeCell(v)
           g == Encoding(v, v.args, Len(tp) + 1, 0)
           E == Encodings(tp2, tys)
           u == BegunOf(w)
<1>1. Lengthened(tp, tys, b, w, c, tp2)
  <2>1. c.tag # "shorthand"
    BY DEF TypeCell
  <2> HIDE DEF c
  <2> QED
    BY <2>1, CellAppended DEF c
<1>2. /\ IsSeq(tp2) /\ Len(tp2) = Len(tp) + 1 /\ tp2[Len(tp) + 1] = c /\ Len(tp) \in Nat
      /\ DOMAIN tp = 1..Len(tp) /\ DOMAIN tp2 = 1..(Len(tp) + 1)
  BY <1>1 DEF Lengthened
<1>3. /\ ShorthandsPoint(tp2) /\ Remembers(tp2, tys) /\ ShorthandsFollow(tp2, tys)
      /\ \A j \in 1..n : CallOK(tp2, b, w[j], j)
  BY <1>1 DEF Lengthened
<1>4. \A j \in 1..(n - 1) : Suspended(E, w[j], w[j + 1])
  BY <1>1 DEF Lengthened
<1>5. Leads(E, f.args, 1, f.k + 1, f.at + 1, Len(tp) + 1)
  BY <1>1 DEF Lengthened, Active
<1>6. IsSeq(w) /\ n \in Nat /\ n >= 1 /\ b \in Bodies
  BY DEF WriterInv, IsSeq
<1>7. \A j \in 1..n : NotYet(tys, w[j])
  BY DEF WriterInv
<1>8. \A i, j \in 1..n : i < j => w[i].at < w[j].at
  BY DEF WriterInv
<1>9. IsBegun(tp2, b, w, u)
  BY <1>3, <1>6, BegunFacts
<1> HIDE DEF u
<1>10. /\ IsSeq(u) /\ Len(u) = n /\ \A j \in 1..(n - 1) : u[j] = w[j]
       /\ u[n].ty = f.ty /\ u[n].at = f.at
  BY <1>9 DEF IsBegun
<1>11. u[n].args = f.args /\ u[n].k = f.k + 1 /\ f.k \in Nat
  BY <1>9 DEF IsBegun
<1>12. \A j \in 1..n : CallOK(tp2, b, u[j], j) /\ u[j].at = w[j].at
  BY <1>9 DEF IsBegun
<1>13. /\ g.ty = v /\ g.args = v.args /\ g.at = Len(tp) + 1 /\ g.k = 0
       /\ g = Encoding(g.ty, g.args, g.at, g.k)
  BY DEF Encoding
<1> HIDE DEF g
<1>14. /\ IsSeq(w2) /\ Len(w2) = n + 1 /\ w2[n + 1] = g
       /\ \A j \in 1..n : w2[j] = u[j]
  <2>1. w2 = Append(u, g) /\ DOMAIN u = 1..n
    BY <1>10 DEF u, g, IsSeq, BegunHead
  <2> HIDE DEF n
  <2> QED
    BY <1>10, <2>1, AppendFacts
<1>15. \A j \in 1..(n + 1) : j \in 1..n \/ j = n + 1
  BY <1>6
<1>16. CallOK(tp2, b, g, n + 1)
  <2>1. v.args \in Seq(Types)
    BY ArgumentsAreItems
  <2>2. IsSeq(v.args) /\ 0 \in 0..Len(v.args)
    BY <2>1, SeqIsSeq
  <2>3. n + 1 # 1 /\ Len(tp) + 1 \in DOMAIN tp2
    BY <1>2, <1>6
  <2> HIDE DEF n
  <2> QED
    BY <1>2, <1>13, <2>2, <2>3 DEF CallOK
<1>17. \A j \in 1..(n + 1) : CallOK(tp2, b, w2[j], j)
  BY <1>12, <1>14, <1>15, <1>16
<1>18. \A j \in 1..n : w2[j].at = w[j].at /\ w2[j].at \in Nat /\ w2[j].at <= Len(tp)
  <2> SUFFICES ASSUME NEW j \in 1..n
               PROVE  w2[j].at = w[j].at /\ w2[j].at \in Nat /\ w2[j].at <= Len(tp)
    OBVIOUS
  <2>1. w2[j].at = w[j].at
    BY <1>12, <1>14
  <2>2. CallOK(tp, b, w[j], j)
    BY DEF WriterInv
  <2>3. w[j].at = 0 \/ w[j].at \in 1..Len(tp)
    BY <1>2, <2>2 DEF CallOK
  <2> QED
    BY <1>2, <2>1, <2>3
<1>19. \A j \in 1..(n + 1) : NotYet(tys, w2[j])
  <2>1. \A j \in 1..n : NotYet(tys, w2[j])
    BY <1>7, <1>18 DEF NotYet
  <2>2. \A ty \in DOMAIN tys : tys[ty] \in 1..Len(tp)
    BY <1>2 DEF Remembers, WriterInv
  <2>3. w2[n + 1].at \notin 1..Len(tp)
    <3>1. \A l \in Nat : l + 1 \notin 1..l
      OBVIOUS
    <3> QED
      BY <1>2, <1>13, <1>14, <3>1
  <2>4. NotYet(tys, w2[n + 1])
    BY <2>2, <2>3 DEF NotYet
  <2> QED
    BY <1>15, <2>1, <2>4
<1>20. \A i, j \in 1..(n + 1) : i < j => w2[i].at < w2[j].at
  <2> SUFFICES ASSUME NEW i \in 1..(n + 1), NEW j \in 1..(n + 1), i < j PROVE w2[i].at < w2[j].at
    OBVIOUS
  <2>1. i \in 1..n
    BY <1>6
  <2>2. CASE j \in 1..n
    BY <2>1, <2>2, <1>8, <1>18
  <2>3. CASE j = n + 1
    <3>1. w2[j].at = Len(tp) + 1
      BY <2>3, <1>13, <1>14
    <3>2. \A l, x \in Nat : x <= l => x < l + 1
      OBVIOUS
    <3>3. w2[i].at \in Nat /\ w2[i].at <= Len(tp)
      BY <2>1, <1>18
    <3> QED
      BY <3>1, <3>2, <3>3, <1>2
  <2> QED
    BY <1>15, <2>2, <2>3
<1> HIDE DEF E
<1>21. \A j \in 1..n : Suspended(E, w2[j], w2[j + 1])
  <2>1. SuspendedBelow(E, w, n)
    BY <1>4 DEF SuspendedBelow
  <2>2. SuspendedBelow(E, u, n)
    BY <1>6, <1>10, <2>1, StillSuspended
  <2>3. \A j \in 1..(n - 1) : w2[j] = u[j] /\ w2[j + 1] = u[j + 1]
    BY <1>6, <1>14
  <2>4. Suspended(E, w2[n], w2[n + 1])
    <3>1. w2[n] = u[n] /\ f.k + 1 >= 1
      BY <1>6, <1>11, <1>14
    <3> HIDE DEF n, f
    <3>2. f.args[f.k + 1] = v
      BY DEF n, f
    <3> QED
      BY <1>5, <1>10, <1>11, <1>13, <1>14, <3>1, <3>2 DEF Suspended
  <2>5. \A j \in 1..n : j \in 1..(n - 1) \/ j = n
    BY <1>6
  <2> QED
    BY <2>2, <2>3, <2>4, <2>5 DEF SuspendedBelow
<1>22. Active(E, g, Len(tp2) + 1)
  <2>1. Leads(E, v.args, 1, 1, Len(tp) + 2, Len(tp) + 2)
    BY <1>2, LeadsNowhere
  <2>2. Len(tp2) + 1 = Len(tp) + 2 /\ g.at + 1 = Len(tp) + 2 /\ g.k + 1 = 1
    <3>1. \A l \in Nat : (l + 1) + 1 = l + 2
      OBVIOUS
    <3>2. Len(tp) \in Nat /\ Len(tp2) = Len(tp) + 1
      BY <1>2
    <3>3. g.at = Len(tp) + 1 /\ g.k = 0
      BY <1>13
    <3> QED
      BY <3>1, <3>2, <3>3
  <2> QED
    BY <1>13, <2>1, <2>2 DEF Active
<1>23. Len(w2) >= 1 /\ (n + 1) - 1 = n
  BY <1>6, <1>14
<1> HIDE DEF n
<1> QED
  BY <1>2, <1>3, <1>6, <1>14, <1>17, <1>19, <1>20, <1>21, <1>22, <1>23 DEF WriterInv, E

\* A type is remembered, or is not, and the call for it returns.
LEMMA TypeEnded ==
    ASSUME NEW tp, NEW tys, NEW b, NEW w, WriterInv(tp, tys, b, w), Len(w) > 1,
           w[Len(w)].k = Len(w[Len(w)].args),
           NEW tys2, tys2 \in {tys, Entered(tys, w[Len(w)].ty, w[Len(w)].at)},
           NEW w2, w2 = Front(w)
    PROVE  WriterInv(tp, tys2, b, w2)
<1> DEFINE n == Len(w)
           f == w[n]
           g == w[n - 1]
           E == Encodings(tp, tys)
           E2 == Encodings(tp, tys2)
<1>1. /\ IsSeq(w) /\ n \in Nat /\ n > 1 /\ IsSeq(tp) /\ b \in Bodies
      /\ \A j \in 1..n : CallOK(tp, b, w[j], j) /\ NotYet(tys, w[j])
      /\ \A j \in 1..(n - 1) : Suspended(E, w[j], w[j + 1])
      /\ \A i, j \in 1..n : i < j => w[i].at < w[j].at
      /\ Active(E, f, Len(tp) + 1)
      /\ ShorthandsPoint(tp) /\ Remembers(tp, tys) /\ ShorthandsFollow(tp, tys)
  BY DEF WriterInv, IsSeq
<1>2. n \in 1..n /\ n - 1 \in 1..n /\ n - 1 \in 1..(n - 1) /\ n - 1 < n /\ (n - 1) + 1 = n /\ n # 1
  BY <1>1
<1>3. /\ f.ty \in Types /\ f.args = f.ty.args /\ f.at \in DOMAIN tp /\ tp[f.at] = TypeCell(f.ty)
      /\ NotYet(tys, f)
  BY <1>1, <1>2 DEF CallOK
<1>4. Len(tp) \in Nat /\ DOMAIN tp = 1..Len(tp)
  BY <1>1 DEF IsSeq
<1>5. <<f.at, f.ty, Len(tp) + 1>> \in E
  <2>1. Leads(E, f.args, 1, Len(f.args) + 1, f.at + 1, Len(tp) + 1)
    BY <1>1 DEF Active
  <2>2. Codes(tp, tys, E, f.at, f.ty, Len(tp) + 1)
    BY <1>3, <2>1 DEF Codes
  <2>3. f.at \in Nat /\ f.ty \in Items /\ Len(tp) + 1 \in Nat /\ f.at < Len(tp) + 1
    BY <1>3, <1>4 DEF Items
  <2> QED
    BY <2>2, <2>3, EncodingsComplete
<1>6. /\ \A ty \in DOMAIN tys : ty \in DOMAIN tys2 /\ tys2[ty] = tys[ty]
      /\ \A ty \in DOMAIN tys2 : ty \in DOMAIN tys \/ (ty = f.ty /\ tys2[ty] = f.at)
  BY DEF Entered
<1>7. E \subseteq E2
  BY <1>6, EncodingsGrow
<1>8. Remembers(tp, tys2)
  <2>1. ASSUME NEW ty \in DOMAIN tys2
        PROVE  /\ ty \in Types /\ tys2[ty] \in DOMAIN tp /\ tp[tys2[ty]] = TypeCell(ty)
               /\ \E q \in Nat : q <= Len(tp) + 1 /\ <<tys2[ty], ty, q>> \in E2
    <3>1. CASE ty \in DOMAIN tys
      BY <3>1, <1>1, <1>6, <1>7 DEF Remembers
    <3>2. CASE ty = f.ty /\ tys2[ty] = f.at
      <4> HIDE DEF f, E, E2
      <4>1. <<f.at, f.ty, Len(tp) + 1>> \in E2 /\ Len(tp) + 1 \in Nat /\ Len(tp) + 1 <= Len(tp) + 1
        BY <1>4, <1>5, <1>7
      <4> QED
        BY <3>2, <4>1, <1>3
    <3> QED
      BY <3>1, <3>2, <1>6
  <2>2. ASSUME NEW t1 \in DOMAIN tys2, NEW t2 \in DOMAIN tys2, tys2[t1] = tys2[t2]
        PROVE  t1 = t2
    <3>1. \A ty \in DOMAIN tys : tys[ty] # f.at
      BY <1>3 DEF NotYet
    <3>2. \A s1, s2 \in DOMAIN tys : tys[s1] = tys[s2] => s1 = s2
      BY <1>1 DEF Remembers
    <3> HIDE DEF f
    <3> QED
      BY <2>2, <3>1, <3>2, <1>6
  <2> QED
    BY <2>1, <2>2 DEF Remembers
<1>9. /\ IsSeq(w2) /\ Len(w2) = n - 1 /\ \A j \in 1..(n - 1) : w2[j] = w[j]
  <2>1. w \in Seq({w[j] : j \in DOMAIN w})
    BY <1>1, SeqOverElements
  <2>2. w2 \in Seq({w[j] : j \in DOMAIN w}) /\ Len(w2) = n - 1 /\ \A j \in 1..(n - 1) : w2[j] = w[j]
    BY <1>1, <2>1 DEF Front
  <2> QED
    BY <2>2, SeqIsSeq
<1>10. \A j \in 1..(n - 1) : CallOK(tp, b, w2[j], j) /\ NotYet(tys2, w2[j])
  <2> SUFFICES ASSUME NEW j \in 1..(n - 1) PROVE CallOK(tp, b, w2[j], j) /\ NotYet(tys2, w2[j])
    OBVIOUS
  <2>1. j \in 1..n /\ j < n /\ w2[j] = w[j]
    BY <1>1, <1>9
  <2>2. CallOK(tp, b, w[j], j) /\ NotYet(tys, w[j]) /\ w[j].at < f.at
    BY <1>1, <1>2, <2>1
  <2>3. w[j].at \in Nat /\ f.at \in Nat
    BY <1>3, <1>4, <2>2 DEF CallOK
  <2>4. w[j].at # f.at
    BY <2>2, <2>3
  <2>5. NotYet(tys2, w[j])
    BY <1>6, <2>2, <2>4 DEF NotYet
  <2> QED
    BY <2>1, <2>2, <2>5
<1>11. \A i, j \in 1..(n - 1) : i < j => w2[i].at < w2[j].at
  BY <1>1, <1>9
<1>12. \A j \in 1..((n - 1) - 1) : Suspended(E2, w2[j], w2[j + 1])
  <2> SUFFICES ASSUME NEW j \in 1..((n - 1) - 1) PROVE Suspended(E2, w2[j], w2[j + 1])
    OBVIOUS
  <2>1. j \in 1..(n - 1) /\ j + 1 \in 1..(n - 1) /\ w2[j] = w[j] /\ w2[j + 1] = w[j + 1]
    BY <1>1, <1>9
  <2>2. Suspended(E, w[j], w[j + 1])
    BY <1>1, <2>1
  <2> HIDE DEF E, E2
  <2> QED
    BY <1>7, <2>1, <2>2, LeadsMonotone DEF Suspended
<1> HIDE DEF E, E2
<1>13. Active(E2, w2[n - 1], Len(tp) + 1)
  <2>1. Suspended(E, g, f) /\ CallOK(tp, b, g, n - 1) /\ w2[n - 1] = g
    BY <1>1, <1>2, <1>9
  <2>2. /\ g.k \in Nat /\ g.k >= 1 /\ g.args[g.k] = f.ty
        /\ Leads(E, g.args, 1, g.k, g.at + 1, f.at)
    BY <2>1 DEF Suspended, CallOK, IsSeq
  <2>3. Leads(E, g.args, 1, g.k + 1, g.at + 1, Len(tp) + 1)
    <3>1. f.at < Len(tp) + 1 /\ Len(tp) + 1 \in Nat
      BY <1>3, <1>4
    <3> HIDE DEF f, g
    <3> QED
      BY <1>5, <2>2, <3>1, LeadsMore
  <2>4. Leads(E2, g.args, 1, g.k + 1, g.at + 1, Len(tp) + 1)
    BY <1>7, <2>3, LeadsMonotone
  <2> QED
    BY <2>1, <2>4 DEF Active
<1>14. ShorthandsFollow(tp, tys2)
  BY <1>1, <1>6, <1>7 DEF ShorthandsFollow, E, E2
<1> QED
  BY <1>1, <1>2, <1>8, <1>9, <1>10, <1>11, <1>12, <1>13, <1>14 DEF WriterInv, E, E2

----------------------------------------------------------------------------
(* The calls of the reader.  Each call f has something it is there for, g: *)
(* the type g.ty, for which it is to be given the values g.args, the last  *)
(* of them ending at g.end; the caller goes on at g.next.                  *)

\* The call at place j of the stack.
Serves(tp, tys, b, f, g, j) ==
    /\ f = Decoding(f.tag, f.con, f.at, f.arity, f.args)
    /\ IsSeq(f.args) /\ IsSeq(g.args) /\ f.arity = Len(g.args) /\ Len(f.args) <= Len(g.args)
    /\ IF j = 1 THEN f.tag = "body" /\ g.args = b /\ g.end = Len(tp) + 1
       ELSE /\ g.ty \in Types
            /\ \A k \in 1..Len(f.args) : f.args[k] = g.args[k]
            /\ \/ /\ f.tag = "type" /\ f.con = g.ty.con
                  /\ g.args = g.ty.args /\ g.next = g.end
               \/ /\ f.tag = "shorthand" /\ g.args = <<g.ty>>
                  /\ g.ty \in DOMAIN tys /\ f.at \in DOMAIN tp
                  /\ tp[f.at] = ShorthandCell(tys[g.ty]) /\ g.next = f.at + 1

\* The call is to be given v, after which the next value is at q.
Awaits(E, f, g, v, q) ==
    /\ v \in Items /\ q \in Nat
    /\ Len(f.args) < Len(g.args) /\ g.args[Len(f.args) + 1] = v
    /\ Leads(E, g.args, Len(f.args) + 2, Len(g.args) + 1, q, g.end)

\* What the call is still to be given begins at p.
GoesOn(E, f, g, p) ==
    p \in Nat /\ Leads(E, g.args, Len(f.args) + 1, Len(g.args) + 1, p, g.end)

\* What is read where a shorthand points ends before the shorthand.
Before(st, G) ==
    \A j, k \in 1..Len(st) :
        j <= k /\ st[j].tag = "shorthand" => st[j].at \in Nat /\ G[k].end <= st[j].at

Calls(tp, tys, b, st, G) ==
    /\ IsSeq(st) /\ Len(st) >= 1
    /\ \A j \in 1..Len(st) : Serves(tp, tys, b, st[j], G[j], j)
    /\ \A j \in 1..(Len(st) - 1) :
          Awaits(Encodings(tp, tys), st[j], G[j], G[j + 1].ty, G[j + 1].next)
    /\ Before(st, G)

Awaiting(tp, tys, b, st, G, v, q) ==
    Calls(tp, tys, b, st, G) /\ Awaits(Encodings(tp, tys), st[Len(st)], G[Len(st)], v, q)

Ready(tp, tys, b, st, G, p) ==
    Calls(tp, tys, b, st, G) /\ GoesOn(Encodings(tp, tys), st[Len(st)], G[Len(st)], p)

\* What a call awaits is within what it reads.
LEMMA AwaitsOn ==
    ASSUME NEW E, NEW f, NEW g, NEW v, NEW q, Awaits(E, f, g, v, q), IsSeq(f.args), IsSeq(g.args)
    PROVE  q \in Nat /\ g.end \in Nat /\ q <= g.end
<1> DEFINE i == Len(f.args) + 2
           j == Len(g.args) + 1
<1>1. i \in Nat /\ j \in Nat /\ i <= j
  BY DEF Awaits, IsSeq
<1>2. Leads(E, g.args, i, j, q, g.end)
  BY DEF Awaits
<1> HIDE DEF i, j
<1> QED
  BY <1>1, <1>2, LeadsOn

\* A call that is not done is given the value at the reader's position next.
LEMMA NextValue ==
    ASSUME NEW tp, NEW tys, NEW b, NEW st, NEW G, NEW p, Ready(tp, tys, b, st, G, p),
           Len(st[Len(st)].args) < st[Len(st)].arity
    PROVE  \E v \in Items, q \in Nat :
              /\ Awaiting(tp, tys, b, st, G, v, q) /\ <<p, v, q>> \in Encodings(tp, tys)
              /\ Len(st) > 1 => v \in Types
<1> DEFINE n == Len(st)
           f == st[n]
           g == G[n]
           E == Encodings(tp, tys)
           i == Len(f.args) + 1
           j == Len(g.args) + 1
<1>1. n \in Nat /\ n >= 1 /\ n \in 1..n
  BY DEF Ready, Calls, IsSeq
<1>2. Serves(tp, tys, b, f, g, n)
  BY <1>1 DEF Ready, Calls
<1>3. IsSeq(f.args) /\ IsSeq(g.args) /\ Len(f.args) \in Nat /\ Len(g.args) \in Nat /\ i < j
  BY <1>2 DEF Serves, IsSeq
<1>4. p \in Nat /\ Leads(E, g.args, i, j, p, g.end)
  BY DEF Ready, GoesOn
<1>5. PICK q \in Nat : <<p, g.args[i], q>> \in E /\ Leads(E, g.args, i + 1, j, q, g.end)
  <2>1. i \in Nat /\ j \in Nat
    BY <1>3
  <2> HIDE DEF E, f, g, i, j
  <2> QED
    BY <1>3, <1>4, <2>1, LeadsFirst
<1>6. g.args[i] \in Items
  BY <1>5, EncodingsSound, TriplesAre DEF Sound
<1>7. ASSUME n > 1 PROVE g.args[i] \in Types
  <2>1. i \in 1..Len(g.args)
    BY <1>3
  <2>2. n # 1
    BY <1>7
  <2>3. CASE g.args = g.ty.args /\ g.ty \in Types
    BY <2>1, <2>3, ArgumentsAreItems
  <2>4. CASE g.args = <<g.ty>> /\ g.ty \in Types
    BY <2>1, <2>4
  <2> HIDE DEF n, f, g, i
  <2> QED
    BY <1>2, <2>2, <2>3, <2>4 DEF Serves
<1>8. Awaits(E, f, g, g.args[i], q)
  <2>1. i + 1 = Len(f.args) + 2 /\ Len(f.args) < Len(g.args)
    BY <1>3
  <2> HIDE DEF E, f, g
  <2> QED
    BY <1>5, <1>6, <2>1 DEF Awaits
<1>9. Awaiting(tp, tys, b, st, G, g.args[i], q)
  BY <1>8 DEF Awaiting, Ready
<1> QED
  BY <1>5, <1>6, <1>7, <1>9

\* When the call is given that value it goes on after it.
LEMMA ValueGiven ==
    ASSUME NEW tp, NEW tys, NEW b, NEW st, NEW G, NEW v, NEW q,
           Awaiting(tp, tys, b, st, G, v, q), NEW x, Len(st) > 1 => x = v
    PROVE  Ready(tp, tys, b, Given(st, x), G, q)
<1> DEFINE n == Len(st)
           f == st[n]
           g == G[n]
           E == Encodings(tp, tys)
           st2 == Given(st, x)
           h == Decoding(f.tag, f.con, f.at, f.arity, Append(f.args, x))
<1>1. /\ IsSeq(st) /\ n \in Nat /\ n >= 1 /\ n \in 1..n
      /\ DOMAIN st = 1..n /\ st = [j \in 1..n |-> st[j]]
  BY DEF Awaiting, Calls, IsSeq
<1>2. st2 = [j \in 1..n |-> IF j = n THEN h ELSE st[j]]
  BY <1>1 DEF Given
<1>3. IsSeq(st2) /\ Len(st2) = n
  <2>1. st2 = [j \in 1..n |-> st2[j]]
    BY <1>2
  <2> HIDE DEF st2, n
  <2> QED
    BY <1>1, <2>1, FunctionIsSeq
<1>4. st2[n] = h /\ \A j \in 1..(n - 1) : st2[j] = st[j] /\ j # n
  BY <1>1, <1>2
<1> HIDE DEF st2
<1>5. /\ h.tag = f.tag /\ h.con = f.con /\ h.at = f.at /\ h.arity = f.arity
      /\ h.args = Append(f.args, x) /\ h = Decoding(h.tag, h.con, h.at, h.arity, h.args)
  BY DEF Decoding
<1> HIDE DEF h
<1>6. \A j \in 1..n : Serves(tp, tys, b, st[j], G[j], j)
  BY DEF Awaiting, Calls
<1>7. Serves(tp, tys, b, f, g, n)
  BY <1>1, <1>6
<1>8. Awaits(E, f, g, v, q)
  BY DEF Awaiting
<1>9. /\ IsSeq(f.args) /\ IsSeq(g.args) /\ Len(f.args) \in Nat /\ Len(g.args) \in Nat
      /\ DOMAIN f.args = 1..Len(f.args) /\ f.arity = Len(g.args)
  BY <1>7 DEF Serves, IsSeq
<1>10. /\ IsSeq(h.args) /\ Len(h.args) = Len(f.args) + 1 /\ h.args[Len(f.args) + 1] = x
       /\ \A k \in 1..Len(f.args) : h.args[k] = f.args[k]
  <2> HIDE DEF f
  <2> QED
    BY <1>5, <1>9, AppendFacts
<1>11. Len(f.args) < Len(g.args) /\ g.args[Len(f.args) + 1] = v /\ q \in Nat
  BY <1>8 DEF Awaits
<1>12. Len(h.args) <= Len(g.args)
  BY <1>9, <1>10, <1>11
<1>13. Serves(tp, tys, b, h, g, n)
  <2>1. ASSUME n # 1 PROVE \A k \in 1..Len(h.args) : h.args[k] = g.args[k]
    <3>1. x = v
      BY <1>1, <2>1
    <3>2. \A k \in 1..Len(f.args) : f.args[k] = g.args[k]
      BY <1>7, <2>1 DEF Serves
    <3>3. \A k \in 1..Len(h.args) : k \in 1..Len(f.args) \/ k = Len(f.args) + 1
      BY <1>9, <1>10
    <3> HIDE DEF f, g
    <3> QED
      BY <1>10, <1>11, <3>1, <3>2, <3>3
  <2> HIDE DEF f, g, n
  <2> QED
    BY <1>5, <1>7, <1>9, <1>10, <1>12, <2>1 DEF Serves
<1>14. GoesOn(E, h, g, q)
  <2>1. Leads(E, g.args, Len(f.args) + 2, Len(g.args) + 1, q, g.end)
    BY <1>8 DEF Awaits
  <2>2. Len(h.args) + 1 = Len(f.args) + 2
    BY <1>9, <1>10
  <2> HIDE DEF E, f, g
  <2> QED
    BY <1>11, <2>1, <2>2 DEF GoesOn
<1>15. \A j \in 1..n : Serves(tp, tys, b, st2[j], G[j], j)
  <2>1. \A j \in 1..n : j = n \/ j \in 1..(n - 1)
    BY <1>1
  <2> QED
    BY <1>4, <1>6, <1>13, <2>1
<1>16. \A j \in 1..(n - 1) : Awaits(E, st2[j], G[j], G[j + 1].ty, G[j + 1].next)
  <2>1. \A j \in 1..(n - 1) : Awaits(E, st[j], G[j], G[j + 1].ty, G[j + 1].next)
    BY DEF Awaiting, Calls
  <2> QED
    BY <1>4, <2>1
<1>17. Before(st2, G)
  <2>1. \A j \in 1..n : j = n \/ j \in 1..(n - 1)
    BY <1>1
  <2>2. \A j \in 1..n : st2[j].tag = st[j].tag /\ st2[j].at = st[j].at
    BY <1>4, <1>5, <2>1
  <2>3. Before(st, G)
    BY DEF Awaiting, Calls
  <2> HIDE DEF f, g
  <2> QED
    BY <1>3, <2>2, <2>3 DEF Before
<1> HIDE DEF n
<1> QED
  BY <1>1, <1>3, <1>4, <1>14, <1>15, <1>16, <1>17 DEF Ready, Calls, st2

\* A call that serves the value awaited may begin.
LEMMA CallBegun ==
    ASSUME NEW tp, NEW tys, NEW b, NEW st, NEW G, NEW v, NEW q,
           Awaiting(tp, tys, b, st, G, v, q),
           NEW f, NEW g, NEW p, Serves(tp, tys, b, f, g, Len(st) + 1),
           g.ty = v, g.next = q, GoesOn(Encodings(tp, tys), f, g, p),
           g.end \in Nat, g.end <= q, f.tag = "shorthand" => f.at \in Nat /\ g.end <= f.at
    PROVE  \E G2 : Ready(tp, tys, b, Append(st, f), G2, p)
<1> DEFINE n == Len(st)
           E == Encodings(tp, tys)
           st2 == Append(st, f)
           G2 == [j \in 1..(n + 1) |-> IF j = n + 1 THEN g ELSE G[j]]
<1>1. IsSeq(st) /\ n \in Nat /\ n >= 1 /\ DOMAIN st = 1..n
  BY DEF Awaiting, Calls, IsSeq
<1>2. IsSeq(st2) /\ Len(st2) = n + 1 /\ st2[n + 1] = f /\ \A j \in 1..n : st2[j] = st[j]
  BY <1>1, AppendFacts
<1>3. G2[n + 1] = g /\ \A j \in 1..n : G2[j] = G[j]
  BY <1>1
<1> HIDE DEF st2, G2
<1>4. \A j \in 1..n : Serves(tp, tys, b, st[j], G[j], j)
  BY DEF Awaiting, Calls
<1>5. \A j \in 1..(n + 1) : Serves(tp, tys, b, st2[j], G2[j], j)
  <2>1. \A j \in 1..(n + 1) : j = n + 1 \/ j \in 1..n
    BY <1>1
  <2> QED
    BY <1>2, <1>3, <1>4, <2>1
<1>6. \A j \in 1..n : Awaits(E, st2[j], G2[j], G2[j + 1].ty, G2[j + 1].next)
  <2>1. \A j \in 1..(n - 1) : Awaits(E, st[j], G[j], G[j + 1].ty, G[j + 1].next)
    BY DEF Awaiting, Calls
  <2>2. Awaits(E, st[n], G[n], v, q)
    BY DEF Awaiting
  <2> HIDE DEF E, n
  <2>3. \A j \in 1..n : j = n \/ (j \in 1..(n - 1) /\ j + 1 \in 1..n)
    BY <1>1
  <2> QED
    BY <1>2, <1>3, <2>1, <2>2, <2>3
<1>7. (n + 1) - 1 = n /\ n + 1 >= 1
  BY <1>1
<1>8. Calls(tp, tys, b, st2, G2)
  <2>1. G[n].end \in Nat /\ q <= G[n].end /\ q \in Nat
    <3>1. Serves(tp, tys, b, st[n], G[n], n) /\ Awaits(E, st[n], G[n], v, q)
      BY <1>1 DEF Awaiting, Calls
    <3> HIDE DEF n, E
    <3> QED
      BY <3>1, AwaitsOn DEF Serves
  <2>2. Before(st, G)
    BY DEF Awaiting, Calls
  <2>3. ASSUME NEW j \in 1..(n + 1), NEW k \in 1..(n + 1), j <= k, st2[j].tag = "shorthand"
        PROVE  st2[j].at \in Nat /\ G2[k].end <= st2[j].at
    <3>1. CASE k \in 1..n
      <4>1. j \in 1..n
        BY <1>1, <2>3, <3>1
      <4> QED
        BY <1>2, <1>3, <2>2, <2>3, <3>1, <4>1 DEF Before
    <3>2. CASE k = n + 1 /\ j = n + 1
      BY <1>2, <1>3, <2>3, <3>2
    <3>3. CASE k = n + 1 /\ j \in 1..n
      <4>1. n \in 1..n /\ j <= n
        BY <1>1, <3>3
      <4>2. st[j].at \in Nat /\ G[n].end <= st[j].at
        BY <1>2, <2>2, <2>3, <3>3, <4>1 DEF Before
      <4>3. g.end <= st[j].at
        BY <2>1, <4>2
      <4> QED
        BY <1>2, <1>3, <3>3, <4>2, <4>3
    <3>4. \A i \in 1..(n + 1) : i = n + 1 \/ i \in 1..n
      BY <1>1
    <3> QED
      BY <3>1, <3>2, <3>3, <3>4
  <2> HIDE DEF n
  <2>4. Before(st2, G2)
    BY <1>2, <2>3 DEF Before
  <2> QED
    BY <1>2, <1>5, <1>6, <1>7, <2>4 DEF Calls
<1> HIDE DEF n
<1>9. Ready(tp, tys, b, st2, G2, p)
  BY <1>2, <1>3, <1>8 DEF Ready
<1> QED
  BY <1>9 DEF st2

\* When a call ends the one below it awaits what the call was there for.
LEMMA CallEnded ==
    ASSUME NEW tp, NEW tys, NEW b, NEW st, NEW G, NEW p, Ready(tp, tys, b, st, G, p), Len(st) > 1
    PROVE  /\ Awaiting(tp, tys, b, Front(st), G, G[Len(st)].ty, G[Len(st)].next)
           /\ Len(Front(st)) = Len(st) - 1 /\ Front(st)[1] = st[1]
<1> DEFINE n == Len(st)
           E == Encodings(tp, tys)
           st2 == Front(st)
<1>1. IsSeq(st) /\ n \in Nat /\ n - 1 >= 1
  BY DEF Ready, Calls, IsSeq
<1>2. IsSeq(st2) /\ Len(st2) = n - 1 /\ \A j \in 1..(n - 1) : st2[j] = st[j]
  <2>1. st \in Seq({st[j] : j \in DOMAIN st})
    BY <1>1, SeqOverElements
  <2>2. st2 \in Seq({st[j] : j \in DOMAIN st}) /\ Len(st2) = n - 1 /\ \A j \in 1..(n - 1) : st2[j] = st[j]
    BY <1>1, <2>1 DEF Front
  <2> QED
    BY <2>2, SeqIsSeq
<1> HIDE DEF st2
<1>3. \A j \in 1..(n - 1) : Serves(tp, tys, b, st2[j], G[j], j)
  BY <1>1, <1>2 DEF Ready, Calls
<1>4. \A j \in 1..(n - 1) : Awaits(E, st2[j], G[j], G[j + 1].ty, G[j + 1].next)
  BY <1>2 DEF Ready, Calls
<1>5. /\ n - 1 \in 1..(n - 1) /\ (n - 1) + 1 = n /\ 1 \in 1..(n - 1)
      /\ \A j \in 1..((n - 1) - 1) : j \in 1..(n - 1)
  BY <1>1
<1> HIDE DEF n, E
<1>6. Awaits(E, st2[n - 1], G[n - 1], G[n].ty, G[n].next)
  BY <1>4, <1>5
<1>7. Calls(tp, tys, b, st2, G)
  <2>1. Before(st, G) /\ Len(st) = n
    BY DEF Ready, Calls, n
  <2>2. \A j \in 1..(n - 1) : j \in 1..n
    BY <1>1
  <2>3. Before(st2, G)
    BY <1>2, <2>1, <2>2 DEF Before
  <2> QED
    BY <1>1, <1>2, <1>3, <1>4, <1>5, <2>3 DEF Calls, E
<1> QED
  BY <1>2, <1>5, <1>6, <1>7 DEF Awaiting, st2, E, n

----------------------------------------------------------------------------
(* Spans and the files they are in.                                        *)

\* The files of a source map follow one another.
Ordered(fs) ==
    /\ IsSeq(fs)
    /\ \A k \in DOMAIN fs : fs[k].start \in Nat /\ fs[k].len \in Nat
    /\ \A j, k \in DOMAIN fs : j < k => End(fs[j]) < fs[k].start

\* The reader's source map has files it may know of.
MapOK(fs) ==
    Ordered(fs) /\ \A k \in DOMAIN fs : \E f \in Known : fs[k] = Starting(f, fs[k].start)

Prolongs(fs2, fs) == \A k \in DOMAIN fs : k \in DOMAIN fs2 /\ fs2[k] = fs[k]

\* The source maps that the compilers begin with are like that.
LEMMA SourceMapsOK ==
    Ordered(Writer) /\ MapOK(Reader) /\ \A f \in Known : f.len \in Nat
<1>1. ASSUME NEW fs, IsSourceMap(fs)
      PROVE  Ordered(fs) /\ \A k \in DOMAIN fs : fs[k] = Starting(fs[k], fs[k].start)
  <2>1. IsSeq(fs)
    BY <1>1, SeqIsSeq DEF IsSourceMap
  <2> QED
    BY <1>1, <2>1 DEF IsSourceMap, Ordered
<1>2. MapOK(Reader)
  <2>1. \A k \in DOMAIN Reader : Reader[k] \in Known
    BY DEF Known, Range
  <2> QED
    BY <1>1, <2>1, SourcesAssumption DEF SourcesAssumption, MapOK
<1>3. ASSUME NEW f \in Known PROVE f.len \in Nat
  <2>1. CASE f \in Range(Reader)
    BY <2>1, <1>2 DEF Range, MapOK, Ordered
  <2>2. CASE f \in Importable
    BY <2>2, SourcesAssumption DEF SourcesAssumption
  <2>3. CASE \E path \in DOMAIN Disk : f = FileLoaded(path)
    BY <2>3, SourcesAssumption DEF SourcesAssumption, FileLoaded
  <2> QED
    BY <2>1, <2>2, <2>3 DEF Known
<1> QED
  BY <1>1, <1>2, <1>3, SourcesAssumption DEF SourcesAssumption

\* A position is in one file.
LEMMA FileAtIs ==
    ASSUME NEW fs, Ordered(fs), NEW p \in Nat, NEW k \in DOMAIN fs, HasPos(fs[k], p)
    PROVE  FileAt(fs, p) = fs[k]
<1>1. ASSUME NEW j \in DOMAIN fs, HasPos(fs[j], p)
      PROVE  j = k
  <2>1. j \in Nat /\ k \in Nat
    BY DEF Ordered, IsSeq
  <2>2. ASSUME NEW a \in DOMAIN fs, NEW c \in DOMAIN fs, HasPos(fs[a], p), HasPos(fs[c], p)
        PROVE  ~(a < c)
    <3>1. fs[a].start \in Nat /\ fs[a].len \in Nat /\ fs[c].start \in Nat
      BY DEF Ordered
    <3>2. p <= fs[a].start + fs[a].len /\ fs[c].start <= p
      BY <2>2 DEF HasPos, End
    <3>3. a < c => fs[a].start + fs[a].len < fs[c].start
      BY DEF Ordered, End
    <3> QED
      BY <3>1, <3>2, <3>3
  <2>3. ~(j < k) /\ ~(k < j)
    BY <1>1, <2>2
  <2> QED
    BY <2>1, <2>3
<1> QED
  BY <1>1 DEF FileAt

\* A file is loaded behind the others.
LEMMA LoadedOK ==
    ASSUME NEW fs, MapOK(fs), NEW f \in Known
    PROVE  /\ MapOK(Loaded(fs, f)) /\ Prolongs(Loaded(fs, f), fs)
           /\ Len(fs) + 1 \in DOMAIN Loaded(fs, f)
           /\ \E start \in Nat : Loaded(fs, f)[Len(fs) + 1] = Starting(f, start)
<1> DEFINE n == Len(fs)
           start == IF fs = <<>> THEN 0 ELSE End(fs[n]) + 1
           h == Starting(f, start)
           fs2 == Loaded(fs, f)
<1>1. Ordered(fs) /\ IsSeq(fs) /\ n \in Nat /\ DOMAIN fs = 1..n
  BY DEF MapOK, Ordered, IsSeq
<1>2. fs # <<>> => n \in DOMAIN fs
  <2>1. n = 0 => fs = <<>>
    BY <1>1 DEF IsSeq
  <2> QED
    BY <1>1, <2>1
<1>3. start \in Nat
  <2>1. n \in DOMAIN fs => End(fs[n]) + 1 \in Nat
    BY <1>1 DEF Ordered, End
  <2> QED
    BY <1>2, <2>1
<1>4. \A k \in DOMAIN fs : End(fs[k]) < start
  <2> SUFFICES ASSUME NEW k \in DOMAIN fs PROVE End(fs[k]) < start
    OBVIOUS
  <2>1. k \in 1..n /\ n \in DOMAIN fs /\ fs # <<>>
    BY <1>1
  <2>2. \A j \in DOMAIN fs : fs[j].start \in Nat /\ fs[j].len \in Nat /\ End(fs[j]) \in Nat
    BY <1>1 DEF Ordered, End
  <2>3. k < n => End(fs[k]) < fs[n].start
    BY <1>1, <2>1 DEF Ordered
  <2>4. fs[n].start <= End(fs[n])
    BY <2>1, <2>2 DEF End
  <2>5. End(fs[k]) <= End(fs[n])
    BY <1>1, <2>1, <2>2, <2>3, <2>4
  <2> QED
    BY <2>1, <2>2, <2>5
<1>5. start = h.start /\ h.len = f.len /\ h = Starting(f, h.start)
  BY DEF Starting
<1> HIDE DEF start
<1>6. /\ IsSeq(fs2) /\ Len(fs2) = n + 1 /\ fs2[n + 1] = h
      /\ \A k \in DOMAIN fs : fs2[k] = fs[k]
  <2>1. fs2 = Append(fs, h)
    BY DEF Loaded, start
  <2> HIDE DEF h, fs2, n
  <2> QED
    BY <1>1, <2>1, AppendFacts DEF n
<1> HIDE DEF h, fs2
<1>7. DOMAIN fs2 = 1..(n + 1) /\ \A k \in 1..(n + 1) : k = n + 1 \/ k \in DOMAIN fs
  BY <1>1, <1>6 DEF IsSeq
<1>8. h.start \in Nat /\ h.len \in Nat
  BY <1>3, <1>5, SourceMapsOK
<1>9. \A k \in DOMAIN fs2 : fs2[k].start \in Nat /\ fs2[k].len \in Nat
  BY <1>1, <1>6, <1>7, <1>8 DEF Ordered
<1>10. \A j, k \in DOMAIN fs2 : j < k => End(fs2[j]) < fs2[k].start
  <2> SUFFICES ASSUME NEW j \in DOMAIN fs2, NEW k \in DOMAIN fs2, j < k
               PROVE  End(fs2[j]) < fs2[k].start
    OBVIOUS
  <2>1. j \in DOMAIN fs
    BY <1>1, <1>7
  <2>2. CASE k \in DOMAIN fs
    BY <2>1, <2>2, <1>1, <1>6 DEF Ordered
  <2>3. CASE k = n + 1
    BY <2>1, <2>3, <1>4, <1>5, <1>6
  <2> QED
    BY <1>7, <2>2, <2>3
<1>11. MapOK(fs2)
  <2>1. \A k \in DOMAIN fs2 : \E e \in Known : fs2[k] = Starting(e, fs2[k].start)
    BY <1>5, <1>6, <1>7 DEF MapOK
  <2> QED
    BY <1>6, <1>9, <1>10, <2>1 DEF MapOK, Ordered
<1>12. n + 1 \in DOMAIN fs2 /\ \A k \in DOMAIN fs : k \in DOMAIN fs2
  BY <1>1, <1>7
<1> QED
  BY <1>5, <1>6, <1>8, <1>11, <1>12 DEF Prolongs, fs2

\* The span is in one of the writer's files.
InWriter(s, j) ==
    j \in DOMAIN Writer /\ s # Dummy /\ HasPos(Writer[j], s.lo) /\ HasPos(Writer[j], s.hi)

\* What is written of a span.
LEMMA SpanWritten ==
    ASSUME NEW s \in Spans
    PROVE  \/ SpanCell(s) = PartialSpan /\ (s = Dummy \/ Crosses(Writer, s))
           \/ \E j : InWriter(s, j) /\ SpanCell(s) = FullSpan(Writer[j], s) /\ ~Crosses(Writer, s)
<1>1. CASE s = Dummy \/ Crosses(Writer, s)
  BY <1>1 DEF SpanCell, Crosses
<1>2. CASE s # Dummy /\ ~Crosses(Writer, s)
  <2>1. PICK j \in DOMAIN Writer : HasPos(Writer[j], s.lo)
    BY <1>2, SpansAssumption DEF SpansAssumption
  <2>2. s.lo \in Nat
    BY SpansAssumption DEF SpansAssumption
  <2>3. FileAt(Writer, s.lo) = Writer[j]
    BY <2>1, <2>2, FileAtIs, SourceMapsOK
  <2> QED
    BY <1>2, <2>1, <2>3 DEF SpanCell, Crosses, InWriter
<1> QED
  BY <1>1, <1>2

\* new is what is read for old, given the reader's source map.
Good(fs, new, old) ==
    IF old \in Types THEN new = old
    ELSE FilesAgree =>
            \/ new = Dummy /\ SpanCell(old) = PartialSpan
            \/ \E j, k : /\ InWriter(old, j) /\ k \in DOMAIN fs
                         /\ fs[k].text = Writer[j].text
                         /\ new = Span(fs[k].start + (old.lo - Writer[j].start),
                                       fs[k].start + (old.hi - Writer[j].start))
                         /\ HasPos(fs[k], new.lo)

\* It stays so when files are loaded.
LEMMA GoodProlonged ==
    ASSUME NEW fs, NEW fs2, Prolongs(fs2, fs), NEW new, NEW old, Good(fs, new, old)
    PROVE  Good(fs2, new, old)
  BY DEF Good, Prolongs

\* ... and the two are the same.
LEMMA GoodIsSame ==
    ASSUME FilesAgree, MapOK(files), NEW new, NEW old \in Items, Good(files, new, old)
    PROVE  Same(new, old)
<1>1. CASE old \in Types
  BY <1>1, ArgumentsAreItems DEF Good, Same
<1>2. CASE old \in Spans
  <2>1. old.kind = "span" /\ old.kind # "type" /\ old \notin Types
    BY <1>2, ArgumentsAreItems
  <2>2. CASE new = Dummy /\ SpanCell(old) = PartialSpan
    <3>1. old = Dummy \/ Crosses(Writer, old)
      BY <1>2, <2>2, SpanWritten DEF FullSpan, PartialSpan
    <3>2. Dummy.kind = "span"
      BY DEF Dummy, Span
    <3> QED
      BY <2>1, <2>2, <3>1, <3>2 DEF Same, Meaning
  <2>3. CASE ~(new = Dummy /\ SpanCell(old) = PartialSpan)
    <3>1. PICK j, k : /\ InWriter(old, j) /\ k \in DOMAIN files
                      /\ files[k].text = Writer[j].text
                      /\ new = Span(files[k].start + (old.lo - Writer[j].start),
                                    files[k].start + (old.hi - Writer[j].start))
                      /\ HasPos(files[k], new.lo)
      BY <2>1, <2>3 DEF Good
    <3> DEFINE f == files[k]
               g == Writer[j]
    <3>2. /\ j \in DOMAIN Writer /\ old # Dummy
          /\ g.start <= old.lo /\ g.start <= old.hi /\ HasPos(g, old.lo) /\ HasPos(g, old.hi)
      BY <3>1 DEF InWriter, HasPos
    <3>3. old.lo \in Nat /\ old.hi \in Nat /\ g.start \in Nat /\ f.start \in Nat
      BY <1>2, <3>1, <3>2, SpansAssumption, SourceMapsOK DEF SpansAssumption, MapOK, Ordered
    <3>4. /\ new.lo = f.start + (old.lo - g.start) /\ new.hi = f.start + (old.hi - g.start)
          /\ new.kind = "span"
      BY <3>1 DEF Span
    <3>5. new.lo \in Nat /\ new.lo - f.start = old.lo - g.start /\ new.hi - f.start = old.hi - g.start
      BY <3>2, <3>3, <3>4
    <3>6. FileAt(files, new.lo) = f
      BY <3>1, <3>5, FileAtIs DEF MapOK
    <3>7. FileAt(Writer, old.lo) = g
      BY <3>2, <3>3, FileAtIs, SourceMapsOK
    <3>8. ~Crosses(Writer, old) /\ Meaning(Writer, old) =
             [text |-> g.text, lo |-> old.lo - g.start, hi |-> old.hi - g.start]
      BY <3>2, <3>7 DEF Crosses, Meaning
    <3>9. CASE new = Dummy
      <4>1. new.lo = 0 /\ new.hi = 0
        BY <3>9 DEF Dummy, Span
      <4>2. old.lo = g.start /\ old.hi = g.start
        <5>1. \A x, y, z \in Nat : x <= y /\ z + (y - x) = 0 => y = x
          OBVIOUS
        <5>2. f.start + (old.lo - g.start) = 0 /\ f.start + (old.hi - g.start) = 0
          BY <3>4, <4>1
        <5> HIDE DEF f, g
        <5> QED
          BY <3>2, <3>3, <5>1, <5>2
      <4> QED
        BY <2>1, <3>2, <3>4, <3>9, <4>2 DEF Same, IsEmptyAtStart
    <3>10. CASE new # Dummy
      <4>1. Meaning(files, new) = [text |-> f.text, lo |-> new.lo - f.start, hi |-> new.hi - f.start]
        BY <3>6, <3>10 DEF Meaning
      <4> QED
        BY <2>1, <3>1, <3>4, <3>5, <3>8, <4>1 DEF Same
    <3> QED
      BY <3>9, <3>10
  <2> QED
    BY <2>2, <2>3
<1> QED
  BY <1>1, <1>2 DEF Items

\* The file the reader takes for that of a span.
LEMMA LocatedOK ==
    ASSUME MapOK(files), NEW s, NEW j \in DOMAIN Writer, NEW cell,
           cell = FullSpan(Writer[j], s), ~NotFound(cell),
           NEW fs, NEW k, fs = Located(cell).files, k = Located(cell).k
    PROVE  /\ MapOK(fs) /\ Prolongs(fs, files) /\ k \in DOMAIN fs
           /\ FilesAgree => fs[k].text = Writer[j].text /\ fs[k].len = Writer[j].len
<1> DEFINE g == Writer[j]
           f == FileLoaded(cell.name.path)
<1>1. cell.crate = g.crate /\ cell.name = Stripped(g.name)
  BY DEF FullSpan
<1>2. cell.name.kind = g.name.kind /\ cell.name.path = g.name.path
  BY <1>1 DEF Stripped
<1>3. \A i \in DOMAIN files : \E h \in Known : files[i] = Starting(h, files[i].start)
  BY DEF MapOK
<1>4. ASSUME NEW h \in Known, NEW start, FilesAgree,
             NEW e, e = Starting(h, start),
             \/ e.crate = cell.crate /\ IsNamed(e, cell.name)
             \/ /\ CanLoad(cell) /\ e.crate = f.crate /\ e.name = f.name
      PROVE  e.text = g.text /\ e.len = g.len
  <2>1. e.crate = h.crate /\ e.name = h.name /\ e.text = h.text /\ e.len = h.len
    BY <1>4 DEF Starting
  <2>2. CASE e.crate = cell.crate /\ IsNamed(e, cell.name)
    <3>1. IsNamed(h, Stripped(g.name)) /\ h.crate = g.crate
      BY <1>1, <2>1, <2>2 DEF IsNamed
    <3>2. MayBeTaken(h, g)
      BY <3>1 DEF MayBeTaken
    <3> QED
      BY <1>4, <2>1, <3>2 DEF FilesAgree
  <2>3. CASE CanLoad(cell) /\ e.crate = f.crate /\ e.name = f.name
    <3>1. g.name.kind = "LocalPath" /\ g.name.path \in DOMAIN Disk
      BY <1>2, <2>3 DEF CanLoad
    <3>2. h.crate = LocalCrate /\ h.name = FileLoaded(g.name.path).name
      BY <1>2, <2>1, <2>3 DEF FileLoaded
    <3>3. MayBeTaken(h, g)
      BY <3>1, <3>2 DEF MayBeTaken
    <3> QED
      BY <1>4, <2>1, <3>3 DEF FilesAgree
  <2> QED
    BY <1>4, <2>2, <2>3
<1>5. Prolongs(files, files)
  BY DEF Prolongs
<1>6. CASE Matching(cell) # {}
  <2>1. fs = files /\ k \in Matching(cell)
    BY <1>6 DEF Located
  <2>2. k \in DOMAIN files /\ files[k].crate = cell.crate /\ IsNamed(files[k], cell.name)
    BY <2>1 DEF Matching
  <2> HIDE DEF g, f
  <2> QED
    BY <1>3, <1>4, <1>5, <2>1, <2>2 DEF g
<1>7. CASE Matching(cell) = {}
  <2>1. CanLoad(cell)
    BY <1>7 DEF NotFound
  <2>2. CASE Holding(f) # {}
    <3>1. fs = files /\ k \in Holding(f)
      BY <1>7, <2>2 DEF Located
    <3>2. k \in DOMAIN files /\ files[k].crate = f.crate /\ files[k].name = f.name
      BY <3>1 DEF Holding
    <3> HIDE DEF g, f
    <3> QED
      BY <1>3, <1>4, <1>5, <2>1, <3>1, <3>2 DEF g
  <2>3. CASE Holding(f) = {}
    <3>1. fs = Loaded(files, f) /\ k = Len(files) + 1
      BY <1>7, <2>3 DEF Located
    <3>2. f \in Known
      BY <2>1 DEF Known, CanLoad
    <3> HIDE DEF f
    <3>3. /\ MapOK(fs) /\ Prolongs(fs, files) /\ k \in DOMAIN fs
          /\ \E start \in Nat : fs[k] = Starting(f, start)
      BY <3>1, <3>2, LoadedOK
    <3>4. fs[k].crate = f.crate /\ fs[k].name = f.name
      BY <3>3 DEF Starting
    <3> HIDE DEF g
    <3> QED
      BY <1>4, <2>1, <3>2, <3>3, <3>4 DEF g
  <2> QED
    BY <2>2, <2>3
<1> QED
  BY <1>6, <1>7

----------------------------------------------------------------------------
(* The invariant.                                                          *)

\* What shorthand_map has are types where the writer remembered them.
ShortsOK(tys, sh) == \A p \in DOMAIN sh : \E ty \in DOMAIN tys : tys[ty] = p /\ sh[p] = ty

\* What was read is what was written, as far as it was read.
ValuesOK(fs, b, st) == \A k \in 1..Len(st[1].args) : Good(fs, st[1].args[k], b[k])

ReaderInv ==
    /\ \E G : Ready(tape, types, body, stack, G, pos)
    /\ ValuesOK(files, body, stack)

EncoderInv ==
    /\ phase \in {"writing", "reading", "panicked"}
    /\ WriterInv(tape, types, body, writing)
    /\ MapOK(files)
    /\ ShortsOK(types, shorts)
    /\ phase = "writing" => DOMAIN shorts = {} /\ pos = 1
    /\ phase # "writing" => ReaderInv
    /\ phase = "panicked" /\ FilesAgree => NotFound(Cell) \/ Ambiguous(Cell)

\* Nothing is written of the body at first.
LEMMA EncoderInit == Init => EncoderInv
<1> SUFFICES ASSUME Init PROVE EncoderInv
  OBVIOUS
<1> DEFINE f == Encoding("body", body, 0, 0)
<1>1. /\ body \in Bodies /\ tape = <<>> /\ types = <<>> /\ writing = <<f>>
      /\ files = Reader /\ pos = 1 /\ shorts = <<>> /\ phase = "writing"
  BY DEF Init
<1>2. f.args = body /\ f.at = 0 /\ f.k = 0 /\ f = Encoding(f.ty, f.args, f.at, f.k)
  BY DEF Encoding
<1>3. IsSeq(body) /\ Len(body) \in Nat
  BY <1>1, ArgumentsAreItems, SeqIsSeq DEF IsSeq
<1> HIDE DEF f
<1>4. IsSeq(tape) /\ Len(tape) = 0 /\ DOMAIN tape = {} /\ DOMAIN types = {} /\ DOMAIN shorts = {}
  BY <1>1 DEF IsSeq
<1>5. IsSeq(writing) /\ Len(writing) = 1 /\ writing[1] = f
  BY <1>1 DEF IsSeq
<1>6. CallOK(tape, body, f, 1)
  BY <1>2, <1>3 DEF CallOK
<1>7. Active(Encodings(tape, types), f, Len(tape) + 1)
  <2>1. Leads(Encodings(tape, types), body, 1, 1, 1, 1)
    BY LeadsNowhere
  <2>2. f.k + 1 = 1 /\ f.at + 1 = 1 /\ Len(tape) + 1 = 1
    BY <1>2, <1>4
  <2> QED
    BY <1>2, <2>1, <2>2 DEF Active
<1>8. WriterInv(tape, types, body, writing)
  <2>1. /\ ShorthandsPoint(tape) /\ Remembers(tape, types) /\ ShorthandsFollow(tape, types)
        /\ NotYet(types, f)
    BY <1>4 DEF ShorthandsPoint, Remembers, ShorthandsFollow, NotYet
  <2>2. \A j \in 1..1 : j = 1
    OBVIOUS
  <2>3. \A j \in 1..(1 - 1) : FALSE
    OBVIOUS
  <2>4. \A i, j \in 1..1 : ~(i < j)
    OBVIOUS
  <2> QED
    BY <1>1, <1>4, <1>5, <1>6, <1>7, <2>1, <2>2, <2>3, <2>4 DEF WriterInv
<1>9. MapOK(files)
  BY <1>1, SourceMapsOK
<1>10. ShortsOK(types, shorts)
  BY <1>4 DEF ShortsOK
<1> QED
  BY <1>1, <1>4, <1>8, <1>9, <1>10 DEF EncoderInv

\* The writer keeps it.
LEMMA WriterSteps ==
    ASSUME EncoderInv, WriteSpan \/ WriteShorthand \/ BeginType \/ EndType
    PROVE  EncoderInv'
<1> DEFINE w == writing
           f == w[Len(w)]
<1>1. /\ phase = "writing" /\ phase' = "writing" /\ body' = body /\ files' = files
      /\ pos' = pos /\ shorts' = shorts
  BY DEF WriteSpan, WriteShorthand, BeginType, EndType, Unwritten
<1>2. WriterInv(tape, types, body, writing)
  BY DEF EncoderInv
<1>3. Begun = BegunOf(writing) /\ Writing = f /\ Argument = f.args[f.k + 1]
  BY DEF Begun, BegunOf, Writing, Argument
<1>4. ASSUME f.k < Len(f.args)
      PROVE  \/ Argument \in Spans /\ Argument.kind = "span"
             \/ Argument \in Types /\ Argument.kind = "type"
  <2>1. IsSeq(w) /\ Len(w) \in Nat /\ Len(w) >= 1
    BY <1>2 DEF WriterInv, IsSeq
  <2>2. CallOK(tape, body, f, Len(w)) /\ body \in Bodies
    BY <1>2, <2>1 DEF WriterInv
  <2>3. f.args \in Seq(Items)
    BY <2>2, ArgumentsAreItems DEF CallOK
  <2>4. f.k + 1 \in 1..Len(f.args)
    BY <1>4, <2>2 DEF CallOK, IsSeq
  <2>5. f.args[f.k + 1] \in Items
    BY <2>3, <2>4
  <2> QED
    BY <1>3, <2>5, ArgumentsAreItems DEF Items
<1>5. WriterInv(tape', types', body', writing')
  <2>1. CASE WriteSpan
    <3>1. /\ f.k < Len(f.args) /\ Argument.kind = "span" /\ types' = types
          /\ tape' = Append(tape, SpanCell(Argument)) /\ writing' = BegunOf(writing)
      BY <2>1, <1>3 DEF WriteSpan, Unwritten
    <3>2. Argument \in Spans
      BY <1>4, <3>1
    <3>3. SpanCell(Argument).tag # "shorthand"
      BY DEF SpanCell, PartialSpan, FullSpan
    <3> HIDE DEF f, w
    <3>4. WriterInv(tape', types, body, writing')
      BY <1>2, <1>3, <3>1, <3>2, <3>3, LeafWritten DEF f, w
    <3> QED
      BY <1>1, <3>1, <3>4
  <2>2. CASE WriteShorthand
    <3> DEFINE c == ShorthandCell(types[Argument])
    <3>1. /\ f.k < Len(f.args) /\ Argument \in DOMAIN types /\ types' = types
          /\ tape' = Append(tape, c) /\ writing' = BegunOf(writing)
      BY <2>2, <1>3 DEF WriteShorthand, Unwritten
    <3>2. /\ Argument \in Types /\ types[Argument] \in DOMAIN tape
          /\ tape[types[Argument]] = TypeCell(Argument)
      BY <1>2, <3>1 DEF WriterInv, Remembers
    <3>3. \E ty \in DOMAIN types : c.at = types[ty]
      BY <3>1 DEF ShorthandCell
    <3> HIDE DEF f, w
    <3>4. WriterInv(tape', types, body, writing')
      BY <1>2, <1>3, <3>1, <3>2, <3>3, LeafWritten DEF f, w
    <3> QED
      BY <1>1, <3>1, <3>4
  <2>3. CASE BeginType
    <3>1. /\ f.k < Len(f.args) /\ Argument.kind = "type" /\ types' = types
          /\ tape' = Append(tape, TypeCell(Argument))
          /\ writing' = BegunHead(tape, writing, Argument)
      BY <2>3, <1>3 DEF BeginType, Unwritten, BegunHead
    <3>2. Argument \in Types
      BY <1>4, <3>1
    <3> HIDE DEF f, w
    <3>3. WriterInv(tape', types, body, writing')
      BY <1>2, <1>3, <3>1, <3>2, HeadWritten DEF f, w
    <3> QED
      BY <1>1, <3>1, <3>3
  <2>4. CASE EndType
    <3>1. /\ Len(w) > 1 /\ f.k = Len(f.args) /\ tape' = tape /\ writing' = Front(writing)
          /\ types' \in {types, Entered(types, f.ty, f.at)}
      BY <2>4, <1>3 DEF EndType
    <3> HIDE DEF f, w
    <3>2. WriterInv(tape, types', body, writing')
      BY <1>2, <3>1, TypeEnded DEF f, w
    <3> QED
      BY <1>1, <3>1, <3>2
  <2> QED
    BY <2>1, <2>2, <2>3, <2>4
<1>6. ShortsOK(types', shorts')
  BY <1>1 DEF EncoderInv, ShortsOK
<1> QED
  BY <1>1, <1>5, <1>6 DEF EncoderInv

\* What there may be where a value is.
LEMMA CellOfValue ==
    ASSUME NEW tp, NEW tys, NEW p, NEW v, NEW q, <<p, v, q>> \in Encodings(tp, tys)
    PROVE  \/ /\ v \in Spans /\ tp[p] = SpanCell(v) /\ tp[p].tag \in {"span", "partial"}
              /\ q = p + 1
           \/ /\ v \in Types /\ v \in DOMAIN tys /\ tp[p] = ShorthandCell(tys[v])
              /\ tp[p].tag = "shorthand" /\ tp[p].at = tys[v]
              /\ p \in DOMAIN tp /\ q = p + 1
           \/ /\ v \in Types /\ tp[p].tag = "type"
              /\ tp[p].con = v.con /\ tp[p].arity = Len(v.args)
              /\ Leads(Encodings(tp, tys), v.args, 1, Len(v.args) + 1, p + 1, q)
<1>1. Codes(tp, tys, Encodings(tp, tys), p, v, q)
  BY EncodingsSound DEF Sound
<1>2. CASE v \in Spans /\ tp[p] = SpanCell(v) /\ q = p + 1
  <2>1. SpanCell(v).tag \in {"span", "partial"}
    BY DEF SpanCell, PartialSpan, FullSpan
  <2> QED
    BY <1>2, <2>1
<1>3. CASE v \in Types /\ v \in DOMAIN tys /\ tp[p] = ShorthandCell(tys[v]) /\ q = p + 1
  <2>1. ShorthandCell(tys[v]).tag = "shorthand" /\ ShorthandCell(tys[v]).at = tys[v]
    BY DEF ShorthandCell
  <2> QED
    BY <1>1, <1>3, <2>1 DEF Codes
<1>4. CASE /\ v \in Types /\ tp[p] = TypeCell(v)
           /\ Leads(Encodings(tp, tys), v.args, 1, Len(v.args) + 1, p + 1, q)
  <2>1. TypeCell(v).tag = "type" /\ TypeCell(v).con = v.con /\ TypeCell(v).arity = Len(v.args)
    BY DEF TypeCell
  <2> QED
    BY <1>4, <2>1
<1> QED
  BY <1>1, <1>2, <1>3, <1>4 DEF Codes

\* The values read so far stay when a call is given another, which is good.
LEMMA ValuesGiven ==
    ASSUME NEW tp, NEW tys, NEW b, NEW st, NEW G, NEW v, NEW q,
           Awaiting(tp, tys, b, st, G, v, q),
           NEW fs, ValuesOK(fs, b, st), NEW x, Len(st) = 1 => Good(fs, x, v)
    PROVE  ValuesOK(fs, b, Given(st, x))
<1> DEFINE n == Len(st)
           f == st[1]
           g == G[1]
           st2 == Given(st, x)
           h == Decoding(f.tag, f.con, f.at, f.arity, Append(f.args, x))
<1>1. IsSeq(st) /\ n \in Nat /\ n >= 1 /\ DOMAIN st = 1..n
  BY DEF Awaiting, Calls, IsSeq
<1>2. CASE n # 1
  <2>1. st2[1] = st[1]
    BY <1>1, <1>2 DEF Given
  <2> HIDE DEF st2
  <2> QED
    BY <2>1 DEF ValuesOK, st2
<1>3. CASE n = 1
  <2>1. st2[1] = h
    BY <1>1, <1>3 DEF Given
  <2>2. h.args = Append(f.args, x)
    BY DEF Decoding
  <2>3. Serves(tp, tys, b, f, g, 1) /\ Awaits(Encodings(tp, tys), f, g, v, q)
    BY <1>1, <1>3 DEF Awaiting, Calls
  <2>4. IsSeq(f.args) /\ Len(f.args) \in Nat /\ b[Len(f.args) + 1] = v /\ DOMAIN f.args = 1..Len(f.args)
    BY <2>3 DEF Serves, Awaits, IsSeq
  <2> HIDE DEF h, st2, f
  <2>5. /\ Len(h.args) = Len(f.args) + 1 /\ h.args[Len(f.args) + 1] = x
        /\ \A k \in 1..Len(f.args) : h.args[k] = f.args[k]
    BY <2>2, <2>4, AppendFacts
  <2>6. \A k \in 1..Len(h.args) : k \in 1..Len(f.args) \/ k = Len(f.args) + 1
    BY <2>4, <2>5
  <2>7. \A k \in 1..Len(f.args) : Good(fs, f.args[k], b[k])
    BY DEF ValuesOK, f
  <2>8. Good(fs, x, v)
    BY <1>3
  <2>9. \A k \in 1..Len(h.args) : Good(fs, h.args[k], b[k])
    BY <2>4, <2>5, <2>6, <2>7, <2>8
  <2> QED
    BY <2>1, <2>9 DEF ValuesOK, st2
<1> QED
  BY <1>2, <1>3

\* The reader begins with the body.
LEMMA OpenStep ==
    ASSUME EncoderInv, Open
    PROVE  EncoderInv'
<1> DEFINE w == writing
           f == Decoding("body", "body", 0, Len(body), <<>>)
           E == Encodings(tape, types)
           g == [ty |-> "body", args |-> body, end |-> Len(tape) + 1, next |-> 0]
           G == <<g>>
<1>1. /\ phase = "writing" /\ Len(w) = 1 /\ w[1].k = Len(w[1].args)
      /\ stack' = <<f>> /\ phase' = "reading"
      /\ body' = body /\ tape' = tape /\ types' = types /\ writing' = writing
      /\ files' = files /\ pos' = pos /\ shorts' = shorts
  BY DEF Open, Writing
<1>2. WriterInv(tape, types, body, writing) /\ pos = 1
  BY <1>1 DEF EncoderInv
<1>3. /\ body \in Bodies /\ w[1].args = body /\ w[1].at = 0 /\ IsSeq(tape) /\ Len(tape) \in Nat
      /\ Active(E, w[1], Len(tape) + 1)
  BY <1>1, <1>2 DEF WriterInv, CallOK, IsSeq
<1>4. IsSeq(body) /\ Len(body) \in Nat
  BY <1>3, ArgumentsAreItems, SeqIsSeq DEF IsSeq
<1>5. Leads(E, body, 1, Len(body) + 1, 1, Len(tape) + 1)
  BY <1>1, <1>3 DEF Active
<1>6. /\ f.tag = "body" /\ f.arity = Len(body) /\ f.args = <<>>
      /\ f = Decoding(f.tag, f.con, f.at, f.arity, f.args)
  BY DEF Decoding
<1>7. g.args = body /\ g.end = Len(tape) + 1 /\ G[1] = g
  OBVIOUS
<1> HIDE DEF f, g, G
<1>8. IsSeq(f.args) /\ Len(f.args) = 0
  BY <1>6 DEF IsSeq
<1>9. Serves(tape, types, body, f, g, 1)
  BY <1>4, <1>6, <1>7, <1>8 DEF Serves
<1>10. GoesOn(E, f, g, pos)
  <2>1. Len(f.args) + 1 = 1
    BY <1>8
  <2> QED
    BY <1>2, <1>5, <1>7, <2>1 DEF GoesOn
<1>11. IsSeq(stack') /\ Len(stack') = 1 /\ stack'[1] = f
  BY <1>1 DEF IsSeq
<1>12. Ready(tape, types, body, stack', G, pos)
  <2>1. \A j \in 1..1 : j = 1
    OBVIOUS
  <2>2. \A j \in 1..(1 - 1) : FALSE
    OBVIOUS
  <2> QED
    BY <1>6, <1>7, <1>9, <1>10, <1>11, <2>1, <2>2 DEF Ready, Calls, Before
<1>13. ValuesOK(files, body, stack')
  BY <1>8, <1>11 DEF ValuesOK
<1>14. ReaderInv'
  BY <1>1, <1>12, <1>13 DEF ReaderInv
<1> QED
  BY <1>1, <1>14 DEF EncoderInv

\* A step of the reader that keeps the parts of the invariant keeps it.
LEMMA StackStep ==
    ASSUME EncoderInv, phase = "reading", phase' = "reading",
           body' = body, tape' = tape, types' = types, writing' = writing,
           MapOK(files'), ShortsOK(types, shorts'), ValuesOK(files', body, stack'),
           NEW G, Ready(tape, types, body, stack', G, pos')
    PROVE  EncoderInv'
<1>1. ReaderInv'
  BY DEF ReaderInv
<1>2. WriterInv(tape, types, body, writing)'
  BY DEF EncoderInv
<1>3. MapOK(files)' /\ ShortsOK(types, shorts)'
  OBVIOUS
<1> QED
  BY <1>1, <1>2, <1>3 DEF EncoderInv

\* A file of another crate is loaded.
LEMMA ImportStep ==
    ASSUME EncoderInv, NEW f \in Importable, Import(f)
    PROVE  EncoderInv'
<1>1. /\ phase = "reading" /\ phase' = "reading" /\ files' = Loaded(files, f)
      /\ body' = body /\ tape' = tape /\ types' = types /\ writing' = writing
      /\ pos' = pos /\ shorts' = shorts /\ stack' = stack
  BY DEF Import
<1>2. MapOK(files) /\ ShortsOK(types, shorts') /\ ReaderInv
  BY <1>1 DEF EncoderInv
<1>3. MapOK(files') /\ Prolongs(files', files)
  <2>1. f \in Known
    BY DEF Known
  <2> QED
    BY <1>1, <1>2, <2>1, LoadedOK
<1>4. ValuesOK(files', body, stack')
  BY <1>1, <1>2, <1>3, GoodProlonged DEF ReaderInv, ValuesOK
<1>5. PICK G : Ready(tape, types, body, stack', G, pos')
  BY <1>1, <1>2 DEF ReaderInv
<1> QED
  BY <1>1, <1>2, <1>3, <1>4, <1>5, StackStep

\* What the reader is about to read.
LEMMA ReaderNext ==
    ASSUME EncoderInv, Unread
    PROVE  \E G : \E v \in Items, q \in Nat :
              /\ Awaiting(tape, types, body, stack, G, v, q)
              /\ <<pos, v, q>> \in Encodings(tape, types)
              /\ Len(stack) > 1 => v \in Types
<1>1. phase = "reading" /\ Len(stack[Len(stack)].args) < stack[Len(stack)].arity
  BY DEF Unread, Reading
<1>2. PICK G : Ready(tape, types, body, stack, G, pos)
  BY <1>1 DEF EncoderInv, ReaderInv
<1>3. \E v \in Items, q \in Nat :
         /\ Awaiting(tape, types, body, stack, G, v, q)
         /\ <<pos, v, q>> \in Encodings(tape, types)
         /\ Len(stack) > 1 => v \in Types
  BY <1>1, <1>2, NextValue
<1> QED
  BY <1>3

\* A span that is read is one of the body.
LEMMA SpanNext ==
    ASSUME EncoderInv, AtSpan
    PROVE  \E G : \E v \in Spans :
              /\ Awaiting(tape, types, body, stack, G, v, pos + 1)
              /\ Len(stack) = 1 /\ Cell = SpanCell(v)
<1>1. Unread /\ Cell.tag \in {"span", "partial"}
  BY DEF AtSpan
<1>2. PICK G : \E v \in Items, q \in Nat :
              /\ Awaiting(tape, types, body, stack, G, v, q)
              /\ <<pos, v, q>> \in Encodings(tape, types)
              /\ Len(stack) > 1 => v \in Types
  BY <1>1, ReaderNext
<1>3. PICK v \in Items, q \in Nat :
              /\ Awaiting(tape, types, body, stack, G, v, q)
              /\ <<pos, v, q>> \in Encodings(tape, types)
              /\ Len(stack) > 1 => v \in Types
  BY <1>2
<1>4. v \in Spans /\ Cell = SpanCell(v) /\ q = pos + 1
  BY <1>1, <1>3, CellOfValue DEF Cell
<1>5. v \notin Types
  BY <1>4, ArgumentsAreItems
<1>6. Len(stack) \in Nat /\ Len(stack) >= 1
  BY <1>3 DEF Awaiting, Calls, IsSeq
<1>7. ~(Len(stack) > 1)
  BY <1>3, <1>5
<1>8. Len(stack) = 1
  <2>1. \A n \in Nat : n >= 1 /\ ~(n > 1) => n = 1
    OBVIOUS
  <2> QED
    BY <1>6, <1>7, <2>1
<1> QED
  BY <1>3, <1>4, <1>8

\* A partial span is read as the dummy.
LEMMA ReadPartialStep ==
    ASSUME EncoderInv, ReadPartial
    PROVE  EncoderInv'
<1>1. /\ AtSpan /\ Cell = PartialSpan /\ stack' = Given(stack, Dummy) /\ pos' = pos + 1
      /\ body' = body /\ tape' = tape /\ types' = types /\ writing' = writing
      /\ files' = files /\ shorts' = shorts /\ phase' = phase
  BY DEF ReadPartial
<1>2. phase = "reading"
  BY <1>1 DEF AtSpan, Unread
<1>3. PICK G : \E v \in Spans :
              /\ Awaiting(tape, types, body, stack, G, v, pos + 1)
              /\ Len(stack) = 1 /\ Cell = SpanCell(v)
  BY <1>1, SpanNext
<1>4. PICK v \in Spans : /\ Awaiting(tape, types, body, stack, G, v, pos + 1)
                         /\ Len(stack) = 1 /\ Cell = SpanCell(v)
  BY <1>3
<1>5. MapOK(files) /\ ShortsOK(types, shorts') /\ ValuesOK(files, body, stack)
  BY <1>1, <1>2 DEF EncoderInv, ReaderInv
<1>6. Good(files, Dummy, v)
  <2>1. v \notin Types
    BY ArgumentsAreItems
  <2> QED
    BY <1>1, <1>4, <2>1 DEF Good
<1>7. Ready(tape, types, body, stack', G, pos')
  <2>1. ~(Len(stack) > 1)
    BY <1>4
  <2> QED
    BY <1>1, <1>4, <2>1, ValueGiven
<1>8. ValuesOK(files', body, stack')
  BY <1>1, <1>4, <1>5, <1>6, ValuesGiven
<1> QED
  BY <1>1, <1>2, <1>5, <1>7, <1>8, StackStep

\* What is written of a span that is not partial.
LEMMA FullSpanNext ==
    ASSUME NEW v \in Spans, SpanCell(v) # PartialSpan
    PROVE  \E j \in DOMAIN Writer :
              /\ InWriter(v, j) /\ SpanCell(v) = FullSpan(Writer[j], v)
              /\ v.lo \in Nat /\ v.hi \in Nat /\ v.lo <= v.hi
              /\ Writer[j].start \in Nat /\ Writer[j].len \in Nat
              /\ Writer[j].start <= v.lo /\ v.hi <= Writer[j].start + Writer[j].len
<1>1. PICK j : InWriter(v, j) /\ SpanCell(v) = FullSpan(Writer[j], v)
  BY SpanWritten
<1>2. j \in DOMAIN Writer /\ HasPos(Writer[j], v.lo) /\ HasPos(Writer[j], v.hi)
  BY <1>1 DEF InWriter
<1>3. v.lo \in Nat /\ v.hi \in Nat /\ v.lo <= v.hi
  BY SpansAssumption DEF SpansAssumption
<1>4. Writer[j].start \in Nat /\ Writer[j].len \in Nat
  BY <1>2, SourceMapsOK DEF Ordered
<1> QED
  BY <1>1, <1>2, <1>3, <1>4 DEF HasPos, End

\* Where the reader puts a span.
LEMMA PlacedIs ==
    ASSUME NEW v, NEW g, NEW f, v.lo \in Nat, v.hi \in Nat, v.lo <= v.hi,
           g.start \in Nat, g.start <= v.lo, f.start \in Nat
    PROVE  Placed(f, FullSpan(g, v)) = Span(f.start + (v.lo - g.start), f.start + (v.hi - g.start))
<1>1. FullSpan(g, v).lo = v.lo - g.start /\ FullSpan(g, v).len = v.hi - v.lo
  BY DEF FullSpan
<1>2. f.start + (v.lo - g.start) + (v.hi - v.lo) = f.start + (v.hi - g.start)
  OBVIOUS
<1> QED
  BY <1>1, <1>2 DEF Placed

\* A span that is found is read as a span of the same text.
LEMMA ReadSpanStep ==
    ASSUME EncoderInv, ReadSpan
    PROVE  EncoderInv'
<1> DEFINE fs == Located(Cell).files
           k == Located(Cell).k
           x == Placed(fs[k], Cell)
<1>1. /\ AtSpan /\ Cell # PartialSpan /\ CanRead(Cell)
      /\ files' = fs /\ stack' = Given(stack, x) /\ pos' = pos + 1
      /\ body' = body /\ tape' = tape /\ types' = types /\ writing' = writing
      /\ shorts' = shorts /\ phase' = phase
  BY DEF ReadSpan
<1>2. phase = "reading"
  BY <1>1 DEF AtSpan, Unread
<1>3. PICK G : \E v \in Spans :
              /\ Awaiting(tape, types, body, stack, G, v, pos + 1)
              /\ Len(stack) = 1 /\ Cell = SpanCell(v)
  BY <1>1, SpanNext
<1>4. PICK v \in Spans : /\ Awaiting(tape, types, body, stack, G, v, pos + 1)
                         /\ Len(stack) = 1 /\ Cell = SpanCell(v)
  BY <1>3
<1>5. MapOK(files) /\ ShortsOK(types, shorts') /\ ValuesOK(files, body, stack)
  BY <1>1, <1>2 DEF EncoderInv, ReaderInv
<1>6. SpanCell(v) # PartialSpan
  BY <1>1, <1>4
<1>7. PICK j \in DOMAIN Writer :
              /\ InWriter(v, j) /\ SpanCell(v) = FullSpan(Writer[j], v)
              /\ v.lo \in Nat /\ v.hi \in Nat /\ v.lo <= v.hi
              /\ Writer[j].start \in Nat /\ Writer[j].len \in Nat
              /\ Writer[j].start <= v.lo /\ v.hi <= Writer[j].start + Writer[j].len
  BY <1>6, FullSpanNext
<1>8. Cell = FullSpan(Writer[j], v)
  BY <1>4, <1>7
<1>9. ~NotFound(Cell) /\ InFile(fs[k], x)
  BY <1>1 DEF CanRead
<1> HIDE DEF fs, k, x
<1>10. /\ MapOK(fs) /\ Prolongs(fs, files) /\ k \in DOMAIN fs
       /\ FilesAgree => fs[k].text = Writer[j].text /\ fs[k].len = Writer[j].len
  BY <1>5, <1>8, <1>9, LocatedOK DEF fs, k
<1>11. fs[k].start \in Nat
  BY <1>10 DEF MapOK, Ordered
<1>12. x = Span(fs[k].start + (v.lo - Writer[j].start), fs[k].start + (v.hi - Writer[j].start))
  BY <1>7, <1>8, <1>11, PlacedIs DEF x
<1>13. Good(fs, x, v)
  <2>1. v \notin Types
    BY ArgumentsAreItems
  <2>2. HasPos(fs[k], x.lo)
    BY <1>9 DEF InFile
  <2> QED
    BY <1>7, <1>10, <1>12, <2>1, <2>2 DEF Good
<1>14. Ready(tape, types, body, stack', G, pos')
  <2>1. ~(Len(stack) > 1)
    BY <1>4
  <2> QED
    BY <1>1, <1>4, <2>1, ValueGiven
<1>15. ValuesOK(fs, body, stack)
  BY <1>5, <1>10, GoodProlonged DEF ValuesOK
<1>16. ValuesOK(files', body, stack')
  BY <1>1, <1>4, <1>13, <1>15, ValuesGiven
<1> QED
  BY <1>1, <1>2, <1>5, <1>10, <1>14, <1>16, StackStep

\* A span whose file is found, and is the one meant, is in it.
LEMMA PanicStep ==
    ASSUME EncoderInv, Panic
    PROVE  EncoderInv'
<1>1. /\ AtSpan /\ Cell # PartialSpan /\ ~CanRead(Cell) /\ phase' = "panicked"
      /\ body' = body /\ tape' = tape /\ types' = types /\ writing' = writing
      /\ files' = files /\ shorts' = shorts /\ pos' = pos /\ stack' = stack
  BY DEF Panic
<1>2. phase = "reading" /\ Cell' = Cell
  BY <1>1 DEF AtSpan, Unread, Cell
<1>3. MapOK(files) /\ ReaderInv /\ ShortsOK(types, shorts) /\ WriterInv(tape, types, body, writing)
  BY <1>2 DEF EncoderInv
<1>4. ASSUME FilesAgree, ~NotFound(Cell), ~Ambiguous(Cell)
      PROVE  FALSE
  <2> DEFINE fs == Located(Cell).files
             k == Located(Cell).k
             x == Placed(fs[k], Cell)
  <2>1. PICK v \in Spans : Cell = SpanCell(v)
    BY <1>1, SpanNext
  <2>2. SpanCell(v) # PartialSpan
    BY <1>1, <2>1
  <2>3. PICK j \in DOMAIN Writer :
              /\ InWriter(v, j) /\ SpanCell(v) = FullSpan(Writer[j], v)
              /\ v.lo \in Nat /\ v.hi \in Nat /\ v.lo <= v.hi
              /\ Writer[j].start \in Nat /\ Writer[j].len \in Nat
              /\ Writer[j].start <= v.lo /\ v.hi <= Writer[j].start + Writer[j].len
    BY <2>2, FullSpanNext
  <2>4. Cell = FullSpan(Writer[j], v)
    BY <2>1, <2>3
  <2>5. ~InFile(fs[k], x)
    BY <1>1, <1>4 DEF CanRead
  <2> HIDE DEF fs, k, x
  <2>6. MapOK(fs) /\ k \in DOMAIN fs /\ fs[k].len = Writer[j].len
    BY <1>3, <1>4, <2>4, LocatedOK DEF fs, k
  <2>7. fs[k].start \in Nat /\ fs[k].len \in Nat
    BY <2>6 DEF MapOK, Ordered
  <2>8. x = Span(fs[k].start + (v.lo - Writer[j].start), fs[k].start + (v.hi - Writer[j].start))
    BY <2>3, <2>4, <2>7, PlacedIs DEF x
  <2>9. x.lo = fs[k].start + (v.lo - Writer[j].start) /\ x.hi = fs[k].start + (v.hi - Writer[j].start)
    BY <2>8 DEF Span
  <2>10. \A a, b, c, d, e \in Nat : (a <= b /\ b <= c /\ c <= a + d) =>
            /\ e <= e + (b - a) /\ e + (b - a) <= e + d
            /\ e <= e + (c - a) /\ e + (c - a) <= e + d
    OBVIOUS
  <2>11. InFile(fs[k], x)
    <3>1. /\ fs[k].start <= x.lo /\ x.lo <= fs[k].start + fs[k].len
          /\ fs[k].start <= x.hi /\ x.hi <= fs[k].start + fs[k].len
      BY <2>3, <2>6, <2>7, <2>9, <2>10
    <3> QED
      BY <3>1 DEF InFile, HasPos, End
  <2> QED
    BY <2>5, <2>11
<1>5. NotFound(Cell)' = NotFound(Cell) /\ Ambiguous(Cell)' = Ambiguous(Cell)
  BY <1>1, <1>2 DEF NotFound, Ambiguous, Matching
<1>6. ReaderInv' /\ MapOK(files)' /\ ShortsOK(types, shorts)' /\ WriterInv(tape, types, body, writing)'
  BY <1>1, <1>3 DEF ReaderInv
<1>7. phase' = "panicked" /\ FilesAgree => NotFound(Cell)' \/ Ambiguous(Cell)'
  BY <1>4, <1>5
<1> QED
  BY <1>1, <1>6, <1>7 DEF EncoderInv

\* A call that begins leaves the values read so far alone.
LEMMA ValuesStay ==
    ASSUME NEW fs, NEW b, NEW st, IsSeq(st), Len(st) >= 1, ValuesOK(fs, b, st), NEW f
    PROVE  ValuesOK(fs, b, Append(st, f))
<1>1. 1 \in 1..Len(st)
  BY DEF IsSeq
<1>2. Append(st, f)[1] = st[1]
  BY <1>1, AppendFacts
<1> QED
  BY <1>2 DEF ValuesOK

\* The arguments of a type that is written out are read next.
LEMMA ReadHeadStep ==
    ASSUME EncoderInv, ReadHead
    PROVE  EncoderInv'
<1> DEFINE E == Encodings(tape, types)
           n == Len(stack)
           f == Decoding("type", Cell.con, pos, Cell.arity, <<>>)
<1>1. /\ Unread /\ Cell.tag = "type" /\ stack' = Append(stack, f) /\ pos' = pos + 1
      /\ body' = body /\ tape' = tape /\ types' = types /\ writing' = writing
      /\ files' = files /\ shorts' = shorts /\ phase' = phase
  BY DEF ReadHead
<1>2. phase = "reading"
  BY <1>1 DEF Unread
<1>3. PICK G : \E v \in Items, q \in Nat :
              Awaiting(tape, types, body, stack, G, v, q) /\ <<pos, v, q>> \in E
  BY <1>1, ReaderNext
<1>4. PICK v \in Items, q \in Nat :
              Awaiting(tape, types, body, stack, G, v, q) /\ <<pos, v, q>> \in E
  BY <1>3
<1>5. /\ v \in Types /\ Cell.con = v.con /\ Cell.arity = Len(v.args)
      /\ Leads(E, v.args, 1, Len(v.args) + 1, pos + 1, q)
  BY <1>1, <1>4, CellOfValue DEF Cell
<1>6. pos \in Nat
  BY <1>4, EncodingsSound, TriplesAre DEF Sound
<1> DEFINE g == [ty |-> v, args |-> v.args, end |-> q, next |-> q]
<1>7. g.ty = v /\ g.args = v.args /\ g.end = q /\ g.next = q
  OBVIOUS
<1>8. /\ f.tag = "type" /\ f.con = Cell.con /\ f.arity = Cell.arity /\ f.args = <<>>
      /\ f = Decoding(f.tag, f.con, f.at, f.arity, f.args)
  BY DEF Decoding
<1> HIDE DEF f, g, E
<1>9. IsSeq(f.args) /\ Len(f.args) = 0
  BY <1>8 DEF IsSeq
<1>10. IsSeq(v.args) /\ Len(v.args) \in Nat
  BY <1>5, ArgumentsAreItems, SeqIsSeq DEF IsSeq
<1>11. IsSeq(stack) /\ n \in Nat /\ n >= 1
  BY <1>4 DEF Awaiting, Calls, IsSeq
<1>12. Serves(tape, types, body, f, g, n + 1)
  <2>1. n + 1 # 1 /\ 0 <= Len(v.args)
    BY <1>10, <1>11
  <2>2. \A k \in 1..0 : FALSE
    OBVIOUS
  <2> HIDE DEF n
  <2> QED
    BY <1>5, <1>7, <1>8, <1>9, <1>10, <2>1, <2>2 DEF Serves
<1>13. GoesOn(E, f, g, pos + 1)
  <2>1. Len(f.args) + 1 = 1
    BY <1>9
  <2> QED
    BY <1>5, <1>6, <1>7, <2>1 DEF GoesOn
<1>14. PICK G2 : Ready(tape, types, body, Append(stack, f), G2, pos + 1)
  <2>1. g.end \in Nat /\ g.end <= q /\ f.tag # "shorthand"
    BY <1>4, <1>7, <1>8
  <2> QED
    BY <1>4, <1>7, <1>12, <1>13, <2>1, CallBegun DEF E
<1>15. MapOK(files) /\ ShortsOK(types, shorts') /\ ValuesOK(files, body, stack)
  BY <1>1, <1>2 DEF EncoderInv, ReaderInv
<1>16. ValuesOK(files', body, stack')
  BY <1>1, <1>11, <1>15, ValuesStay
<1> QED
  BY <1>1, <1>2, <1>14, <1>15, <1>16, StackStep

\* What is at a shorthand, and where it points.
LEMMA ShorthandNext ==
    ASSUME EncoderInv, Unread, Cell.tag = "shorthand"
    PROVE  \E G : \E v \in Types :
              /\ Awaiting(tape, types, body, stack, G, v, pos + 1)
              /\ v \in DOMAIN types /\ Cell = ShorthandCell(types[v]) /\ Cell.at = types[v]
              /\ pos \in DOMAIN tape /\ pos \in Nat /\ types[v] \in Nat
              /\ \E r \in Nat : r <= pos /\ <<types[v], v, r>> \in Encodings(tape, types)
<1>1. PICK G : \E v \in Items, q \in Nat :
              Awaiting(tape, types, body, stack, G, v, q) /\ <<pos, v, q>> \in Encodings(tape, types)
  BY ReaderNext
<1>2. PICK v \in Items, q \in Nat :
              Awaiting(tape, types, body, stack, G, v, q) /\ <<pos, v, q>> \in Encodings(tape, types)
  BY <1>1
<1>3. /\ v \in Types /\ v \in DOMAIN types /\ Cell = ShorthandCell(types[v]) /\ Cell.at = types[v]
      /\ pos \in DOMAIN tape /\ q = pos + 1
  BY <1>2, CellOfValue DEF Cell
<1>4. PICK r \in Nat : r <= pos /\ <<types[v], v, r>> \in Encodings(tape, types)
  <2>1. WriterInv(tape, types, body, writing)
    BY DEF EncoderInv
  <2>2. PICK ty \in DOMAIN types, r \in Nat :
            types[ty] = Cell.at /\ r <= pos /\ <<types[ty], ty, r>> \in Encodings(tape, types)
    BY <1>3, <2>1 DEF WriterInv, ShorthandsFollow, Cell
  <2>3. ty = v
    BY <1>3, <2>1, <2>2 DEF WriterInv, Remembers
  <2> QED
    BY <2>2, <2>3
<1>5. pos \in Nat /\ types[v] \in Nat
  BY <1>2, <1>4, EncodingsSound, TriplesAre DEF Sound
<1> QED
  BY <1>2, <1>3, <1>4, <1>5

\* A type that was followed before is the one that is written there.
LEMMA ReadKnownStep ==
    ASSUME EncoderInv, ReadKnown
    PROVE  EncoderInv'
<1>1. /\ Unread /\ Cell.tag = "shorthand" /\ Cell.at \in DOMAIN shorts
      /\ stack' = Given(stack, shorts[Cell.at]) /\ pos' = pos + 1
      /\ body' = body /\ tape' = tape /\ types' = types /\ writing' = writing
      /\ files' = files /\ shorts' = shorts /\ phase' = phase
  BY DEF ReadKnown
<1>2. phase = "reading"
  BY <1>1 DEF Unread
<1>3. PICK G : \E v \in Types :
              /\ Awaiting(tape, types, body, stack, G, v, pos + 1)
              /\ v \in DOMAIN types /\ Cell.at = types[v]
  BY <1>1, ShorthandNext
<1>4. PICK v \in Types : /\ Awaiting(tape, types, body, stack, G, v, pos + 1)
                         /\ v \in DOMAIN types /\ Cell.at = types[v]
  BY <1>3
<1>5. /\ MapOK(files) /\ ShortsOK(types, shorts) /\ ValuesOK(files, body, stack)
      /\ \A t1, t2 \in DOMAIN types : types[t1] = types[t2] => t1 = t2
  BY <1>1, <1>2 DEF EncoderInv, ReaderInv, WriterInv, Remembers
<1>6. shorts[Cell.at] = v
  BY <1>1, <1>4, <1>5 DEF ShortsOK
<1>7. Good(files, v, v)
  BY DEF Good
<1>8. Ready(tape, types, body, stack', G, pos')
  BY <1>1, <1>4, <1>6, ValueGiven
<1>9. ValuesOK(files', body, stack')
  BY <1>1, <1>4, <1>5, <1>6, <1>7, ValuesGiven
<1> QED
  BY <1>1, <1>2, <1>5, <1>8, <1>9, StackStep

\* A type that was not is read where the shorthand points.
LEMMA JumpStep ==
    ASSUME EncoderInv, Jump
    PROVE  EncoderInv'
<1> DEFINE E == Encodings(tape, types)
           n == Len(stack)
           f == Decoding("shorthand", "shorthand", pos, 1, <<>>)
<1>1. /\ Unread /\ Cell.tag = "shorthand" /\ stack' = Append(stack, f) /\ pos' = Cell.at
      /\ body' = body /\ tape' = tape /\ types' = types /\ writing' = writing
      /\ files' = files /\ shorts' = shorts /\ phase' = phase
  BY DEF Jump
<1>2. phase = "reading"
  BY <1>1 DEF Unread
<1>3. PICK G : \E v \in Types :
              /\ Awaiting(tape, types, body, stack, G, v, pos + 1)
              /\ v \in DOMAIN types /\ Cell = ShorthandCell(types[v]) /\ Cell.at = types[v]
              /\ pos \in DOMAIN tape /\ pos \in Nat /\ types[v] \in Nat
              /\ \E r \in Nat : r <= pos /\ <<types[v], v, r>> \in E
  BY <1>1, ShorthandNext
<1>4. PICK v \in Types :
              /\ Awaiting(tape, types, body, stack, G, v, pos + 1)
              /\ v \in DOMAIN types /\ Cell = ShorthandCell(types[v]) /\ Cell.at = types[v]
              /\ pos \in DOMAIN tape /\ pos \in Nat /\ types[v] \in Nat
              /\ \E r \in Nat : r <= pos /\ <<types[v], v, r>> \in E
  BY <1>3
<1>5. PICK r \in Nat : r <= pos /\ <<types[v], v, r>> \in E
  BY <1>4
<1> DEFINE g == [ty |-> v, args |-> <<v>>, end |-> r, next |-> pos + 1]
<1>6. g.ty = v /\ g.args = <<v>> /\ g.end = r /\ g.next = pos + 1
  OBVIOUS
<1>7. /\ f.tag = "shorthand" /\ f.at = pos /\ f.arity = 1 /\ f.args = <<>>
      /\ f = Decoding(f.tag, f.con, f.at, f.arity, f.args)
  BY DEF Decoding
<1> HIDE DEF f, g, E
<1>8. IsSeq(f.args) /\ Len(f.args) = 0 /\ IsSeq(<<v>>) /\ Len(<<v>>) = 1 /\ <<v>>[1] = v
  BY <1>7 DEF IsSeq
<1>9. IsSeq(stack) /\ n \in Nat /\ n >= 1
  BY <1>4 DEF Awaiting, Calls, IsSeq
<1>10. Serves(tape, types, body, f, g, n + 1)
  <2>1. n + 1 # 1 /\ 0 <= 1
    BY <1>9
  <2>2. \A k \in 1..0 : FALSE
    OBVIOUS
  <2>3. tape[f.at] = ShorthandCell(types[g.ty])
    BY <1>4, <1>6, <1>7 DEF Cell
  <2> HIDE DEF n
  <2> QED
    BY <1>4, <1>6, <1>7, <1>8, <2>1, <2>2, <2>3 DEF Serves
<1>11. GoesOn(E, f, g, types[v])
  <2>1. Leads(E, <<v>>, 1, 1, types[v], types[v])
    BY <1>4, LeadsNowhere
  <2>2. types[v] < r
    BY <1>5, EncodingsSound, TriplesAre DEF Sound, E
  <2>3. Leads(E, <<v>>, 1, 1 + 1, types[v], r)
    BY <1>5, <1>8, <2>1, <2>2, LeadsMore
  <2>4. Len(f.args) + 1 = 1 /\ Len(g.args) + 1 = 1 + 1
    BY <1>6, <1>8
  <2> QED
    BY <1>4, <1>6, <2>3, <2>4 DEF GoesOn
<1>12. PICK G2 : Ready(tape, types, body, Append(stack, f), G2, types[v])
  <2>1. g.end \in Nat /\ g.end <= pos /\ pos \in Nat /\ pos <= pos + 1 /\ f.at = pos
    BY <1>4, <1>5, <1>6, <1>7
  <2>2. g.end <= pos + 1
    BY <2>1
  <2> QED
    BY <1>4, <1>6, <1>10, <1>11, <2>1, <2>2, CallBegun DEF E
<1>13. MapOK(files) /\ ShortsOK(types, shorts') /\ ValuesOK(files, body, stack)
  BY <1>1, <1>2 DEF EncoderInv, ReaderInv
<1>14. ValuesOK(files', body, stack')
  BY <1>1, <1>9, <1>13, ValuesStay
<1> QED
  BY <1>1, <1>2, <1>4, <1>12, <1>13, <1>14, StackStep

\* A call that is given all its values is there for a type, or is the body's.
LEMMA CallDone ==
    ASSUME EncoderInv, phase = "reading", Len(Reading.args) = Reading.arity
    PROVE  \E G :
              /\ Ready(tape, types, body, stack, G, pos) /\ Len(stack) \in Nat /\ Len(stack) >= 1
              /\ Serves(tape, types, body, Reading, G[Len(stack)], Len(stack))
              /\ IsSeq(Reading.args) /\ IsSeq(G[Len(stack)].args)
              /\ Len(Reading.args) = Len(G[Len(stack)].args)
              /\ pos = G[Len(stack)].end
<1> DEFINE n == Len(stack)
           f == stack[n]
<1>1. PICK G : Ready(tape, types, body, stack, G, pos)
  BY DEF EncoderInv, ReaderInv
<1> DEFINE g == G[n]
<1>2. n \in Nat /\ n >= 1 /\ n \in 1..n
  BY <1>1 DEF Ready, Calls, IsSeq
<1>3. Serves(tape, types, body, f, g, n) /\ Reading = f
  BY <1>1, <1>2 DEF Ready, Calls, Reading
<1>4. IsSeq(f.args) /\ IsSeq(g.args) /\ f.arity = Len(g.args) /\ Len(f.args) \in Nat
  BY <1>3 DEF Serves, IsSeq
<1>5. Len(f.args) = Len(g.args)
  BY <1>3, <1>4
<1>6. pos \in Nat /\ Leads(Encodings(tape, types), g.args, Len(f.args) + 1, Len(f.args) + 1, pos, g.end)
  BY <1>1, <1>5 DEF Ready, GoesOn
<1>7. pos = g.end
  <2>1. Len(f.args) + 1 \in Nat
    BY <1>4
  <2> HIDE DEF f, g
  <2> QED
    BY <1>6, <2>1, LeadsNowhere
<1> QED
  BY <1>1, <1>2, <1>3, <1>4, <1>5, <1>7

\* A type that is written out is the one its caller awaits.
LEMMA EndHeadStep ==
    ASSUME EncoderInv, EndHead
    PROVE  EncoderInv'
<1> DEFINE n == Len(stack)
           f == Reading
           x == [kind |-> "type", con |-> f.con, args |-> f.args]
<1>1. /\ phase = "reading" /\ f.tag = "type" /\ Len(f.args) = f.arity
      /\ stack' = Given(Front(stack), x) /\ pos' = pos
      /\ body' = body /\ tape' = tape /\ types' = types /\ writing' = writing
      /\ files' = files /\ shorts' = shorts /\ phase' = phase
  BY DEF EndHead
<1>2. PICK G :
              /\ Ready(tape, types, body, stack, G, pos) /\ n \in Nat /\ n >= 1
              /\ Serves(tape, types, body, f, G[n], n)
              /\ IsSeq(f.args) /\ IsSeq(G[n].args)
              /\ Len(f.args) = Len(G[n].args)
              /\ pos = G[n].end
  BY <1>1, CallDone
<1> DEFINE v == G[n].ty
<1>3. n # 1
  BY <1>1, <1>2 DEF Serves
<1>4. /\ v \in Types /\ f.con = v.con /\ G[n].args = v.args /\ G[n].next = G[n].end
      /\ \A k \in 1..Len(f.args) : f.args[k] = G[n].args[k]
  BY <1>1, <1>2, <1>3 DEF Serves
<1>5. n > 1
  <2>1. \A k \in Nat : k >= 1 /\ k # 1 => k > 1
    OBVIOUS
  <2> QED
    BY <1>2, <1>3, <2>1
<1>6. x = v
  <2>1. f.args = v.args
    BY <1>2, <1>4 DEF IsSeq
  <2>2. v = [kind |-> "type", con |-> v.con, args |-> v.args]
    BY <1>4, TypesAssumption DEF TypesAssumption
  <2> HIDE DEF f, v
  <2> QED
    BY <1>4, <2>1, <2>2
<1> HIDE DEF x, f
<1>7. /\ Awaiting(tape, types, body, Front(stack), G, v, pos)
      /\ Len(Front(stack)) = n - 1 /\ Front(stack)[1] = stack[1]
  BY <1>2, <1>4, <1>5, CallEnded
<1>8. MapOK(files) /\ ShortsOK(types, shorts') /\ ValuesOK(files, body, stack)
  BY <1>1 DEF EncoderInv, ReaderInv
<1>9. ValuesOK(files, body, Front(stack)) /\ Good(files, x, v)
  BY <1>4, <1>6, <1>7, <1>8 DEF ValuesOK, Good
<1>10. Ready(tape, types, body, stack', G, pos')
  BY <1>1, <1>6, <1>7, ValueGiven
<1>11. ValuesOK(files', body, stack')
  BY <1>1, <1>7, <1>9, ValuesGiven
<1> QED
  BY <1>1, <1>8, <1>10, <1>11, StackStep

\* So is one that was read where a shorthand points, and it is remembered
\* for that place.
LEMMA EndJumpStep ==
    ASSUME EncoderInv, EndJump
    PROVE  EncoderInv'
<1> DEFINE n == Len(stack)
           f == Reading
           x == f.args[1]
<1>1. /\ phase = "reading" /\ f.tag = "shorthand" /\ Len(f.args) = f.arity
      /\ stack' = Given(Front(stack), x) /\ pos' = f.at + 1
      /\ shorts' = Entered(shorts, tape[f.at].at, x)
      /\ body' = body /\ tape' = tape /\ types' = types /\ writing' = writing
      /\ files' = files /\ phase' = phase
  BY DEF EndJump, After, Remembered
<1>2. PICK G :
              /\ Ready(tape, types, body, stack, G, pos) /\ n \in Nat /\ n >= 1
              /\ Serves(tape, types, body, f, G[n], n)
              /\ IsSeq(f.args) /\ IsSeq(G[n].args)
              /\ Len(f.args) = Len(G[n].args)
              /\ pos = G[n].end
  BY <1>1, CallDone
<1> DEFINE v == G[n].ty
<1>3. n # 1
  BY <1>1, <1>2 DEF Serves
<1>4. /\ v \in Types /\ v \in DOMAIN types /\ G[n].args = <<v>>
      /\ tape[f.at] = ShorthandCell(types[v]) /\ G[n].next = f.at + 1
      /\ \A k \in 1..Len(f.args) : f.args[k] = G[n].args[k]
  BY <1>1, <1>2, <1>3 DEF Serves
<1>5. n > 1
  <2>1. \A k \in Nat : k >= 1 /\ k # 1 => k > 1
    OBVIOUS
  <2> QED
    BY <1>2, <1>3, <2>1
<1>6. x = v
  <2>1. Len(f.args) = 1 /\ 1 \in 1..1
    BY <1>2, <1>4
  <2> HIDE DEF f, v
  <2> QED
    BY <1>4, <2>1
<1> HIDE DEF x, f
<1>7. /\ Awaiting(tape, types, body, Front(stack), G, v, f.at + 1)
      /\ Len(Front(stack)) = n - 1 /\ Front(stack)[1] = stack[1]
  BY <1>2, <1>4, <1>5, CallEnded
<1>8. MapOK(files) /\ ShortsOK(types, shorts) /\ ValuesOK(files, body, stack)
  BY <1>1 DEF EncoderInv, ReaderInv
<1>9. ValuesOK(files, body, Front(stack)) /\ Good(files, x, v)
  BY <1>4, <1>6, <1>7, <1>8 DEF ValuesOK, Good
<1>10. Ready(tape, types, body, stack', G, pos')
  BY <1>1, <1>6, <1>7, ValueGiven
<1>11. ValuesOK(files', body, stack')
  BY <1>1, <1>7, <1>9, ValuesGiven
<1>12. ShortsOK(types, shorts')
  <2>1. tape[f.at].at = types[v]
    BY <1>4 DEF ShorthandCell
  <2>2. shorts' = Entered(shorts, types[v], v)
    BY <1>1, <1>6, <2>1
  <2> QED
    BY <1>4, <1>8, <2>2 DEF ShortsOK, Entered
<1> QED
  BY <1>1, <1>8, <1>10, <1>11, <1>12, StackStep

\* Encodings, and what there is in the file for each call, are kept by all
\* that the writer and the reader do.
THEOREM EncoderInvariant == Spec => []EncoderInv
<1>1. ASSUME EncoderInv, [Next]_vars
      PROVE  EncoderInv'
  <2>1. CASE WriteSpan \/ WriteShorthand \/ BeginType \/ EndType
    BY <1>1, <2>1, WriterSteps
  <2>2. CASE Open
    BY <1>1, <2>2, OpenStep
  <2>3. CASE \E f \in Importable : Import(f)
    BY <1>1, <2>3, ImportStep
  <2>4. CASE ReadPartial
    BY <1>1, <2>4, ReadPartialStep
  <2>5. CASE ReadSpan
    BY <1>1, <2>5, ReadSpanStep
  <2>6. CASE Panic
    BY <1>1, <2>6, PanicStep
  <2>7. CASE ReadHead
    BY <1>1, <2>7, ReadHeadStep
  <2>8. CASE ReadKnown
    BY <1>1, <2>8, ReadKnownStep
  <2>9. CASE Jump
    BY <1>1, <2>9, JumpStep
  <2>10. CASE EndHead
    BY <1>1, <2>10, EndHeadStep
  <2>11. CASE EndJump
    BY <1>1, <2>11, EndJumpStep
  <2>12. CASE Over \/ UNCHANGED vars
    <3>1. /\ body' = body /\ tape' = tape /\ types' = types /\ writing' = writing
          /\ files' = files /\ pos' = pos /\ shorts' = shorts /\ stack' = stack /\ phase' = phase
      BY <2>12 DEF Over, vars
    <3>2. Cell' = Cell
      BY <3>1 DEF Cell
    <3>3. NotFound(Cell)' = NotFound(Cell) /\ Ambiguous(Cell)' = Ambiguous(Cell)
      BY <3>1, <3>2 DEF NotFound, Ambiguous, Matching
    <3> QED
      BY <1>1, <3>1, <3>3 DEF EncoderInv, ReaderInv
  <2> QED
    BY <1>1, <2>1, <2>2, <2>3, <2>4, <2>5, <2>6, <2>7, <2>8, <2>9, <2>10, <2>11, <2>12 DEF Next
<1> QED
  BY <1>1, EncoderInit, PTL DEF Spec

\* Type correctness: files never overlap in the reader's source map, every
\* shorthand points back at a type that is written out, and what the reader
\* remembers for a place is the type the writer remembered that place for.
THEOREM EncoderTypes == Spec => []TypeOK
<1>1. EncoderInv => TypeOK
  <2> SUFFICES ASSUME EncoderInv PROVE TypeOK
    OBVIOUS
  <2>1. \A j, k \in DOMAIN files : j < k => End(files[j]) < files[k].start
    BY DEF EncoderInv, MapOK, Ordered
  <2>2. \A k \in DOMAIN tape : tape[k].tag = "shorthand" => tape[k].at < k /\ tape[tape[k].at].tag = "type"
    BY DEF EncoderInv, WriterInv, ShorthandsPoint
  <2>3. \A p \in DOMAIN shorts : \E ty \in DOMAIN types : types[ty] = p /\ shorts[p] = ty
    BY DEF EncoderInv, ShortsOK
  <2> QED
    BY <2>1, <2>2, <2>3 DEF EncoderInv, TypeOK
<1> QED
  BY <1>1, EncoderInvariant, PTL

\* What was read of the body, when no more than it holds is read.
LEMMA WhatIsRead ==
    ASSUME EncoderInv, phase # "writing"
    PROVE  /\ Len(stack[1].args) <= Len(body)
           /\ \A k \in DOMAIN stack[1].args :
                 body[k] \in Items /\ Good(files, stack[1].args[k], body[k])
           /\ phase = "reading" /\ AllRead => pos = Len(tape) + 1
<1>1. MapOK(files) /\ ReaderInv /\ body \in Bodies
  BY DEF EncoderInv, WriterInv
<1>2. PICK G : Ready(tape, types, body, stack, G, pos)
  BY <1>1 DEF ReaderInv
<1>3. Len(stack) \in Nat /\ 1 \in 1..Len(stack)
  BY <1>2 DEF Ready, Calls, IsSeq
<1>4. Serves(tape, types, body, stack[1], G[1], 1)
  BY <1>2, <1>3 DEF Ready, Calls
<1>5. IsSeq(stack[1].args) /\ Len(stack[1].args) <= Len(body)
  BY <1>4 DEF Serves
<1>6. body \in Seq(Items) /\ Len(body) \in Nat
  BY <1>1, ArgumentsAreItems
<1>7. ASSUME NEW k \in DOMAIN stack[1].args
      PROVE  body[k] \in Items /\ Good(files, stack[1].args[k], body[k])
  <2>1. k \in 1..Len(stack[1].args) /\ k \in 1..Len(body)
    BY <1>5, <1>6, <1>7 DEF IsSeq
  <2> QED
    BY <1>1, <1>6, <2>1 DEF ReaderInv, ValuesOK
<1>8. ASSUME phase = "reading", AllRead PROVE pos = Len(tape) + 1
  <2>1. Reading.tag = "body" /\ Len(Reading.args) = Reading.arity
    BY <1>8 DEF AllRead
  <2>2. PICK H :
            /\ Serves(tape, types, body, Reading, H[Len(stack)], Len(stack))
            /\ pos = H[Len(stack)].end
    BY <1>8, <2>1, CallDone
  <2>3. Len(stack) = 1
    BY <2>1, <2>2 DEF Serves
  <2> QED
    BY <2>2, <2>3 DEF Serves
<1> QED
  BY <1>5, <1>7, <1>8

\* When a file on the reader's side is what the writer's file of that crate
\* and path is, every value that is read is the one that was written in its
\* place, and nothing is left when all of them are read.
THEOREM EncoderRoundTrip == FilesAgree => (Spec => []ReadsWhatWasWritten)
<1> SUFFICES ASSUME FilesAgree PROVE Spec => []ReadsWhatWasWritten
  OBVIOUS
<1>1. EncoderInv => ReadsWhatWasWritten
  <2> SUFFICES ASSUME EncoderInv, phase # "writing"
               PROVE  /\ Len(stack[1].args) <= Len(body)
                      /\ \A k \in DOMAIN stack[1].args : Same(stack[1].args[k], body[k])
                      /\ phase = "reading" /\ AllRead => pos = Len(tape) + 1
    BY DEF ReadsWhatWasWritten
  <2>1. \A k \in DOMAIN stack[1].args : Same(stack[1].args[k], body[k])
    BY WhatIsRead, GoodIsSame DEF EncoderInv
  <2> QED
    BY <2>1, WhatIsRead
<1> QED
  BY <1>1, EncoderInvariant, PTL

\* Types depend on no source map: they are read as they were written, and the
\* reader is where the file ends when all values are read, whichever files the
\* compilers have.
TypesReadBack ==
    phase # "writing" =>
        /\ \A k \in DOMAIN stack[1].args : body[k] \in Types => stack[1].args[k] = body[k]
        /\ phase = "reading" /\ AllRead => pos = Len(tape) + 1

\* The shorthands alone: what is pointed at is what was meant.
THEOREM EncoderTypesReadBack == Spec => []TypesReadBack
<1>1. EncoderInv => TypesReadBack
  <2> SUFFICES ASSUME EncoderInv, phase # "writing"
               PROVE  /\ \A k \in DOMAIN stack[1].args : body[k] \in Types => stack[1].args[k] = body[k]
                      /\ phase = "reading" /\ AllRead => pos = Len(tape) + 1
    BY DEF TypesReadBack
  <2> QED
    BY WhatIsRead DEF Good
<1> QED
  BY <1>1, EncoderInvariant, PTL

\* ... and the reader gives up only on a span whose file it cannot find, or
\* cannot tell from another.
THEOREM EncoderPanics == FilesAgree => (Spec => []NoPanicWithoutReason)
<1> SUFFICES ASSUME FilesAgree PROVE Spec => []NoPanicWithoutReason
  OBVIOUS
<1>1. EncoderInv => NoPanicWithoutReason
  BY DEF EncoderInv, NoPanicWithoutReason
<1> QED
  BY <1>1, EncoderInvariant, PTL

----------------------------------------------------------------------------
(* Shorthands within what shorthands lead to.                              *)

Following(st) == {j \in DOMAIN st : st[j].tag = "shorthand"}

\* The reader is past p, or was before it followed a shorthand.
Passed(st, p0, p) ==
    IF Following(st) = {} THEN p < p0 ELSE \E j \in Following(st) : p < st[j].at

\* There is a type for every shorthand that the reader is past.
AllKnown(tp, sh, st, p0) ==
    \A p \in DOMAIN tp : tp[p].tag = "shorthand" /\ Passed(st, p0, p) => tp[p].at \in DOMAIN sh

JumpInv ==
    /\ phase = "writing" => stack = <<>>
    /\ OneJump
    /\ phase # "writing" => AllKnown(tape, shorts, stack, pos)

\* Giving a call a value, beginning one for a type and ending it follow none.
LEMMA FollowingSame ==
    ASSUME NEW st, IsSeq(st), Len(st) >= 1
    PROVE  /\ \A x : /\ Following(Given(st, x)) = Following(st)
                     /\ \A j \in Following(st) : Given(st, x)[j].at = st[j].at
           /\ \A f : /\ f.tag # "shorthand" => Following(Append(st, f)) = Following(st)
                     /\ \A j \in Following(st) : Append(st, f)[j].at = st[j].at
           /\ st[Len(st)].tag # "shorthand" => Following(Front(st)) = Following(st)
           /\ \A j \in Following(Front(st)) : j \in Following(st) /\ j < Len(st) /\ Front(st)[j].at = st[j].at
           /\ IsSeq(Front(st)) /\ Len(Front(st)) = Len(st) - 1
<1> DEFINE n == Len(st)
<1>1. n \in Nat /\ n >= 1 /\ DOMAIN st = 1..n /\ st = [j \in 1..n |-> st[j]] /\ n \in 1..n
  BY DEF IsSeq
<1>2. ASSUME NEW x
      PROVE  /\ Following(Given(st, x)) = Following(st)
             /\ \A j \in Following(st) : Given(st, x)[j].at = st[j].at
  <2> DEFINE f == st[n]
             h == Decoding(f.tag, f.con, f.at, f.arity, Append(f.args, x))
  <2>1. Given(st, x) = [j \in 1..n |-> IF j = n THEN h ELSE st[j]]
    BY <1>1 DEF Given
  <2>2. h.tag = f.tag /\ h.at = f.at
    BY DEF Decoding
  <2> HIDE DEF h, n
  <2>3. \A j \in 1..n : Given(st, x)[j].tag = st[j].tag /\ Given(st, x)[j].at = st[j].at
    BY <2>1, <2>2
  <2>4. DOMAIN Given(st, x) = 1..n
    BY <2>1
  <2> QED
    BY <1>1, <2>3, <2>4 DEF Following
<1>3. ASSUME NEW f
      PROVE  /\ f.tag # "shorthand" => Following(Append(st, f)) = Following(st)
             /\ \A j \in Following(st) : Append(st, f)[j].at = st[j].at
  <2>1. /\ IsSeq(Append(st, f)) /\ Len(Append(st, f)) = n + 1 /\ Append(st, f)[n + 1] = f
        /\ \A j \in 1..n : Append(st, f)[j] = st[j]
    BY <1>1, AppendFacts
  <2>2. DOMAIN Append(st, f) = 1..(n + 1)
    BY <2>1 DEF IsSeq
  <2>3. \A j \in 1..(n + 1) : j = n + 1 \/ j \in 1..n
    BY <1>1
  <2>4. \A j \in 1..n : j \in 1..(n + 1)
    BY <1>1
  <2> HIDE DEF n
  <2> QED
    BY <1>1, <2>1, <2>2, <2>3, <2>4 DEF Following
<1>4. IsSeq(Front(st)) /\ Len(Front(st)) = n - 1 /\ \A j \in 1..(n - 1) : Front(st)[j] = st[j]
  <2>1. st \in Seq({st[j] : j \in DOMAIN st})
    BY SeqOverElements
  <2>2. /\ Front(st) \in Seq({st[j] : j \in DOMAIN st}) /\ Len(Front(st)) = n - 1
        /\ \A j \in 1..(n - 1) : Front(st)[j] = st[j]
    BY <1>1, <2>1 DEF Front
  <2> QED
    BY <2>2, SeqIsSeq
<1>5. DOMAIN Front(st) = 1..(n - 1)
  BY <1>4 DEF IsSeq
<1>6. \A j \in 1..n : j = n \/ j \in 1..(n - 1)
  BY <1>1
<1>7. \A j \in 1..(n - 1) : j \in 1..n /\ j < n
  BY <1>1
<1> HIDE DEF n
<1>8. st[n].tag # "shorthand" => Following(Front(st)) = Following(st)
  BY <1>1, <1>4, <1>5, <1>6, <1>7 DEF Following
<1>9. \A j \in Following(Front(st)) : j \in Following(st) /\ j < n /\ Front(st)[j].at = st[j].at
  BY <1>1, <1>4, <1>5, <1>7 DEF Following
<1> QED
  BY <1>2, <1>3, <1>4, <1>8, <1>9 DEF n

\* In other words.
LEMMA OneJumpIs ==
    ASSUME NEW st, NEW st2, Following(st2) \subseteq Following(st),
           \A i, j \in Following(st) : i = j
    PROVE  \A i, j \in DOMAIN st2 : st2[i].tag = "shorthand" /\ st2[j].tag = "shorthand" => i = j
  BY DEF Following

\* What is read where a shorthand points is before the shorthand.
LEMMA InsideJump ==
    ASSUME EncoderInv, Unread, NEW j \in Following(stack)
    PROVE  pos \in Nat /\ stack[j].at \in Nat /\ pos < stack[j].at
<1>1. PICK G : \E v \in Items, q \in Nat :
              Awaiting(tape, types, body, stack, G, v, q) /\ <<pos, v, q>> \in Encodings(tape, types)
  BY ReaderNext
<1>2. PICK v \in Items, q \in Nat :
              Awaiting(tape, types, body, stack, G, v, q) /\ <<pos, v, q>> \in Encodings(tape, types)
  BY <1>1
<1> DEFINE n == Len(stack)
<1>3. IsSeq(stack) /\ n \in Nat /\ n >= 1 /\ n \in 1..n /\ DOMAIN stack = 1..n
  BY <1>2 DEF Awaiting, Calls, IsSeq
<1>4. pos \in Nat /\ q \in Nat /\ pos < q
  BY <1>2, EncodingsSound, TriplesAre DEF Sound
<1>5. G[n].end \in Nat /\ q <= G[n].end
  <2>1. Serves(tape, types, body, stack[n], G[n], n)
        /\ Awaits(Encodings(tape, types), stack[n], G[n], v, q)
    BY <1>2, <1>3 DEF Awaiting, Calls
  <2> HIDE DEF n
  <2> QED
    BY <2>1, AwaitsOn DEF Serves
<1>6. stack[j].at \in Nat /\ G[n].end <= stack[j].at
  <2>1. Before(stack, G)
    BY <1>2 DEF Awaiting, Calls
  <2>2. j \in 1..n /\ stack[j].tag = "shorthand" /\ j <= n
    BY <1>3 DEF Following
  <2> QED
    BY <1>3, <2>1, <2>2 DEF Before
<1> QED
  BY <1>4, <1>5, <1>6

\* The stack the reader has.
LEMMA StackIs ==
    ASSUME EncoderInv, phase = "reading"
    PROVE  IsSeq(stack) /\ Len(stack) >= 1 /\ Len(stack) \in Nat
<1>1. PICK G : Ready(tape, types, body, stack, G, pos)
  BY DEF EncoderInv, ReaderInv
<1> QED
  BY <1>1 DEF Ready, Calls, IsSeq

\* The reader is at a position when it is about to read a value.
LEMMA ReaderPos ==
    ASSUME EncoderInv, Unread
    PROVE  pos \in Nat
<1>1. PICK G : \E v \in Items, q \in Nat :
              Awaiting(tape, types, body, stack, G, v, q) /\ <<pos, v, q>> \in Encodings(tape, types)
  BY ReaderNext
<1> QED
  BY <1>1, EncodingsSound, TriplesAre DEF Sound

\* A call for a type has one below it, and knows from where it was made.
LEMMA HeadAbove ==
    ASSUME EncoderInv, phase = "reading", Reading.tag \in {"type", "shorthand"}
    PROVE  /\ Len(stack) - 1 >= 1
           /\ Reading.tag = "shorthand" => Reading.at \in Nat
<1>1. PICK G : Ready(tape, types, body, stack, G, pos)
  BY DEF EncoderInv, ReaderInv
<1> DEFINE n == Len(stack)
<1>2. n \in Nat /\ n >= 1 /\ n \in 1..n
  BY <1>1 DEF Ready, Calls, IsSeq
<1>3. Serves(tape, types, body, Reading, G[n], n) /\ Before(stack, G)
  BY <1>1, <1>2 DEF Ready, Calls, Reading
<1>4. n # 1
  BY <1>3 DEF Serves
<1>5. n - 1 >= 1
  <2>1. \A k \in Nat : k >= 1 /\ k # 1 => k - 1 >= 1
    OBVIOUS
  <2> QED
    BY <1>2, <1>4, <2>1
<1>6. Reading.tag = "shorthand" => Reading.at \in Nat
  <2>1. n <= n
    BY <1>2
  <2> QED
    BY <1>2, <1>3, <2>1 DEF Before, Reading
<1> QED
  BY <1>5, <1>6

\* A value takes one cell that is no shorthand, or one whose type is known.
LEMMA JumpReads ==
    ASSUME EncoderInv, JumpInv, ReadPartial \/ ReadSpan \/ ReadKnown \/ ReadHead
    PROVE  JumpInv'
<1>1. /\ phase = "reading" /\ phase' = "reading" /\ tape' = tape /\ shorts' = shorts
      /\ pos' = pos + 1 /\ Unread
      /\ Cell.tag = "shorthand" => Cell.at \in DOMAIN shorts
  BY DEF ReadPartial, ReadSpan, ReadKnown, ReadHead, AtSpan, Unread
<1>2. \/ \E x : stack' = Given(stack, x)
      \/ \E f : f.tag # "shorthand" /\ stack' = Append(stack, f)
  BY DEF ReadPartial, ReadSpan, ReadKnown, ReadHead, Decoding
<1>3. IsSeq(stack) /\ Len(stack) >= 1
  BY <1>1, StackIs
<1>4. Following(stack') = Following(stack) /\ \A j \in Following(stack) : stack'[j].at = stack[j].at
  <2>1. CASE \E x : stack' = Given(stack, x)
    BY <1>3, <2>1, FollowingSame
  <2>2. CASE \E f : f.tag # "shorthand" /\ stack' = Append(stack, f)
    <3>1. PICK f : f.tag # "shorthand" /\ stack' = Append(stack, f)
      BY <2>2
    <3>2. /\ f.tag # "shorthand" => Following(Append(stack, f)) = Following(stack)
          /\ \A j \in Following(stack) : Append(stack, f)[j].at = stack[j].at
      BY <1>3, FollowingSame
    <3> QED
      BY <3>1, <3>2
  <2> QED
    BY <1>2, <2>1, <2>2
<1>5. \A i, j \in Following(stack) : i = j
  BY DEF JumpInv, OneJump, Following
<1>6. OneJump'
  BY <1>4, <1>5, OneJumpIs DEF OneJump
<1>7. pos \in Nat
  BY <1>1, ReaderPos
<1>8. ASSUME NEW p \in DOMAIN tape, tape[p].tag = "shorthand", Passed(stack', pos + 1, p)
      PROVE  tape[p].at \in DOMAIN shorts
  <2>1. AllKnown(tape, shorts, stack, pos)
    BY <1>1 DEF JumpInv
  <2>2. CASE p = pos
    BY <1>1, <1>8, <2>2 DEF Cell
  <2>3. CASE p # pos
    <3>1. p \in Nat
      BY DEF EncoderInv, WriterInv, IsSeq
    <3>2. p < pos + 1 => p < pos
      BY <1>7, <2>3, <3>1
    <3>3. Passed(stack, pos, p)
      BY <1>4, <1>8, <3>2 DEF Passed
    <3> QED
      BY <1>8, <2>1, <3>3 DEF AllKnown
  <2> QED
    BY <2>2, <2>3
<1>9. AllKnown(tape, shorts, stack', pos + 1)
  BY <1>8 DEF AllKnown
<1> QED
  BY <1>1, <1>6, <1>9 DEF JumpInv

\* A shorthand is followed for the first time where no other is followed.
LEMMA JumpJumps ==
    ASSUME EncoderInv, JumpInv, Jump
    PROVE  JumpInv'
<1> DEFINE n == Len(stack)
           f == Decoding("shorthand", "shorthand", pos, 1, <<>>)
<1>1. /\ phase = "reading" /\ phase' = "reading" /\ tape' = tape /\ shorts' = shorts
      /\ Unread /\ Cell.tag = "shorthand" /\ Cell.at \notin DOMAIN shorts
      /\ stack' = Append(stack, f)
  BY DEF Jump, Unread
<1>2. f.tag = "shorthand" /\ f.at = pos
  BY DEF Decoding
<1> HIDE DEF f
<1>3. IsSeq(stack) /\ n >= 1 /\ n \in Nat /\ DOMAIN stack = 1..n
  BY <1>1, StackIs DEF IsSeq
<1>4. AllKnown(tape, shorts, stack, pos)
  BY <1>1 DEF JumpInv
<1>5. Following(stack) = {}
  <2> SUFFICES ASSUME NEW j \in Following(stack) PROVE FALSE
    OBVIOUS
  <2>1. pos < stack[j].at
    BY <1>1, InsideJump
  <2>2. Passed(stack, pos, pos)
    BY <2>1 DEF Passed
  <2>3. pos \in DOMAIN tape
    BY <1>1, ShorthandNext
  <2> QED
    BY <1>1, <1>4, <2>2, <2>3 DEF AllKnown, Cell
<1>6. /\ IsSeq(stack') /\ Len(stack') = n + 1 /\ stack'[n + 1] = f
      /\ \A j \in 1..n : stack'[j] = stack[j]
  BY <1>1, <1>3, AppendFacts
<1>7. DOMAIN stack' = 1..(n + 1) /\ n + 1 \in 1..(n + 1)
  BY <1>3, <1>6 DEF IsSeq
<1>8. \A j \in 1..(n + 1) : j = n + 1 \/ j \in 1..n
  BY <1>3
<1> HIDE DEF n
<1>9. Following(stack') = {n + 1}
  BY <1>2, <1>3, <1>5, <1>6, <1>7, <1>8 DEF Following
<1>10. OneJump'
  BY <1>9 DEF OneJump, Following
<1>11. ASSUME NEW p \in DOMAIN tape, tape[p].tag = "shorthand", Passed(stack', pos', p)
       PROVE  tape[p].at \in DOMAIN shorts
  <2>1. p < pos
    BY <1>2, <1>6, <1>9, <1>11 DEF Passed
  <2>2. Passed(stack, pos, p)
    BY <1>5, <2>1 DEF Passed
  <2> QED
    BY <1>4, <1>11, <2>2 DEF AllKnown
<1>12. AllKnown(tape, shorts, stack', pos')
  BY <1>11 DEF AllKnown
<1> QED
  BY <1>1, <1>10, <1>12 DEF JumpInv

\* A type that is written out has been read: nothing else changes.
LEMMA JumpEndHead ==
    ASSUME EncoderInv, JumpInv, EndHead
    PROVE  JumpInv'
<1>1. /\ phase = "reading" /\ phase' = "reading" /\ tape' = tape /\ shorts' = shorts /\ pos' = pos
      /\ Reading.tag = "type" /\ \E x : stack' = Given(Front(stack), x)
  BY DEF EndHead
<1>2. IsSeq(stack) /\ Len(stack) >= 1 /\ Len(stack) \in Nat
  BY <1>1, StackIs
<1>3. Len(stack) - 1 >= 1
  BY <1>1, HeadAbove
<1>4. /\ Following(Front(stack)) = Following(stack) /\ IsSeq(Front(stack)) /\ Len(Front(stack)) = Len(stack) - 1
      /\ \A j \in Following(stack) : Front(stack)[j].at = stack[j].at
  BY <1>1, <1>2, FollowingSame DEF Reading
<1>5. /\ Following(stack') = Following(Front(stack))
      /\ \A j \in Following(Front(stack)) : stack'[j].at = Front(stack)[j].at
  BY <1>1, <1>3, <1>4, FollowingSame
<1>6. Following(stack') = Following(stack) /\ \A j \in Following(stack) : stack'[j].at = stack[j].at
  BY <1>4, <1>5
<1>7. \A i, j \in Following(stack) : i = j
  BY DEF JumpInv, OneJump, Following
<1>8. OneJump'
  BY <1>6, <1>7, OneJumpIs DEF OneJump
<1>9. \A p : Passed(stack', pos, p) => Passed(stack, pos, p)
  BY <1>6 DEF Passed
<1>10. AllKnown(tape, shorts, stack', pos)
  BY <1>1, <1>9 DEF JumpInv, AllKnown
<1> QED
  BY <1>1, <1>8, <1>10 DEF JumpInv

\* The reader goes on behind the shorthand, whose type is now known.
LEMMA JumpEnds ==
    ASSUME EncoderInv, JumpInv, EndJump
    PROVE  JumpInv'
<1> DEFINE n == Len(stack)
           f == stack[n]
<1>1. /\ phase = "reading" /\ phase' = "reading" /\ tape' = tape
      /\ f.tag = "shorthand" /\ pos' = f.at + 1
      /\ \E x : stack' = Given(Front(stack), x) /\ shorts' = Entered(shorts, tape[f.at].at, x)
  BY DEF EndJump, Reading, After, Remembered
<1>2. IsSeq(stack) /\ n >= 1 /\ n \in Nat /\ DOMAIN stack = 1..n /\ n \in 1..n
  BY <1>1, StackIs DEF IsSeq
<1>3. n - 1 >= 1 /\ f.at \in Nat
  BY <1>1, HeadAbove DEF Reading
<1>4. n \in Following(stack) /\ \A i, j \in Following(stack) : i = j
  BY <1>1, <1>2 DEF JumpInv, OneJump, Following
<1>5. Following(Front(stack)) = {} /\ IsSeq(Front(stack)) /\ Len(Front(stack)) = n - 1
  <2>1. \A j \in Following(Front(stack)) : j \in Following(stack) /\ j < n
    BY <1>2, FollowingSame
  <2>2. IsSeq(Front(stack)) /\ Len(Front(stack)) = n - 1
    BY <1>2, FollowingSame
  <2>3. ~(n < n)
    BY <1>2
  <2> HIDE DEF n
  <2> QED
    BY <1>4, <2>1, <2>2, <2>3
<1>6. Following(stack') = {}
  BY <1>1, <1>3, <1>5, FollowingSame
<1>7. OneJump'
  BY <1>6 DEF OneJump, Following
<1>8. DOMAIN shorts' = DOMAIN shorts \union {tape[f.at].at}
  BY <1>1 DEF Entered
<1>9. ASSUME NEW p \in DOMAIN tape, tape[p].tag = "shorthand", Passed(stack', pos', p)
      PROVE  tape[p].at \in DOMAIN shorts'
  <2>1. p < f.at + 1
    BY <1>1, <1>6, <1>9 DEF Passed
  <2>2. p \in Nat
    BY DEF EncoderInv, WriterInv, IsSeq
  <2>3. p = f.at \/ p < f.at
    BY <1>3, <2>1, <2>2
  <2>4. ASSUME p < f.at PROVE tape[p].at \in DOMAIN shorts
    <3>1. Passed(stack, pos, p)
      BY <1>4, <2>4 DEF Passed
    <3> QED
      BY <1>1, <1>9, <3>1 DEF JumpInv, AllKnown
  <2> HIDE DEF f
  <2> QED
    BY <1>8, <2>3, <2>4
<1>10. AllKnown(tape, shorts', stack', pos')
  BY <1>9 DEF AllKnown
<1> QED
  BY <1>1, <1>7, <1>10 DEF JumpInv

\* A shorthand is never followed while another is: what it leads to is before
\* it in the file, where every shorthand is known by then.
THEOREM EncoderJumpsOnce == Spec => []OneJump
<1>1. Init => JumpInv
  <2> SUFFICES ASSUME Init PROVE JumpInv
    OBVIOUS
  <2>1. phase = "writing" /\ stack = <<>>
    BY DEF Init
  <2>2. DOMAIN stack = {}
    BY <2>1
  <2> QED
    BY <2>1, <2>2 DEF JumpInv, OneJump
<1>2. ASSUME EncoderInv, JumpInv, [Next]_vars
      PROVE  JumpInv'
  <2>1. CASE \/ WriteSpan \/ WriteShorthand \/ BeginType \/ EndType
    <3>1. phase = "writing" /\ phase' = "writing" /\ stack' = stack
      BY <2>1 DEF WriteSpan, WriteShorthand, BeginType, EndType, Unwritten
    <3> QED
      BY <1>2, <3>1 DEF JumpInv, OneJump
  <2>2. CASE Open
    <3> DEFINE f == Decoding("body", "body", 0, Len(body), <<>>)
    <3>1. phase = "writing" /\ phase' = "reading" /\ tape' = tape /\ pos' = pos /\ stack' = <<f>>
      BY <2>2 DEF Open
    <3>2. f.tag = "body"
      BY DEF Decoding
    <3>3. pos = 1 /\ \A p \in DOMAIN tape : p \in 1..Len(tape) /\ Len(tape) \in Nat
      BY <1>2, <3>1 DEF EncoderInv, WriterInv, IsSeq
    <3> HIDE DEF f
    <3>4. Following(stack') = {}
      BY <3>1, <3>2 DEF Following
    <3>5. OneJump'
      BY <3>4 DEF OneJump, Following
    <3>6. \A p \in DOMAIN tape : ~Passed(stack', pos, p)
      BY <3>3, <3>4 DEF Passed
    <3>7. AllKnown(tape, shorts, stack, pos)'
      BY <3>1, <3>6 DEF AllKnown
    <3> QED
      BY <3>1, <3>5, <3>7 DEF JumpInv
  <2>3. CASE (\E f \in Importable : Import(f)) \/ Panic \/ Over \/ UNCHANGED vars
    <3>1. /\ tape' = tape /\ shorts' = shorts /\ stack' = stack /\ pos' = pos
          /\ phase' = phase \/ (phase = "reading" /\ phase' = "panicked")
      BY <2>3 DEF Import, Panic, Over, vars, AtSpan, Unread
    <3> QED
      BY <1>2, <3>1 DEF JumpInv, OneJump
  <2>4. CASE ReadPartial \/ ReadSpan \/ ReadKnown \/ ReadHead
    BY <1>2, <2>4, JumpReads
  <2>5. CASE Jump
    BY <1>2, <2>5, JumpJumps
  <2>6. CASE EndHead
    BY <1>2, <2>6, JumpEndHead
  <2>7. CASE EndJump
    BY <1>2, <2>7, JumpEnds
  <2> QED
    BY <1>2, <2>1, <2>2, <2>3, <2>4, <2>5, <2>6, <2>7 DEF Next
<1>3. JumpInv => OneJump
  BY DEF JumpInv
<1> QED
  BY <1>1, <1>2, <1>3, EncoderInvariant, PTL DEF Spec

=============================================================================
