------------------------- MODULE FunctionInfoProofs -------------------------
(***************************************************************************)
(* Lemmas on sequences and on the function storage.                        *)
(***************************************************************************)
EXTENDS FunctionInfo, WellFoundedInduction, TLAPS

\* A sequence by its length and elements is one over its elements.
LEMMA SeqOverElements ==
    ASSUME NEW s, IsSeq(s)
    PROVE  /\ s \in Seq({s[k] : k \in DOMAIN s})
           /\ DOMAIN s = 1..Len(s)
  BY DEF IsSeq

\* ... and every typed sequence is one.
LEMMA SeqIsSeq ==
    ASSUME NEW S, NEW s \in Seq(S)
    PROVE  IsSeq(s)
  BY DEF IsSeq

\* A function on 1..n is a sequence of length n.
LEMMA FunctionIsSeq ==
    ASSUME NEW n \in Nat, NEW s, s = [k \in 1..n |-> s[k]]
    PROVE  IsSeq(s) /\ Len(s) = n
<1> DEFINE S == {s[k] : k \in 1..n}
<1>1. s \in [1..n -> S]
  OBVIOUS
<1>2. s \in Seq(S)
  BY <1>1
<1>3. DOMAIN s = 1..n /\ DOMAIN s = 1..Len(s) /\ Len(s) \in Nat
  BY <1>1, <1>2
<1>4. Len(s) = n
  BY <1>3
<1> QED
  BY <1>4 DEF IsSeq

\* Taking the first element off a typed sequence.
LEMMA HeadTail ==
    ASSUME NEW S, NEW s \in Seq(S), s # <<>>
    PROVE  Head(s) \in S /\ Tail(s) \in Seq(S)
  OBVIOUS

\* Appending to a typed sequence.
LEMMA AppendTyped ==
    ASSUME NEW S, NEW s \in Seq(S), NEW e \in S
    PROVE  Append(s, e) \in Seq(S)
  OBVIOUS

\* Appending to any sequence.
LEMMA AppendFacts ==
    ASSUME NEW s, IsSeq(s), NEW e
    PROVE  /\ IsSeq(Append(s, e))
           /\ Len(Append(s, e)) = Len(s) + 1
           /\ Append(s, e)[Len(s) + 1] = e
           /\ \A k \in DOMAIN s : Append(s, e)[k] = s[k]
<1> DEFINE S == {s[k] : k \in DOMAIN s} \union {e}
<1>1. s \in Seq(S)
  BY DEF IsSeq
<1>2. Append(s, e) \in Seq(S)
  BY <1>1
<1>3. IsSeq(Append(s, e))
  BY <1>2, SeqIsSeq
<1>4. /\ Len(Append(s, e)) = Len(s) + 1
      /\ Append(s, e)[Len(s) + 1] = e
      /\ \A k \in 1..Len(s) : Append(s, e)[k] = s[k]
  BY <1>1
<1>5. DOMAIN s = 1..Len(s)
  BY DEF IsSeq
<1> QED
  BY <1>3, <1>4, <1>5

\* An insertion keeps every record at its place.
LEMMA InsertExtends ==
    ASSUME NEW fns, IsSeq(fns), NEW info
    PROVE  /\ IsSeq(Insert(fns, info))
           /\ \A k \in DOMAIN fns : k \in DOMAIN Insert(fns, info) /\ Insert(fns, info)[k] = fns[k]
<1>1. CASE \E k \in DOMAIN fns : fns[k] = info
  BY <1>1 DEF Insert
<1>2. CASE ~\E k \in DOMAIN fns : fns[k] = info
  <2>1. Insert(fns, info) = Append(fns, info)
    BY <1>2 DEF Insert
  <2>2. /\ IsSeq(Append(fns, info))
        /\ Len(Append(fns, info)) = Len(fns) + 1
        /\ \A k \in DOMAIN fns : Append(fns, info)[k] = fns[k]
    BY AppendFacts
  <2>3. DOMAIN fns = 1..Len(fns) /\ DOMAIN Append(fns, info) = 1..(Len(fns) + 1) /\ Len(fns) \in Nat
    BY <2>2 DEF IsSeq
  <2> QED
    BY <2>1, <2>2, <2>3
<1> QED
  BY <1>1, <1>2

\* What was answered stays answered.
LEMMA InsertAnswers ==
    ASSUME NEW fns, IsSeq(fns), NEW info, NEW call, Answered(fns, call)
    PROVE  Answered(Insert(fns, info), call)
  BY InsertExtends DEF Answered

\* The inserted record answers the calls it is the answer to.
LEMMA InsertedAnswers ==
    ASSUME NEW fns, IsSeq(fns), NEW info, NEW call, Answers(info, call)
    PROVE  Answered(Insert(fns, info), call)
<1>1. CASE \E k \in DOMAIN fns : fns[k] = info
  BY <1>1 DEF Insert, Answered
<1>2. CASE ~\E k \in DOMAIN fns : fns[k] = info
  <2>1. Insert(fns, info) = Append(fns, info)
    BY <1>2 DEF Insert
  <2>2. /\ IsSeq(Append(fns, info))
        /\ Len(Append(fns, info)) = Len(fns) + 1
        /\ Append(fns, info)[Len(fns) + 1] = info
    BY AppendFacts
  <2>3. Len(fns) + 1 \in DOMAIN Append(fns, info)
    BY <2>2 DEF IsSeq
  <2> QED
    BY <2>1, <2>2, <2>3 DEF Answered
<1> QED
  BY <1>1, <1>2

\* Inserting a record whose calls are all answered keeps the order.
LEMMA InsertKeepsOrder ==
    ASSUME NEW fns, IsSeq(fns), CallsAnsweredEarlier(fns), NEW info,
           \A call \in CallsOf(info) : Answered(fns, call)
    PROVE  CallsAnsweredEarlier(Insert(fns, info))
<1>1. CASE \E k \in DOMAIN fns : fns[k] = info
  BY <1>1 DEF Insert
<1>2. CASE ~\E k \in DOMAIN fns : fns[k] = info
  <2>1. Insert(fns, info) = Append(fns, info)
    BY <1>2 DEF Insert
  <2> DEFINE new == Append(fns, info)
  <2>2. /\ IsSeq(new)
        /\ Len(new) = Len(fns) + 1
        /\ new[Len(fns) + 1] = info
        /\ \A k \in DOMAIN fns : new[k] = fns[k]
    BY AppendFacts
  <2>3. DOMAIN fns = 1..Len(fns) /\ DOMAIN new = 1..(Len(fns) + 1) /\ Len(fns) \in Nat
    BY <2>2 DEF IsSeq
  <2> HIDE DEF new
  <2>4. ASSUME NEW i \in DOMAIN new, NEW call \in CallsOf(new[i])
        PROVE  \E j \in 1..(i - 1) : Answers(new[j], call)
    <3>1. CASE i \in DOMAIN fns
      <4>1. PICK j \in 1..(i - 1) : Answers(fns[j], call)
        BY <2>2, <2>4, <3>1 DEF CallsAnsweredEarlier
      <4>2. j \in DOMAIN fns
        BY <2>3, <3>1
      <4> QED
        BY <2>2, <4>1, <4>2
    <3>2. CASE i = Len(fns) + 1
      <4>1. PICK j \in DOMAIN fns : Answers(fns[j], call)
        BY <2>2, <2>4, <3>2 DEF Answered
      <4>2. j \in 1..(i - 1)
        BY <2>3, <3>2
      <4> QED
        BY <2>2, <4>1, <4>2
    <3> QED
      BY <2>3, <3>1, <3>2
  <2> QED
    BY <2>1, <2>4 DEF CallsAnsweredEarlier, new
<1> QED
  BY <1>1, <1>2

\* A set of naturals has a least element.
LEMMA LeastNatural ==
    ASSUME NEW T \in SUBSET Nat, T # {}
    PROVE  \E n \in T : \A m \in T : n <= m
<1> DEFINE R == OpToRel(<, Nat)
<1>1. IsWellFoundedOn(R, Nat)
  BY NatLessThanWellFounded
<1>2. \A x, y \in Nat : x < y => <<x, y>> \in R
  BY DEF OpToRel
<1> HIDE DEF R
<1>3. PICK n \in T : \A m \in T : <<m, n>> \notin R
  BY <1>1, WFMin
<1>4. ASSUME NEW m \in T
      PROVE  n <= m
  <2>1. m \in Nat /\ n \in Nat /\ ~(m < n)
    BY <1>2, <1>3
  <2> QED
    BY <2>1
<1> QED
  BY <1>4

\* A lookup that finds something returns the first record that answers it.
LEMMA LookupFinds ==
    ASSUME NEW fns, IsSeq(fns), NEW call, Answered(fns, call)
    PROVE  /\ FirstMatch(fns, call) \in DOMAIN fns
           /\ Answers(fns[FirstMatch(fns, call)], call)
           /\ \A j \in 1..(FirstMatch(fns, call) - 1) : ~Answers(fns[j], call)
<1> DEFINE T == {k \in DOMAIN fns : Answers(fns[k], call)}
<1>1. T \in SUBSET Nat /\ T # {} /\ DOMAIN fns = 1..Len(fns) /\ Len(fns) \in Nat
  BY DEF Answered, IsSeq
<1>2. PICK i \in T : \A j \in T : i <= j
  BY <1>1, LeastNatural
<1>3. \A j \in 1..(i - 1) : ~Answers(fns[j], call)
  BY <1>1, <1>2
<1> QED
  BY <1>2, <1>3 DEF FirstMatch

=============================================================================
