----------------------------- MODULE FoldProofs -----------------------------
(* What FoldLeft computes, for any step operator: the fold of the empty    *)
(* sequence, and of a sequence with one element more.                      *)
EXTENDS Induction, SequencesExt

CONSTANT Step(_, _)

Fold(b, s) == FoldLeft(Step, b, s)

(* The recursion by which MapThenFoldSet visits the indices of s. *)
Visit(f, I, b, s) == IF I = {} THEN b ELSE Step(f[I \ {Max(I)}], s[Max(I)])

(* The greatest index of a set that has n + 1 and lower ones. *)
LEMMA MaxIsLast ==
    ASSUME NEW n \in Nat, NEW I, I \subseteq 1..n + 1, n + 1 \in I
    PROVE  Max(I) = n + 1
<1>1. \A x \in I : x \in 1..n + 1 /\ n + 1 >= x
  OBVIOUS
<1>2. \A x \in I : (\A y \in I : x >= y) => x = n + 1
  BY <1>1
<1> QED
  BY <1>1, <1>2 DEF Max

(* The recursion defines a function. *)
LEMMA VisitDefines ==
    ASSUME NEW n \in Nat, NEW b, NEW s
    PROVE  \E f : f = [I \in SUBSET (1..n) |-> Visit(f, I, b, s)]
<1> DEFINE N == {m \in Nat : \E f : f = [I \in SUBSET (1..m) |-> Visit(f, I, b, s)]}
<1>1. 0 \in N
  <2>1. SUBSET (1..0) = {{}}
    OBVIOUS
  <2> DEFINE f == [I \in {{}} |-> b]
  <2>2. f = [I \in SUBSET (1..0) |-> Visit(f, I, b, s)]
    BY <2>1 DEF Visit
  <2> QED
    BY <2>2
<1>2. ASSUME NEW m \in Nat, m \in N PROVE m + 1 \in N
  <2>1. PICK f : f = [I \in SUBSET (1..m) |-> Visit(f, I, b, s)]
    BY <1>2
  <2> DEFINE g == [I \in SUBSET (1..m + 1) |->
                      IF m + 1 \in I THEN Step(f[I \ {m + 1}], s[m + 1]) ELSE f[I]]
  <2>2. ASSUME NEW I \in SUBSET (1..m + 1), m + 1 \in I PROVE g[I] = Visit(g, I, b, s)
    <3>1. Max(I) = m + 1
      BY <2>2, MaxIsLast
    <3>2. I \ {m + 1} \in SUBSET (1..m + 1) /\ g[I \ {m + 1}] = f[I \ {m + 1}]
      OBVIOUS
    <3> HIDE DEF g
    <3> QED
      BY <2>2, <3>1, <3>2 DEF Visit, g
  <2>3. ASSUME NEW I \in SUBSET (1..m + 1), m + 1 \notin I PROVE g[I] = Visit(g, I, b, s)
    <3>1. I \in SUBSET (1..m) /\ I \ {Max(I)} \in SUBSET (1..m)
      <4>1. \A i \in 1..m + 1 : i # m + 1 => i \in 1..m
        OBVIOUS
      <4>2. I \subseteq 1..m
        BY <2>3, <4>1
      <4> QED
        BY <4>2
    <3>2. g[I] = f[I] /\ g[I \ {Max(I)}] = f[I \ {Max(I)}]
      <4>1. I \ {Max(I)} \in SUBSET (1..m + 1) /\ m + 1 \notin I \ {Max(I)}
        BY <2>3
      <4> QED
        BY <2>3, <4>1
    <3>3. f[I] = Visit(f, I, b, s)
      BY <2>1, <3>1
    <3> HIDE DEF g
    <3> QED
      BY <3>2, <3>3 DEF Visit
  <2>4. g = [I \in SUBSET (1..m + 1) |-> Visit(g, I, b, s)]
    <3>1. \A I \in SUBSET (1..m + 1) : g[I] = Visit(g, I, b, s)
      BY <2>2, <2>3
    <3>2. g = [I \in SUBSET (1..m + 1) |-> g[I]]
      OBVIOUS
    <3> HIDE DEF g
    <3> QED
      BY <3>1, <3>2
  <2>5. \E h : h = [I \in SUBSET (1..m + 1) |-> Visit(h, I, b, s)]
    <3> HIDE DEF g
    <3> QED
      BY <2>4
  <2> QED
    BY <2>5
<1>3. Nat \subseteq N
  <2> HIDE DEF N
  <2> QED
    BY <1>1, <1>2, NumberInduction
<1> QED
  BY <1>3

(* The states that a fold goes through. *)
Trace(g, b, s) == g[0] = b /\ \A i \in 1..Len(s) : g[i] = Step(g[i - 1], s[i])

(* A fold ends in the last state of a trace. *)
LEMMA FoldHasTrace ==
    ASSUME NEW S, NEW s \in Seq(S), NEW b
    PROVE  \E g : Trace(g, b, s) /\ Fold(b, s) = g[Len(s)]
<1> DEFINE f == CHOOSE h : h = [I \in SUBSET DOMAIN s |-> Visit(h, I, b, s)]
           g == [i \in 0..Len(s) |-> f[1..i]]
<1>1. Len(s) \in Nat /\ DOMAIN s = 1..Len(s)
  BY LenProperties
<1>2. f = [I \in SUBSET DOMAIN s |-> Visit(f, I, b, s)]
  BY <1>1, VisitDefines
<1>3. Fold(b, s) = f[DOMAIN s]
  BY DEF Fold, FoldLeft, MapThenFoldSet, Visit
<1> HIDE DEF f
<1>4. Fold(b, s) = g[Len(s)]
  BY <1>1, <1>3
<1>5. g[0] = b
  <2>1. {} \in SUBSET DOMAIN s /\ 1..0 = {}
    OBVIOUS
  <2>2. f[{}] = Visit(f, {}, b, s)
    BY <1>2, <2>1
  <2> QED
    BY <1>1, <2>1, <2>2 DEF Visit
<1>6. ASSUME NEW i \in 1..Len(s) PROVE g[i] = Step(g[i - 1], s[i])
  <2>1. /\ i - 1 \in Nat /\ i = (i - 1) + 1 /\ i \in 1..i /\ 1..i # {}
        /\ (1..i) \ {i} = 1..i - 1 /\ 1..i \in SUBSET DOMAIN s
    <3>1. i \in Nat /\ 1 <= i /\ i <= Len(s)
      BY <1>1
    <3>2. i - 1 \in Nat /\ i = (i - 1) + 1 /\ i \in 1..i
      BY <3>1
    <3>3. (1..i) \ {i} = 1..i - 1
      BY <3>1
    <3>4. 1..i \subseteq 1..Len(s)
      BY <1>1, <3>1
    <3> QED
      BY <1>1, <3>2, <3>3, <3>4
  <2>2. Max(1..i) = i
    BY <2>1, MaxIsLast
  <2>3. f[1..i] = Step(f[1..i - 1], s[i])
    BY <1>2, <2>1, <2>2 DEF Visit
  <2> QED
    BY <1>1, <2>1, <2>3
<1> QED
  BY <1>4, <1>5, <1>6 DEF Trace

(* A trace is determined by its sequence. *)
LEMMA TraceUnique ==
    ASSUME NEW S, NEW s \in Seq(S), NEW b, NEW g, NEW h, Trace(g, b, s), Trace(h, b, s)
    PROVE  g[Len(s)] = h[Len(s)]
<1> DEFINE N == {m \in Nat : m <= Len(s) => g[m] = h[m]}
<1>1. Len(s) \in Nat
  BY LenProperties
<1>2. 0 \in N
  BY DEF Trace
<1>3. ASSUME NEW m \in Nat, m \in N PROVE m + 1 \in N
  <2> SUFFICES ASSUME m + 1 <= Len(s) PROVE g[m + 1] = h[m + 1]
    OBVIOUS
  <2>1. m + 1 \in 1..Len(s) /\ (m + 1) - 1 = m /\ g[m] = h[m]
    BY <1>1, <1>3
  <2> QED
    BY <2>1 DEF Trace
<1>4. Nat \subseteq N
  <2> HIDE DEF N
  <2> QED
    BY <1>2, <1>3, NumberInduction
<1> QED
  BY <1>1, <1>4

(* A fold of nothing is the base. *)
LEMMA FoldEmpty ==
    ASSUME NEW b
    PROVE  Fold(b, <<>>) = b
<1>1. <<>> \in Seq({}) /\ Len(<<>>) = 0
  BY EmptySeq
<1>2. PICK g : Trace(g, b, <<>>) /\ Fold(b, <<>>) = g[Len(<<>>)]
  BY <1>1, FoldHasTrace
<1> QED
  BY <1>1, <1>2 DEF Trace

(* One element more is one step more. *)
LEMMA FoldAppend ==
    ASSUME NEW S, NEW s \in Seq(S), NEW e \in S, NEW b
    PROVE  Fold(b, Append(s, e)) = Step(Fold(b, s), e)
<1>1. /\ Append(s, e) \in Seq(S) /\ Len(s) \in Nat
      /\ Len(Append(s, e)) = Len(s) + 1
      /\ \A i \in 1..Len(s) : Append(s, e)[i] = s[i]
      /\ Append(s, e)[Len(s) + 1] = e
  BY AppendProperties, LenProperties
<1>2. PICK g : Trace(g, b, s) /\ Fold(b, s) = g[Len(s)]
  BY FoldHasTrace
<1>3. PICK h : Trace(h, b, Append(s, e)) /\ Fold(b, Append(s, e)) = h[Len(s) + 1]
  BY <1>1, FoldHasTrace
<1>4. Trace(h, b, s)
  BY <1>1, <1>3 DEF Trace
<1>5. h[Len(s) + 1] = Step(h[Len(s)], e)
  <2>1. Len(s) + 1 \in 1..Len(s) + 1 /\ (Len(s) + 1) - 1 = Len(s)
    BY <1>1
  <2> QED
    BY <1>1, <1>3, <2>1 DEF Trace
<1>6. h[Len(s)] = g[Len(s)]
  BY <1>2, <1>4, TraceUnique
<1> QED
  BY <1>2, <1>3, <1>5, <1>6

=============================================================================
