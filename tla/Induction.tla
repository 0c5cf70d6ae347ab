------------------------------ MODULE Induction ------------------------------
(***************************************************************************)
(* Induction over numbers and sequences, stated with sets in place of      *)
(* predicates (a proof names the set of those for which its claim holds),  *)
(* and what the operators Min, Max and FlattenSeq give, by induction.      *)
(***************************************************************************)
EXTENDS SequencesExt, SequenceTheorems, WellFoundedInduction, TLAPS

(* A nonempty set of natural numbers has a least element. *)
LEMMA LeastNumber ==
    ASSUME NEW T, T \subseteq Nat, T # {}
    PROVE  \E n \in T : \A m \in T : n <= m
<1> DEFINE R == OpToRel(<, Nat)
<1>1. IsWellFoundedOn(R, Nat)
  BY NatLessThanWellFounded
<1>2. \A m, n \in Nat : m < n => <<m, n>> \in R
  BY DEF OpToRel
<1> HIDE DEF R
<1>3. PICK n \in T : \A m \in T : <<m, n>> \notin R
  BY <1>1, WFMin
<1>4. \A m \in T : ~(m < n)
  BY <1>2, <1>3
<1> QED
  BY <1>4

(* A set with 0 and with every successor of a number in it has all. *)
LEMMA NumberInduction ==
    ASSUME NEW T, 0 \in T, \A n \in Nat : n \in T => n + 1 \in T
    PROVE  Nat \subseteq T
<1> SUFFICES ASSUME Nat \ T # {} PROVE FALSE
  OBVIOUS
<1>1. PICK n \in Nat \ T : \A m \in Nat \ T : n <= m
  BY LeastNumber
<1>2. n # 0 /\ n - 1 \in Nat /\ ~(n <= n - 1) /\ n = (n - 1) + 1
  BY <1>1
<1>3. n - 1 \in T
  BY <1>1, <1>2
<1> QED
  BY <1>1, <1>2, <1>3

(* A set of sequences with the empty one, and with every extension by one  *)
(* element of a sequence in it, has all sequences.                         *)
LEMMA SequenceInduction ==
    ASSUME NEW S, NEW T, <<>> \in T,
           \A s \in Seq(S) : s \in T => \A e \in S : Append(s, e) \in T
    PROVE  Seq(S) \subseteq T
<1> DEFINE N == {n \in Nat : \A s \in Seq(S) : Len(s) = n => s \in T}
<1>1. 0 \in N
  <2>1. \A s \in Seq(S) : Len(s) = 0 => s = <<>>
    BY EmptySeq
  <2> QED
    BY <2>1
<1>2. ASSUME NEW n \in Nat, n \in N PROVE n + 1 \in N
  <2> SUFFICES ASSUME NEW s \in Seq(S), Len(s) = n + 1 PROVE s \in T
    OBVIOUS
  <2>1. s # <<>>
    BY EmptySeq
  <2>2. PICK t \in Seq(S), e \in S : s = Append(t, e)
    BY <2>1, SequenceEmptyOrAppend
  <2>3. Len(t) = n
    BY <2>2, AppendProperties, LenProperties
  <2> QED
    BY <1>2, <2>2, <2>3
<1>3. Nat \subseteq N
  <2> HIDE DEF N
  <2> QED
    BY <1>1, <1>2, NumberInduction
<1> SUFFICES ASSUME NEW s \in Seq(S) PROVE s \in T
  OBVIOUS
<1>4. Len(s) \in N
  BY <1>3, LenProperties
<1> QED
  BY <1>4

-----------------------------------------------------------------------------
(* The least and the greatest of some numbers from 1 to n. *)
LEMMA MinOfRange ==
    ASSUME NEW n \in Nat, NEW I, I \subseteq 1..n, I # {}
    PROVE  Min(I) \in I /\ \A i \in I : Min(I) <= i
<1>1. I \subseteq Nat
  OBVIOUS
<1>2. \E m \in I : \A i \in I : m <= i
  BY <1>1, LeastNumber
<1> QED
  BY <1>2 DEF Min

LEMMA MaxOfRange ==
    ASSUME NEW n \in Nat, NEW I, I \subseteq 1..n, I # {}
    PROVE  Max(I) \in I /\ \A i \in I : Max(I) >= i
<1> DEFINE J == {n - i : i \in I}
<1>1. J \subseteq Nat /\ J # {}
  OBVIOUS
<1>2. PICK j \in J : \A k \in J : j <= k
  <2> HIDE DEF J
  <2> QED
    BY <1>1, LeastNumber
<1>3. PICK m \in I : j = n - m
  BY <1>2
<1>4. ASSUME NEW i \in I PROVE m >= i
  <2>1. n - i \in J /\ m \in 1..n /\ i \in 1..n
    BY <1>3
  <2>2. n - m <= n - i
    BY <1>2, <1>3, <2>1
  <2> HIDE DEF J
  <2> QED
    BY <2>1, <2>2
<1>5. \E x \in I : \A i \in I : x >= i
  BY <1>4
<1> QED
  BY <1>5 DEF Max

(* A sequence whose elements are in X is one over X. *)
LEMMA ElementsInSeq ==
    ASSUME NEW S, NEW X, NEW s \in Seq(S), \A i \in 1..Len(s) : s[i] \in X
    PROVE  s \in Seq(X)
<1>1. Len(s) \in Nat /\ s = [i \in 1..Len(s) |-> s[i]]
  BY LenProperties
<1> QED
  BY <1>1

-----------------------------------------------------------------------------
(* FlattenSeq, whose recursion over the first n of the sequences ss is f.  *)
Joins(f, n, ss) == f = [i \in 1..n |-> IF i = 1 THEN ss[i] ELSE f[i - 1] \o ss[i]]

(* The recursion defines a function. *)
LEMMA JoinsDefines ==
    ASSUME NEW n \in Nat, NEW ss
    PROVE  \E f : Joins(f, n, ss)
<1> DEFINE N == {m \in Nat : \E f : Joins(f, m, ss)}
<1>1. 0 \in N
  <2> DEFINE f == [i \in 1..0 |-> <<>>]
  <2>1. Joins(f, 0, ss)
    BY DEF Joins
  <2> QED
    BY <2>1
<1>2. ASSUME NEW m \in Nat, m \in N PROVE m + 1 \in N
  <2>1. PICK f : Joins(f, m, ss)
    BY <1>2
  <2> DEFINE g == [i \in 1..m + 1 |->
                      IF i \in 1..m THEN f[i]
                      ELSE IF i = 1 THEN ss[i] ELSE f[i - 1] \o ss[i]]
  <2>2. ASSUME NEW i \in 1..m + 1
        PROVE  g[i] = IF i = 1 THEN ss[i] ELSE g[i - 1] \o ss[i]
    <3>1. i # 1 => i - 1 \in 1..m /\ g[i - 1] = f[i - 1]
      OBVIOUS
    <3>2. i \in 1..m => f[i] = IF i = 1 THEN ss[i] ELSE f[i - 1] \o ss[i]
      BY <2>1 DEF Joins
    <3> QED
      BY <3>1, <3>2
  <2>3. g = [i \in 1..m + 1 |-> g[i]]
    OBVIOUS
  <2> HIDE DEF g
  <2>4. Joins(g, m + 1, ss)
    BY <2>2, <2>3 DEF Joins
  <2> QED
    BY <2>4
<1>3. Nat \subseteq N
  <2> HIDE DEF N
  <2> QED
    BY <1>1, <1>2, NumberInduction
<1> QED
  BY <1>3

(* Where two lists of sequences agree, so do the recursions over them.     *)
LEMMA JoinsAgree ==
    ASSUME NEW n \in Nat, NEW m \in Nat, n <= m, NEW ss, NEW tt, NEW f, NEW g,
           Joins(f, n, ss), Joins(g, m, tt), \A i \in 1..n : ss[i] = tt[i]
    PROVE  \A i \in 1..n : f[i] = g[i]
<1> DEFINE N == {k \in Nat : k \in 1..n => f[k] = g[k]}
<1>1. 0 \in N
  OBVIOUS
<1>2. ASSUME NEW k \in Nat, k \in N PROVE k + 1 \in N
  <2> SUFFICES ASSUME k + 1 \in 1..n PROVE f[k + 1] = g[k + 1]
    OBVIOUS
  <2>1. k + 1 \in 1..m /\ (k + 1) - 1 = k /\ (k + 1 # 1 => k \in 1..n)
    OBVIOUS
  <2>2. f[k + 1] = IF k + 1 = 1 THEN ss[k + 1] ELSE f[(k + 1) - 1] \o ss[k + 1]
    <3>1. \A i \in 1..n : f[i] = IF i = 1 THEN ss[i] ELSE f[i - 1] \o ss[i]
      BY DEF Joins
    <3>2. k + 1 \in 1..n
      OBVIOUS
    <3> HIDE DEF N
    <3> QED
      BY <3>1, <3>2
  <2>3. g[k + 1] = IF k + 1 = 1 THEN tt[k + 1] ELSE g[(k + 1) - 1] \o tt[k + 1]
    <3>1. \A i \in 1..m : g[i] = IF i = 1 THEN tt[i] ELSE g[i - 1] \o tt[i]
      BY DEF Joins
    <3> HIDE DEF N
    <3> QED
      BY <3>1, <2>1
  <2>4. ss[k + 1] = tt[k + 1] /\ (k + 1 # 1 => f[k] = g[k])
    BY <1>2, <2>1
  <2> HIDE DEF N
  <2> QED
    BY <2>1, <2>2, <2>3, <2>4
<1>3. Nat \subseteq N
  <2> HIDE DEF N
  <2> QED
    BY <1>1, <1>2, NumberInduction
<1> QED
  BY <1>3

(* FlattenSeq ends with the last value of its recursion. *)
LEMMA FlattenJoins ==
    ASSUME NEW S, NEW ss \in Seq(S), ss # <<>>
    PROVE  \E f : Joins(f, Len(ss), ss) /\ FlattenSeq(ss) = f[Len(ss)]
<1> DEFINE f == CHOOSE h : Joins(h, Len(ss), ss)
<1>1. Joins(f, Len(ss), ss)
  BY JoinsDefines, LenProperties
<1>2. FlattenSeq(ss) = f[Len(ss)]
  <2>1. Len(ss) # 0
    BY EmptySeq
  <2> QED
    BY <2>1 DEF FlattenSeq, Joins
<1> HIDE DEF f
<1> QED
  BY <1>1, <1>2

(* FlattenSeq of nothing is nothing, and of one sequence more is the       *)
(* concatenation with it.                                                  *)
LEMMA FlattenEmpty == FlattenSeq(<<>>) = <<>>
BY EmptySeq DEF FlattenSeq

LEMMA FlattenAppend ==
    ASSUME NEW S, NEW ss \in Seq(Seq(S)), NEW s \in Seq(S)
    PROVE  FlattenSeq(Append(ss, s)) = FlattenSeq(ss) \o s
<1> DEFINE tt == Append(ss, s)
           n == Len(ss)
<1>1. tt \in Seq(Seq(S)) /\ tt # <<>> /\ n \in Nat /\ n + 1 \in Nat /\ Len(tt) = n + 1
  BY AppendProperties, LenProperties
<1>2. (\A i \in 1..n : ss[i] = tt[i]) /\ tt[n + 1] = s
  BY AppendProperties, LenProperties
<1> HIDE DEF tt
<1>3. PICK g : Joins(g, n + 1, tt) /\ FlattenSeq(tt) = g[n + 1]
  BY <1>1, FlattenJoins
<1>4. g[n + 1] = IF n + 1 = 1 THEN s ELSE g[n] \o s
  <2>1. n + 1 \in 1..n + 1 /\ (n + 1) - 1 = n
    BY <1>1
  <2>2. \A i \in 1..n + 1 : g[i] = IF i = 1 THEN tt[i] ELSE g[i - 1] \o tt[i]
    BY <1>3 DEF Joins
  <2> HIDE DEF n
  <2> QED
    BY <1>2, <2>1, <2>2
<1>5. CASE ss = <<>>
  <2>1. n = 0 /\ FlattenSeq(ss) = <<>>
    BY <1>5 DEF FlattenSeq
  <2>2. <<>> \o s = s
    BY ConcatEmptySeq
  <2> HIDE DEF n
  <2> QED
    BY <1>3, <1>4, <2>1, <2>2 DEF tt
<1>6. CASE ss # <<>>
  <2>1. PICK f : Joins(f, n, ss) /\ FlattenSeq(ss) = f[n]
    BY <1>6, FlattenJoins
  <2>2. n \in 1..n /\ n # 0 /\ n <= n + 1
    <3>1. n # 0
      BY <1>6, EmptySeq
    <3> HIDE DEF n
    <3> QED
      BY <1>1, <3>1
  <2> HIDE DEF n
  <2>3. \A i \in 1..n : f[i] = g[i]
    <3>1. n \in Nat /\ n + 1 \in Nat /\ n <= n + 1 /\ \A i \in 1..n : ss[i] = tt[i]
      BY <1>1, <1>2, <2>2
    <3> QED
      BY <3>1, <1>3, <2>1, JoinsAgree
  <2>4. f[n] = g[n] /\ n + 1 # 1
    BY <1>1, <2>2, <2>3
  <2>5. FlattenSeq(tt) = FlattenSeq(ss) \o s
    BY <1>3, <1>4, <2>1, <2>4
  <2> QED
    BY <2>5 DEF tt
<1> QED
  BY <1>5, <1>6

(* The same for a list that is given as a function.                        *)
LEMMA FlattenMore ==
    ASSUME NEW S, NEW m \in Nat, NEW f \in [1..m + 1 -> Seq(S)]
    PROVE  FlattenSeq(f) = FlattenSeq([i \in 1..m |-> f[i]]) \o f[m + 1]
<1> DEFINE e == [i \in 1..m |-> f[i]]
           g == Append(e, f[m + 1])
<1>1. m + 1 \in 1..m + 1 /\ \A i \in 1..m : i \in 1..m + 1
  OBVIOUS
<1>2. f[m + 1] \in Seq(S) /\ e \in Seq(Seq(S)) /\ Len(e) = m
  BY <1>1
<1>3. f \in Seq(Seq(S)) /\ Len(f) = m + 1 /\ \A i \in 1..m : f[i] = e[i]
  BY <1>1
<1> HIDE DEF e
<1>4. /\ g \in Seq(Seq(S)) /\ Len(g) = m + 1 /\ g[m + 1] = f[m + 1]
      /\ \A i \in 1..m : g[i] = e[i]
  <2> DEFINE x == f[m + 1]
  <2>1. x \in Seq(S)
    BY <1>2
  <2> HIDE DEF x
  <2>2. /\ Append(e, x) \in Seq(Seq(S)) /\ Len(Append(e, x)) = Len(e) + 1
        /\ Append(e, x)[Len(e) + 1] = x
        /\ \A i \in 1..Len(e) : Append(e, x)[i] = e[i]
    BY <1>2, <2>1, AppendProperties
  <2> QED
    BY <1>2, <2>2 DEF x
<1> HIDE DEF g
<1>5. \A i \in 1..m + 1 : f[i] = g[i]
  <2>1. \A i \in 1..m + 1 : i = m + 1 \/ i \in 1..m
    OBVIOUS
  <2> QED
    BY <1>3, <1>4, <2>1
<1>6. f = g
  BY <1>3, <1>4, <1>5, SeqEqual
<1>7. FlattenSeq(g) = FlattenSeq(e) \o f[m + 1]
  BY <1>2, FlattenAppend DEF g
<1> QED
  BY <1>6, <1>7 DEF e

=============================================================================
