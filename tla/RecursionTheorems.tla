--------------------------- MODULE RecursionTheorems ---------------------------
(***************************************************************************)
(* Induction over data without an operator as a parameter.  The smallest   *)
(* element of a set of natural numbers takes the place of a predicate: to  *)
(* prove that every n has a property, assume that some have it not, take   *)
(* the smallest of them and look at its predecessor.                       *)
(***************************************************************************)
EXTENDS Integers, Selections, WellFoundedInduction, SequenceTheorems, TLAPS

\* Every set of natural numbers that is not empty has a smallest element.
LEMMA Least ==
    ASSUME NEW T \in SUBSET Nat, T # {}
    PROVE  \E n \in T : \A m \in T : n <= m
<1>1. IsWellFoundedOn({p \in Nat \X Nat : p[1] < p[2]}, Nat)
  BY NatLessThanWellFounded, Zenon DEF OpToRel
<1>2. \E n \in T : \A m \in T : <<m, n>> \notin {p \in Nat \X Nat : p[1] < p[2]}
  BY <1>1, WFMin, Zenon
<1>3. PICK n \in T : \A m \in T : <<m, n>> \notin {p \in Nat \X Nat : p[1] < p[2]}
  BY <1>2, Zenon
<1>4. ASSUME NEW m \in T
      PROVE  n <= m
  <2>1. <<m, n>> \notin {p \in Nat \X Nat : p[1] < p[2]}
    BY <1>3, Zenon
  <2>2. ~ (m < n)
    BY <2>1
  <2>3. QED
    BY <2>2
<1>5. QED
  BY <1>4

\* Every bounded set of natural numbers that is not empty has a largest element.
LEMMA Largest ==
    ASSUME NEW T \in SUBSET Nat, T # {}, NEW bound \in Nat, \A n \in T : n <= bound
    PROVE  \E n \in T : \A m \in T : m <= n
<1> DEFINE U == {u \in Nat : bound - u \in T}
<1>1. U # {}
  <2>1. PICK n : n \in T
    OBVIOUS
  <2>2. bound - n \in Nat /\ bound - (bound - n) = n
    BY <2>1
  <2>3. bound - n \in U
    BY <2>1, <2>2
  <2>4. QED
    BY <2>3
<1>2. PICK u \in U : \A v \in U : u <= v
  <2>1. U \in SUBSET Nat
    OBVIOUS
  <2>2. QED
    BY <1>1, <2>1, Least
<1>3. ASSUME NEW m \in T
      PROVE  m <= bound - u
  <2>1. m \in Nat /\ bound - m \in Nat /\ bound - (bound - m) = m
    OBVIOUS
  <2>2. bound - m \in U
    BY <2>1
  <2>3. u <= bound - m
    BY <1>2, <2>2
  <2>4. QED
    BY <2>1, <2>3
<1>4. QED
  BY <1>2, <1>3

\* A predicate of the numbers up to n, given as the set of those that have it,
\* holds of them all when it holds of 0 and of the successor of each.
LEMMA UpTo ==
    ASSUME NEW n \in Nat, NEW S,
           0 \in S, \A i \in 1..n : i - 1 \in S => i \in S
    PROVE  0..n \subseteq S
<1> SUFFICES ASSUME (0..n) \ S # {} PROVE FALSE
  OBVIOUS
<1>1. PICK i \in (0..n) \ S : \A j \in (0..n) \ S : i <= j
  <2>1. (0..n) \ S \in SUBSET Nat
    OBVIOUS
  <2>2. QED
    BY <2>1, Least
<1>2. i \in 1..n /\ i - 1 \in 0..n /\ ~ (i <= i - 1)
  OBVIOUS
<1>3. QED
  BY <1>1, <1>2

\* f follows base and step as far as m.
Computes(f, m, V, base, step) ==
    /\ f \in [0..m -> V]
    /\ f[0] = base
    /\ \A i \in 1..m : f[i] = step[<<f[i - 1], i>>]

\* A value can be computed for every i in 0..n from the one for i - 1.
LEMMA Recursion ==
    ASSUME NEW n \in Nat, NEW V, NEW base \in V, NEW step \in [V \X (1..n) -> V]
    PROVE  \E f : Computes(f, n, V, base, step)
<1> DEFINE S == {m \in 0..n : \E f : Computes(f, m, V, base, step)}
<1>1. 0 \in S
  <2>1. Computes([i \in 0..0 |-> base], 0, V, base, step)
    BY DEF Computes
  <2>2. 0 \in 0..n
    OBVIOUS
  <2>3. QED
    BY <2>1, <2>2, Zenon
<1>2. ASSUME NEW m \in 1..n, m - 1 \in S
      PROVE  m \in S
  <2>1. PICK f : Computes(f, m - 1, V, base, step)
    BY <1>2, Zenon
  <2> DEFINE g == [i \in 0..m |-> IF i = m THEN step[<<f[m - 1], m>>] ELSE f[i]]
  <2>2. f[m - 1] \in V
    BY <2>1 DEF Computes
  <2>3. step[<<f[m - 1], m>>] \in V
    <3>1. <<f[m - 1], m>> \in V \X (1..n)
      BY <2>2
    <3>2. QED
      BY <3>1
  <2>4. Computes(g, m, V, base, step)
    <3>1. g \in [0..m -> V]
      BY <2>1, <2>3 DEF Computes
    <3>2. g[0] = base
      BY <2>1 DEF Computes
    <3>3. \A i \in 1..m : g[i] = step[<<g[i - 1], i>>]
      BY <2>1 DEF Computes
    <3>4. QED
      BY <3>1, <3>2, <3>3 DEF Computes
  <2>5. m \in 0..n
    OBVIOUS
  <2>6. QED
    BY <2>4, <2>5, Zenon
<1>3. n \in S
  <2>1. 0..n \subseteq S
    <3> HIDE DEF S
    <3>1. QED
      BY <1>1, <1>2, UpTo
  <2>2. n \in 0..n
    OBVIOUS
  <2>3. QED
    BY <2>1, <2>2, Zenon
<1>4. QED
  BY <1>3, Zenon

-----------------------------------------------------------------------------
(* What is kept, joined and summed (Selections) *)

\* f is how what is kept of s grows.
Keeps(f, s, I, V) ==
    /\ f \in [0..Len(s) -> Seq(V)]
    /\ f[0] = <<>>
    /\ \A i \in 1..Len(s) : f[i] = IF i \in I THEN Append(f[i - 1], s[i]) ELSE f[i - 1]
    /\ Kept(s, I) = f[Len(s)]

\* What is kept grows by the elements at the indices.
LEMMA KeptGrows ==
    ASSUME NEW V, NEW s \in Seq(V), NEW I
    PROVE  \E f : Keeps(f, s, I, V)
<1> DEFINE n == Len(s)
           step == [p \in Seq(V) \X (1..n) |-> IF p[2] \in I THEN Append(p[1], s[p[2]]) ELSE p[1]]
           Body(f) == [i \in 0..n |-> IF i = 0 THEN <<>>
                                      ELSE IF i \in I THEN Append(f[i - 1], s[i]) ELSE f[i - 1]]
           g == CHOOSE f : f = Body(f)
<1>1. n \in Nat /\ \A i \in 1..n : s[i] \in V
  OBVIOUS
<1>2. Kept(s, I) = g[n]
  BY DEF Kept
<1> HIDE DEF n
<1>3. step \in [Seq(V) \X (1..n) -> Seq(V)]
  <2>1. \A p \in Seq(V) \X (1..n) : p[1] \in Seq(V) /\ s[p[2]] \in V
    BY <1>1
  <2>2. QED
    BY <2>1
<1>4. PICK f : Computes(f, n, Seq(V), <<>>, step)
  <2> HIDE DEF step
  <2>1. <<>> \in Seq(V)
    OBVIOUS
  <2>2. QED
    BY <1>1, <1>3, <2>1, Recursion
<1>5. f \in [0..n -> Seq(V)] /\ f[0] = <<>>
  BY <1>4 DEF Computes
<1>6. ASSUME NEW i \in 1..n
      PROVE  f[i] = IF i \in I THEN Append(f[i - 1], s[i]) ELSE f[i - 1]
  <2>1. f[i] = step[<<f[i - 1], i>>]
    BY <1>4 DEF Computes
  <2>2. f[i - 1] \in Seq(V)
    BY <1>1, <1>5
  <2>3. QED
    BY <2>1, <2>2
<1>7. f = Body(f)
  <2>1. \A i \in 0..n : i = 0 \/ i \in 1..n
    BY <1>1
  <2>2. \A i \in 0..n : f[i] = IF i = 0 THEN <<>>
                               ELSE IF i \in I THEN Append(f[i - 1], s[i]) ELSE f[i - 1]
    BY <1>5, <1>6, <2>1
  <2>3. QED
    BY <1>5, <2>2
<1>8. g = Body(g)
  BY <1>7
<1> HIDE DEF g
<1>9. g[0] = <<>>
  BY <1>1, <1>8
<1>10. ASSUME NEW i \in 1..n
       PROVE  g[i] = IF i \in I THEN Append(g[i - 1], s[i]) ELSE g[i - 1]
  <2>1. i \in 0..n /\ i # 0
    BY <1>1
  <2>2. Body(g)[i] = IF i \in I THEN Append(g[i - 1], s[i]) ELSE g[i - 1]
    BY <2>1
  <2> HIDE DEF Body
  <2>3. QED
    BY <1>8, <2>2
<1>11. g \in [0..n -> Seq(V)]
  <2> DEFINE S == {i \in 0..n : g[i] \in Seq(V)}
  <2>1. 0 \in S
    <3>1. g[0] \in Seq(V)
      BY <1>9, EmptySeq, Zenon
    <3>2. QED
      BY <1>1, <3>1
  <2>2. ASSUME NEW i \in 1..n, i - 1 \in S
        PROVE  i \in S
    <3>1. g[i] \in Seq(V)
      <4>1. g[i - 1] \in Seq(V) /\ s[i] \in V
        BY <1>1, <2>2
      <4>2. Append(g[i - 1], s[i]) \in Seq(V)
        BY <4>1
      <4>3. QED
        BY <1>10, <4>1, <4>2
    <3>2. i \in 0..n
      BY <1>1
    <3>3. QED
      BY <3>1, <3>2
  <2>3. 0..n \subseteq S
    <3> HIDE DEF S
    <3>1. QED
      BY <1>1, <2>1, <2>2, UpTo
  <2>4. g = [i \in 0..n |-> g[i]]
    BY <1>8
  <2>5. QED
    BY <2>3, <2>4
<1>12. QED
  BY <1>2, <1>9, <1>10, <1>11 DEF n, Keeps

LEMMA KeptType ==
    ASSUME NEW V, NEW s \in Seq(V), NEW I
    PROVE  Kept(s, I) \in Seq(V)
<1>1. Len(s) \in 0..Len(s)
  OBVIOUS
<1>2. QED
  BY <1>1, KeptGrows DEF Keeps

\* Everything is kept, or nothing.
LEMMA KeptAll ==
    ASSUME NEW V, NEW s \in Seq(V), NEW I
    PROVE  /\ 1..Len(s) \subseteq I => Kept(s, I) = s
           /\ I \cap (1..Len(s)) = {} => Kept(s, I) = <<>>
<1> DEFINE n == Len(s)
<1>0. PICK f : Keeps(f, s, I, V)
  BY KeptGrows
<1>1. /\ f \in [0..n -> Seq(V)]
      /\ f[0] = <<>>
      /\ \A i \in 1..n : f[i] = IF i \in I THEN Append(f[i - 1], s[i]) ELSE f[i - 1]
      /\ Kept(s, I) = f[n]
  BY <1>0 DEF Keeps
<1>2. n \in Nat /\ n \in 0..n
  OBVIOUS
<1> HIDE DEF n
<1>3. ASSUME 1..n \subseteq I
      PROVE  f[n] = s
  <2> DEFINE S == {i \in 0..n : f[i] = SubSeq(s, 1, i)}
  <2>1. 0 \in S
    <3>1. SubSeq(s, 1, 0) = <<>>
      OBVIOUS
    <3>2. QED
      BY <1>1, <1>2, <3>1
  <2>2. ASSUME NEW i \in 1..n, i - 1 \in S
        PROVE  i \in S
    <3>1. f[i] = Append(SubSeq(s, 1, i - 1), s[i])
      BY <1>1, <1>3, <2>2
    <3>2. SubSeq(s, 1, i) = Append(SubSeq(s, 1, i - 1), s[i])
      BY <1>2 DEF n
    <3>3. i \in 0..n
      BY <1>2
    <3>4. QED
      BY <3>1, <3>2, <3>3
  <2>3. 0..n \subseteq S
    <3> HIDE DEF S
    <3>1. QED
      BY <1>2, <2>1, <2>2, UpTo
  <2>4. f[n] = SubSeq(s, 1, n)
    BY <1>2, <2>3
  <2>5. QED
    BY <2>4, SubSeqFull DEF n
<1>4. ASSUME I \cap (1..n) = {}
      PROVE  f[n] = <<>>
  <2> DEFINE S == {i \in 0..n : f[i] = <<>>}
  <2>1. 0 \in S
    BY <1>1, <1>2
  <2>2. ASSUME NEW i \in 1..n, i - 1 \in S
        PROVE  i \in S
    <3>1. i \notin I /\ i \in 0..n
      BY <1>2, <1>4
    <3>2. QED
      BY <1>1, <2>2, <3>1
  <2>3. 0..n \subseteq S
    <3> HIDE DEF S
    <3>1. QED
      BY <1>2, <2>1, <2>2, UpTo
  <2>4. QED
    BY <1>2, <2>3
<1>5. QED
  BY <1>1, <1>3, <1>4 DEF n

\* What is kept are the elements at the indices, in order.
LEMMA KeptElements ==
    ASSUME NEW V, NEW s \in Seq(V), NEW I
    PROVE  /\ Len(Kept(s, I)) <= Len(s)
           /\ \A j \in 1..Len(Kept(s, I)) : \E i \in I \cap (1..Len(s)) : Kept(s, I)[j] = s[i]
           /\ \A i \in I \cap (1..Len(s)) : \E j \in 1..Len(Kept(s, I)) : Kept(s, I)[j] = s[i]
<1> DEFINE n == Len(s)
<1>0. PICK f : Keeps(f, s, I, V)
  BY KeptGrows
<1>1. /\ f \in [0..n -> Seq(V)]
      /\ f[0] = <<>>
      /\ \A i \in 1..n : f[i] = IF i \in I THEN Append(f[i - 1], s[i]) ELSE f[i - 1]
      /\ Kept(s, I) = f[n]
  BY <1>0 DEF Keeps
<1>2. n \in Nat /\ n \in 0..n /\ \A i \in 1..n : s[i] \in V
  OBVIOUS
<1> HIDE DEF n
<1> DEFINE Elements(m) ==
             /\ Len(f[m]) <= m
             /\ \A j \in 1..Len(f[m]) : \E i \in I \cap (1..m) : f[m][j] = s[i]
             /\ \A i \in I \cap (1..m) : \E j \in 1..Len(f[m]) : f[m][j] = s[i]
           S == {m \in 0..n : Elements(m)}
<1>3. 0 \in S
  BY <1>1, <1>2
<1>4. ASSUME NEW m \in 1..n, m - 1 \in S
      PROVE  m \in S
  <2> DEFINE k == f[m - 1]
  <2>1. m \in 0..n /\ m - 1 \in 0..n /\ k \in Seq(V) /\ s[m] \in V /\ Elements(m - 1)
    BY <1>1, <1>2, <1>4
  <2> HIDE DEF S
  <2>2. \A i \in 1..m : i = m \/ i \in 1..(m - 1)
    BY <1>2
  <2>3. CASE m \in I
    <3>1. f[m] = Append(k, s[m])
      BY <1>1, <2>3
    <3> DEFINE a == Append(k, s[m])
    <3> HIDE DEF k
    <3>2. Len(a) = Len(k) + 1 /\ a[Len(k) + 1] = s[m] /\ \A j \in 1..Len(k) : a[j] = k[j]
      BY <2>1
    <3> HIDE DEF a
    <3>3. Len(k) \in Nat /\ \A j \in 1..Len(a) : j = Len(k) + 1 \/ j \in 1..Len(k)
      BY <2>1, <3>2
    <3>4. Len(a) <= m
      BY <1>2, <2>1, <3>2, <3>3 DEF k
    <3>5. \A j \in 1..Len(a) : \E i \in I \cap (1..m) : a[j] = s[i]
      <4>1. m \in I \cap (1..m) /\ \A i \in I \cap (1..(m - 1)) : i \in I \cap (1..m)
        BY <1>2, <2>3
      <4>2. \A j \in 1..Len(k) : \E i \in I \cap (1..(m - 1)) : k[j] = s[i]
        BY <2>1 DEF k
      <4>3. QED
        BY <3>2, <3>3, <4>1, <4>2
    <3>6. \A i \in I \cap (1..m) : \E j \in 1..Len(a) : a[j] = s[i]
      <4>1. Len(k) + 1 \in 1..Len(a) /\ \A j \in 1..Len(k) : j \in 1..Len(a)
        BY <3>2, <3>3
      <4>2. \A i \in I \cap (1..(m - 1)) : \E j \in 1..Len(k) : k[j] = s[i]
        BY <2>1 DEF k
      <4>3. QED
        BY <2>2, <3>2, <4>1, <4>2
    <3>7. Elements(m)
      BY <3>1, <3>4, <3>5, <3>6 DEF a
    <3>8. QED
      BY <2>1, <3>7 DEF S
  <2>4. CASE m \notin I
    <3>1. f[m] = k
      BY <1>1, <2>4
    <3>2. Elements(m)
      <4>1. \A i \in I \cap (1..m) : i \in I \cap (1..(m - 1))
        BY <2>2, <2>4
      <4>2. \A i \in I \cap (1..(m - 1)) : i \in I \cap (1..m)
        BY <1>2
      <4>3. Len(k) \in Nat /\ (Len(k) <= m - 1 => Len(k) <= m)
        BY <1>2, <2>1
      <4>4. QED
        BY <2>1, <3>1, <4>1, <4>2, <4>3
    <3>3. QED
      BY <2>1, <3>2 DEF S
  <2>5. QED
    BY <2>3, <2>4
<1>5. 0..n \subseteq S
  <2> HIDE DEF S
  <2>1. QED
    BY <1>2, <1>3, <1>4, UpTo
<1>6. Elements(n)
  BY <1>2, <1>5
<1>7. QED
  BY <1>1, <1>6 DEF n

\* The first elements.
LEMMA KeptFirst ==
    ASSUME NEW V, NEW s \in Seq(V), NEW m \in 0..Len(s)
    PROVE  Kept(s, 1..m) = SubSeq(s, 1, m)
<1> DEFINE n == Len(s)
<1>0. PICK f : Keeps(f, s, 1..m, V)
  BY KeptGrows
<1>1. /\ f \in [0..n -> Seq(V)]
      /\ f[0] = <<>>
      /\ \A i \in 1..n : f[i] = IF i \in 1..m THEN Append(f[i - 1], s[i]) ELSE f[i - 1]
      /\ Kept(s, 1..m) = f[n]
  BY <1>0 DEF Keeps
<1>2. n \in Nat /\ n \in 0..n /\ m \in 0..n
  OBVIOUS
<1> HIDE DEF n
<1> DEFINE S == {i \in 0..n : f[i] = SubSeq(s, 1, IF i <= m THEN i ELSE m)}
<1>3. 0 \in S
  <2>1. SubSeq(s, 1, 0) = <<>>
    OBVIOUS
  <2>2. QED
    BY <1>1, <1>2, <2>1
<1>4. ASSUME NEW i \in 1..n, i - 1 \in S
      PROVE  i \in S
  <2>1. i \in 0..n
    BY <1>2
  <2>2. CASE i <= m
    <3>1. f[i - 1] = SubSeq(s, 1, i - 1) /\ i \in 1..m
      BY <1>2, <1>4, <2>2
    <3>2. SubSeq(s, 1, i) = Append(SubSeq(s, 1, i - 1), s[i])
      BY <1>2 DEF n
    <3>3. QED
      BY <1>1, <2>1, <2>2, <3>1, <3>2
  <2>3. CASE ~(i <= m)
    <3>1. f[i - 1] = SubSeq(s, 1, m) /\ i \notin 1..m
      BY <1>2, <1>4, <2>3
    <3>2. QED
      BY <1>1, <2>1, <2>3, <3>1
  <2>4. QED
    BY <2>2, <2>3
<1>5. 0..n \subseteq S
  <2> HIDE DEF S
  <2>1. QED
    BY <1>2, <1>3, <1>4, UpTo
<1>6. f[n] = SubSeq(s, 1, IF n <= m THEN n ELSE m)
  BY <1>2, <1>5
<1>7. QED
  BY <1>1, <1>2, <1>6

\* Of one and of two elements.
LEMMA KeptOfOne ==
    ASSUME NEW a, NEW I
    PROVE  Kept(<<a>>, I) = IF 1 \in I THEN <<a>> ELSE <<>>
<1>1. <<a>> \in Seq({a}) /\ Len(<<a>>) = 1
  OBVIOUS
<1>2. CASE 1 \in I
  <2>1. 1..1 \subseteq I
    BY <1>2
  <2>2. QED
    BY <1>1, <1>2, <2>1, KeptAll
<1>3. CASE 1 \notin I
  <2>1. I \cap (1..1) = {}
    BY <1>3
  <2>2. QED
    BY <1>1, <1>3, <2>1, KeptAll
<1>4. QED
  BY <1>2, <1>3

LEMMA KeptOfTwo ==
    ASSUME NEW a, NEW b, NEW I
    PROVE  Kept(<<a, b>>, I) = IF 1 \in I THEN IF 2 \in I THEN <<a, b>> ELSE <<a>>
                               ELSE IF 2 \in I THEN <<b>> ELSE <<>>
<1> DEFINE s == <<a, b>>
<1>1. s \in Seq({a, b}) /\ Len(s) = 2 /\ s[1] = a /\ s[2] = b
  OBVIOUS
<1> HIDE DEF s
<1>2. PICK f : Keeps(f, s, I, {a, b})
  BY <1>1, KeptGrows
<1> USE DEF Keeps
<1>3. f[1] = IF 1 \in I THEN <<a>> ELSE <<>>
  <2>1. 1 \in 1..Len(s) /\ 1 - 1 = 0
    BY <1>1
  <2>2. f[1] = IF 1 \in I THEN Append(f[0], a) ELSE f[0]
    BY <1>1, <1>2, <2>1
  <2>3. QED
    BY <1>2, <2>2
<1>4. f[2] = IF 2 \in I THEN Append(f[1], b) ELSE f[1]
  <2>1. 2 \in 1..Len(s) /\ 2 - 1 = 1
    BY <1>1
  <2>2. QED
    BY <1>1, <1>2, <2>1
<1>5. Kept(s, I) = f[2]
  BY <1>1, <1>2
<1>6. CASE 1 \in I
  <2>1. CASE 2 \in I
    <3>1. 1..Len(s) \subseteq I
      BY <1>1, <1>6, <2>1
    <3>2. Kept(s, I) = s
      BY <1>1, <3>1, KeptAll
    <3>3. QED
      BY <1>6, <2>1, <3>2 DEF s
  <2>2. CASE 2 \notin I
    BY <1>3, <1>4, <1>5, <1>6, <2>2 DEF s
  <2>3. QED
    BY <2>1, <2>2
<1>7. CASE 1 \notin I
  <2>1. Append(<<>>, b) = <<b>>
    OBVIOUS
  <2>2. QED
    BY <1>3, <1>4, <1>5, <1>7, <2>1 DEF s
<1>8. QED
  BY <1>6, <1>7

\* f is how s is joined.
Joins(f, s, V) ==
    /\ f \in [0..Len(s) -> Seq(V)]
    /\ f[0] = <<>>
    /\ \A i \in 1..Len(s) : f[i] = f[i - 1] \o s[i]
    /\ Joined(s) = f[Len(s)]

\* What is joined grows by one sequence after the other.
LEMMA JoinedGrows ==
    ASSUME NEW V, NEW s \in Seq(Seq(V))
    PROVE  \E f : Joins(f, s, V)
<1> DEFINE n == Len(s)
           step == [p \in Seq(V) \X (1..n) |-> p[1] \o s[p[2]]]
           Body(f) == [i \in 0..n |-> IF i = 0 THEN <<>> ELSE f[i - 1] \o s[i]]
           g == CHOOSE f : f = Body(f)
<1>1. n \in Nat /\ \A i \in 1..n : s[i] \in Seq(V)
  OBVIOUS
<1>2. Joined(s) = g[n]
  BY DEF Joined
<1> HIDE DEF n
<1>3. step \in [Seq(V) \X (1..n) -> Seq(V)]
  <2>1. \A p \in Seq(V) \X (1..n) : p[1] \in Seq(V) /\ s[p[2]] \in Seq(V)
    BY <1>1
  <2>2. QED
    BY <2>1
<1>4. PICK f : Computes(f, n, Seq(V), <<>>, step)
  <2> HIDE DEF step
  <2>1. <<>> \in Seq(V)
    OBVIOUS
  <2>2. QED
    BY <1>1, <1>3, <2>1, Recursion
<1>5. f \in [0..n -> Seq(V)] /\ f[0] = <<>>
  BY <1>4 DEF Computes
<1>6. ASSUME NEW i \in 1..n
      PROVE  f[i] = f[i - 1] \o s[i]
  <2>1. f[i] = step[<<f[i - 1], i>>]
    BY <1>4 DEF Computes
  <2>2. f[i - 1] \in Seq(V)
    BY <1>1, <1>5
  <2>3. QED
    BY <2>1, <2>2
<1>7. f = Body(f)
  <2>1. \A i \in 0..n : i = 0 \/ i \in 1..n
    BY <1>1
  <2>2. \A i \in 0..n : f[i] = IF i = 0 THEN <<>> ELSE f[i - 1] \o s[i]
    BY <1>5, <1>6, <2>1
  <2>3. QED
    BY <1>5, <2>2
<1>8. g = Body(g)
  BY <1>7
<1> HIDE DEF g
<1>9. g[0] = <<>>
  BY <1>1, <1>8
<1>10. ASSUME NEW i \in 1..n
       PROVE  g[i] = g[i - 1] \o s[i]
  <2>1. i \in 0..n /\ i # 0
    BY <1>1
  <2>2. Body(g)[i] = g[i - 1] \o s[i]
    BY <2>1
  <2> HIDE DEF Body
  <2>3. QED
    BY <1>8, <2>2
<1>11. g \in [0..n -> Seq(V)]
  <2> DEFINE S == {i \in 0..n : g[i] \in Seq(V)}
  <2>1. 0 \in S
    <3>1. g[0] \in Seq(V)
      BY <1>9, EmptySeq, Zenon
    <3>2. QED
      BY <1>1, <3>1
  <2>2. ASSUME NEW i \in 1..n, i - 1 \in S
        PROVE  i \in S
    <3>1. g[i - 1] \in Seq(V) /\ s[i] \in Seq(V)
      BY <1>1, <2>2
    <3>2. g[i - 1] \o s[i] \in Seq(V)
      BY <3>1
    <3>3. i \in 0..n
      BY <1>1
    <3>4. QED
      BY <1>10, <3>2, <3>3
  <2>3. 0..n \subseteq S
    <3> HIDE DEF S
    <3>1. QED
      BY <1>1, <2>1, <2>2, UpTo
  <2>4. g = [i \in 0..n |-> g[i]]
    BY <1>8
  <2>5. QED
    BY <2>3, <2>4
<1>12. QED
  BY <1>2, <1>9, <1>10, <1>11 DEF n, Joins

\* Sequences of elements are joined to one of elements; one sequence and two.
LEMMA JoinedType ==
    ASSUME NEW V, NEW s \in Seq(Seq(V))
    PROVE  Joined(s) \in Seq(V)
<1>1. PICK f : Joins(f, s, V)
  BY JoinedGrows
<1>2. Len(s) \in 0..Len(s)
  OBVIOUS
<1>3. QED
  BY <1>1, <1>2 DEF Joins

LEMMA JoinedFew ==
    ASSUME NEW V, NEW s \in Seq(Seq(V))
    PROVE  /\ Len(s) = 0 => Joined(s) = <<>>
           /\ Len(s) = 1 => Joined(s) = s[1]
           /\ Len(s) = 2 => Joined(s) = s[1] \o s[2]
<1>1. PICK f : Joins(f, s, V)
  BY JoinedGrows
<1>2. Len(s) = 0 => Joined(s) = <<>>
  BY <1>1 DEF Joins
<1>3. Len(s) > 0 => f[1] = s[1]
  <2>1. ASSUME Len(s) > 0
        PROVE  1 \in 1..Len(s) /\ s[1] \in Seq(V) /\ 1 - 1 = 0
    BY <2>1
  <2>2. Len(s) > 0 => f[1] = <<>> \o s[1]
    BY <1>1, <2>1 DEF Joins
  <2>3. QED
    BY <2>1, <2>2
<1>4. Len(s) = 2 => f[2] = f[1] \o s[2]
  <2>1. Len(s) = 2 => 2 \in 1..Len(s) /\ 2 - 1 = 1
    OBVIOUS
  <2>2. QED
    BY <1>1, <2>1 DEF Joins
<1>5. QED
  BY <1>1, <1>2, <1>3, <1>4 DEF Joins

\* f is how the numbers are added.
Adds(f, numbers) ==
    /\ f \in [0..Len(numbers) -> Nat]
    /\ f[0] = 0
    /\ \A i \in 1..Len(numbers) : f[i] = f[i - 1] + numbers[i]
    /\ Summed(numbers) = f[Len(numbers)]

\* A sum grows by one number after the other.
LEMMA SummedGrows ==
    ASSUME NEW s \in Seq(Nat)
    PROVE  \E f : Adds(f, s)
<1> DEFINE n == Len(s)
           step == [p \in Nat \X (1..n) |-> p[1] + s[p[2]]]
           Body(f) == [i \in 0..n |-> IF i = 0 THEN 0 ELSE f[i - 1] + s[i]]
           g == CHOOSE f : f = Body(f)
<1>1. n \in Nat /\ \A i \in 1..n : s[i] \in Nat
  OBVIOUS
<1>2. Summed(s) = g[n]
  BY DEF Summed
<1> HIDE DEF n
<1>3. step \in [Nat \X (1..n) -> Nat]
  <2>1. \A p \in Nat \X (1..n) : p[1] \in Nat /\ s[p[2]] \in Nat
    BY <1>1
  <2>2. QED
    BY <2>1
<1>4. PICK f : Computes(f, n, Nat, 0, step)
  <2> HIDE DEF step
  <2>1. QED
    BY <1>1, <1>3, Recursion
<1>5. f \in [0..n -> Nat] /\ f[0] = 0
  BY <1>4 DEF Computes
<1>6. ASSUME NEW i \in 1..n
      PROVE  f[i] = f[i - 1] + s[i]
  <2>1. f[i] = step[<<f[i - 1], i>>]
    BY <1>4 DEF Computes
  <2>2. f[i - 1] \in Nat
    BY <1>1, <1>5
  <2>3. QED
    BY <2>1, <2>2
<1>7. f = Body(f)
  <2>1. \A i \in 0..n : i = 0 \/ i \in 1..n
    BY <1>1
  <2>2. \A i \in 0..n : f[i] = IF i = 0 THEN 0 ELSE f[i - 1] + s[i]
    BY <1>5, <1>6, <2>1
  <2>3. QED
    BY <1>5, <2>2
<1>8. g = Body(g)
  BY <1>7
<1> HIDE DEF g
<1>9. g[0] = 0
  BY <1>1, <1>8
<1>10. ASSUME NEW i \in 1..n
       PROVE  g[i] = g[i - 1] + s[i]
  <2>1. i \in 0..n /\ i # 0
    BY <1>1
  <2>2. Body(g)[i] = g[i - 1] + s[i]
    BY <2>1
  <2> HIDE DEF Body
  <2>3. QED
    BY <1>8, <2>2
<1>11. g \in [0..n -> Nat]
  <2> DEFINE S == {i \in 0..n : g[i] \in Nat}
  <2>1. 0 \in S
    BY <1>1, <1>9
  <2>2. ASSUME NEW i \in 1..n, i - 1 \in S
        PROVE  i \in S
    <3>1. g[i - 1] \in Nat /\ s[i] \in Nat /\ i \in 0..n
      BY <1>1, <2>2
    <3>2. QED
      BY <1>10, <3>1
  <2>3. 0..n \subseteq S
    <3> HIDE DEF S
    <3>1. QED
      BY <1>1, <2>1, <2>2, UpTo
  <2>4. g = [i \in 0..n |-> g[i]]
    BY <1>8
  <2>5. QED
    BY <2>3, <2>4
<1>12. QED
  BY <1>2, <1>9, <1>10, <1>11 DEF n, Adds

LEMMA SummedType ==
    ASSUME NEW s \in Seq(Nat)
    PROVE  Summed(s) \in Nat
<1>1. Len(s) \in 0..Len(s)
  OBVIOUS
<1>2. QED
  BY <1>1, SummedGrows DEF Adds

\* The sum of no number, of one and of two.
LEMMA SummedFew ==
    ASSUME NEW s \in Seq(Nat)
    PROVE  /\ Len(s) = 0 => Summed(s) = 0
           /\ Len(s) = 1 => Summed(s) = s[1]
           /\ Len(s) = 2 => Summed(s) = s[1] + s[2]
<1>1. PICK f : Adds(f, s)
  BY SummedGrows
<1>2. Len(s) = 0 => Summed(s) = 0
  BY <1>1 DEF Adds
<1>3. Len(s) > 0 => f[1] = s[1]
  <2>1. ASSUME Len(s) > 0
        PROVE  1 \in 1..Len(s) /\ s[1] \in Nat /\ 1 - 1 = 0
    BY <2>1
  <2>2. Len(s) > 0 => f[1] = 0 + s[1]
    BY <1>1, <2>1 DEF Adds
  <2>3. QED
    BY <2>1, <2>2
<1>4. Len(s) = 2 => f[2] = f[1] + s[2]
  <2>1. Len(s) = 2 => 2 \in 1..Len(s) /\ 2 - 1 = 1
    OBVIOUS
  <2>2. QED
    BY <1>1, <2>1 DEF Adds
<1>5. QED
  BY <1>1, <1>2, <1>3, <1>4 DEF Adds

\* Two sums differ by at most 50 for each pair of their numbers, when the numbers do.
LEMMA SumsAreNear ==
    ASSUME NEW s \in Seq(Nat), NEW t \in Seq(Nat), Len(s) = Len(t),
           \A i \in 1..Len(s) : s[i] <= t[i] + 50
    PROVE  Summed(s) <= Summed(t) + 50 * Len(s)
<1>1. PICK n \in Nat : n = Len(s)
  OBVIOUS
<1>2. PICK f : Adds(f, s)
  BY SummedGrows
<1>3. PICK g : Adds(g, t)
  BY SummedGrows
<1>4. /\ f \in [0..n -> Nat] /\ f[0] = 0 /\ g \in [0..n -> Nat] /\ g[0] = 0
      /\ \A i \in 1..n : f[i] = f[i - 1] + s[i] /\ g[i] = g[i - 1] + t[i]
      /\ Summed(s) = f[n] /\ Summed(t) = g[n]
  BY <1>1, <1>2, <1>3 DEF Adds
<1> DEFINE S == {i \in 0..n : f[i] <= g[i] + 50 * i}
<1>5. 0 \in S
  BY <1>4
<1>6. ASSUME NEW i \in 1..n, i - 1 \in S
      PROVE  i \in S
  <2>1. PICK x \in Nat, y \in Nat : x = s[i] /\ y = t[i] /\ x <= y + 50
    BY <1>1
  <2>2. i \in 0..n /\ i - 1 \in 0..n
    OBVIOUS
  <2>3. PICK a \in Nat, b \in Nat : a = f[i - 1] /\ b = g[i - 1]
    BY <1>4, <2>2
  <2>4. a <= b + 50 * (i - 1)
    BY <1>6, <2>3
  <2>5. f[i] = a + x /\ g[i] = b + y
    BY <1>4, <2>1, <2>3
  <2>6. a + x <= (b + y) + 50 * i
    <3>1. x <= y + 50 /\ a <= b + 50 * (i - 1)
      BY <2>1, <2>4
    <3> QED
      BY <3>1
  <2>7. f[i] <= g[i] + 50 * i
    BY <2>5, <2>6
  <2> QED
    BY <2>2, <2>7
<1>7. 0..n \subseteq S
  <2> HIDE DEF S
  <2> QED
    BY <1>5, <1>6, UpTo
<1>8. n \in 0..n
  OBVIOUS
<1>9. f[n] <= g[n] + 50 * n
  BY <1>7, <1>8
<1> QED
  BY <1>1, <1>4, <1>9

\* A sum of nothing but zeros; and no number is more than the sum.
LEMMA SumOfZeros ==
    ASSUME NEW s \in Seq(Nat)
    PROVE  /\ (\A i \in 1..Len(s) : s[i] = 0) => Summed(s) = 0
           /\ \A i \in 1..Len(s) : s[i] <= Summed(s)
<1>1. PICK n \in Nat : n = Len(s)
  OBVIOUS
<1>2. PICK f : Adds(f, s)
  BY SummedGrows
<1>3. /\ f \in [0..n -> Nat] /\ f[0] = 0 /\ Summed(s) = f[n]
      /\ \A i \in 1..n : f[i] = f[i - 1] + s[i] /\ s[i] \in Nat
  BY <1>1, <1>2 DEF Adds
<1>4. ASSUME \A i \in 1..n : s[i] = 0
      PROVE  f[n] = 0
  <2> DEFINE S == {i \in 0..n : f[i] = 0}
  <2>1. 0 \in S
    BY <1>3
  <2>2. ASSUME NEW i \in 1..n, i - 1 \in S
        PROVE  i \in S
    <3>1. i \in 0..n /\ f[i - 1] = 0 /\ s[i] = 0
      BY <1>4, <2>2
    <3>2. f[i] = 0
      BY <1>3, <3>1
    <3> QED
      BY <3>1, <3>2
  <2>3. 0..n \subseteq S
    <3> HIDE DEF S
    <3> QED
      BY <2>1, <2>2, UpTo
  <2>4. n \in 0..n
    OBVIOUS
  <2> QED
    BY <2>3, <2>4
<1>5. ASSUME NEW k \in 1..n
      PROVE  s[k] <= f[n]
  <2>1. PICK x \in Nat : x = s[k]
    BY <1>3
  <2> DEFINE S == {i \in 0..n : k <= i => x <= f[i]}
  <2>2. 0 \in S
    OBVIOUS
  <2>3. ASSUME NEW i \in 1..n, i - 1 \in S
        PROVE  i \in S
    <3>1. i \in 0..n /\ i - 1 \in 0..n
      OBVIOUS
    <3>2. PICK y \in Nat, a \in Nat : y = s[i] /\ a = f[i - 1] /\ f[i] = a + y
      BY <1>3, <3>1
    <3>3. k <= i - 1 => x <= a
      BY <2>3, <3>2
    <3>4. k = i => x = y
      BY <2>1, <3>2
    <3>5. k <= i => x <= a + y
      BY <2>1, <3>2, <3>3, <3>4
    <3> QED
      BY <3>1, <3>2, <3>5
  <2>4. 0..n \subseteq S
    <3> HIDE DEF S
    <3> QED
      BY <2>2, <2>3, UpTo
  <2>5. n \in 0..n /\ k <= n
    OBVIOUS
  <2> QED
    BY <2>1, <2>4, <2>5
<1> QED
  BY <1>1, <1>3, <1>4, <1>5

\* One number is one more.
LEMMA SumOfOneMore ==
    ASSUME NEW s \in Seq(Nat), NEW t \in Seq(Nat), Len(s) = Len(t), NEW k \in 1..Len(s),
           t[k] = s[k] + 1, \A i \in 1..Len(s) : i # k => t[i] = s[i]
    PROVE  Summed(t) = Summed(s) + 1
<1>1. PICK n \in Nat : n = Len(s)
  OBVIOUS
<1>2. PICK f : Adds(f, s)
  BY SummedGrows
<1>3. PICK g : Adds(g, t)
  BY SummedGrows
<1>4. /\ f \in [0..n -> Nat] /\ f[0] = 0 /\ g \in [0..n -> Nat] /\ g[0] = 0
      /\ \A i \in 1..n : f[i] = f[i - 1] + s[i] /\ g[i] = g[i - 1] + t[i]
      /\ Summed(s) = f[n] /\ Summed(t) = g[n]
  BY <1>1, <1>2, <1>3 DEF Adds
<1> DEFINE S == {i \in 0..n : g[i] = f[i] + (IF k <= i THEN 1 ELSE 0)}
<1>5. 0 \in S
  BY <1>4
<1>6. ASSUME NEW i \in 1..n, i - 1 \in S
      PROVE  i \in S
  <2>1. PICK x \in Nat, y \in Nat : x = s[i] /\ y = t[i] /\ y = x + (IF i = k THEN 1 ELSE 0)
    BY <1>1
  <2>2. i \in 0..n /\ i - 1 \in 0..n
    OBVIOUS
  <2>3. PICK a \in Nat, b \in Nat : a = f[i - 1] /\ b = g[i - 1]
    BY <1>4, <2>2
  <2>4. b = a + (IF k <= i - 1 THEN 1 ELSE 0)
    BY <1>6, <2>3
  <2>5. f[i] = a + x /\ g[i] = b + y
    BY <1>4, <2>1, <2>3
  <2>6. b + y = (a + x) + (IF k <= i THEN 1 ELSE 0)
    <3>1. /\ y = x + (IF i = k THEN 1 ELSE 0) /\ b = a + (IF k <= i - 1 THEN 1 ELSE 0)
          /\ k \in Int /\ (k <= i <=> k <= i - 1 \/ i = k) /\ ~(k <= i - 1 /\ i = k)
      BY <2>1, <2>4
    <3> QED
      BY <3>1
  <2>7. g[i] = f[i] + (IF k <= i THEN 1 ELSE 0)
    BY <2>5, <2>6
  <2> QED
    BY <2>2, <2>7
<1>7. 0..n \subseteq S
  <2> HIDE DEF S
  <2> QED
    BY <1>5, <1>6, UpTo
<1>8. n \in 0..n /\ k <= n
  BY <1>1
<1>9. g[n] = f[n] + 1
  BY <1>7, <1>8
<1> QED
  BY <1>4, <1>9

=============================================================================
