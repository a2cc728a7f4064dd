----------------------------- MODULE ListLemmas -----------------------------
(***************************************************************************)
(* Lemmas about the elements of a sequence, when it grows, shrinks or is   *)
(* cut. They are used where the code keeps a linked list.                  *)
(***************************************************************************)
EXTENDS Integers, SequencesExt, SequenceTheorems, FiniteSetTheorems,
        WellFoundedInduction, TLAPS

\* The elements of a list are in its range, and a list has no other ones.
LEMMA RangeFacts ==
  ASSUME NEW S, NEW s \in Seq(S)
  PROVE  /\ Range(s) \subseteq S /\ Range(<<>>) = {}
         /\ \A i \in 1 .. Len(s) : s[i] \in Range(s) /\ s[i] \in S
         /\ \A x \in Range(s) : \E i \in 1 .. Len(s) : x = s[i]
         /\ \A T : (\A i \in 1 .. Len(s) : s[i] \in T) => Range(s) \subseteq T
<1>1. DOMAIN s = 1 .. Len(s) /\ \A i \in 1 .. Len(s) : s[i] \in S
  OBVIOUS
<1> QED BY <1>1 DEF Range

\* One is appended to them ...
LEMMA AppendFacts ==
  ASSUME NEW S, NEW s \in Seq(S), NEW x \in S
  PROVE  /\ Append(s, x) \in Seq(S) /\ Range(Append(s, x)) = Range(s) \union {x}
         /\ Len(Append(s, x)) = Len(s) + 1
         /\ \A i \in 1 .. Len(s) : Append(s, x)[i] = s[i]
<1>1. /\ Append(s, x) \in Seq(S) /\ Len(Append(s, x)) = Len(s) + 1
      /\ \A i \in 1 .. Len(s) : Append(s, x)[i] = s[i]
  OBVIOUS
<1>2. Range(Append(s, x)) = Range(s) \union {x}
  <2>1. DOMAIN Append(s, x) = 1 .. Len(s) + 1 /\ DOMAIN s = 1 .. Len(s) /\ Len(s) \in Nat
    OBVIOUS
  <2>2. /\ \A i \in 1 .. Len(s) : Append(s, x)[i] = s[i]
        /\ Append(s, x)[Len(s) + 1] = x
    OBVIOUS
  <2> QED BY <2>1, <2>2 DEF Range
<1> QED BY <1>1, <1>2

\* ... or another list is.
LEMMA JoinFacts ==
  ASSUME NEW S, NEW s \in Seq(S), NEW t \in Seq(S)
  PROVE  /\ s \o t \in Seq(S) /\ Len(s \o t) = Len(s) + Len(t)
         /\ Range(s \o t) = Range(s) \union Range(t)
<1>1. s \o t \in Seq(S) /\ Len(s \o t) = Len(s) + Len(t)
  OBVIOUS
<1>2. Range(s \o t) = Range(s) \union Range(t)
  <2>1. Len(s) \in Nat /\ Len(t) \in Nat /\ Len(s \o t) = Len(s) + Len(t)
    OBVIOUS
  <2>2. ASSUME NEW i \in 1 .. Len(s)
        PROVE  s[i] \in Range(s \o t)
    <3>1. i \in 1 .. Len(s \o t) /\ (s \o t)[i] = s[i]
      BY <2>1
    <3> QED BY <3>1, <1>1, RangeFacts
  <2>3. ASSUME NEW i \in 1 .. Len(t)
        PROVE  t[i] \in Range(s \o t)
    <3>1. Len(s) + i \in 1 .. Len(s \o t) /\ (s \o t)[Len(s) + i] = t[i]
      BY <2>1
    <3> QED BY <3>1, <1>1, RangeFacts
  <2>4. ASSUME NEW i \in 1 .. Len(s \o t)
        PROVE  (s \o t)[i] \in Range(s) \union Range(t)
    <3>1. CASE i \in 1 .. Len(s)
      <4>1. (s \o t)[i] = s[i]
        BY <2>1, <3>1
      <4> QED BY <4>1, <3>1, RangeFacts
    <3>2. CASE i \notin 1 .. Len(s)
      <4>1. i - Len(s) \in 1 .. Len(t) /\ (s \o t)[i] = t[i - Len(s)]
        BY <2>1, <3>2
      <4> QED BY <4>1, RangeFacts
    <3> QED BY <3>1, <3>2
  <2>5. Range(s) \subseteq Range(s \o t)
    BY <2>2, RangeFacts
  <2>6. Range(t) \subseteq Range(s \o t)
    BY <2>3, RangeFacts
  <2>7. Range(s \o t) \subseteq Range(s) \union Range(t)
    BY <2>4, <1>1, RangeFacts
  <2> QED BY <2>5, <2>6, <2>7
<1> QED BY <1>1, <1>2

\* The first element and the others.
LEMMA HeadFacts ==
  ASSUME NEW S, NEW s \in Seq(S), s # <<>>
  PROVE  /\ Head(s) \in S /\ Tail(s) \in Seq(S) /\ Range(s) = Range(Tail(s)) \union {Head(s)}
<1>1. Head(s) \in S /\ Tail(s) \in Seq(S)
  OBVIOUS
<1>2. /\ Len(s) \in Nat /\ Len(s) > 0 /\ DOMAIN s = 1 .. Len(s)
      /\ DOMAIN Tail(s) = 1 .. Len(s) - 1
      /\ Head(s) = s[1]
      /\ \A i \in 1 .. Len(s) - 1 : Tail(s)[i] = s[i + 1]
  OBVIOUS
<1>3. Range(Tail(s)) \union {Head(s)} \subseteq Range(s)
  BY <1>2 DEF Range
<1>4. ASSUME NEW i \in 1 .. Len(s)
      PROVE  s[i] \in Range(Tail(s)) \union {Head(s)}
  <2>1. CASE i = 1
    BY <2>1, <1>2
  <2>2. CASE i # 1
    <3>1. i - 1 \in 1 .. Len(s) - 1 /\ Tail(s)[i - 1] = s[i]
      BY <2>2, <1>2
    <3> QED BY <3>1, <1>2 DEF Range
  <2> QED BY <2>1, <2>2
<1> QED BY <1>1, <1>2, <1>3, <1>4 DEF Range

\* A part of a list.
LEMMA PartFacts ==
  ASSUME NEW S, NEW s \in Seq(S), NEW m \in 1 .. Len(s) + 1, NEW n \in m - 1 .. Len(s)
  PROVE  /\ SubSeq(s, m, n) \in Seq(S)
         /\ Len(SubSeq(s, m, n)) = n - m + 1
         /\ \A i \in 1 .. n - m + 1 : SubSeq(s, m, n)[i] = s[m + i - 1]
         /\ Range(SubSeq(s, m, n)) \subseteq Range(s)
         /\ \A i \in m .. n : s[i] \in Range(SubSeq(s, m, n))
<1>1. Len(s) \in Nat /\ m \in Int /\ n \in Int /\ \A i \in m .. n : i \in 1 .. Len(s) /\ s[i] \in S
  OBVIOUS
<1> DEFINE f == SubSeq(s, m, n)
<1>2. /\ f \in Seq(S) /\ Len(f) = n - m + 1
      /\ \A i \in 1 .. n - m + 1 : f[i] = s[m + i - 1]
  BY <1>1, SubSeqProperties
<1> HIDE DEF f
<1>3. ASSUME NEW i \in 1 .. Len(f)
      PROVE  f[i] \in Range(s)
  <2>1. m + i - 1 \in 1 .. Len(s) /\ f[i] = s[m + i - 1]
    BY <1>1, <1>2
  <2> QED BY <2>1, RangeFacts
<1>4. Range(f) \subseteq Range(s)
  BY <1>2, <1>3, RangeFacts
<1>5. ASSUME NEW i \in m .. n
      PROVE  s[i] \in Range(f)
  <2>1. i - m + 1 \in 1 .. Len(f) /\ m + (i - m + 1) - 1 = i
    BY <1>1, <1>2
  <2>2. f[i - m + 1] = s[i]
    BY <2>1, <1>2
  <2> QED BY <2>1, <2>2, <1>2, RangeFacts
<1> QED BY <1>2, <1>4, <1>5 DEF f

\* What is left of a list after its first k elements.
LEMMA TailFacts ==
  ASSUME NEW S, NEW s \in Seq(S), NEW k \in 0 .. Len(s)
  PROVE  /\ SubSeq(s, k + 1, Len(s)) \in Seq(S)
         /\ Len(SubSeq(s, k + 1, Len(s))) = Len(s) - k
         /\ \A i \in 1 .. Len(s) - k : SubSeq(s, k + 1, Len(s))[i] = s[k + i]
         /\ Range(SubSeq(s, k + 1, Len(s))) \subseteq Range(s)
         /\ \A i \in k + 1 .. Len(s) : s[i] \in Range(SubSeq(s, k + 1, Len(s)))
<1> DEFINE a == k + 1
           n == Len(s)
<1>1. a \in 1 .. Len(s) + 1 /\ n \in a - 1 .. Len(s)
  OBVIOUS
<1>2. n - a + 1 = Len(s) - k /\ \A i \in 1 .. Len(s) - k : a + i - 1 = k + i
  OBVIOUS
<1> HIDE DEF a, n
<1>3. /\ SubSeq(s, a, n) \in Seq(S)
      /\ Len(SubSeq(s, a, n)) = n - a + 1
      /\ \A i \in 1 .. n - a + 1 : SubSeq(s, a, n)[i] = s[a + i - 1]
      /\ Range(SubSeq(s, a, n)) \subseteq Range(s)
      /\ \A i \in a .. n : s[i] \in Range(SubSeq(s, a, n))
  BY <1>1, PartFacts
<1> QED BY <1>2, <1>3 DEF a, n

\* A list cut in two.
LEMMA CutFacts ==
  ASSUME NEW S, NEW s \in Seq(S), NEW k \in 0 .. Len(s)
  PROVE  /\ SubSeq(s, 1, k) \in Seq(S) /\ SubSeq(s, k + 1, Len(s)) \in Seq(S)
         /\ Len(SubSeq(s, 1, k)) = k
         /\ Range(s) = Range(SubSeq(s, 1, k)) \union Range(SubSeq(s, k + 1, Len(s)))
<1> DEFINE f == SubSeq(s, 1, k)
           g == SubSeq(s, k + 1, Len(s))
<1>1. Len(s) \in Nat /\ k \in Nat
  OBVIOUS
<1>2. 1 \in 1 .. Len(s) + 1 /\ k \in 1 - 1 .. Len(s) /\ k - 1 + 1 = k
  BY <1>1
<1>3. f \in Seq(S) /\ Len(f) = k /\ Range(f) \subseteq Range(s) /\ \A i \in 1 .. k : s[i] \in Range(f)
  BY <1>2, PartFacts
<1>4. g \in Seq(S) /\ Range(g) \subseteq Range(s) /\ \A i \in k + 1 .. Len(s) : s[i] \in Range(g)
  BY TailFacts
<1> HIDE DEF f, g
<1>5. \A i \in 1 .. Len(s) : s[i] \in Range(f) \union Range(g)
  BY <1>1, <1>3, <1>4
<1>6. Range(s) \subseteq Range(f) \union Range(g)
  BY <1>5, RangeFacts
<1> QED BY <1>3, <1>4, <1>6 DEF f, g

\* A list from which one element is taken.
LEMMA RemoveFacts ==
  ASSUME NEW S, NEW s \in Seq(S), NEW i \in 1 .. Len(s)
  PROVE  /\ s[i] \in S /\ RemoveAt(s, i) \in Seq(S)
         /\ Len(RemoveAt(s, i)) = Len(s) - 1
         /\ Range(s) = Range(RemoveAt(s, i)) \union {s[i]}
         /\ \A j \in 1 .. i - 1 : RemoveAt(s, i)[j] = s[j]
<1> DEFINE f == SubSeq(s, 1, i - 1)
           g == SubSeq(s, i + 1, Len(s))
<1>1. Len(s) \in Nat /\ s[i] \in S /\ s[i] \in Range(s)
  BY RangeFacts
<1>2. 1 \in 1 .. Len(s) + 1 /\ i - 1 \in 1 - 1 .. Len(s) /\ i - 1 - 1 + 1 = i - 1
  BY <1>1
<1>3. /\ f \in Seq(S) /\ Len(f) = i - 1 /\ Range(f) \subseteq Range(s)
      /\ \A j \in 1 .. i - 1 : s[j] \in Range(f) /\ f[j] = s[1 + j - 1]
  <2>1. /\ f \in Seq(S) /\ Len(f) = i - 1 - 1 + 1 /\ Range(f) \subseteq Range(s)
        /\ \A j \in 1 .. i - 1 - 1 + 1 : f[j] = s[1 + j - 1]
        /\ \A j \in 1 .. i - 1 : s[j] \in Range(f)
    BY <1>2, PartFacts
  <2> QED BY <2>1, <1>2
<1>4. /\ g \in Seq(S) /\ Len(g) = Len(s) - i /\ Range(g) \subseteq Range(s)
      /\ \A j \in i + 1 .. Len(s) : s[j] \in Range(g)
  BY TailFacts
<1>5. RemoveAt(s, i) = f \o g
  BY DEF RemoveAt
<1> HIDE DEF f, g
<1>6. f \o g \in Seq(S) /\ Len(f \o g) = Len(s) - 1
  <2>1. f \o g \in Seq(S) /\ Len(f \o g) = Len(f) + Len(g)
    BY <1>3, <1>4, JoinFacts
  <2> QED BY <2>1, <1>1, <1>3, <1>4
<1>7. \A j \in 1 .. i - 1 : (f \o g)[j] = s[j]
  <2>1. TAKE j \in 1 .. i - 1
  <2>2. 1 + j - 1 = j
    OBVIOUS
  <2>3. (f \o g)[j] = f[j]
    BY <1>3, <1>4
  <2> QED BY <2>2, <2>3, <1>3
<1>8. Range(f \o g) = Range(f) \union Range(g)
  BY <1>3, <1>4, JoinFacts
<1>9. \A j \in 1 .. Len(s) : s[j] \in Range(f) \union Range(g) \union {s[i]}
  BY <1>1, <1>3, <1>4
<1>10. Range(s) \subseteq Range(f) \union Range(g) \union {s[i]}
  BY <1>9, RangeFacts
<1> QED BY <1>1, <1>3, <1>4, <1>5, <1>6, <1>7, <1>8, <1>10
-----------------------------------------------------------------------------
\* The least of a set of natural numbers.
LEMMA MinFacts ==
  ASSUME NEW S \in SUBSET Nat, S # {}
  PROVE  Min(S) \in S /\ \A y \in S : Min(S) <= y
<1>1. PICK x \in S : \A y \in S : <<y, x>> \notin OpToRel(<, Nat)
  BY NatLessThanWellFounded, WFMin
<1>2. \A y \in S : ~(y < x)
  BY <1>1 DEF OpToRel
<1>3. \A y \in S : x <= y
  BY <1>2
<1> QED BY <1>3 DEF Min

\* The greatest of a set of natural numbers that has a bound.
LEMMA MaxFacts ==
  ASSUME NEW S \in SUBSET Nat, S # {}, NEW n \in Nat, \A y \in S : y <= n
  PROVE  Max(S) \in S /\ \A y \in S : y <= Max(S)
<1> DEFINE T == {n - y : y \in S}
<1>1. T \in SUBSET Nat /\ T # {}
  <2>1. \A y \in S : y \in Nat /\ y <= n
    OBVIOUS
  <2>2. \A y \in S : n - y \in Nat
    BY <2>1
  <2> QED BY <2>2
<1>2. Min(T) \in T /\ \A y \in T : Min(T) <= y
  BY <1>1, MinFacts
<1>3. PICK x \in S : Min(T) = n - x
  BY <1>2
<1>4. ASSUME NEW y \in S
      PROVE  x >= y
  <2>1. n - y \in T
    OBVIOUS
  <2>2. n - x <= n - y
    BY <2>1, <1>2, <1>3
  <2>3. x \in Nat /\ y \in Nat
    OBVIOUS
  <2> QED BY <2>2, <2>3
<1>5. \E z \in S : \A y \in S : z >= y
  BY <1>4
<1>6. Max(S) \in S /\ \A y \in S : Max(S) >= y
  BY <1>5 DEF Max
<1>7. \A y \in S : y \in Int
  OBVIOUS
<1> QED BY <1>6, <1>7

-----------------------------------------------------------------------------
\* The elements of a list without its i-th, one by one.
LEMMA RemoveElements ==
  ASSUME NEW S, NEW s \in Seq(S), NEW i \in 1 .. Len(s)
  PROVE  /\ RemoveAt(s, i) \in Seq(S) /\ Len(RemoveAt(s, i)) = Len(s) - 1
         /\ \A j \in 1 .. Len(s) - 1 : RemoveAt(s, i)[j] = IF j < i THEN s[j] ELSE s[j + 1]
<1> DEFINE f == SubSeq(s, 1, i - 1)
           g == SubSeq(s, i + 1, Len(s))
<1>1. Len(s) \in Nat
  OBVIOUS
<1>2. /\ f \in Seq(S) /\ Len(f) = i - 1
      /\ \A j \in 1 .. i - 1 : f[j] = s[j]
  <2>1. 1 \in 1 .. Len(s) + 1 /\ i - 1 \in 1 - 1 .. Len(s) /\ i - 1 - 1 + 1 = i - 1
    BY <1>1
  <2>2. /\ f \in Seq(S) /\ Len(f) = i - 1 - 1 + 1
        /\ \A j \in 1 .. i - 1 - 1 + 1 : f[j] = s[1 + j - 1]
    BY <2>1, PartFacts
  <2>3. \A j \in 1 .. i - 1 : 1 + j - 1 = j
    OBVIOUS
  <2> QED BY <2>1, <2>2, <2>3
<1>3. /\ g \in Seq(S) /\ Len(g) = Len(s) - i
      /\ \A j \in 1 .. Len(s) - i : g[j] = s[i + j]
  BY TailFacts
<1>4. RemoveAt(s, i) = f \o g
  BY DEF RemoveAt
<1> HIDE DEF f, g
<1>5. f \o g \in Seq(S) /\ Len(f \o g) = Len(s) - 1
  <2>1. f \o g \in Seq(S) /\ Len(f \o g) = Len(f) + Len(g)
    BY <1>2, <1>3, JoinFacts
  <2> QED BY <2>1, <1>1, <1>2, <1>3
<1>6. ASSUME NEW j \in 1 .. Len(s) - 1
      PROVE  (f \o g)[j] = IF j < i THEN s[j] ELSE s[j + 1]
  <2>1. CASE j < i
    <3>1. j \in 1 .. Len(f) /\ j \in 1 .. i - 1
      BY <1>1, <1>2, <2>1
    <3>2. (f \o g)[j] = f[j]
      BY <1>2, <1>3, <3>1
    <3> QED BY <3>1, <3>2, <1>2, <2>1
  <2>2. CASE ~(j < i)
    <3>1. j - (i - 1) \in 1 .. Len(s) - i /\ i + (j - (i - 1)) = j + 1 /\ j > Len(f) /\ j <= Len(f) + Len(g)
      BY <1>1, <1>2, <1>3, <2>2
    <3>2. (f \o g)[j] = g[j - (i - 1)]
      BY <1>2, <1>3, <3>1
    <3> QED BY <3>1, <3>2, <1>3, <2>2
  <2> QED BY <2>1, <2>2
<1> QED BY <1>4, <1>5, <1>6

\* The first occurrence of an element is somewhere.
LEMMA RemoveFirstAt ==
  ASSUME NEW S, NEW s \in Seq(S), NEW x, \E i \in 1 .. Len(s) : s[i] = x
  PROVE  \E i \in 1 .. Len(s) : s[i] = x /\ RemoveFirst(s, x) = RemoveAt(s, i)
<1> DEFINE i == SelectInSeq(s, LAMBDA v: v = x)
           I == {j \in 1 .. Len(s) : s[j] = x}
<1>1. I \in SUBSET Nat /\ I # {}
  OBVIOUS
<1>2. Min(I) \in I
  BY <1>1, MinFacts
<1>3. i = Min(I)
  BY <1>1 DEF SelectInSeq
<1>4. RemoveFirst(s, x) = RemoveAt(s, i)
  BY DEF RemoveFirst
<1> QED BY <1>2, <1>3, <1>4

\* A list from which the first occurrence of an element is taken, if there is one.
LEMMA RemoveFirstFacts ==
  ASSUME NEW S, NEW s \in Seq(S), NEW x \in S
  PROVE  /\ RemoveFirst(s, x) \in Seq(S)
         /\ x \notin Range(s) => RemoveFirst(s, x) = s
         /\ Range(s) \subseteq Range(RemoveFirst(s, x)) \union {x}
         /\ Range(RemoveFirst(s, x)) \subseteq Range(s)
         /\ IsInjective(s) => /\ IsInjective(RemoveFirst(s, x))
                              /\ Range(RemoveFirst(s, x)) = Range(s) \ {x}
<1>1. CASE ~ \E i \in 1 .. Len(s) : s[i] = x
  <2>1. RemoveFirst(s, x) = s
    BY <1>1 DEF RemoveFirst
  <2>2. x \notin Range(s)
    BY <1>1, RangeFacts
  <2> QED BY <2>1, <2>2
<1>2. CASE \E i \in 1 .. Len(s) : s[i] = x
  <2>1. PICK i \in 1 .. Len(s) : s[i] = x /\ RemoveFirst(s, x) = RemoveAt(s, i)
    BY <1>2, RemoveFirstAt
  <2> DEFINE r == RemoveAt(s, i)
  <2>2. RemoveFirst(s, x) = r
    BY <2>1
  <2>3. /\ r \in Seq(S) /\ Len(r) = Len(s) - 1 /\ Len(s) \in Nat
        /\ \A j \in 1 .. Len(s) - 1 : r[j] = IF j < i THEN s[j] ELSE s[j + 1]
    <3>1. Len(s) \in Nat
      OBVIOUS
    <3>2. /\ RemoveAt(s, i) \in Seq(S) /\ Len(RemoveAt(s, i)) = Len(s) - 1
          /\ \A j \in 1 .. Len(s) - 1 : RemoveAt(s, i)[j] = IF j < i THEN s[j] ELSE s[j + 1]
      BY RemoveElements
    <3> QED BY <2>1, <3>1, <3>2
  <2>4. Range(s) = Range(r) \union {x}
    BY <2>1, RemoveFacts
  <2> HIDE DEF r
  <2>5. DOMAIN s = 1 .. Len(s) /\ DOMAIN r = 1 .. Len(s) - 1
    BY <2>3
  <2>6. ASSUME IsInjective(s)
        PROVE  IsInjective(r) /\ x \notin Range(r)
    <3> DEFINE p(j) == IF j < i THEN j ELSE j + 1
    <3>1. \A j \in 1 .. Len(s) - 1 : p(j) \in 1 .. Len(s) /\ p(j) # i /\ r[j] = s[p(j)]
      BY <2>1, <2>3
    <3>2. \A j, k \in 1 .. Len(s) - 1 : p(j) = p(k) => j = k
      BY <2>1, <2>3
    <3>3. \A j, k \in 1 .. Len(s) : s[j] = s[k] => j = k
      BY <2>5, <2>6 DEF IsInjective
    <3> HIDE DEF p
    <3>4. \A j, k \in 1 .. Len(s) - 1 : r[j] = r[k] => j = k
      BY <3>1, <3>2, <3>3
    <3>5. \A j \in 1 .. Len(s) - 1 : r[j] # x
      BY <3>1, <3>3, <2>1
    <3> QED BY <3>4, <3>5, <2>5 DEF IsInjective, Range
  <2> QED BY <2>1, <2>2, <2>3, <2>4, <2>6, RangeFacts
<1> QED BY <1>1, <1>2

\* The other elements stay in their order.
LEMMA RemoveFirstOrder ==
  ASSUME NEW S, NEW s \in Seq(S), NEW x
  PROVE  LET r == RemoveFirst(s, x)
         IN  /\ r \in Seq(S)
             /\ \E p \in [1 .. Len(r) -> 1 .. Len(s)] :
                  /\ \A j \in 1 .. Len(r) : r[j] = s[p[j]]
                  /\ \A j, k \in 1 .. Len(r) : j < k => p[j] < p[k]
<1> DEFINE r == RemoveFirst(s, x)
<1> SUFFICES /\ r \in Seq(S)
             /\ \E p \in [1 .. Len(r) -> 1 .. Len(s)] :
                  /\ \A j \in 1 .. Len(r) : r[j] = s[p[j]]
                  /\ \A j, k \in 1 .. Len(r) : j < k => p[j] < p[k]
  OBVIOUS
<1>1. CASE ~ \E i \in 1 .. Len(s) : s[i] = x
  <2>1. r = s
    BY <1>1 DEF RemoveFirst
  <2> DEFINE p == [j \in 1 .. Len(s) |-> j]
  <2>2. /\ p \in [1 .. Len(s) -> 1 .. Len(s)] /\ \A j \in 1 .. Len(s) : s[j] = s[p[j]]
        /\ \A j, k \in 1 .. Len(s) : j < k => p[j] < p[k]
    OBVIOUS
  <2> QED BY <2>1, <2>2
<1>2. CASE \E i \in 1 .. Len(s) : s[i] = x
  <2>1. PICK i \in 1 .. Len(s) : s[i] = x /\ r = RemoveAt(s, i)
    BY <1>2, RemoveFirstAt
  <2> HIDE DEF r
  <2>2. /\ r \in Seq(S) /\ Len(r) = Len(s) - 1 /\ Len(s) \in Nat
        /\ \A j \in 1 .. Len(s) - 1 : r[j] = IF j < i THEN s[j] ELSE s[j + 1]
    <3>1. Len(s) \in Nat
      OBVIOUS
    <3>2. /\ RemoveAt(s, i) \in Seq(S) /\ Len(RemoveAt(s, i)) = Len(s) - 1
          /\ \A j \in 1 .. Len(s) - 1 : RemoveAt(s, i)[j] = IF j < i THEN s[j] ELSE s[j + 1]
      BY RemoveElements
    <3> QED BY <2>1, <3>1, <3>2
  <2> DEFINE p == [j \in 1 .. Len(r) |-> IF j < i THEN j ELSE j + 1]
  <2>3. p \in [1 .. Len(r) -> 1 .. Len(s)] /\ \A j \in 1 .. Len(r) : r[j] = s[p[j]]
    BY <2>2
  <2>4. \A j, k \in 1 .. Len(r) : j < k => p[j] < p[k]
    BY <2>2
  <2> QED BY <2>2, <2>3, <2>4
<1> QED BY <1>1, <1>2

\* A list without its first element, when it has no element twice.
LEMMA TailInjective ==
  ASSUME NEW S, NEW s \in Seq(S), s # <<>>, IsInjective(s)
  PROVE  /\ Tail(s) \in Seq(S) /\ IsInjective(Tail(s)) /\ Head(s) \in Range(s)
         /\ Range(Tail(s)) = Range(s) \ {Head(s)}
<1>1. /\ Tail(s) \in Seq(S) /\ Len(Tail(s)) = Len(s) - 1 /\ Len(s) \in Nat /\ Len(s) > 0
      /\ \A i \in 1 .. Len(s) - 1 : Tail(s)[i] = s[i + 1]
      /\ Head(s) = s[1] /\ DOMAIN s = 1 .. Len(s) /\ DOMAIN Tail(s) = 1 .. Len(s) - 1
  OBVIOUS
<1> DEFINE t == Tail(s)
<1> HIDE DEF t
<1>2. IsInjective(t)
  <2>1. \A i, j \in 1 .. Len(s) : s[i] = s[j] => i = j
    BY <1>1 DEF IsInjective
  <2> QED BY <1>1, <2>1 DEF IsInjective, t
<1>3. Range(s) = Range(t) \union {Head(s)}
  BY HeadFacts DEF t
<1>4. Head(s) \notin Range(t)
  <2>1. \A x \in Range(t) : \E i \in 1 .. Len(s) - 1 : x = t[i]
    BY <1>1 DEF Range, t
  <2>2. \A i \in 1 .. Len(s) - 1 : t[i] # s[1]
    BY <1>1 DEF IsInjective, t
  <2> QED BY <1>1, <2>1, <2>2
<1> QED BY <1>1, <1>2, <1>3, <1>4 DEF t

\* An element is inserted.
LEMMA InsertElements ==
  ASSUME NEW S, NEW s \in Seq(S), NEW i \in 1 .. Len(s) + 1, NEW x \in S
  PROVE  /\ InsertAt(s, i, x) \in Seq(S) /\ Len(InsertAt(s, i, x)) = Len(s) + 1
         /\ \A j \in 1 .. Len(s) + 1 :
              InsertAt(s, i, x)[j] = IF j < i THEN s[j] ELSE IF j = i THEN x ELSE s[j - 1]
<1> DEFINE k == i - 1
           f == SubSeq(s, 1, k)
           g == SubSeq(s, k + 1, Len(s))
           e == <<x>>
<1>1. k \in 0 .. Len(s) /\ i = k + 1 /\ Len(s) \in Nat
  OBVIOUS
<1>2. InsertAt(s, i, x) = (f \o e) \o g
  <2>1. InsertAt(s, i, x) = (SubSeq(s, 1, i - 1) \o <<x>>) \o SubSeq(s, i, Len(s))
    BY DEF InsertAt
  <2> QED BY <1>1, <2>1
<1>3. f \in Seq(S) /\ Len(f) = k /\ \A j \in 1 .. k : f[j] = s[j]
  <2>1. 1 \in 1 .. Len(s) + 1 /\ k \in 1 - 1 .. Len(s)
    BY <1>1
  <2> HIDE DEF k
  <2>2. f \in Seq(S) /\ Len(f) = k - 1 + 1 /\ \A j \in 1 .. k - 1 + 1 : f[j] = s[1 + j - 1]
    BY <2>1, PartFacts
  <2> QED BY <1>1, <2>2
<1>4. g \in Seq(S) /\ Len(g) = Len(s) - k /\ \A j \in 1 .. Len(s) - k : g[j] = s[k + j]
  BY <1>1, TailFacts
<1>5. e \in Seq(S) /\ Len(e) = 1 /\ e[1] = x
  OBVIOUS
<1> HIDE DEF k, f, g, e
<1>6. /\ f \o e \in Seq(S) /\ Len(f \o e) = k + 1
      /\ \A j \in 1 .. k + 1 : (f \o e)[j] = IF j = k + 1 THEN x ELSE s[j]
  <2>1. /\ f \o e \in Seq(S) /\ Len(f \o e) = Len(f) + Len(e)
        /\ \A j \in 1 .. Len(f) + Len(e) :
             (f \o e)[j] = IF j <= Len(f) THEN f[j] ELSE e[j - Len(f)]
    BY <1>3, <1>5, ConcatProperties
  <2>2. Len(f) + Len(e) = k + 1 /\ k \in Nat
    BY <1>1, <1>3, <1>5
  <2>3. ASSUME NEW j \in 1 .. k + 1
        PROVE  (f \o e)[j] = IF j = k + 1 THEN x ELSE s[j]
    <3>1. CASE j = k + 1
      <4>1. ~(j <= Len(f)) /\ j - Len(f) = 1
        BY <1>3, <2>2, <3>1
      <4> QED BY <1>5, <2>1, <2>2, <3>1, <4>1
    <3>2. CASE j # k + 1
      <4>1. j <= Len(f) /\ j \in 1 .. k
        BY <1>3, <2>2, <3>2
      <4> QED BY <1>3, <2>1, <2>2, <3>2, <4>1
    <3> QED BY <3>1, <3>2
  <2> QED BY <2>1, <2>2, <2>3
<1> DEFINE fe == f \o e
<1> HIDE DEF fe
<1>7. /\ fe \in Seq(S) /\ Len(fe) = k + 1
      /\ \A j \in 1 .. k + 1 : fe[j] = IF j = k + 1 THEN x ELSE s[j]
  BY <1>6 DEF fe
<1>8. /\ fe \o g \in Seq(S) /\ Len(fe \o g) = Len(s) + 1
      /\ \A j \in 1 .. Len(s) + 1 :
           (fe \o g)[j] = IF j <= k + 1 THEN fe[j] ELSE g[j - (k + 1)]
  <2>1. /\ fe \o g \in Seq(S) /\ Len(fe \o g) = Len(fe) + Len(g)
        /\ \A j \in 1 .. Len(fe) + Len(g) :
             (fe \o g)[j] = IF j <= Len(fe) THEN fe[j] ELSE g[j - Len(fe)]
    BY <1>4, <1>7, ConcatProperties
  <2>2. Len(fe) + Len(g) = Len(s) + 1
    BY <1>1, <1>4, <1>7
  <2> QED BY <1>7, <2>1, <2>2
<1>9. ASSUME NEW j \in 1 .. Len(s) + 1
      PROVE  (fe \o g)[j] = IF j < k + 1 THEN s[j] ELSE IF j = k + 1 THEN x ELSE s[j - 1]
  <2>1. CASE j <= k + 1
    <3>1. (fe \o g)[j] = fe[j]
      BY <1>8, <2>1
    <3> QED BY <1>1, <1>7, <2>1, <3>1
  <2>2. CASE j > k + 1
    <3>1. (fe \o g)[j] = g[j - (k + 1)]
      BY <1>1, <1>8, <2>2
    <3>2. j - (k + 1) \in 1 .. Len(s) - k /\ k + (j - (k + 1)) = j - 1
      BY <1>1, <2>2
    <3>3. g[j - (k + 1)] = s[k + (j - (k + 1))]
      BY <1>4, <3>2
    <3> QED BY <1>1, <2>2, <3>1, <3>2, <3>3
  <2>3. j <= k + 1 \/ j > k + 1
    BY <1>1
  <2> QED BY <2>1, <2>2, <2>3
<1>10. /\ fe \o g = InsertAt(s, i, x)
       /\ \A j \in 1 .. Len(s) + 1 :
            (fe \o g)[j] = IF j < i THEN s[j] ELSE IF j = i THEN x ELSE s[j - 1]
  BY <1>1, <1>2, <1>9 DEF fe
<1> QED BY <1>8, <1>10

\* It is the only new one.
LEMMA InsertFacts ==
  ASSUME NEW S, NEW s \in Seq(S), NEW i \in 1 .. Len(s) + 1, NEW x \in S
  PROVE  /\ InsertAt(s, i, x) \in Seq(S)
         /\ Range(InsertAt(s, i, x)) = Range(s) \union {x}
         /\ IsInjective(s) /\ x \notin Range(s) => IsInjective(InsertAt(s, i, x))
<1> DEFINE t == InsertAt(s, i, x)
           at(j) == IF j < i THEN j ELSE j - 1
<1>1. /\ t \in Seq(S) /\ Len(t) = Len(s) + 1 /\ Len(s) \in Nat /\ i \in Nat /\ i >= 1
      /\ \A j \in 1 .. Len(s) + 1 : t[j] = IF j < i THEN s[j] ELSE IF j = i THEN x ELSE s[j - 1]
  BY InsertElements
<1> HIDE DEF t
<1>2. t[i] = x /\ i \in 1 .. Len(t)
  BY <1>1
<1>3. \A j \in 1 .. Len(t) : j # i => at(j) \in 1 .. Len(s) /\ t[j] = s[at(j)]
  BY <1>1
<1>4. \A j, k \in 1 .. Len(t) : j # i /\ k # i /\ at(j) = at(k) => j = k
  BY <1>1
<1>5. \A k \in 1 .. Len(s) : \E j \in 1 .. Len(t) : t[j] = s[k]
  <2> SUFFICES ASSUME NEW k \in 1 .. Len(s) PROVE \E j \in 1 .. Len(t) : t[j] = s[k]
    OBVIOUS
  <2>1. CASE k < i
    BY <1>1, <2>1
  <2>2. CASE ~(k < i)
    <3>1. k + 1 \in 1 .. Len(t) /\ ~(k + 1 < i) /\ k + 1 # i /\ k + 1 - 1 = k
      BY <1>1, <2>2
    <3>2. t[k + 1] = s[k + 1 - 1]
      BY <1>1, <3>1
    <3> QED BY <3>1, <3>2
  <2> QED BY <2>1, <2>2
<1> HIDE DEF at
<1>6. Range(t) = Range(s) \union {x}
  <2>1. \A j \in 1 .. Len(t) : t[j] \in Range(s) \union {x}
    BY <1>2, <1>3, RangeFacts
  <2>2. Range(t) \subseteq Range(s) \union {x}
    BY <1>1, <2>1, RangeFacts
  <2>3. x \in Range(t)
    BY <1>1, <1>2, RangeFacts
  <2>4. \A k \in 1 .. Len(s) : s[k] \in Range(t)
    BY <1>1, <1>5, RangeFacts
  <2>5. Range(s) \subseteq Range(t)
    BY <2>4, RangeFacts
  <2> QED BY <2>2, <2>3, <2>5
<1>7. ASSUME IsInjective(s), x \notin Range(s)
      PROVE  IsInjective(t)
  <2>1. DOMAIN t = 1 .. Len(t) /\ DOMAIN s = 1 .. Len(s)
    BY <1>1
  <2>2. \A j \in 1 .. Len(t) : j # i => t[j] # x
    BY <1>3, <1>7, RangeFacts
  <2> SUFFICES ASSUME NEW j \in 1 .. Len(t), NEW k \in 1 .. Len(t), t[j] = t[k]
               PROVE  j = k
    BY <2>1 DEF IsInjective
  <2>3. CASE j = i \/ k = i
    BY <1>2, <2>2, <2>3
  <2>4. CASE j # i /\ k # i
    <3>1. at(j) = at(k)
      BY <1>3, <1>7, <2>1, <2>4 DEF IsInjective
    <3> QED BY <1>4, <2>4, <3>1
  <2> QED BY <2>3, <2>4
<1> QED BY <1>1, <1>6, <1>7 DEF t

\* A list to which a new element is added at either end has no element twice if
\* it had none.
LEMMA EndsInjective ==
  ASSUME NEW S, NEW s \in Seq(S), NEW x \in S, IsInjective(s), x \notin Range(s)
  PROVE  /\ IsInjective(Append(s, x))
         /\ <<x>> \o s \in Seq(S) /\ Range(<<x>> \o s) = Range(s) \union {x}
         /\ IsInjective(<<x>> \o s)
<1>1. Len(s) \in Nat /\ DOMAIN s = 1 .. Len(s) /\ \A i \in 1 .. Len(s) : s[i] # x
  BY RangeFacts
<1>2. IsInjective(Append(s, x))
  <2> DEFINE t == Append(s, x)
  <2>1. /\ DOMAIN t = 1 .. Len(s) + 1
        /\ \A i \in 1 .. Len(s) + 1 : t[i] = IF i = Len(s) + 1 THEN x ELSE s[i]
    OBVIOUS
  <2> HIDE DEF t
  <2>2. IsInjective(t)
    BY <1>1, <2>1 DEF IsInjective
  <2> QED BY <2>2 DEF t
<1>3. /\ <<x>> \o s \in Seq(S) /\ Range(<<x>> \o s) = Range(s) \union {x}
  <2> DEFINE e == <<x>>
  <2>1. e \in Seq(S) /\ Len(e) = 1 /\ e[1] = x
    OBVIOUS
  <2> HIDE DEF e
  <2>2. Range(e) = {x}
    BY <2>1 DEF Range
  <2>3. e \o s \in Seq(S) /\ Range(e \o s) = Range(s) \union {x}
    BY <2>1, <2>2, JoinFacts
  <2> QED BY <2>3 DEF e
<1>4. IsInjective(<<x>> \o s)
  <2> DEFINE e == <<x>>
             t == e \o s
  <2>1. e \in Seq(S) /\ Len(e) = 1 /\ e[1] = x
    OBVIOUS
  <2> HIDE DEF e
  <2>2. /\ t \in Seq(S) /\ Len(t) = 1 + Len(s)
        /\ \A i \in 1 .. 1 + Len(s) : t[i] = IF i <= 1 THEN e[i] ELSE s[i - 1]
    <3>1. /\ t \in Seq(S) /\ Len(t) = Len(e) + Len(s)
          /\ \A i \in 1 .. Len(e) + Len(s) :
               t[i] = IF i <= Len(e) THEN e[i] ELSE s[i - Len(e)]
      BY <2>1, ConcatProperties
    <3> QED BY <2>1, <3>1
  <2> HIDE DEF t
  <2>3. DOMAIN t = 1 .. 1 + Len(s) /\ t[1] = x
    BY <1>1, <2>1, <2>2
  <2>4. \A i \in 2 .. 1 + Len(s) : i - 1 \in 1 .. Len(s) /\ t[i] = s[i - 1]
    BY <1>1, <2>2
  <2>5. ASSUME NEW i \in DOMAIN t, NEW j \in DOMAIN t, t[i] = t[j]
        PROVE  i = j
    <3>1. CASE i = 1 \/ j = 1
      BY <1>1, <2>3, <2>4, <2>5, <3>1
    <3>2. CASE i # 1 /\ j # 1
      <4>1. i \in 2 .. 1 + Len(s) /\ j \in 2 .. 1 + Len(s)
        BY <1>1, <2>3, <3>2
      <4>2. i - 1 = j - 1
        BY <1>1, <2>4, <2>5, <4>1 DEF IsInjective
      <4> QED BY <4>1, <4>2
    <3> QED BY <3>1, <3>2
  <2>6. IsInjective(t)
    BY <2>5 DEF IsInjective
  <2> QED BY <2>6 DEF t, e
<1> QED BY <1>2, <1>3, <1>4

\* A list without repetitions is as long as the set of its elements.
LEMMA LengthIsCardinality ==
  ASSUME NEW S, NEW s \in Seq(S), IsInjective(s)
  PROVE  Len(s) = Cardinality(Range(s)) /\ IsFiniteSet(Range(s))
<1>1. Len(s) \in Nat /\ IsFiniteSet(1 .. Len(s)) /\ Cardinality(1 .. Len(s)) = Len(s)
  <2>1. Len(s) \in Nat
    OBVIOUS
  <2>2. IsFiniteSet(1 .. Len(s)) /\ Cardinality(1 .. Len(s)) = IF 1 > Len(s) THEN 0 ELSE Len(s) - 1 + 1
    BY <2>1, FS_Interval
  <2> QED BY <2>1, <2>2
<1>2. s \in [1 .. Len(s) -> Range(s)] /\ DOMAIN s = 1 .. Len(s)
  BY RangeFacts
<1>3. s \in Surjection(1 .. Len(s), Range(s)) /\ s \in Injection(1 .. Len(s), Range(s))
  BY <1>2, RangeFacts DEF Surjection, Injection, IsInjective
<1> QED BY <1>3, <1>1, <1>2, FS_Surjection
=============================================================================
