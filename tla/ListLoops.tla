----------------------------- MODULE ListLoops -----------------------------
(***************************************************************************)
(* A loop over a list, and what is known of its result.                    *)
(***************************************************************************)
EXTENDS Integers, Sequences, WellFoundedInduction, TLAPS

CONSTANT Step(_, _)  \* what the loop makes of a state and an element

\* The state after the elements of the list have been looked at in order.
Loop(s, list) ==
  LET after[k \in 0 .. Len(list)] == IF k = 0 THEN s ELSE Step(after[k - 1], list[k])
  IN  after[Len(list)]

-----------------------------------------------------------------------------
\* A number that is the first of a set of numbers is 0, or the one before is
\* not of the set.
LEMMA FirstOf ==
  ASSUME NEW S \in SUBSET Nat, S # {}
  PROVE  \E m \in S : m = 0 \/ (m - 1 \in Nat /\ m - 1 \notin S)
<1>1. PICK m \in S : \A j \in S : <<j, m>> \notin OpToRel(<, Nat)
  BY NatLessThanWellFounded, WFMin
<1>2. \A j \in S : ~(j < m)
  BY <1>1 DEF OpToRel
<1> QED BY <1>2

\* The states g[0], ..., g[m] that a loop goes through.
Goes(g, s, list, m) ==
  g = [k \in 0 .. m |-> IF k = 0 THEN s ELSE Step(g[k - 1], list[k])]

\* There are such states.
LEMMA LoopGoes ==
  ASSUME NEW T, NEW list \in Seq(T), NEW s
  PROVE  \E g : Goes(g, s, list, Len(list))
<1> DEFINE n == Len(list)
           Missing == {m \in Nat : m <= n /\ ~\E g : Goes(g, s, list, m)}
<1>1. n \in Nat
  OBVIOUS
<1>2. ASSUME Missing # {} PROVE FALSE
  <2>1. PICK m \in Missing : m = 0 \/ (m - 1 \in Nat /\ m - 1 \notin Missing)
    BY <1>2, FirstOf, Missing \in SUBSET Nat
  <2>2. m # 0
    <3> DEFINE g == [k \in 0 .. 0 |-> s]
    <3>1. Goes(g, s, list, 0)
      BY DEF Goes
    <3> QED BY <2>1, <3>1
  <2>3. PICK g : Goes(g, s, list, m - 1)
    BY <2>1, <2>2, <1>1
  <2> DEFINE h == [k \in 0 .. m |-> IF k = m THEN Step(g[m - 1], list[m]) ELSE g[k]]
  <2>4. m \in Nat \ {0}
    BY <2>1, <2>2
  <2>5. \A k \in 0 .. m - 1 : g[k] = IF k = 0 THEN s ELSE Step(g[k - 1], list[k])
    BY <2>3 DEF Goes
  <2>6. ASSUME NEW k \in 0 .. m
        PROVE  h[k] = IF k = 0 THEN s ELSE Step(h[k - 1], list[k])
    <3>1. CASE k = m
      <4>1. h[k] = Step(g[m - 1], list[m]) /\ h[k - 1] = g[m - 1]
        BY <2>4, <3>1
      <4> QED BY <2>4, <3>1, <4>1
    <3>2. CASE k # m
      <4>1. h[k] = g[k] /\ k \in 0 .. m - 1
        BY <2>4, <3>2
      <4>2. k # 0 => h[k - 1] = g[k - 1]
        BY <2>4, <3>2
      <4> QED BY <2>5, <4>1, <4>2
    <3> QED BY <3>1, <3>2
  <2>7. h = [k \in 0 .. m |-> h[k]]
    OBVIOUS
  <2> HIDE DEF h
  <2>8. Goes(h, s, list, m)
    BY <2>6, <2>7 DEF Goes
  <2> QED BY <2>1, <2>8
<1>3. n \notin Missing
  BY <1>2
<1> QED BY <1>1, <1>3

\* The loop goes through the states g[0], ..., g[Len(list)].
LEMMA LoopStates ==
  ASSUME NEW T, NEW list \in Seq(T), NEW s
  PROVE  \E g : /\ g[0] = s /\ Loop(s, list) = g[Len(list)]
                /\ \A k \in 1 .. Len(list) : g[k] = Step(g[k - 1], list[k])
<1> DEFINE n == Len(list)
           g == CHOOSE g : g = [k \in 0 .. n |-> IF k = 0 THEN s ELSE Step(g[k - 1], list[k])]
<1>1. n \in Nat
  OBVIOUS
<1>2. Loop(s, list) = g[n]
  BY DEF Loop
<1>3. Goes(g, s, list, n)
  <2>1. \E h : Goes(h, s, list, n)
    BY LoopGoes
  <2> QED BY <2>1 DEF Goes
<1> HIDE DEF g
<1>4. \A k \in 0 .. n : g[k] = IF k = 0 THEN s ELSE Step(g[k - 1], list[k])
  BY <1>3 DEF Goes
<1>5. g[0] = s /\ \A k \in 1 .. n : g[k] = Step(g[k - 1], list[k])
  BY <1>1, <1>4
<1> QED BY <1>2, <1>5

\* If the state is in I[k] after k elements, whichever step is taken, then it is in
\* I[Len(list)] in the end.
THEOREM LoopKeeps ==
  ASSUME NEW T, NEW list \in Seq(T), NEW I, NEW s,
         s \in I[0],
         \A k \in 1 .. Len(list) : \A x \in I[k - 1] : Step(x, list[k]) \in I[k]
  PROVE  Loop(s, list) \in I[Len(list)]
<1> DEFINE n == Len(list)
<1>1. n \in Nat
  OBVIOUS
<1>2. PICK g : /\ g[0] = s /\ Loop(s, list) = g[n]
               /\ \A k \in 1 .. n : g[k] = Step(g[k - 1], list[k])
  BY LoopStates
<1> DEFINE Bad == {k \in Nat : k <= n /\ g[k] \notin I[k]}
<1>3. ASSUME Bad # {} PROVE FALSE
  <2>1. PICK k \in Bad : k = 0 \/ (k - 1 \in Nat /\ k - 1 \notin Bad)
    BY <1>3, FirstOf, Bad \in SUBSET Nat
  <2>2. k \in 1 .. n /\ g[k - 1] \in I[k - 1]
    BY <1>1, <1>2, <2>1
  <2>3. g[k] = Step(g[k - 1], list[k])
    BY <1>2, <2>2
  <2> QED BY <2>1, <2>2, <2>3
<1>4. n \notin Bad
  BY <1>3
<1> QED BY <1>1, <1>2, <1>4
=============================================================================
