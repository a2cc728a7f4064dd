------------------------- MODULE EvasLayersProofs ---------------------------
(***************************************************************************)
(* Proofs about EvasLayers, for any number of objects, layers, nested      *)
(* deletions and references: every object is in the one list it belongs    *)
(* to, nothing points to a freed object or layer, and no step changes the  *)
(* order of objects it does not stack. Placed says the first of a          *)
(* canvas in the middle of a function, of the objects that are in a list   *)
(* then; each function of evas_layer.c and evas_object_smart.c has a lemma *)
(* that says what it does to a placed canvas.                              *)
(***************************************************************************)
EXTENDS EvasLayers, ListLemmas

\* The layers are in the order of their numbers.
Sorted(list) == \A i, j \in DOMAIN list : i < j => list[i] < list[j]

\* The objects of A that belong to layer n.
Of(c, A, n) == {o \in A : c.layer[o] = n}

\* Each object of A points to a layer that is there, and to a smart parent that
\* is there unless it is in its layer's list itself; the others point to none.
Belongs(c, A) ==
  /\ \A o \in A : /\ c.layer[o] \in Range(c.layers)
                  /\ c.inLayer[o] <=> c.parent[o] = NoObject
                  /\ c.parent[o] \in c.alive \union {NoObject}
  /\ \A o \in Objects \ A : ~c.inLayer[o] /\ c.parent[o] = NoObject

\* The lists of the layers have those objects of A that belong there, once.
Stacked(c, A) ==
  \A n \in Numbers : /\ IsInjective(c.objects[n])
                     /\ Range(c.objects[n]) = {o \in A : c.inLayer[o] /\ c.layer[o] = n}

\* The lists of the smart objects have those objects of A that belong there, once.
Grouped(c, A) ==
  \A s \in Objects : /\ IsInjective(c.members[s])
                     /\ Range(c.members[s]) = {o \in A : c.parent[o] = s}

\* The usage of a layer counts at least the objects of A that point to it.
Counted(c, A) == \A n \in Numbers : c.usage[n] >= Cardinality(Of(c, A, n))

\* Each object of A is in the one list it belongs to, and its layer is there;
\* the other objects are in no list.
Placed(c, A) ==
  /\ A \subseteq c.alive
  /\ Sorted(c.layers)
  /\ Belongs(c, A) /\ Stacked(c, A) /\ Grouped(c, A) /\ Counted(c, A)

\* No object is a member of itself, or of a member of itself, and so on.
Rooted(c) == \A S \in SUBSET Objects : S # {} => \E o \in S : c.parent[o] \notin S

\* The object is no member and has none.
Detached(c, o) == c.parent[o] = NoObject /\ c.members[o] = <<>>

\* An object that was deleted has left its smart parent and has no members.
DeletedDetached == \A o \in Objects : deleteMe[o] # 0 => Detached(canvas, o)

\* An evas_object_del runs on an object that is there.
CallsUsable == \A i \in DOMAIN calls : calls[i].object \in canvas.alive

\* A render frees deleted objects that are there, each once.
FoundUsable ==
  /\ IsInjective(deleteObjects)
  /\ \A o \in Range(deleteObjects) : o \in canvas.alive /\ deleteMe[o] # 0
  /\ ~rendering => deleteObjects = <<>>

\* The inductive invariant: the types, the lists, and what is under way.
IInv ==
  /\ TypeOK
  /\ Placed(canvas, canvas.alive)
  /\ Rooted(canvas)
  /\ DeletedDetached
  /\ CallsUsable
  /\ FoundUsable
  /\ stage # "used" => ~rendering

-----------------------------------------------------------------------------
\* The lists of layers.
LEMMA SortedFacts ==
  ASSUME NEW list \in Seq(Numbers), Sorted(list)
  PROVE  IsInjective(list)
<1>1. DOMAIN list = 1 .. Len(list) /\ \A i \in 1 .. Len(list) : list[i] \in Int
  <2>1. DOMAIN list = 1 .. Len(list) /\ \A i \in 1 .. Len(list) : list[i] \in Numbers
    OBVIOUS
  <2> QED BY <2>1, LayersAssumption DEF LayersAssumption
<1> SUFFICES ASSUME NEW i \in 1 .. Len(list), NEW j \in 1 .. Len(list), list[i] = list[j]
             PROVE  i = j
  BY <1>1 DEF IsInjective
<1>2. i < j \/ j < i \/ i = j
  OBVIOUS
<1> QED BY <1>1, <1>2 DEF Sorted

\* A layer is added at its place.
LEMMA LayerAddFacts ==
  ASSUME NEW list \in Seq(Numbers), Sorted(list), NEW n \in Numbers, n \notin Range(list)
  PROVE  /\ LayerAdd(list, n) \in Seq(Numbers) /\ Sorted(LayerAdd(list, n))
         /\ Range(LayerAdd(list, n)) = Range(list) \union {n}
<1> DEFINE above == {i \in DOMAIN list : list[i] > n}
           i == IF above = {} THEN Len(list) + 1 ELSE Min(above)
           t == InsertAt(list, i, n)
<1>1. /\ DOMAIN list = 1 .. Len(list) /\ Len(list) \in Nat /\ n \in Int
      /\ \A j \in 1 .. Len(list) : list[j] \in Int /\ list[j] # n
  <2>1. DOMAIN list = 1 .. Len(list) /\ Len(list) \in Nat
    OBVIOUS
  <2>2. \A j \in 1 .. Len(list) : list[j] \in Numbers /\ list[j] # n
    BY RangeFacts
  <2> QED BY <2>1, <2>2, LayersAssumption DEF LayersAssumption
<1>2. /\ i \in 1 .. Len(list) + 1
      /\ \A j \in 1 .. Len(list) : (j < i => list[j] < n) /\ (j = i => n < list[j])
  <2>1. CASE above = {}
    BY <1>1, <2>1
  <2>2. CASE above # {}
    <3>1. above \in SUBSET Nat
      BY <1>1
    <3>2. Min(above) \in above /\ \A y \in above : Min(above) <= y
      BY <2>2, <3>1, MinFacts
    <3>3. i = Min(above)
      BY <2>2
    <3> HIDE DEF i
    <3>4. i \in 1 .. Len(list) /\ list[i] > n /\ \A y \in above : i <= y
      BY <3>2, <3>3
    <3>5. ASSUME NEW j \in 1 .. Len(list), j < i
          PROVE  list[j] < n
      <4>1. j \notin above
        BY <1>1, <3>4, <3>5
      <4> QED BY <1>1, <4>1
    <3> QED BY <1>1, <3>4, <3>5
  <2> QED BY <2>1, <2>2
<1>3. LayerAdd(list, n) = t
  BY DEF LayerAdd
<1> HIDE DEF i, t
<1>4. /\ t \in Seq(Numbers) /\ Len(t) = Len(list) + 1
      /\ \A j \in 1 .. Len(list) + 1 :
           t[j] = IF j < i THEN list[j] ELSE IF j = i THEN n ELSE list[j - 1]
  BY <1>2, InsertElements DEF t
<1>5. Range(t) = Range(list) \union {n}
  BY <1>2, InsertFacts DEF t
<1>6. ASSUME NEW j \in 1 .. Len(list) + 1, NEW k \in 1 .. Len(list) + 1, j < k
      PROVE  t[j] < t[k]
  <2>1. \A x, y \in 1 .. Len(list) : x < y => list[x] < list[y]
    BY <1>1 DEF Sorted
  <2>2. \A x \in 1 .. Len(list) : x < i => list[x] < n
    BY <1>2
  <2>3. \A x \in 1 .. Len(list) : x >= i => n < list[x]
    <3> SUFFICES ASSUME NEW x \in 1 .. Len(list), x >= i PROVE n < list[x]
      OBVIOUS
    <3>1. i \in 1 .. Len(list) /\ n < list[i]
      BY <1>1, <1>2
    <3>2. x = i \/ list[i] < list[x]
      BY <2>1, <3>1
    <3> QED BY <1>1, <3>1, <3>2
  <2>4. CASE k < i
    BY <1>1, <1>2, <1>4, <1>6, <2>1, <2>4
  <2>5. CASE k = i
    BY <1>1, <1>2, <1>4, <1>6, <2>2, <2>5
  <2>6. CASE k > i
    <3>1. t[k] = list[k - 1] /\ k - 1 \in 1 .. Len(list) /\ k - 1 >= i
      BY <1>1, <1>2, <1>4, <2>6
    <3>2. CASE j < i
      BY <1>1, <1>2, <1>4, <1>6, <2>1, <3>1, <3>2
    <3>3. CASE j = i
      BY <1>1, <1>2, <1>4, <1>6, <2>3, <3>1, <3>3
    <3>4. CASE j > i
      <4>1. t[j] = list[j - 1] /\ j - 1 \in 1 .. Len(list) /\ j - 1 < k - 1
        BY <1>1, <1>2, <1>4, <1>6, <3>4
      <4> QED BY <2>1, <3>1, <4>1
    <3> QED BY <1>1, <1>2, <3>2, <3>3, <3>4
  <2> QED BY <1>1, <1>2, <2>4, <2>5, <2>6
<1>7. Sorted(t)
  BY <1>4, <1>6 DEF Sorted
<1> QED BY <1>3, <1>4, <1>5, <1>7

\* A layer is taken off the list.
LEMMA LayerGoneFacts ==
  ASSUME NEW list \in Seq(Numbers), Sorted(list), NEW n \in Numbers
  PROVE  /\ RemoveFirst(list, n) \in Seq(Numbers) /\ Sorted(RemoveFirst(list, n))
         /\ Range(RemoveFirst(list, n)) = Range(list) \ {n}
<1> DEFINE r == RemoveFirst(list, n)
<1>1. r \in Seq(Numbers) /\ Range(r) = Range(list) \ {n}
  BY SortedFacts, RemoveFirstFacts
<1>2. PICK p \in [1 .. Len(r) -> 1 .. Len(list)] :
        /\ \A j \in 1 .. Len(r) : r[j] = list[p[j]]
        /\ \A j, k \in 1 .. Len(r) : j < k => p[j] < p[k]
  BY RemoveFirstOrder
<1> HIDE DEF r
<1>3. Sorted(r)
  <2>1. DOMAIN r = 1 .. Len(r) /\ DOMAIN list = 1 .. Len(list)
    BY <1>1
  <2> QED BY <1>2, <2>1 DEF Sorted
<1> QED BY <1>1, <1>3 DEF r

\* How many objects belong to a layer.
LEMMA OfFacts ==
  ASSUME NEW c, NEW A \in SUBSET Objects, NEW n
  PROVE  /\ IsFiniteSet(Of(c, A, n)) /\ Cardinality(Of(c, A, n)) \in Nat
         /\ Cardinality(Of(c, A, n)) <= 0 => Of(c, A, n) = {}
         /\ \A B \in SUBSET Of(c, A, n) :
              /\ IsFiniteSet(B) /\ Cardinality(B) \in Nat
              /\ Cardinality(B) <= Cardinality(Of(c, A, n))
         /\ \A B, x : x \in Of(c, A, n) /\ B = Of(c, A, n) \ {x}
                      => Cardinality(B) = Cardinality(Of(c, A, n)) - 1
         /\ \A B, x : B = Of(c, A, n) \union {x}
                      => Cardinality(B) <= Cardinality(Of(c, A, n)) + 1
<1> DEFINE S == Of(c, A, n)
<1>1. S \subseteq Objects
  BY DEF Of
<1> HIDE DEF S
<1>2. IsFiniteSet(S)
  BY <1>1, FS_Subset, LayersAssumption DEF LayersAssumption
<1>3. Cardinality(S) \in Nat
  BY <1>2, FS_CardinalityType
<1>4. Cardinality(S) <= 0 => S = {}
  BY <1>2, <1>3, FS_EmptySet
<1>5. \A B \in SUBSET S : IsFiniteSet(B) /\ Cardinality(B) <= Cardinality(S)
  BY <1>2, FS_Subset
<1>6. \A B \in SUBSET S : Cardinality(B) \in Nat
  BY <1>5, FS_CardinalityType
<1>7. \A B, x : x \in S /\ B = S \ {x} => Cardinality(B) = Cardinality(S) - 1
  BY <1>2, FS_RemoveElement
<1>8. \A B, x : B = S \union {x} => Cardinality(B) <= Cardinality(S) + 1
  BY <1>2, <1>3, FS_AddElement
<1> QED BY <1>2, <1>3, <1>4, <1>5, <1>6, <1>7, <1>8 DEF S

-----------------------------------------------------------------------------
(***************************************************************************)
(* What the functions that move an object make of the canvas.              *)
(***************************************************************************)

\* The fields of a canvas.
LEMMA CanvasFields ==
  ASSUME NEW c \in CanvasType
  PROVE  /\ c.alive \in SUBSET Objects /\ c.layers \in Seq(Numbers)
         /\ c.objects \in [Numbers -> Seq(Objects)] /\ c.usage \in [Numbers -> Int]
         /\ c.layer \in [Objects -> Numbers \union {NoLayer}]
         /\ c.number \in [Objects -> Numbers] /\ c.inLayer \in [Objects -> BOOLEAN]
         /\ c.parent \in [Objects -> Objects \union {NoObject}]
         /\ c.members \in [Objects -> Seq(Objects)] /\ c.smart \in [Objects -> BOOLEAN]
  BY DEF CanvasType

\* A record with these fields.
IsRecord(c) ==
  c = [f \in {"alive", "layers", "objects", "usage", "layer", "number", "inLayer", "parent",
              "members", "smart"} |-> c[f]]

\* A canvas has its ten fields, and what has them, typed, is a canvas.
LEMMA CanvasIsRecord ==
  \A c \in CanvasType : IsRecord(c)
  BY DEF CanvasType, IsRecord

\* A record whose fields have their types is a canvas.
LEMMA CanvasRecord ==
  ASSUME NEW c, IsRecord(c),
         c.alive \in SUBSET Objects, c.layers \in Seq(Numbers),
         c.objects \in [Numbers -> Seq(Objects)], c.usage \in [Numbers -> Int],
         c.layer \in [Objects -> Numbers \union {NoLayer}],
         c.number \in [Objects -> Numbers], c.inLayer \in [Objects -> BOOLEAN],
         c.parent \in [Objects -> Objects \union {NoObject}],
         c.members \in [Objects -> Seq(Objects)], c.smart \in [Objects -> BOOLEAN]
  PROVE  c \in CanvasType
  BY DEF CanvasType, IsRecord

\* evas_object_inject
LEMMA InjectEffect ==
  ASSUME NEW c \in CanvasType, NEW o \in Objects, ~c.inLayer[o]
  PROVE  LET d == Inject(c, o)
             n == c.number[o]
         IN  /\ n \in Numbers
             /\ d.alive = c.alive /\ d.number = c.number /\ d.parent = c.parent
             /\ d.members = c.members /\ d.smart = c.smart
             /\ d.layers = IF n \in Range(c.layers) THEN c.layers ELSE LayerAdd(c.layers, n)
             /\ d.objects = [c.objects EXCEPT ![n] = Append(@, o)]
             /\ d.usage = [c.usage EXCEPT ![n] = @ + 1]
             /\ d.layer = [c.layer EXCEPT ![o] = n]
             /\ d.inLayer = [c.inLayer EXCEPT ![o] = TRUE]
             /\ IsRecord(d)
<1>1. c.number[o] \in Numbers
  BY CanvasFields
<1>2. IsRecord(c)
  BY CanvasIsRecord
<1> QED BY <1>1, <1>2 DEF Inject, IsRecord

\* evas_object_inject puts an object where it belongs.
LEMMA InjectFacts ==
  ASSUME NEW c \in CanvasType, NEW A \in SUBSET Objects, Placed(c, A),
         NEW o \in c.alive, o \notin A
  PROVE  /\ Inject(c, o) \in CanvasType
         /\ Placed(Inject(c, o), A \union {o})
<1> DEFINE d == Inject(c, o)
           n == c.number[o]
<1>1. o \in Objects /\ ~c.inLayer[o] /\ c.parent[o] = NoObject
  BY CanvasFields DEF Placed, Belongs
<1>2. /\ n \in Numbers
      /\ d.alive = c.alive /\ d.number = c.number /\ d.parent = c.parent
      /\ d.members = c.members /\ d.smart = c.smart
      /\ d.layers = IF n \in Range(c.layers) THEN c.layers ELSE LayerAdd(c.layers, n)
      /\ d.objects = [c.objects EXCEPT ![n] = Append(@, o)]
      /\ d.usage = [c.usage EXCEPT ![n] = @ + 1]
      /\ d.layer = [c.layer EXCEPT ![o] = n]
      /\ d.inLayer = [c.inLayer EXCEPT ![o] = TRUE]
  BY <1>1, InjectEffect
<1>3. IsRecord(d)
  BY <1>1, InjectEffect
<1> HIDE DEF d, n
<1>4. /\ d.layers \in Seq(Numbers) /\ Sorted(d.layers)
      /\ Range(d.layers) = Range(c.layers) \union {n}
  BY <1>2, CanvasFields, LayerAddFacts DEF Placed
<1>5. /\ Append(c.objects[n], o) \in Seq(Objects) /\ IsInjective(Append(c.objects[n], o))
      /\ Range(Append(c.objects[n], o)) = Range(c.objects[n]) \union {o}
  <2>1. c.objects[n] \in Seq(Objects) /\ IsInjective(c.objects[n]) /\ o \notin Range(c.objects[n])
    BY <1>1, <1>2, CanvasFields DEF Placed, Stacked
  <2> DEFINE l == c.objects[n]
  <2> HIDE DEF l
  <2>2. l \in Seq(Objects) /\ IsInjective(l) /\ o \notin Range(l)
    BY <2>1 DEF l
  <2>3. Append(l, o) \in Seq(Objects) /\ Range(Append(l, o)) = Range(l) \union {o}
    BY <1>1, <2>2, AppendFacts
  <2>4. IsInjective(Append(l, o))
    BY <1>1, <2>2, EndsInjective
  <2> QED BY <2>3, <2>4 DEF l
<1>6. d \in CanvasType
  <2>1. /\ d.objects \in [Numbers -> Seq(Objects)] /\ d.usage \in [Numbers -> Int]
        /\ d.layer \in [Objects -> Numbers \union {NoLayer}]
        /\ d.inLayer \in [Objects -> BOOLEAN]
    BY <1>2, <1>5, CanvasFields
  <2>2. /\ d.alive \in SUBSET Objects /\ d.number \in [Objects -> Numbers]
        /\ d.parent \in [Objects -> Objects \union {NoObject}]
        /\ d.members \in [Objects -> Seq(Objects)] /\ d.smart \in [Objects -> BOOLEAN]
    BY <1>2, CanvasFields
  <2> QED BY <1>3, <1>4, <2>1, <2>2, CanvasRecord
<1>7. Placed(d, A \union {o})
  <2>1. A \union {o} \subseteq d.alive
    BY <1>2 DEF Placed
  <2>2. Belongs(d, A \union {o})
    BY <1>1, <1>2, <1>4, CanvasFields DEF Placed, Belongs
  <2>3. Stacked(d, A \union {o})
    <3> SUFFICES ASSUME NEW m \in Numbers
                 PROVE  /\ IsInjective(d.objects[m])
                        /\ Range(d.objects[m]) =
                             {p \in A \union {o} : d.inLayer[p] /\ d.layer[p] = m}
      BY DEF Stacked
    <3>1. \A p \in A : d.inLayer[p] = c.inLayer[p] /\ d.layer[p] = c.layer[p]
      BY <1>2, CanvasFields
    <3>2. d.inLayer[o] /\ d.layer[o] = n
      BY <1>1, <1>2, CanvasFields
    <3>3. /\ IsInjective(c.objects[m])
          /\ Range(c.objects[m]) = {p \in A : c.inLayer[p] /\ c.layer[p] = m}
      BY DEF Placed, Stacked
    <3>4. d.objects[m] = IF m = n THEN Append(c.objects[m], o) ELSE c.objects[m]
      BY <1>2, CanvasFields
    <3> QED BY <1>5, <3>1, <3>2, <3>3, <3>4
  <2>4. Counted(d, A \union {o})
    <3> SUFFICES ASSUME NEW m \in Numbers
                 PROVE  d.usage[m] >= Cardinality(Of(d, A \union {o}, m))
      BY DEF Counted
    <3>1. /\ d.usage[m] = IF m = n THEN c.usage[m] + 1 ELSE c.usage[m]
          /\ c.usage[m] \in Int
      BY <1>2, CanvasFields
    <3>2. c.usage[m] >= Cardinality(Of(c, A, m)) /\ Cardinality(Of(c, A, m)) \in Nat
      BY OfFacts DEF Placed, Counted
    <3>3. Of(d, A \union {o}, m) = IF m = n THEN Of(c, A, m) \union {o} ELSE Of(c, A, m)
      BY <1>1, <1>2, CanvasFields DEF Of
    <3>4. m = n => Cardinality(Of(d, A \union {o}, m)) <= Cardinality(Of(c, A, m)) + 1
      BY <3>3, OfFacts
    <3>5. Cardinality(Of(d, A \union {o}, m)) \in Nat
      BY <1>1, OfFacts
    <3> QED BY <3>1, <3>2, <3>3, <3>4, <3>5
  <2>5. Grouped(d, A \union {o})
    <3> SUFFICES ASSUME NEW s \in Objects
                 PROVE  /\ IsInjective(d.members[s])
                        /\ Range(d.members[s]) = {p \in A \union {o} : d.parent[p] = s}
      BY DEF Grouped
    <3>1. d.members[s] = c.members[s] /\ d.parent = c.parent /\ c.parent[o] # s
      BY <1>1, <1>2, LayersAssumption DEF LayersAssumption
    <3>2. IsInjective(c.members[s]) /\ Range(c.members[s]) = {p \in A : c.parent[p] = s}
      BY DEF Placed, Grouped
    <3> QED BY <3>1, <3>2
  <2> QED BY <1>4, <2>1, <2>2, <2>3, <2>4, <2>5 DEF Placed
<1> QED BY <1>6, <1>7 DEF d

\* evas_object_release; whether the layer goes
Empties(c, o, clean) == clean /\ c.usage[c.layer[o]] - 1 <= 0

\* What evas_object_release writes.
LEMMA ReleaseEffect ==
  ASSUME NEW c \in CanvasType, NEW o \in Objects, c.inLayer[o], c.layer[o] \in Numbers,
         NEW clean \in BOOLEAN
  PROVE  LET d == Release(c, o, clean)
             n == c.layer[o]
             free == Empties(c, o, clean)
         IN  /\ d.alive = c.alive /\ d.number = c.number /\ d.parent = c.parent
             /\ d.members = c.members /\ d.smart = c.smart
             /\ d.layers = IF free THEN RemoveFirst(c.layers, n) ELSE c.layers
             /\ d.objects = [c.objects EXCEPT ![n] = IF free THEN <<>> ELSE RemoveFirst(@, o)]
             /\ d.usage = [c.usage EXCEPT ![n] = IF free THEN 0 ELSE @ - 1]
             /\ d.layer = [c.layer EXCEPT ![o] = NoLayer]
             /\ d.inLayer = [c.inLayer EXCEPT ![o] = FALSE]
             /\ IsRecord(d)
<1> DEFINE n == c.layer[o]
           e == [c EXCEPT !.objects[n] = RemoveFirst(@, o), !.usage[n] = @ - 1,
                          !.layer[o] = NoLayer, !.inLayer[o] = FALSE]
<1>1. Release(c, o, clean) = IF clean /\ e.usage[n] <= 0 THEN Unlink(e, n) ELSE e
  BY DEF Release
<1>2. /\ e.alive = c.alive /\ e.number = c.number /\ e.parent = c.parent
      /\ e.members = c.members /\ e.smart = c.smart /\ e.layers = c.layers
      /\ e.objects = [c.objects EXCEPT ![n] = RemoveFirst(@, o)]
      /\ e.usage = [c.usage EXCEPT ![n] = @ - 1]
      /\ e.layer = [c.layer EXCEPT ![o] = NoLayer]
      /\ e.inLayer = [c.inLayer EXCEPT ![o] = FALSE]
  BY CanvasIsRecord DEF IsRecord
<1>3. IsRecord(e)
  BY CanvasIsRecord DEF IsRecord
<1> HIDE DEF e
<1>4. e.usage[n] = c.usage[n] - 1 /\ n \in Numbers
  BY <1>2, CanvasFields
<1>5. e \in CanvasType
  <2>1. c.objects[n] \in Seq(Objects) /\ c.usage[n] \in Int
    BY <1>4, CanvasFields
  <2>2. RemoveFirst(c.objects[n], o) \in Seq(Objects)
    BY <2>1, RemoveFirstFacts
  <2>3. /\ e.objects \in [Numbers -> Seq(Objects)] /\ e.usage \in [Numbers -> Int]
        /\ e.layer \in [Objects -> Numbers \union {NoLayer}]
        /\ e.inLayer \in [Objects -> BOOLEAN]
    BY <1>2, <2>1, <2>2, CanvasFields
  <2>4. /\ e.alive \in SUBSET Objects /\ e.number \in [Objects -> Numbers]
        /\ e.parent \in [Objects -> Objects \union {NoObject}] /\ e.layers \in Seq(Numbers)
        /\ e.members \in [Objects -> Seq(Objects)] /\ e.smart \in [Objects -> BOOLEAN]
    BY <1>2, CanvasFields
  <2> QED BY <1>3, <2>3, <2>4, CanvasRecord
<1> DEFINE u == Unlink(e, n)
<1>8. /\ u.alive = e.alive /\ u.number = e.number /\ u.parent = e.parent
      /\ u.members = e.members /\ u.smart = e.smart
      /\ u.layers = RemoveFirst(e.layers, n)
      /\ u.objects = [e.objects EXCEPT ![n] = <<>>]
      /\ u.usage = [e.usage EXCEPT ![n] = 0]
      /\ u.layer = e.layer /\ u.inLayer = e.inLayer
      /\ IsRecord(u)
  BY <1>5, CanvasIsRecord DEF Unlink, IsRecord
<1>9. /\ u.objects = [c.objects EXCEPT ![n] = <<>>]
      /\ u.usage = [c.usage EXCEPT ![n] = 0]
  <2> DEFINE f == c.objects
             g == c.usage
             x == RemoveFirst(f[n], o)
             y == g[n] - 1
  <2>1. f \in [Numbers -> Seq(Objects)] /\ g \in [Numbers -> Int]
    BY CanvasFields
  <2>2. e.objects = [f EXCEPT ![n] = x] /\ e.usage = [g EXCEPT ![n] = y]
    BY <1>2
  <2> HIDE DEF f, g, x, y
  <2>3. /\ [[f EXCEPT ![n] = x] EXCEPT ![n] = <<>>] = [f EXCEPT ![n] = <<>>]
        /\ [[g EXCEPT ![n] = y] EXCEPT ![n] = 0] = [g EXCEPT ![n] = 0]
    BY <2>1
  <2> QED BY <1>8, <2>2, <2>3 DEF f, g
<1> HIDE DEF u
<1>6. CASE Empties(c, o, clean)
  BY <1>1, <1>2, <1>4, <1>6, <1>8, <1>9 DEF n, u, Empties
<1>7. CASE ~Empties(c, o, clean)
  BY <1>1, <1>2, <1>3, <1>4, <1>7 DEF n, Empties
<1> QED BY <1>6, <1>7

\* evas_object_release takes an object out of its layer, and frees the layer or not.
LEMMA ReleaseFacts ==
  ASSUME NEW c \in CanvasType, NEW A \in SUBSET Objects, Placed(c, A),
         NEW o \in A, c.parent[o] = NoObject, NEW clean \in BOOLEAN
  PROVE  /\ Release(c, o, clean) \in CanvasType
         /\ Placed(Release(c, o, clean), A \ {o})
<1> DEFINE d == Release(c, o, clean)
           n == c.layer[o]
           free == Empties(c, o, clean)
<1>1. /\ o \in Objects /\ c.inLayer[o] /\ n \in Range(c.layers) /\ n \in Numbers
      /\ c.layers \in Seq(Numbers)
  <2>1. o \in Objects /\ c.inLayer[o] /\ n \in Range(c.layers) /\ c.layers \in Seq(Numbers)
    BY CanvasFields DEF Placed, Belongs
  <2> QED BY <2>1, RangeFacts
<1>2. /\ d.alive = c.alive /\ d.number = c.number /\ d.parent = c.parent
      /\ d.members = c.members /\ d.smart = c.smart
      /\ d.layers = IF free THEN RemoveFirst(c.layers, n) ELSE c.layers
      /\ d.objects = [c.objects EXCEPT ![n] = IF free THEN <<>> ELSE RemoveFirst(@, o)]
      /\ d.usage = [c.usage EXCEPT ![n] = IF free THEN 0 ELSE @ - 1]
      /\ d.layer = [c.layer EXCEPT ![o] = NoLayer]
      /\ d.inLayer = [c.inLayer EXCEPT ![o] = FALSE]
      /\ IsRecord(d)
  BY <1>1, ReleaseEffect
<1>3. c.usage[n] \in Int /\ c.usage[n] >= Cardinality(Of(c, A, n))
  BY <1>1, CanvasFields DEF Placed, Counted
<1>4. ASSUME NEW m \in Numbers
      PROVE  Of(d, A \ {o}, m) = IF m = n THEN Of(c, A, m) \ {o} ELSE Of(c, A, m)
  <2>1. d.layer[o] = NoLayer /\ \A p \in A \ {o} : d.layer[p] = c.layer[p]
    BY <1>1, <1>2, CanvasFields
  <2> QED BY <2>1 DEF Of
<1>5. ASSUME free
      PROVE  \A p \in A \ {o} : c.layer[p] # n
  <2>1. Cardinality(Of(c, A, n)) \in Nat /\ Cardinality(Of(c, A, n)) <= 1
    <3>1. Cardinality(Of(c, A, n)) \in Nat
      BY OfFacts
    <3>2. c.usage[n] - 1 <= 0
      BY <1>5 DEF Empties
    <3> HIDE DEF n
    <3> QED BY <1>3, <3>1, <3>2
  <2>2. o \in Of(c, A, n) /\ Of(d, A \ {o}, n) = Of(c, A, n) \ {o}
    BY <1>1, <1>4 DEF Of
  <2>3. Cardinality(Of(d, A \ {o}, n)) <= 0
    <3>1. Cardinality(Of(d, A \ {o}, n)) = Cardinality(Of(c, A, n)) - 1
      BY <2>2, OfFacts
    <3> HIDE DEF d, n
    <3> QED BY <2>1, <3>1
  <2>4. Of(d, A \ {o}, n) = {}
    BY <2>3, OfFacts
  <2>5. Of(c, A, n) \ {o} = {}
    BY <1>1, <1>4, <2>4
  <2> QED BY <2>5 DEF Of
<1>6. /\ d.layers \in Seq(Numbers) /\ Sorted(d.layers)
      /\ Range(d.layers) = IF free THEN Range(c.layers) \ {n} ELSE Range(c.layers)
  <2>1. Sorted(c.layers)
    BY DEF Placed
  <2>2. /\ RemoveFirst(c.layers, n) \in Seq(Numbers) /\ Sorted(RemoveFirst(c.layers, n))
        /\ Range(RemoveFirst(c.layers, n)) = Range(c.layers) \ {n}
    BY <1>1, <2>1, LayerGoneFacts
  <2>3. CASE free
    BY <1>2, <2>2, <2>3
  <2>4. CASE ~free
    BY <1>1, <1>2, <2>1, <2>4
  <2> QED BY <2>3, <2>4
<1> DEFINE l == c.objects[n]
           r == IF free THEN <<>> ELSE RemoveFirst(l, o)
<1>7. r \in Seq(Objects) /\ IsInjective(r) /\ Range(r) = Range(l) \ {o}
  <2>1. /\ l \in Seq(Objects) /\ IsInjective(l)
        /\ Range(l) = {p \in A : c.inLayer[p] /\ c.layer[p] = n}
    BY <1>1, CanvasFields DEF Placed, Stacked
  <2> HIDE DEF l
  <2>2. RemoveFirst(l, o) \in Seq(Objects) /\ IsInjective(RemoveFirst(l, o))
        /\ Range(RemoveFirst(l, o)) = Range(l) \ {o}
    BY <1>1, <2>1, RemoveFirstFacts
  <2>3. CASE free
    <3>1. r = <<>> /\ r \in Seq(Objects)
      BY <2>3
    <3>2. Range(l) \ {o} = {}
      BY <1>5, <2>1, <2>3
    <3>3. Range(r) = {} /\ IsInjective(r)
      BY <3>1 DEF Range, IsInjective
    <3> QED BY <3>1, <3>2, <3>3
  <2>4. CASE ~free
    BY <2>2, <2>4
  <2> QED BY <2>3, <2>4
<1>8. d.objects = [c.objects EXCEPT ![n] = r]
  BY <1>2
<1> HIDE DEF d, n, free, r
<1>9. d \in CanvasType
  <2>1. /\ d.objects \in [Numbers -> Seq(Objects)] /\ d.usage \in [Numbers -> Int]
        /\ d.layer \in [Objects -> Numbers \union {NoLayer}]
        /\ d.inLayer \in [Objects -> BOOLEAN]
    BY <1>1, <1>2, <1>3, <1>7, <1>8, CanvasFields
  <2>2. /\ d.alive \in SUBSET Objects /\ d.number \in [Objects -> Numbers]
        /\ d.parent \in [Objects -> Objects \union {NoObject}]
        /\ d.members \in [Objects -> Seq(Objects)] /\ d.smart \in [Objects -> BOOLEAN]
    BY <1>2, CanvasFields
  <2> QED BY <1>2, <1>6, <2>1, <2>2, CanvasRecord
<1>10. Placed(d, A \ {o})
  <2>1. A \ {o} \subseteq d.alive
    BY <1>2 DEF Placed
  <2>2. Belongs(d, A \ {o})
    BY <1>1, <1>2, <1>5, <1>6, CanvasFields DEF Placed, Belongs
  <2>3. Stacked(d, A \ {o})
    <3> SUFFICES ASSUME NEW m \in Numbers
                 PROVE  /\ IsInjective(d.objects[m])
                        /\ Range(d.objects[m]) =
                             {p \in A \ {o} : d.inLayer[p] /\ d.layer[p] = m}
      BY DEF Stacked
    <3>1. \A p \in A \ {o} : d.inLayer[p] = c.inLayer[p] /\ d.layer[p] = c.layer[p]
      BY <1>2, CanvasFields
    <3>2. /\ IsInjective(c.objects[m])
          /\ Range(c.objects[m]) = {p \in A : c.inLayer[p] /\ c.layer[p] = m}
      BY DEF Placed, Stacked
    <3>3. d.objects[m] = IF m = n THEN r ELSE c.objects[m]
      BY <1>8, CanvasFields
    <3>4. o \in Range(c.objects[m]) <=> m = n
      BY <1>1, <3>2 DEF n
    <3>5. Range(d.objects[m]) = Range(c.objects[m]) \ {o}
      BY <1>7, <3>3, <3>4
    <3> QED BY <1>7, <3>1, <3>2, <3>3, <3>5
  <2>4. Counted(d, A \ {o})
    <3> SUFFICES ASSUME NEW m \in Numbers
                 PROVE  d.usage[m] >= Cardinality(Of(d, A \ {o}, m))
      BY DEF Counted
    <3>1. /\ d.usage[m] = IF m = n THEN IF free THEN 0 ELSE c.usage[m] - 1 ELSE c.usage[m]
          /\ c.usage[m] \in Int
      BY <1>2, CanvasFields
    <3>2. c.usage[m] >= Cardinality(Of(c, A, m)) /\ Cardinality(Of(c, A, m)) \in Nat
      BY OfFacts DEF Placed, Counted
    <3>3. CASE m = n
      <4>1. o \in Of(c, A, m)
        BY <3>3 DEF Of, n
      <4>2. Of(d, A \ {o}, m) = Of(c, A, m) \ {o}
        BY <1>4, <3>3
      <4>3. Cardinality(Of(d, A \ {o}, m)) = Cardinality(Of(c, A, m)) - 1
        BY <4>1, <4>2, OfFacts
      <4>4. CASE free
        <5>1. c.usage[n] - 1 <= 0
          BY <4>4 DEF free, n, Empties
        <5> QED BY <3>1, <3>2, <3>3, <4>3, <4>4, <5>1
      <4>5. CASE ~free
        BY <3>1, <3>2, <3>3, <4>3, <4>5
      <4> QED BY <4>4, <4>5
    <3>4. CASE m # n
      BY <1>4, <3>1, <3>2, <3>4
    <3> QED BY <3>3, <3>4
  <2>5. Grouped(d, A \ {o})
    <3> SUFFICES ASSUME NEW s \in Objects
                 PROVE  /\ IsInjective(d.members[s])
                        /\ Range(d.members[s]) = {p \in A \ {o} : d.parent[p] = s}
      BY DEF Grouped
    <3>1. d.members[s] = c.members[s] /\ d.parent = c.parent /\ c.parent[o] # s
      BY <1>2, LayersAssumption DEF LayersAssumption
    <3>2. IsInjective(c.members[s]) /\ Range(c.members[s]) = {p \in A : c.parent[p] = s}
      BY DEF Placed, Grouped
    <3> QED BY <3>1, <3>2
  <2> QED BY <1>6, <2>1, <2>2, <2>3, <2>4, <2>5 DEF Placed
<1> QED BY <1>9, <1>10 DEF d

\* An empty list has no elements.
LEMMA NoElements ==
  ASSUME NEW S, NEW list \in Seq(S)
  PROVE  Range(list) = {} <=> list = <<>>
  BY RangeFacts

\* evas_object_smart_member_del
LEMMA MemberDelFacts ==
  ASSUME NEW c \in CanvasType, NEW A \in SUBSET Objects, Placed(c, A), NEW o \in A
  PROVE  LET d == MemberDel(c, o)
         IN  /\ d \in CanvasType /\ Placed(d, A)
             /\ d.alive = c.alive /\ d.smart = c.smart
             /\ d.parent = [c.parent EXCEPT ![o] = NoObject]
<1> DEFINE d == MemberDel(c, o)
           s == c.parent[o]
           n == c.layer[o]
           e == [c EXCEPT !.members[s] = RemoveFirst(@, o), !.parent[o] = NoObject,
                          !.usage[n] = @ - 1, !.number[o] = n]
<1>1. CASE s = NoObject
  <2>1. d = c
    BY <1>1 DEF MemberDel
  <2>2. c.parent = [c.parent EXCEPT ![o] = NoObject]
    BY <1>1, CanvasFields
  <2> QED BY <2>1, <2>2
<1>2. CASE s # NoObject
  <2>1. /\ o \in Objects /\ ~c.inLayer[o] /\ n \in Range(c.layers) /\ n \in Numbers
        /\ s \in Objects
    <3>1. /\ o \in Objects /\ ~c.inLayer[o] /\ n \in Range(c.layers)
          /\ c.layers \in Seq(Numbers) /\ s \in Objects
      BY <1>2, CanvasFields DEF Placed, Belongs
    <3> QED BY <3>1, RangeFacts
  <2>2. d = Inject(e, o)
    BY <1>2 DEF MemberDel
  <2>3. IsRecord(c)
    BY CanvasIsRecord
  <2>4. /\ e.alive = c.alive /\ e.smart = c.smart /\ e.layers = c.layers
        /\ e.objects = c.objects /\ e.layer = c.layer /\ e.inLayer = c.inLayer
        /\ e.members = [c.members EXCEPT ![s] = RemoveFirst(@, o)]
        /\ e.parent = [c.parent EXCEPT ![o] = NoObject]
        /\ e.usage = [c.usage EXCEPT ![n] = @ - 1]
        /\ e.number = [c.number EXCEPT ![o] = n]
        /\ IsRecord(e)
    BY <2>3 DEF IsRecord
  <2> DEFINE l == c.members[s]
             r == RemoveFirst(l, o)
  <2>5. /\ r \in Seq(Objects) /\ IsInjective(r) /\ Range(r) = Range(l) \ {o}
    <3>1. l \in Seq(Objects) /\ IsInjective(l)
      BY <2>1, CanvasFields DEF Placed, Grouped
    <3> HIDE DEF l
    <3> QED BY <2>1, <3>1, RemoveFirstFacts
  <2>6. e.members = [c.members EXCEPT ![s] = r]
    BY <2>4
  <2> HIDE DEF e, n, s, r
  <2>7. e \in CanvasType
    <3>1. /\ e.members \in [Objects -> Seq(Objects)] /\ e.usage \in [Numbers -> Int]
          /\ e.parent \in [Objects -> Objects \union {NoObject}]
          /\ e.number \in [Objects -> Numbers]
      BY <2>1, <2>4, <2>5, <2>6, CanvasFields
    <3> QED BY <2>4, <3>1, CanvasFields, CanvasRecord
  <2>8. Placed(e, A \ {o})
    <3>1. A \ {o} \subseteq e.alive /\ Sorted(e.layers)
      BY <2>4 DEF Placed
    <3>2. Belongs(e, A \ {o})
      <4>1. \A p \in A \ {o} : e.parent[p] = c.parent[p]
        BY <2>4, CanvasFields
      <4>2. e.parent[o] = NoObject
        BY <2>1, <2>4, CanvasFields
      <4>3. \A p \in A \ {o} : /\ e.layer[p] \in Range(e.layers)
                               /\ e.inLayer[p] <=> e.parent[p] = NoObject
                               /\ e.parent[p] \in e.alive \union {NoObject}
        BY <2>4, <4>1 DEF Placed, Belongs
      <4>4. ASSUME NEW p \in Objects \ (A \ {o})
            PROVE  ~e.inLayer[p] /\ e.parent[p] = NoObject
        <5>1. CASE p = o
          BY <2>1, <2>4, <4>2, <5>1
        <5>2. CASE p # o
          <6>1. p \in Objects \ A
            BY <5>2
          <6>2. ~c.inLayer[p] /\ c.parent[p] = NoObject
            BY <6>1 DEF Placed, Belongs
          <6>3. e.parent[p] = c.parent[p]
            BY <2>4, <5>2, CanvasFields
          <6> QED BY <2>4, <6>2, <6>3
        <5> QED BY <5>1, <5>2
      <4> QED BY <4>3, <4>4 DEF Belongs
    <3>3. Stacked(e, A \ {o})
      <4> SUFFICES ASSUME NEW m \in Numbers
                   PROVE  /\ IsInjective(e.objects[m])
                          /\ Range(e.objects[m]) =
                               {p \in A \ {o} : e.inLayer[p] /\ e.layer[p] = m}
        BY DEF Stacked
      <4>1. /\ IsInjective(c.objects[m])
            /\ Range(c.objects[m]) = {p \in A : c.inLayer[p] /\ c.layer[p] = m}
        BY DEF Placed, Stacked
      <4> QED BY <2>1, <2>4, <4>1
    <3>4. Counted(e, A \ {o})
      <4> SUFFICES ASSUME NEW m \in Numbers
                   PROVE  e.usage[m] >= Cardinality(Of(e, A \ {o}, m))
        BY DEF Counted
      <4>1. /\ e.usage[m] = IF m = n THEN c.usage[m] - 1 ELSE c.usage[m]
            /\ c.usage[m] \in Int
        BY <2>4, CanvasFields
      <4>2. c.usage[m] >= Cardinality(Of(c, A, m)) /\ Cardinality(Of(c, A, m)) \in Nat
        BY OfFacts DEF Placed, Counted
      <4>3. CASE m = n
        <5>1. o \in Of(c, A, m) /\ Of(e, A \ {o}, m) = Of(c, A, m) \ {o}
          BY <2>4, <4>3 DEF Of, n
        <5>2. Cardinality(Of(e, A \ {o}, m)) = Cardinality(Of(c, A, m)) - 1
          BY <5>1, OfFacts
        <5> QED BY <4>1, <4>2, <4>3, <5>2
      <4>4. CASE m # n
        <5>1. Of(e, A \ {o}, m) = Of(c, A, m)
          BY <2>4, <4>4 DEF Of, n
        <5> QED BY <4>1, <4>2, <4>4, <5>1
      <4> QED BY <4>3, <4>4
    <3>5. Grouped(e, A \ {o})
      <4> SUFFICES ASSUME NEW t \in Objects
                   PROVE  /\ IsInjective(e.members[t])
                          /\ Range(e.members[t]) = {p \in A \ {o} : e.parent[p] = t}
        BY DEF Grouped
      <4>1. IsInjective(c.members[t]) /\ Range(c.members[t]) = {p \in A : c.parent[p] = t}
        BY DEF Placed, Grouped
      <4>2. e.members[t] = IF t = s THEN r ELSE c.members[t]
        BY <2>6, CanvasFields
      <4>3. \A p \in A \ {o} : e.parent[p] = c.parent[p]
        BY <2>4, CanvasFields
      <4>4. o \in Range(c.members[t]) <=> t = s
        BY <4>1 DEF s
      <4>5. IsInjective(e.members[t]) /\ Range(e.members[t]) = Range(c.members[t]) \ {o}
        BY <2>5, <4>1, <4>2, <4>4
      <4> QED BY <4>1, <4>3, <4>5
    <3> QED BY <3>1, <3>2, <3>3, <3>4, <3>5 DEF Placed
  <2> DEFINE B == A \ {o}
  <2>9. B \in SUBSET Objects /\ Placed(e, B) /\ o \in e.alive /\ o \notin B /\ B \union {o} = A
    BY <2>4, <2>8 DEF Placed
  <2> HIDE DEF B
  <2>10. d \in CanvasType /\ Placed(d, A)
    <3>1. Inject(e, o) \in CanvasType /\ Placed(Inject(e, o), B \union {o})
      BY <2>7, <2>9, InjectFacts
    <3> QED BY <2>2, <2>9, <3>1
  <2>11. d.alive = c.alive /\ d.smart = c.smart /\ d.parent = e.parent
    <3>1. ~e.inLayer[o]
      BY <2>1, <2>4
    <3>2. /\ Inject(e, o).alive = e.alive /\ Inject(e, o).smart = e.smart
          /\ Inject(e, o).parent = e.parent
      BY <2>1, <2>7, <3>1, InjectEffect
    <3> QED BY <2>2, <2>4, <3>2
  <2> QED BY <2>4, <2>10, <2>11
<1> QED BY <1>1, <1>2

\* evas_object_smart_member_add
LEMMA MemberAddFacts ==
  ASSUME NEW c \in CanvasType, NEW A \in SUBSET Objects, Placed(c, A),
         NEW o \in A, NEW s \in A, o # s
  PROVE  LET e == MemberAdd(c, o, s)
         IN  /\ e \in CanvasType /\ Placed(e, A)
             /\ e.alive = c.alive /\ e.smart = c.smart
             /\ e.parent = [c.parent EXCEPT ![o] = s]
<1> DEFINE b == MemberDel(c, o)
           d == Release(b, o, TRUE)
           n == d.layer[s]
           e == MemberAdd(c, o, s)
           B == A \ {o}
<1>1. /\ b \in CanvasType /\ Placed(b, A) /\ b.alive = c.alive /\ b.smart = c.smart
      /\ b.parent = [c.parent EXCEPT ![o] = NoObject]
  BY MemberDelFacts
<1>2. o \in Objects /\ s \in Objects /\ s \in B /\ B \in SUBSET Objects /\ B \union {o} = A
  OBVIOUS
<1>3. e = [d EXCEPT !.layer[o] = n, !.number[o] = n, !.usage[n] = @ + 1,
                    !.parent[o] = s, !.members[s] = Append(@, o)]
  BY DEF MemberAdd
<1> HIDE DEF b
<1>4. b.parent[o] = NoObject
  BY <1>1, <1>2, CanvasFields
<1>5. b.inLayer[o] /\ b.layer[o] \in Numbers
  <2>1. b.inLayer[o] /\ b.layer[o] \in Range(b.layers) /\ b.layers \in Seq(Numbers)
    BY <1>1, <1>4, CanvasFields DEF Placed, Belongs
  <2> QED BY <2>1, RangeFacts
<1>6. d \in CanvasType /\ Placed(d, B)
  BY <1>1, <1>4, ReleaseFacts
<1>7. d.alive = c.alive /\ d.smart = c.smart /\ d.parent = b.parent
  <2>1. d.alive = b.alive /\ d.smart = b.smart /\ d.parent = b.parent
    BY <1>1, <1>2, <1>5, ReleaseEffect
  <2> QED BY <1>1, <2>1
<1> HIDE DEF d, B
<1>8. /\ n \in Range(d.layers) /\ n \in Numbers
      /\ ~d.inLayer[o] /\ d.parent[o] = NoObject
  <2>1. n \in Range(d.layers) /\ d.layers \in Seq(Numbers)
    BY <1>2, <1>6, CanvasFields DEF Placed, Belongs
  <2>2. o \in Objects \ B
    BY <1>2 DEF B
  <2>3. ~d.inLayer[o] /\ d.parent[o] = NoObject
    BY <1>6, <2>2 DEF Placed, Belongs
  <2> QED BY <2>1, <2>3, RangeFacts
<1> HIDE DEF n, e
<1>9. /\ e.alive = d.alive /\ e.smart = d.smart /\ e.layers = d.layers
      /\ e.objects = d.objects /\ e.inLayer = d.inLayer
      /\ e.layer = [d.layer EXCEPT ![o] = n]
      /\ e.number = [d.number EXCEPT ![o] = n]
      /\ e.usage = [d.usage EXCEPT ![n] = @ + 1]
      /\ e.parent = [d.parent EXCEPT ![o] = s]
      /\ e.members = [d.members EXCEPT ![s] = Append(@, o)]
      /\ IsRecord(e)
  <2>1. IsRecord(d)
    BY <1>6, CanvasIsRecord
  <2> QED BY <1>3, <2>1 DEF IsRecord
<1> DEFINE l == d.members[s]
           r == Append(l, o)
<1>10. /\ r \in Seq(Objects) /\ IsInjective(r) /\ Range(r) = Range(l) \union {o}
  <2>1. l \in Seq(Objects) /\ IsInjective(l) /\ o \notin Range(l)
    BY <1>2, <1>6, CanvasFields DEF Placed, Grouped, B
  <2> HIDE DEF l
  <2>2. r \in Seq(Objects) /\ Range(r) = Range(l) \union {o}
    BY <1>2, <2>1, AppendFacts
  <2>3. IsInjective(r)
    BY <1>2, <2>1, EndsInjective
  <2> QED BY <2>2, <2>3
<1>11. e.members = [d.members EXCEPT ![s] = r]
  BY <1>9
<1> HIDE DEF r
<1>12. e \in CanvasType
  <2>1. e.members \in [Objects -> Seq(Objects)]
    BY <1>6, <1>10, <1>11, CanvasFields
  <2>2. e.usage \in [Numbers -> Int]
    BY <1>6, <1>8, <1>9, CanvasFields
  <2>3. /\ e.parent \in [Objects -> Objects \union {NoObject}]
        /\ e.number \in [Objects -> Numbers]
        /\ e.layer \in [Objects -> Numbers \union {NoLayer}]
    BY <1>2, <1>6, <1>8, <1>9, CanvasFields
  <2>4. /\ e.alive \in SUBSET Objects /\ e.smart \in [Objects -> BOOLEAN]
        /\ e.layers \in Seq(Numbers) /\ e.objects \in [Numbers -> Seq(Objects)]
        /\ e.inLayer \in [Objects -> BOOLEAN]
    BY <1>6, <1>9, CanvasFields
  <2> QED BY <1>9, <2>1, <2>2, <2>3, <2>4, CanvasRecord
<1>13. Placed(e, A)
  <2>1. A \subseteq e.alive /\ Sorted(e.layers)
    BY <1>1, <1>6, <1>7, <1>9 DEF Placed
  <2>2. \A p \in B : e.parent[p] = d.parent[p] /\ e.layer[p] = d.layer[p]
    BY <1>6, <1>9, CanvasFields DEF B
  <2>3. e.parent[o] = s /\ e.layer[o] = n
    BY <1>2, <1>6, <1>9, CanvasFields
  <2>4. Belongs(e, A)
    <3>1. ASSUME NEW p \in A
          PROVE  /\ e.layer[p] \in Range(e.layers)
                 /\ e.inLayer[p] <=> e.parent[p] = NoObject
                 /\ e.parent[p] \in e.alive \union {NoObject}
      <4>1. CASE p = o
        <5>1. s \in e.alive /\ s # NoObject
          BY <1>2, <2>1, LayersAssumption DEF LayersAssumption
        <5> QED BY <1>8, <1>9, <2>3, <4>1, <5>1
      <4>2. CASE p # o
        <5>1. p \in B
          BY <4>2 DEF B
        <5> QED BY <1>6, <1>9, <2>2, <5>1 DEF Placed, Belongs
      <4> QED BY <4>1, <4>2
    <3>2. ASSUME NEW p \in Objects \ A
          PROVE  ~e.inLayer[p] /\ e.parent[p] = NoObject
      <4>1. p \in Objects \ B /\ p # o
        BY DEF B
      <4>2. ~d.inLayer[p] /\ d.parent[p] = NoObject
        BY <1>6, <4>1 DEF Placed, Belongs
      <4>3. e.parent[p] = d.parent[p]
        BY <1>6, <1>9, <4>1, CanvasFields
      <4> QED BY <1>9, <4>2, <4>3
    <3> QED BY <3>1, <3>2 DEF Belongs
  <2>5. Stacked(e, A)
    <3> SUFFICES ASSUME NEW m \in Numbers
                 PROVE  /\ IsInjective(e.objects[m])
                        /\ Range(e.objects[m]) = {p \in A : e.inLayer[p] /\ e.layer[p] = m}
      BY DEF Stacked
    <3>1. /\ IsInjective(d.objects[m])
          /\ Range(d.objects[m]) = {p \in B : d.inLayer[p] /\ d.layer[p] = m}
      BY <1>6 DEF Placed, Stacked
    <3> QED BY <1>2, <1>8, <1>9, <2>2, <3>1
  <2>6. Counted(e, A)
    <3> SUFFICES ASSUME NEW m \in Numbers
                 PROVE  e.usage[m] >= Cardinality(Of(e, A, m))
      BY DEF Counted
    <3>1. /\ e.usage[m] = IF m = n THEN d.usage[m] + 1 ELSE d.usage[m]
          /\ d.usage[m] \in Int
      BY <1>6, <1>9, CanvasFields
    <3>2. d.usage[m] >= Cardinality(Of(d, B, m)) /\ Cardinality(Of(d, B, m)) \in Nat
      BY <1>2, <1>6, OfFacts DEF Placed, Counted
    <3>3. CASE m = n
      <4>1. Of(e, A, m) = Of(d, B, m) \union {o}
        BY <1>2, <2>2, <2>3, <3>3 DEF Of
      <4>2. Cardinality(Of(e, A, m)) <= Cardinality(Of(d, B, m)) + 1
        BY <1>2, <4>1, OfFacts
      <4>3. Cardinality(Of(e, A, m)) \in Nat
        BY OfFacts
      <4> QED BY <3>1, <3>2, <3>3, <4>2, <4>3
    <3>4. CASE m # n
      <4>1. Of(e, A, m) = Of(d, B, m)
        BY <1>2, <2>2, <2>3, <3>4 DEF Of
      <4> QED BY <3>1, <3>2, <3>4, <4>1
    <3> QED BY <3>3, <3>4
  <2>7. Grouped(e, A)
    <3> SUFFICES ASSUME NEW t \in Objects
                 PROVE  /\ IsInjective(e.members[t])
                        /\ Range(e.members[t]) = {p \in A : e.parent[p] = t}
      BY DEF Grouped
    <3>1. IsInjective(d.members[t]) /\ Range(d.members[t]) = {p \in B : d.parent[p] = t}
      BY <1>6 DEF Placed, Grouped
    <3>2. e.members[t] = IF t = s THEN r ELSE d.members[t]
      BY <1>6, <1>11, CanvasFields
    <3> QED BY <1>2, <1>10, <2>2, <2>3, <3>1, <3>2
  <2> QED BY <2>1, <2>4, <2>5, <2>6, <2>7 DEF Placed
<1>14. e.parent = [c.parent EXCEPT ![o] = s]
  <2>1. e.parent = [[c.parent EXCEPT ![o] = NoObject] EXCEPT ![o] = s]
    BY <1>1, <1>7, <1>9
  <2> DEFINE f == c.parent
  <2>2. f \in [Objects -> Objects \union {NoObject}]
    BY CanvasFields
  <2> HIDE DEF f
  <2>3. [[f EXCEPT ![o] = NoObject] EXCEPT ![o] = s] = [f EXCEPT ![o] = s]
    BY <2>2
  <2> QED BY <2>1, <2>3 DEF f
<1> QED BY <1>7, <1>9, <1>12, <1>13, <1>14 DEF e

\* Only members follow a smart object.
LEMMA FollowersFacts ==
  ASSUME NEW c, NEW o \in Objects, NEW n
  PROVE  /\ Followers(c, o, n) \in SUBSET Objects
         /\ \A m \in Followers(c, o, n) : c.parent[m] \in Objects
<1> DEFINE S == {m \in Objects : c.parent[m] \in Objects}
<1>1. HasFollowers(c, o, n, S)
  BY DEF HasFollowers
<1>2. S \in SUBSET Objects
  OBVIOUS
<1> QED BY <1>1, <1>2 DEF Followers

\* _evas_object_layer_set_child, for all members of o
LEMMA LayerSetChildrenFacts ==
  ASSUME NEW c \in CanvasType, NEW A \in SUBSET Objects, Placed(c, A),
         NEW o \in Objects, NEW n \in Range(c.layers)
  PROVE  LET d == LayerSetChildren(c, o, n)
         IN  /\ d \in CanvasType /\ Placed(d, A)
             /\ d.alive = c.alive /\ d.parent = c.parent /\ d.members = c.members
             /\ d.objects = c.objects
<1> DEFINE d == LayerSetChildren(c, o, n)
           moved == Followers(c, o, n)
<1>1. n \in Numbers
  <2>1. c.layers \in Seq(Numbers)
    BY CanvasFields
  <2> QED BY <2>1, RangeFacts
<1>2. moved \in SUBSET Objects /\ \A m \in moved : c.parent[m] \in Objects
  BY FollowersFacts
<1>3. \A m \in moved : m \in A /\ ~c.inLayer[m]
  <2> TAKE m \in moved
  <2>1. m \in Objects /\ c.parent[m] # NoObject
    BY <1>2, LayersAssumption DEF LayersAssumption
  <2>2. m \in A
    BY <2>1 DEF Placed, Belongs
  <2> QED BY <2>1, <2>2 DEF Placed, Belongs
<1>4. IsFiniteSet(moved) /\ Cardinality(moved) \in Nat
  <2>1. IsFiniteSet(moved)
    BY <1>2, FS_Subset, LayersAssumption DEF LayersAssumption
  <2> QED BY <2>1, FS_CardinalityType
<1>5. d = [c EXCEPT !.number = [m \in Objects |-> IF m \in moved THEN n ELSE c.number[m]],
                    !.layer = [m \in Objects |-> IF m \in moved THEN n ELSE c.layer[m]],
                    !.usage[n] = @ + Cardinality(moved)]
  BY DEF LayerSetChildren
<1> HIDE DEF d, moved
<1>6. /\ d.alive = c.alive /\ d.smart = c.smart /\ d.layers = c.layers
      /\ d.objects = c.objects /\ d.inLayer = c.inLayer
      /\ d.parent = c.parent /\ d.members = c.members
      /\ d.layer = [m \in Objects |-> IF m \in moved THEN n ELSE c.layer[m]]
      /\ d.number = [m \in Objects |-> IF m \in moved THEN n ELSE c.number[m]]
      /\ d.usage = [c.usage EXCEPT ![n] = @ + Cardinality(moved)]
      /\ IsRecord(d)
  <2>1. IsRecord(c)
    BY CanvasIsRecord
  <2> QED BY <1>5, <2>1 DEF IsRecord
<1>7. d \in CanvasType
  <2>1. d.usage \in [Numbers -> Int]
    BY <1>1, <1>4, <1>6, CanvasFields
  <2>2. /\ d.number \in [Objects -> Numbers]
        /\ d.layer \in [Objects -> Numbers \union {NoLayer}]
    BY <1>1, <1>6, CanvasFields
  <2>3. /\ d.alive \in SUBSET Objects /\ d.smart \in [Objects -> BOOLEAN]
        /\ d.layers \in Seq(Numbers) /\ d.objects \in [Numbers -> Seq(Objects)]
        /\ d.inLayer \in [Objects -> BOOLEAN]
        /\ d.parent \in [Objects -> Objects \union {NoObject}]
        /\ d.members \in [Objects -> Seq(Objects)]
    BY <1>6, CanvasFields
  <2> QED BY <1>6, <2>1, <2>2, <2>3, CanvasRecord
<1>8. Placed(d, A)
  <2>1. A \subseteq d.alive /\ Sorted(d.layers)
    BY <1>6 DEF Placed
  <2>2. \A p \in A : d.layer[p] = IF p \in moved THEN n ELSE c.layer[p]
    BY <1>6
  <2>3. Belongs(d, A)
    <3>1. ASSUME NEW p \in A
          PROVE  /\ d.layer[p] \in Range(d.layers)
                 /\ d.inLayer[p] <=> d.parent[p] = NoObject
                 /\ d.parent[p] \in d.alive \union {NoObject}
      BY <1>6, <2>2 DEF Placed, Belongs
    <3>2. ASSUME NEW p \in Objects \ A
          PROVE  ~d.inLayer[p] /\ d.parent[p] = NoObject
      BY <1>6 DEF Placed, Belongs
    <3> QED BY <3>1, <3>2 DEF Belongs
  <2>4. Stacked(d, A)
    <3> SUFFICES ASSUME NEW m \in Numbers
                 PROVE  /\ IsInjective(d.objects[m])
                        /\ Range(d.objects[m]) = {p \in A : d.inLayer[p] /\ d.layer[p] = m}
      BY DEF Stacked
    <3>1. /\ IsInjective(c.objects[m])
          /\ Range(c.objects[m]) = {p \in A : c.inLayer[p] /\ c.layer[p] = m}
      BY DEF Placed, Stacked
    <3>2. \A p \in A : d.inLayer[p] /\ d.layer[p] = m <=> c.inLayer[p] /\ c.layer[p] = m
      BY <1>3, <1>6, <2>2
    <3> QED BY <1>6, <3>1, <3>2
  <2>5. Counted(d, A)
    <3> SUFFICES ASSUME NEW m \in Numbers
                 PROVE  d.usage[m] >= Cardinality(Of(d, A, m))
      BY DEF Counted
    <3>1. /\ d.usage[m] = IF m = n THEN c.usage[m] + Cardinality(moved) ELSE c.usage[m]
          /\ c.usage[m] \in Int
      BY <1>6, CanvasFields
    <3>2. c.usage[m] >= Cardinality(Of(c, A, m)) /\ Cardinality(Of(c, A, m)) \in Nat
      BY OfFacts DEF Placed, Counted
    <3>3. CASE m = n
      <4> DEFINE X == Of(c, A, m)
                 Y == Of(d, A, m)
      <4>1. Y \subseteq X \union moved
        BY <2>2, <3>3 DEF Of
      <4>2. IsFiniteSet(X) /\ Cardinality(X) \in Nat
        BY OfFacts
      <4> HIDE DEF X, Y
      <4>3. /\ IsFiniteSet(X \union moved)
            /\ Cardinality(X \union moved) = Cardinality(X) + Cardinality(moved)
                                              - Cardinality(X \intersect moved)
        BY <1>4, <4>2, FS_Union
      <4>4. IsFiniteSet(X \intersect moved)
        BY <4>2, FS_Intersection
      <4>5. Cardinality(X \intersect moved) \in Nat
        BY <4>4, FS_CardinalityType
      <4>6. IsFiniteSet(Y) /\ Cardinality(Y) <= Cardinality(X \union moved)
        BY <4>1, <4>3, FS_Subset
      <4>7. Cardinality(Y) \in Nat /\ Cardinality(X \union moved) \in Nat
        BY <4>3, <4>6, FS_CardinalityType
      <4>8. Cardinality(Y) <= Cardinality(X) + Cardinality(moved)
        BY <1>4, <4>2, <4>3, <4>5, <4>6, <4>7
      <4> QED BY <1>4, <3>1, <3>2, <3>3, <4>2, <4>7, <4>8 DEF X, Y
    <3>4. CASE m # n
      <4>1. Of(d, A, m) \subseteq Of(c, A, m)
        BY <2>2, <3>4 DEF Of
      <4>2. Cardinality(Of(d, A, m)) <= Cardinality(Of(c, A, m)) /\ Cardinality(Of(d, A, m)) \in Nat
        BY <4>1, OfFacts
      <4> QED BY <3>1, <3>2, <3>4, <4>2
    <3> QED BY <3>3, <3>4
  <2>6. Grouped(d, A)
    BY <1>6 DEF Placed, Grouped
  <2> QED BY <2>1, <2>3, <2>4, <2>5, <2>6 DEF Placed
<1> QED BY <1>6, <1>7, <1>8 DEF d

\* evas_object_layer_set
LEMMA LayerSetFacts ==
  ASSUME NEW c \in CanvasType, NEW A \in SUBSET Objects, Placed(c, A),
         NEW o \in A, c.parent[o] = NoObject, NEW n \in Numbers
  PROVE  LET d == LayerSet(c, o, n)
         IN  /\ d \in CanvasType /\ Placed(d, A)
             /\ d.alive = c.alive /\ d.parent = c.parent /\ d.members = c.members
<1> DEFINE b == Release(c, o, TRUE)
           e == [b EXCEPT !.number[o] = n]
           i == Inject(e, o)
           B == A \ {o}
<1>1. o \in Objects /\ c.inLayer[o] /\ c.layer[o] \in Numbers
  <2>1. o \in Objects /\ c.inLayer[o] /\ c.layer[o] \in Range(c.layers) /\ c.layers \in Seq(Numbers)
    BY CanvasFields DEF Placed, Belongs
  <2> QED BY <2>1, RangeFacts
<1>2. b \in CanvasType /\ Placed(b, B)
  BY ReleaseFacts
<1>3. b.alive = c.alive /\ b.parent = c.parent /\ b.members = c.members
  BY <1>1, ReleaseEffect
<1>4. B \in SUBSET Objects /\ B \union {o} = A /\ o \notin B
  OBVIOUS
<1>5. LayerSet(c, o, n) = IF i.smart[o] THEN LayerSetChildren(i, o, n) ELSE i
  BY DEF LayerSet
<1> HIDE DEF b, B
<1>6. /\ e.alive = b.alive /\ e.smart = b.smart /\ e.layers = b.layers
      /\ e.objects = b.objects /\ e.inLayer = b.inLayer /\ e.layer = b.layer
      /\ e.parent = b.parent /\ e.members = b.members /\ e.usage = b.usage
      /\ e.number = [b.number EXCEPT ![o] = n]
      /\ IsRecord(e)
  <2>1. IsRecord(b)
    BY <1>2, CanvasIsRecord
  <2> QED BY <2>1 DEF IsRecord
<1> HIDE DEF e
<1>7. e \in CanvasType
  <2>1. e.number \in [Objects -> Numbers]
    BY <1>2, <1>6, CanvasFields
  <2> QED BY <1>2, <1>6, <2>1, CanvasFields, CanvasRecord
<1>8. Placed(e, B)
  <2>1. Of(e, B, 0) = Of(b, B, 0) /\ \A m : Of(e, B, m) = Of(b, B, m)
    BY <1>6 DEF Of
  <2> QED BY <1>2, <1>6, <2>1 DEF Placed, Belongs, Stacked, Grouped, Counted
<1>9. o \in e.alive /\ ~e.inLayer[o] /\ e.number[o] = n
  <2>1. o \in Objects \ B
    BY <1>1, <1>4
  <2>2. ~e.inLayer[o]
    BY <1>8, <2>1 DEF Placed, Belongs
  <2> QED BY <1>1, <1>2, <1>3, <1>6, <2>2, CanvasFields DEF Placed
<1>10. i \in CanvasType /\ Placed(i, A)
  <2>1. i \in CanvasType /\ Placed(i, B \union {o})
    BY <1>4, <1>7, <1>8, <1>9, InjectFacts
  <2> QED BY <1>4, <2>1
<1>11. /\ i.alive = e.alive /\ i.parent = e.parent /\ i.members = e.members
       /\ i.layer = [e.layer EXCEPT ![o] = n]
  BY <1>1, <1>7, <1>9, InjectEffect
<1> HIDE DEF i
<1>12. n \in Range(i.layers)
  <2>1. i.layer[o] = n
    BY <1>1, <1>7, <1>11, CanvasFields
  <2> QED BY <1>10, <2>1 DEF Placed, Belongs
<1> DEFINE d == LayerSetChildren(i, o, n)
<1>13. /\ d \in CanvasType /\ Placed(d, A)
       /\ d.alive = i.alive /\ d.parent = i.parent /\ d.members = i.members
  BY <1>1, <1>10, <1>12, LayerSetChildrenFacts
<1> HIDE DEF d
<1>14. CASE i.smart[o]
  BY <1>3, <1>5, <1>6, <1>11, <1>13, <1>14 DEF d
<1>15. CASE ~i.smart[o]
  BY <1>3, <1>5, <1>6, <1>10, <1>11, <1>15
<1> QED BY <1>14, <1>15

\* The objects of d have the smart parents they have in c, or none.
Loosened(c, d) == \A p \in Objects : d.parent[p] \in {c.parent[p], NoObject}

\* Then those that are no members and have none stay so, and there are no loops.
LEMMA LoosenedFacts ==
  ASSUME NEW c \in CanvasType, NEW d \in CanvasType, NEW A, NEW B,
         Placed(c, A), Placed(d, B), B \subseteq A, Loosened(c, d)
  PROVE  /\ \A o \in Objects : Detached(c, o) => Detached(d, o)
         /\ Rooted(c) => Rooted(d)
<1>1. ASSUME NEW o \in Objects, Detached(c, o)
      PROVE  Detached(d, o)
  <2>1. d.parent[o] = NoObject
    BY <1>1 DEF Detached, Loosened
  <2>2. /\ Range(c.members[o]) = {p \in A : c.parent[p] = o}
        /\ Range(d.members[o]) = {p \in B : d.parent[p] = o}
        /\ c.members[o] \in Seq(Objects) /\ d.members[o] \in Seq(Objects)
    BY CanvasFields DEF Placed, Grouped
  <2>3. Range(c.members[o]) = {}
    BY <1>1, <2>2, NoElements DEF Detached
  <2>4. ASSUME NEW p \in B, d.parent[p] = o PROVE FALSE
    <3>1. p \in A /\ p \in Objects
      BY CanvasFields DEF Placed
    <3>2. o # NoObject
      BY LayersAssumption DEF LayersAssumption
    <3>3. c.parent[p] = o
      BY <2>4, <3>1, <3>2 DEF Loosened
    <3> QED BY <2>2, <2>3, <3>1, <3>3
  <2>5. Range(d.members[o]) = {}
    BY <2>2, <2>4
  <2>6. d.members[o] = <<>>
    BY <2>2, <2>5, NoElements
  <2> QED BY <2>1, <2>6 DEF Detached
<1>2. ASSUME Rooted(c), NEW S \in SUBSET Objects, S # {}
      PROVE  \E o \in S : d.parent[o] \notin S
  <2>1. PICK o \in S : c.parent[o] \notin S
    BY <1>2 DEF Rooted
  <2>2. NoObject \notin S /\ o \in Objects
    BY LayersAssumption DEF LayersAssumption
  <2> QED BY <2>1, <2>2 DEF Loosened
<1> QED BY <1>1, <1>2 DEF Rooted

\* evas_object_smart_members_all_del
LEMMA MembersLoopFacts ==
  ASSUME NEW c \in CanvasType, NEW A \in SUBSET Objects, Placed(c, A), NEW o \in Objects
  PROVE  LET d == Members!Loop(c, c.members[o])
         IN  /\ d \in CanvasType /\ Placed(d, A)
             /\ d.alive = c.alive /\ Loosened(c, d) /\ d.members[o] = <<>>
<1> DEFINE list == c.members[o]
           d == Members!Loop(c, list)
           Kept(x) == /\ x \in CanvasType /\ Placed(x, A)
                      /\ x.alive = c.alive /\ Loosened(c, x)
           I == [k \in 0 .. Len(list) |->
                   {x \in CanvasType : Kept(x) /\ \A j \in 1 .. k : x.parent[list[j]] = NoObject}]
<1>1. list \in Seq(Objects) /\ Range(list) = {p \in A : c.parent[p] = o}
  BY CanvasFields DEF Placed, Grouped
<1> HIDE DEF list
<1>2. Len(list) \in Nat /\ \A k \in 1 .. Len(list) : list[k] \in A /\ list[k] \in Objects
  BY <1>1, RangeFacts
<1>3. c \in I[0]
  <2>1. 0 \in 0 .. Len(list) /\ 1 .. 0 = {}
    BY <1>2
  <2>2. Kept(c)
    BY DEF Loosened
  <2> QED BY <2>1, <2>2
<1>4. ASSUME NEW k \in 1 .. Len(list), NEW x \in I[k - 1]
      PROVE  MemberDel(x, list[k]) \in I[k]
  <2> DEFINE m == list[k]
             y == MemberDel(x, m)
  <2>1. k - 1 \in 0 .. Len(list) /\ k \in 0 .. Len(list) /\ m \in A /\ m \in Objects
    BY <1>2
  <2>2. /\ x \in CanvasType /\ Placed(x, A) /\ x.alive = c.alive /\ Loosened(c, x)
        /\ \A j \in 1 .. k - 1 : x.parent[list[j]] = NoObject
    BY <2>1
  <2> HIDE DEF I, m
  <2>3. /\ y \in CanvasType /\ Placed(y, A) /\ y.alive = x.alive
        /\ y.parent = [x.parent EXCEPT ![m] = NoObject]
    BY <2>1, <2>2, MemberDelFacts
  <2> HIDE DEF y
  <2>4. \A p \in Objects : y.parent[p] = IF p = m THEN NoObject ELSE x.parent[p]
    BY <2>2, <2>3, CanvasFields
  <2>5. Loosened(c, y)
    BY <2>2, <2>4 DEF Loosened
  <2>6. \A j \in 1 .. k : y.parent[list[j]] = NoObject
    <3> TAKE j \in 1 .. k
    <3>1. j \in 1 .. Len(list) /\ (j = k \/ j \in 1 .. k - 1)
      BY <1>2
    <3> QED BY <1>2, <2>2, <2>4, <3>1 DEF m
  <2> QED BY <2>1, <2>2, <2>3, <2>5, <2>6 DEF I, m, y
<1>5. Len(list) \in 0 .. Len(list)
  BY <1>2
<1>6. d \in I[Len(list)]
  <2> HIDE DEF I
  <2> QED BY <1>1, <1>3, <1>4, Members!LoopKeeps
<1>7. Kept(d) /\ \A j \in 1 .. Len(list) : d.parent[list[j]] = NoObject
  BY <1>5, <1>6
<1> HIDE DEF d, I
<1>8. d.members[o] \in Seq(Objects) /\ Range(d.members[o]) = {p \in A : d.parent[p] = o}
  BY <1>7, CanvasFields DEF Placed, Grouped
<1>9. o # NoObject
  BY LayersAssumption DEF LayersAssumption
<1>10. ASSUME NEW p \in A, d.parent[p] = o PROVE FALSE
  <2>1. c.parent[p] = o
    BY <1>7, <1>9, <1>10 DEF Loosened
  <2>2. PICK j \in 1 .. Len(list) : p = list[j]
    BY <1>1, <2>1, RangeFacts
  <2> QED BY <1>7, <1>9, <1>10, <2>2
<1>11. d.members[o] = <<>>
  BY <1>8, <1>10, NoElements
<1> QED BY <1>7, <1>11 DEF d, list

\* evas_object_smart_cleanup
LEMMA SmartCleanupFacts ==
  ASSUME NEW c \in CanvasType, NEW A \in SUBSET Objects, Placed(c, A), NEW o \in A
  PROVE  LET d == SmartCleanup(c, o)
         IN  /\ d \in CanvasType /\ Placed(d, A)
             /\ d.alive = c.alive /\ Loosened(c, d) /\ Detached(d, o)
<1> DEFINE b == MemberDel(c, o)
           e == Members!Loop(b, b.members[o])
           d == [e EXCEPT !.smart[o] = FALSE]
<1>1. /\ b \in CanvasType /\ Placed(b, A) /\ b.alive = c.alive
      /\ b.parent = [c.parent EXCEPT ![o] = NoObject]
  BY MemberDelFacts
<1> HIDE DEF b
<1>2. Loosened(c, b) /\ b.parent[o] = NoObject
  BY <1>1, CanvasFields DEF Loosened
<1>3. /\ e \in CanvasType /\ Placed(e, A) /\ e.alive = b.alive /\ Loosened(b, e)
      /\ e.members[o] = <<>>
  BY <1>1, MembersLoopFacts
<1> HIDE DEF e
<1>4. Loosened(c, e) /\ e.parent[o] = NoObject
  BY <1>2, <1>3 DEF Loosened
<1>5. /\ d.alive = e.alive /\ d.layers = e.layers /\ d.objects = e.objects
      /\ d.usage = e.usage /\ d.layer = e.layer /\ d.number = e.number
      /\ d.inLayer = e.inLayer /\ d.parent = e.parent /\ d.members = e.members
      /\ d.smart = [e.smart EXCEPT ![o] = FALSE]
      /\ IsRecord(d)
  <2>1. IsRecord(e)
    BY <1>3, CanvasIsRecord
  <2> QED BY <2>1 DEF IsRecord
<1>6. SmartCleanup(c, o) = d
  BY DEF SmartCleanup, b, e
<1> HIDE DEF d
<1>7. d \in CanvasType
  <2>1. d.smart \in [Objects -> BOOLEAN]
    BY <1>3, <1>5, CanvasFields
  <2> QED BY <1>3, <1>5, <2>1, CanvasFields, CanvasRecord
<1>8. Placed(d, A)
  <2>1. \A m : Of(d, A, m) = Of(e, A, m)
    BY <1>5 DEF Of
  <2> QED BY <1>3, <1>5, <2>1 DEF Placed, Belongs, Stacked, Grouped, Counted
<1>9. Loosened(c, d) /\ Detached(d, o)
  BY <1>3, <1>4, <1>5 DEF Loosened, Detached
<1> QED BY <1>1, <1>3, <1>5, <1>6, <1>7, <1>8, <1>9

-----------------------------------------------------------------------------
(***************************************************************************)
(* evas_object_free                                                        *)
(***************************************************************************)

\* A smart object without members leaves the canvas as it is.
LEMMA NoMembers ==
  ASSUME NEW c PROVE Members!Loop(c, <<>>) = c
<1> DEFINE I == [k \in 0 .. 0 |-> {c}]
<1>1. <<>> \in Seq(Objects) /\ Len(<<>>) = 0 /\ c \in I[0] /\ 1 .. 0 = {}
  OBVIOUS
<1> HIDE DEF I
<1>2. Members!Loop(c, <<>>) \in I[Len(<<>>)]
  BY <1>1, Members!LoopKeeps
<1> QED BY <1>1, <1>2 DEF I

\* One object, which is no member and has none.
LEMMA FreeFacts ==
  ASSUME NEW c \in CanvasType, Placed(c, c.alive), NEW o \in c.alive, Detached(c, o),
         NEW clean \in BOOLEAN
  PROVE  LET d == FreeObject(c, o, clean)
         IN  /\ d \in CanvasType /\ Placed(d, d.alive)
             /\ d.alive = c.alive \ {o} /\ Loosened(c, d)
             /\ \A p \in d.alive : d.layer[p] = c.layer[p]
<1> DEFINE A == c.alive
           B == A \ {o}
           b == [c EXCEPT !.smart[o] = FALSE]
           r == Release(b, o, clean)
           d == [r EXCEPT !.alive = @ \ {o}]
<1>1. o \in Objects /\ A \in SUBSET Objects /\ c.parent[o] = NoObject /\ c.members[o] = <<>>
  BY CanvasFields DEF Detached
<1>2. Members!Loop(c, <<>>) = c
  BY NoMembers
<1>3. FreeObject(c, o, clean) = d
  <2>1. MemberDel(c, o) = c
    BY <1>1 DEF MemberDel
  <2>2. SmartCleanup(c, o) = b
    BY <1>1, <1>2, <2>1 DEF SmartCleanup
  <2> QED BY <1>1, <2>2 DEF FreeObject
<1> HIDE DEF b
<1>4. /\ b.alive = c.alive /\ b.layers = c.layers /\ b.objects = c.objects
      /\ b.usage = c.usage /\ b.layer = c.layer /\ b.number = c.number
      /\ b.inLayer = c.inLayer /\ b.parent = c.parent /\ b.members = c.members
      /\ b.smart = [c.smart EXCEPT ![o] = FALSE]
      /\ IsRecord(b)
  <2>1. IsRecord(c)
    BY CanvasIsRecord
  <2> QED BY <2>1 DEF IsRecord, b
<1>5. b \in CanvasType
  <2>1. b.smart \in [Objects -> BOOLEAN]
    BY <1>4, CanvasFields
  <2> QED BY <1>4, <2>1, CanvasFields, CanvasRecord
<1>6. Placed(b, A)
  <2>1. \A m : Of(b, A, m) = Of(c, A, m)
    BY <1>4 DEF Of
  <2> QED BY <1>4, <2>1 DEF Placed, Belongs, Stacked, Grouped, Counted
<1>7. r \in CanvasType /\ Placed(r, B)
  BY <1>1, <1>4, <1>5, <1>6, ReleaseFacts
<1>8. b.inLayer[o] /\ b.layer[o] \in Numbers
  <2>1. b.inLayer[o] /\ b.layer[o] \in Range(b.layers) /\ b.layers \in Seq(Numbers)
    BY <1>1, <1>4, <1>5, <1>6, CanvasFields DEF Placed, Belongs
  <2> QED BY <2>1, RangeFacts
<1>9. r.alive = A /\ r.parent = c.parent /\ r.layer = [c.layer EXCEPT ![o] = NoLayer]
  <2>1. r.alive = b.alive /\ r.parent = b.parent /\ r.layer = [b.layer EXCEPT ![o] = NoLayer]
    <3>1. /\ Release(b, o, TRUE).alive = b.alive /\ Release(b, o, TRUE).parent = b.parent
          /\ Release(b, o, TRUE).layer = [b.layer EXCEPT ![o] = NoLayer]
      BY <1>1, <1>5, <1>8, ReleaseEffect
    <3>2. /\ Release(b, o, FALSE).alive = b.alive /\ Release(b, o, FALSE).parent = b.parent
          /\ Release(b, o, FALSE).layer = [b.layer EXCEPT ![o] = NoLayer]
      BY <1>1, <1>5, <1>8, ReleaseEffect
    <3>3. clean = TRUE \/ clean = FALSE
      OBVIOUS
    <3> QED BY <3>1, <3>2, <3>3
  <2> QED BY <1>4, <2>1
<1> HIDE DEF r, d, A, B
<1>10. /\ d.alive = B /\ d.layers = r.layers /\ d.objects = r.objects
       /\ d.usage = r.usage /\ d.layer = r.layer /\ d.number = r.number
       /\ d.inLayer = r.inLayer /\ d.parent = r.parent /\ d.members = r.members
       /\ d.smart = r.smart
       /\ IsRecord(d)
  <2>1. IsRecord(r)
    BY <1>7, CanvasIsRecord
  <2> QED BY <1>9, <2>1 DEF IsRecord, d, B
<1>11. d \in CanvasType
  <2>1. d.alive \in SUBSET Objects
    BY <1>1, <1>10 DEF B
  <2> QED BY <1>7, <1>10, <2>1, CanvasFields, CanvasRecord
<1>12. Placed(d, B)
  <2>1. \A p \in B : c.parent[p] # o
    <3>1. Range(c.members[o]) = {p \in A : c.parent[p] = o}
      BY <1>1 DEF Placed, Grouped, A
    <3>2. Range(c.members[o]) = {}
      BY <1>1 DEF Range
    <3> QED BY <3>1, <3>2 DEF B
  <2>2. Belongs(d, B)
    <3>1. ASSUME NEW p \in B
          PROVE  /\ d.layer[p] \in Range(d.layers)
                 /\ d.inLayer[p] <=> d.parent[p] = NoObject
                 /\ d.parent[p] \in d.alive \union {NoObject}
      <4>1. /\ r.layer[p] \in Range(r.layers)
            /\ r.inLayer[p] <=> r.parent[p] = NoObject
            /\ r.parent[p] \in r.alive \union {NoObject}
        BY <1>7 DEF Placed, Belongs
      <4>2. d.parent[p] \in B \union {NoObject}
        BY <1>9, <1>10, <2>1, <4>1 DEF A, B
      <4> QED BY <1>10, <4>1, <4>2
    <3>2. ASSUME NEW p \in Objects \ B
          PROVE  ~d.inLayer[p] /\ d.parent[p] = NoObject
      BY <1>7, <1>10 DEF Placed, Belongs
    <3> QED BY <3>1, <3>2 DEF Belongs
  <2>3. \A m : Of(d, B, m) = Of(r, B, m)
    BY <1>10 DEF Of
  <2>4. B \subseteq d.alive
    BY <1>10
  <2> QED BY <1>7, <1>10, <2>2, <2>3, <2>4 DEF Placed, Stacked, Grouped, Counted
<1>13. Loosened(c, d) /\ \A p \in B : d.layer[p] = c.layer[p]
  BY <1>1, <1>9, <1>10, CanvasFields DEF Loosened, B
<1> QED BY <1>3, <1>10, <1>11, <1>12, <1>13 DEF A, B

\* The canvas c after the first k objects of the list are freed.
Freed(c, list, k) ==
  {x \in CanvasType :
     /\ Placed(x, x.alive) /\ Loosened(c, x)
     /\ x.alive = {p \in c.alive : \A j \in 1 .. k : list[j] # p}
     /\ \A p \in x.alive : x.layer[p] = c.layer[p]}

\* Objects of the canvas that are no members and have none, no one twice.
Loose(c, list) ==
  /\ list \in Seq(Objects) /\ IsInjective(list)
  /\ \A o \in Range(list) : o \in c.alive /\ Detached(c, o)

\* The loops that free objects: the start, a step, the end.
LEMMA FreedStart ==
  ASSUME NEW c \in CanvasType, Placed(c, c.alive), NEW list
  PROVE  c \in Freed(c, list, 0)
  BY DEF Freed, Loosened

\* The next object of the list is still there, no member and without members.
LEMMA FreedNext ==
  ASSUME NEW c \in CanvasType, Placed(c, c.alive), NEW list, Loose(c, list),
         NEW k \in 1 .. Len(list), NEW x \in Freed(c, list, k - 1)
  PROVE  /\ list[k] \in x.alive /\ Detached(x, list[k])
         /\ x \in CanvasType /\ Placed(x, x.alive)
<1> DEFINE o == list[k]
<1>1. /\ list \in Seq(Objects) /\ Len(list) \in Nat /\ o \in Objects /\ o \in c.alive
      /\ Detached(c, o)
  <2>1. list \in Seq(Objects)
    BY DEF Loose
  <2>2. o \in Range(list) /\ o \in Objects
    BY <2>1, RangeFacts
  <2> QED BY <2>1, <2>2 DEF Loose
<1>2. \A j \in 1 .. k - 1 : list[j] # o
  BY <1>1 DEF Loose, IsInjective
<1>3. /\ x \in CanvasType /\ Placed(x, x.alive) /\ Loosened(c, x)
      /\ x.alive = {p \in c.alive : \A j \in 1 .. k - 1 : list[j] # p}
  BY DEF Freed
<1> HIDE DEF o
<1>4. o \in x.alive
  BY <1>1, <1>2, <1>3
<1>5. Detached(x, o)
  <2>1. x.alive \subseteq c.alive
    BY <1>3
  <2> QED BY <1>1, <1>3, <2>1, LoosenedFacts
<1> QED BY <1>3, <1>4, <1>5 DEF o

\* One turn of the loop that frees the objects of a list.
LEMMA FreedStep ==
  ASSUME NEW c \in CanvasType, Placed(c, c.alive), NEW list, Loose(c, list),
         NEW k \in 1 .. Len(list), NEW x \in Freed(c, list, k - 1), NEW clean \in BOOLEAN
  PROVE  FreeObject(x, list[k], clean) \in Freed(c, list, k)
<1> DEFINE o == list[k]
           y == FreeObject(x, o, clean)
<1>1. list \in Seq(Objects) /\ Len(list) \in Nat
  BY DEF Loose
<1>2. /\ Loosened(c, x)
      /\ x.alive = {p \in c.alive : \A j \in 1 .. k - 1 : list[j] # p}
      /\ \A p \in x.alive : x.layer[p] = c.layer[p]
  BY DEF Freed
<1>3. o \in x.alive /\ Detached(x, o) /\ x \in CanvasType /\ Placed(x, x.alive)
  BY FreedNext
<1> HIDE DEF o
<1>4. /\ y \in CanvasType /\ Placed(y, y.alive) /\ y.alive = x.alive \ {o}
      /\ Loosened(x, y) /\ \A p \in y.alive : y.layer[p] = x.layer[p]
  BY <1>3, FreeFacts
<1> HIDE DEF y
<1>5. Loosened(c, y)
  BY <1>2, <1>4 DEF Loosened
<1>6. y.alive = {p \in c.alive : \A j \in 1 .. k : list[j] # p}
  <2>1. 1 .. k = (1 .. k - 1) \union {k}
    BY <1>1
  <2> QED BY <1>2, <1>4, <2>1 DEF o
<1>7. \A p \in y.alive : y.layer[p] = c.layer[p]
  BY <1>2, <1>4
<1> QED BY <1>4, <1>5, <1>6, <1>7 DEF Freed, y, o

\* After the loop: the objects of the list are gone, and the others are placed.
LEMMA FreedEnd ==
  ASSUME NEW c \in CanvasType, NEW list, Loose(c, list), NEW d \in Freed(c, list, Len(list))
  PROVE  /\ d \in CanvasType /\ Placed(d, d.alive) /\ Loosened(c, d)
         /\ d.alive = c.alive \ Range(list)
         /\ \A p \in d.alive : d.layer[p] = c.layer[p]
<1>1. \A p : p \in Range(list) <=> \E j \in 1 .. Len(list) : list[j] = p
  BY RangeFacts DEF Loose
<1> QED BY <1>1 DEF Freed

\* The objects a render has found.
LEMMA DeletedFacts ==
  ASSUME NEW c \in CanvasType, Placed(c, c.alive), NEW list, Loose(c, list)
  PROVE  Deleted!Loop(c, list) \in Freed(c, list, Len(list))
<1> DEFINE I == [k \in 0 .. Len(list) |-> Freed(c, list, k)]
<1>1. list \in Seq(Objects) /\ Len(list) \in Nat
  BY DEF Loose
<1>2. c \in I[0]
  BY <1>1, FreedStart
<1>3. ASSUME NEW k \in 1 .. Len(list), NEW x \in I[k - 1]
      PROVE  FreeOfRender(x, list[k]) \in I[k]
  <2>1. k - 1 \in 0 .. Len(list) /\ k \in 0 .. Len(list)
    BY <1>1
  <2>2. x \in Freed(c, list, k - 1)
    BY <2>1
  <2> HIDE DEF I
  <2>3. FreeObject(x, list[k], TRUE) \in Freed(c, list, k)
    BY <2>2, FreedStep
  <2> QED BY <2>1, <2>3 DEF FreeOfRender, I
<1>4. I[Len(list)] = Freed(c, list, Len(list))
  BY <1>1
<1> HIDE DEF I
<1> QED BY <1>1, <1>2, <1>3, <1>4, Deleted!LoopKeeps

\* The objects of one layer.
LEMMA OfLayerFacts ==
  ASSUME NEW c \in CanvasType, Placed(c, c.alive), NEW list, Loose(c, list)
  PROVE  OfLayer!Loop(c, list) \in Freed(c, list, Len(list))
<1> DEFINE I == [k \in 0 .. Len(list) |-> Freed(c, list, k)]
<1>1. list \in Seq(Objects) /\ Len(list) \in Nat
  BY DEF Loose
<1>2. c \in I[0]
  BY <1>1, FreedStart
<1>3. ASSUME NEW k \in 1 .. Len(list), NEW x \in I[k - 1]
      PROVE  FreeOfLayer(x, list[k]) \in I[k]
  <2>1. k - 1 \in 0 .. Len(list) /\ k \in 0 .. Len(list)
    BY <1>1
  <2>2. x \in Freed(c, list, k - 1)
    BY <2>1
  <2> HIDE DEF I
  <2>3. FreeObject(x, list[k], FALSE) \in Freed(c, list, k)
    BY <2>2, FreedStep
  <2> QED BY <2>1, <2>3 DEF FreeOfLayer, I
<1>4. I[Len(list)] = Freed(c, list, Len(list))
  BY <1>1
<1> HIDE DEF I
<1> QED BY <1>1, <1>2, <1>3, <1>4, OfLayer!LoopKeeps

\* evas_layer_free_objects, for all layers, once all objects are deleted
LEMMA FreeAllFacts ==
  ASSUME NEW c \in CanvasType, Placed(c, c.alive), \A o \in c.alive : Detached(c, o)
  PROVE  LET d == Layers!Loop(c, c.layers)
         IN  d \in CanvasType /\ Placed(d, {}) /\ d.alive = {} /\ Loosened(c, d)
<1> DEFINE list == c.layers
           d == Layers!Loop(c, list)
           Left(k) == {x \in CanvasType :
                         /\ Placed(x, x.alive) /\ Loosened(c, x) /\ x.alive \subseteq c.alive
                         /\ \A p \in x.alive : /\ x.layer[p] = c.layer[p]
                                              /\ \A j \in 1 .. k : list[j] # c.layer[p]}
           I == [k \in 0 .. Len(list) |-> Left(k)]
<1>1. list \in Seq(Numbers) /\ Len(list) \in Nat
  BY CanvasFields
<1>2. c \in I[0]
  BY <1>1 DEF Loosened
<1>3. ASSUME NEW k \in 1 .. Len(list), NEW x \in I[k - 1]
      PROVE  LayerFreeObjects(x, list[k]) \in I[k]
  <2> DEFINE n == list[k]
             objects == x.objects[n]
             y == OfLayer!Loop(x, objects)
  <2>1. k - 1 \in 0 .. Len(list) /\ k \in 0 .. Len(list) /\ n \in Numbers
    BY <1>1
  <2>2. x \in Left(k - 1)
    BY <2>1
  <2>3. /\ x \in CanvasType /\ Placed(x, x.alive) /\ Loosened(c, x)
        /\ x.alive \subseteq c.alive
    BY <2>2
  <2>4. \A p \in x.alive : /\ x.layer[p] = c.layer[p]
                          /\ \A j \in 1 .. k - 1 : list[j] # c.layer[p]
    BY <2>2
  <2> HIDE DEF I, Left, n
  <2>5. \A o \in x.alive : o \in Objects /\ Detached(x, o)
    BY <2>3, CanvasFields, LoosenedFacts
  <2>6. /\ objects \in Seq(Objects) /\ IsInjective(objects)
        /\ Range(objects) = {p \in x.alive : x.inLayer[p] /\ x.layer[p] = n}
    BY <2>1, <2>3, CanvasFields DEF Placed, Stacked
  <2>7. Range(objects) = {p \in x.alive : x.layer[p] = n}
    <3>1. \A p \in x.alive : x.inLayer[p]
      BY <2>3, <2>5 DEF Placed, Belongs, Detached
    <3> QED BY <2>6, <3>1
  <2> HIDE DEF objects
  <2>8. Loose(x, objects)
    BY <2>5, <2>6, <2>7 DEF Loose
  <2>9. /\ y \in CanvasType /\ Placed(y, y.alive) /\ Loosened(x, y)
        /\ y.alive = x.alive \ Range(objects)
        /\ \A p \in y.alive : y.layer[p] = x.layer[p]
    <3>1. y \in Freed(x, objects, Len(objects))
      BY <2>3, <2>8, OfLayerFacts
    <3> HIDE DEF y
    <3> QED BY <2>3, <2>8, <3>1, FreedEnd
  <2>10. LayerFreeObjects(x, n) = y
    BY DEF LayerFreeObjects, objects
  <2> HIDE DEF y
  <2>11. Loosened(c, y) /\ y.alive \subseteq c.alive
    BY <2>3, <2>9 DEF Loosened
  <2>12. ASSUME NEW p \in y.alive
         PROVE  /\ y.layer[p] = c.layer[p]
                /\ \A j \in 1 .. k : list[j] # c.layer[p]
    <3>1. p \in x.alive /\ x.layer[p] # n
      BY <2>7, <2>9
    <3>2. \A j \in 1 .. k : j = k \/ j \in 1 .. k - 1
      BY <1>1
    <3> QED BY <2>4, <2>9, <3>1, <3>2 DEF n
  <2>13. y \in Left(k)
    BY <2>9, <2>11, <2>12 DEF Left
  <2> QED BY <2>1, <2>10, <2>13 DEF I, n
<1>4. I[Len(list)] = Left(Len(list))
  BY <1>1
<1>5. d \in Left(Len(list))
  <2> HIDE DEF I, Left
  <2> QED BY <1>1, <1>2, <1>3, <1>4, Layers!LoopKeeps
<1> HIDE DEF d
<1>6. /\ d \in CanvasType /\ Placed(d, d.alive) /\ Loosened(c, d) /\ d.alive \subseteq c.alive
      /\ \A p \in d.alive : \A j \in 1 .. Len(list) : list[j] # c.layer[p]
  BY <1>5
<1>7. d.alive = {}
  <2> SUFFICES ASSUME NEW p \in d.alive PROVE FALSE
    OBVIOUS
  <2>1. c.layer[p] \in Range(list)
    BY <1>6 DEF Placed, Belongs
  <2> QED BY <1>1, <1>6, <2>1, RangeFacts
<1> QED BY <1>6, <1>7 DEF d

\* evas_layer_clean
LEMMA CleanFacts ==
  ASSUME NEW c \in CanvasType, Placed(c, {}), c.alive = {}
  PROVE  LET d == LayerClean(c)
         IN  /\ d \in CanvasType /\ Placed(d, d.alive) /\ d.alive = {} /\ d.parent = c.parent
<1> DEFINE d == LayerClean(c)
           gone == Range(c.layers)
<1>1. /\ d.alive = c.alive /\ d.layers = <<>> /\ d.layer = c.layer /\ d.number = c.number
      /\ d.inLayer = c.inLayer /\ d.parent = c.parent /\ d.members = c.members
      /\ d.smart = c.smart
      /\ d.objects = [n \in Numbers |-> IF n \in gone THEN <<>> ELSE c.objects[n]]
      /\ d.usage = [n \in Numbers |-> IF n \in gone THEN 0 ELSE c.usage[n]]
      /\ IsRecord(d)
  <2>1. IsRecord(c)
    BY CanvasIsRecord
  <2> HIDE DEF gone
  <2> QED BY <2>1 DEF LayerClean, IsRecord, gone
<1> HIDE DEF d, gone
<1>2. d \in CanvasType
  <2>1. d.objects \in [Numbers -> Seq(Objects)]
    BY <1>1, CanvasFields
  <2>2. d.usage \in [Numbers -> Int]
    BY <1>1, CanvasFields
  <2>3. d.layers \in Seq(Numbers)
    BY <1>1
  <2> QED BY <1>1, <2>1, <2>2, <2>3, CanvasFields, CanvasRecord
<1>3. Placed(d, {})
  <2>1. Sorted(d.layers)
    BY <1>1 DEF Sorted
  <2>2. Belongs(d, {})
    BY <1>1 DEF Placed, Belongs
  <2>3. Stacked(d, {})
    <3> SUFFICES ASSUME NEW n \in Numbers
                 PROVE  IsInjective(d.objects[n]) /\ Range(d.objects[n]) = {}
      BY DEF Stacked
    <3>1. IsInjective(c.objects[n]) /\ Range(c.objects[n]) = {}
      BY DEF Placed, Stacked
    <3>2. IsInjective(<<>>) /\ Range(<<>>) = {}
      BY DEF IsInjective, Range
    <3> QED BY <1>1, <3>1, <3>2
  <2>4. Grouped(d, {})
    BY <1>1 DEF Placed, Grouped
  <2>5. Counted(d, {})
    <3> SUFFICES ASSUME NEW n \in Numbers
                 PROVE  d.usage[n] >= Cardinality(Of(d, {}, n))
      BY DEF Counted
    <3>1. Of(d, {}, n) = {} /\ Of(c, {}, n) = {} /\ Cardinality({}) = 0
      BY FS_EmptySet DEF Of
    <3>2. c.usage[n] >= 0 /\ c.usage[n] \in Int
      BY <3>1, CanvasFields DEF Placed, Counted
    <3>3. Cardinality(Of(d, {}, n)) = 0
      BY <3>1
    <3>4. d.usage[n] = IF n \in gone THEN 0 ELSE c.usage[n]
      BY <1>1
    <3> QED BY <3>2, <3>3, <3>4
  <2> QED BY <2>1, <2>2, <2>3, <2>4, <2>5 DEF Placed
<1> QED BY <1>1, <1>2, <1>3 DEF d

-----------------------------------------------------------------------------
(***************************************************************************)
(* What a render finds: the objects it looks at are those of the layers,   *)
(* once each, as long as the objects of the lists are not the same ones.   *)
(***************************************************************************)
\* The objects of the first k layers that are to be freed, and at most those of
\* the set S of the next one, no one twice.
Finds(list, k, S) ==
  /\ list \in Seq(Objects) /\ IsInjective(list)
  /\ \A o \in Range(list) :
       /\ deleteMe[o] = 2 /\ o \in canvas.alive
       /\ o \in S \/ \E j \in 1 .. k : canvas.layers[j] = canvas.layer[o]

\* The objects to free that one layer adds to the list, and all layers.
LEMMA FoundFacts ==
  ASSUME TypeOK, Placed(canvas, canvas.alive), NEW k \in 1 .. Len(canvas.layers),
         NEW list, Finds(list, k - 1, {})
  PROVE  Finds(FoundInLayer(list, canvas.layers[k]), k, {})
<1> DEFINE n == canvas.layers[k]
           objects == canvas.objects[n]
           Seen(j) == {objects[i] : i \in 1 .. j}
           I == [j \in 0 .. Len(objects) |-> {l \in Seq(Objects) : Finds(l, k - 1, Seen(j))}]
<1>1. canvas \in CanvasType /\ canvas.layers \in Seq(Numbers)
  BY CanvasFields DEF TypeOK
<1>2. n \in Numbers /\ Len(canvas.layers) \in Nat /\ Sorted(canvas.layers)
  BY <1>1 DEF Placed
<1>3. /\ objects \in Seq(Objects) /\ IsInjective(objects) /\ Len(objects) \in Nat
      /\ Range(objects) = {p \in canvas.alive : canvas.inLayer[p] /\ canvas.layer[p] = n}
  BY <1>1, <1>2, CanvasFields DEF Placed, Stacked
<1>4. \A i \in 1 .. Len(objects) : /\ objects[i] \in canvas.alive /\ objects[i] \in Objects
                                  /\ canvas.layer[objects[i]] = n
  BY <1>3, RangeFacts
<1>5. \A i \in 1 .. k - 1 : canvas.layers[i] # n
  BY <1>1, <1>2, SortedFacts DEF IsInjective
<1> HIDE DEF n, objects
<1>6. list \in I[0]
  <2>1. Seen(0) = {} /\ 0 \in 0 .. Len(objects)
    BY <1>3
  <2> QED BY <2>1 DEF Finds
<1>7. ASSUME NEW j \in 1 .. Len(objects), NEW l \in I[j - 1]
      PROVE  Found(l, objects[j]) \in I[j]
  <2> DEFINE o == objects[j]
  <2>1. j - 1 \in 0 .. Len(objects) /\ j \in 0 .. Len(objects)
    BY <1>3
  <2>2. Finds(l, k - 1, Seen(j - 1))
    BY <2>1
  <2>3. Seen(j) = Seen(j - 1) \union {o}
    BY <1>3
  <2>4. o \notin Seen(j - 1)
    BY <1>3 DEF IsInjective
  <2>5. o \in canvas.alive /\ o \in Objects /\ canvas.layer[o] = n
    BY <1>4
  <2> HIDE DEF I, Seen, o
  <2>6. o \notin Range(l)
    BY <1>5, <2>2, <2>4, <2>5 DEF Finds
  <2>7. CASE deleteMe[o] = 2
    <3>1. Found(l, o) = Append(l, o)
      BY <2>7 DEF Found
    <3>2. l \in Seq(Objects) /\ IsInjective(l)
      BY <2>2 DEF Finds
    <3>3. Append(l, o) \in Seq(Objects) /\ Range(Append(l, o)) = Range(l) \union {o}
      BY <2>5, <3>2, AppendFacts
    <3>4. IsInjective(Append(l, o))
      BY <2>5, <2>6, <3>2, EndsInjective
    <3> DEFINE m == Append(l, o)
    <3> HIDE DEF m
    <3>5. m \in Seq(Objects) /\ IsInjective(m) /\ Range(m) = Range(l) \union {o}
      BY <3>3, <3>4 DEF m
    <3>6. Finds(m, k - 1, Seen(j))
      BY <2>2, <2>3, <2>5, <2>7, <3>5 DEF Finds
    <3> QED BY <2>1, <3>1, <3>5, <3>6 DEF I, m, o
  <2>8. CASE deleteMe[o] # 2
    <3>1. Found(l, o) = l
      BY <2>8 DEF Found
    <3>2. Finds(l, k - 1, Seen(j))
      BY <2>2, <2>3 DEF Finds
    <3>3. l \in Seq(Objects)
      BY <2>2 DEF Finds
    <3> QED BY <2>1, <3>1, <3>2, <3>3 DEF I, o
  <2> QED BY <2>7, <2>8
<1> DEFINE r == InLayer!Loop(list, objects)
<1>8. I[Len(objects)] = {l \in Seq(Objects) : Finds(l, k - 1, Seen(Len(objects)))}
  BY <1>3
<1>9. r \in I[Len(objects)]
  <2> HIDE DEF I, Seen
  <2> QED BY <1>3, <1>6, <1>7, InLayer!LoopKeeps
<1> HIDE DEF r
<1>10. Finds(r, k - 1, Seen(Len(objects)))
  BY <1>8, <1>9
<1>11. \A p \in Seen(Len(objects)) : canvas.layer[p] = n
  BY <1>4
<1>12. k \in 1 .. k /\ \A j \in 1 .. k - 1 : j \in 1 .. k
  BY <1>2
<1> HIDE DEF Seen
<1>13. Finds(r, k, {})
  BY <1>10, <1>11, <1>12 DEF Finds, n
<1>14. FoundInLayer(list, n) = r
  BY DEF FoundInLayer, r, objects
<1> QED BY <1>13, <1>14 DEF n

\* The objects a render finds for deletion are in no list twice, and marked.
LEMMA FoundAllFacts ==
  ASSUME TypeOK, Placed(canvas, canvas.alive)
  PROVE  LET list == InLayers!Loop(<<>>, canvas.layers)
         IN  /\ list \in Seq(Objects) /\ IsInjective(list)
             /\ \A o \in Range(list) : deleteMe[o] = 2 /\ o \in canvas.alive
<1> DEFINE layers == canvas.layers
           list == InLayers!Loop(<<>>, layers)
           I == [k \in 0 .. Len(layers) |-> {l \in Seq(Objects) : Finds(l, k, {})}]
<1>1. layers \in Seq(Numbers) /\ Len(layers) \in Nat
  BY CanvasFields DEF TypeOK
<1>2. <<>> \in I[0]
  <2>1. <<>> \in Seq(Objects) /\ 0 \in 0 .. Len(layers)
    BY <1>1
  <2>2. Finds(<<>>, 0, {})
    BY <2>1 DEF Finds, IsInjective, Range
  <2> QED BY <2>1, <2>2
<1>3. ASSUME NEW k \in 1 .. Len(layers), NEW l \in I[k - 1]
      PROVE  FoundInLayer(l, layers[k]) \in I[k]
  <2>1. k - 1 \in 0 .. Len(layers) /\ k \in 0 .. Len(layers)
    BY <1>1
  <2>2. Finds(l, k - 1, {})
    BY <2>1
  <2> HIDE DEF I
  <2>3. Finds(FoundInLayer(l, layers[k]), k, {})
    BY <2>2, FoundFacts
  <2> QED BY <2>1, <2>3 DEF I, Finds
<1>4. I[Len(layers)] = {l \in Seq(Objects) : Finds(l, Len(layers), {})}
  BY <1>1
<1>5. list \in I[Len(layers)]
  <2> HIDE DEF I
  <2> QED BY <1>1, <1>2, <1>3, InLayers!LoopKeeps
<1> HIDE DEF list
<1>6. Finds(list, Len(layers), {})
  BY <1>4, <1>5
<1> QED BY <1>6 DEF Finds, list

-----------------------------------------------------------------------------
(***************************************************************************)
(* Every step keeps the invariant.                                         *)
(***************************************************************************)
LEMMA InitIInv ==
  ASSUME Init PROVE IInv
<1>1. TypeOK
  <2>1. canvas \in CanvasType
    BY LayersAssumption DEF Init, CanvasType, LayersAssumption
  <2>2. /\ deleteMe \in [Objects -> 0 .. 2] /\ ref \in [Objects -> 0 .. MaxRef]
        /\ delRef \in [Objects -> BOOLEAN]
    BY LayersAssumption DEF Init, LayersAssumption
  <2>3. /\ calls \in Seq([object : Objects, at : {"del", "class", "free"}])
        /\ deleteObjects \in Seq(Objects)
    BY DEF Init
  <2> QED BY <2>1, <2>2, <2>3 DEF Init, TypeOK
<1>2. Placed(canvas, canvas.alive)
  <2>1. /\ canvas.alive = {} /\ canvas.layers = <<>>
        /\ canvas.objects = [n \in Numbers |-> <<>>] /\ canvas.usage = [n \in Numbers |-> 0]
        /\ canvas.inLayer = [o \in Objects |-> FALSE]
        /\ canvas.parent = [o \in Objects |-> NoObject]
        /\ canvas.members = [o \in Objects |-> <<>>]
    BY DEF Init
  <2>2. IsInjective(<<>>) /\ Range(<<>>) = {}
    BY DEF IsInjective, Range
  <2>3. Sorted(canvas.layers)
    BY <2>1 DEF Sorted
  <2>4. Belongs(canvas, {})
    BY <2>1 DEF Belongs
  <2>5. Stacked(canvas, {})
    BY <2>1, <2>2 DEF Stacked
  <2>6. Grouped(canvas, {})
    BY <2>1, <2>2 DEF Grouped
  <2>7. Counted(canvas, {})
    <3>1. \A n \in Numbers : Of(canvas, {}, n) = {} /\ canvas.usage[n] = 0
      BY <2>1 DEF Of
    <3>2. Cardinality({}) = 0
      BY FS_EmptySet
    <3> QED BY <3>1, <3>2 DEF Counted
  <2> QED BY <2>1, <2>3, <2>4, <2>5, <2>6, <2>7 DEF Placed
<1>3. Rooted(canvas)
  BY LayersAssumption DEF Init, Rooted, LayersAssumption
<1>4. DeletedDetached /\ CallsUsable
  BY DEF Init, DeletedDetached, CallsUsable
<1>5. FoundUsable
  BY DEF Init, FoundUsable, IsInjective, Range
<1> QED BY <1>1, <1>2, <1>3, <1>4, <1>5 DEF IInv, Init

\* A step that changes no list of the canvas.
LEMMA SameCanvas ==
  ASSUME IInv, TypeOK', UNCHANGED canvas,
         DeletedDetached', CallsUsable', FoundUsable', (stage # "used" => ~rendering)'
  PROVE  IInv'
  BY DEF IInv

\* A step that moves objects between the lists, and makes none a member.
LEMMA OtherLists ==
  ASSUME IInv, canvas' \in CanvasType, Placed(canvas', canvas'.alive),
         canvas'.alive = canvas.alive, Loosened(canvas, canvas')
  PROVE  /\ Rooted(canvas')
         /\ \A o \in Objects : Detached(canvas, o) => Detached(canvas', o)
  BY LoosenedFacts DEF IInv, TypeOK

\* An object is created.
LEMMA NewIInv ==
  ASSUME IInv, NEW o \in Objects, New(o) PROVE IInv'
<1> DEFINE c == [canvas EXCEPT !.alive = @ \union {o}, !.number[o] = 0, !.smart[o] = o \in Smarts]
           A == canvas.alive
<1>1. canvas' = Inject(c, o) /\ o \notin A
  BY DEF New
<1>2. canvas \in CanvasType /\ Placed(canvas, A)
  BY DEF IInv, TypeOK
<1>3. /\ c.alive = A \union {o} /\ c.layers = canvas.layers /\ c.objects = canvas.objects
      /\ c.usage = canvas.usage /\ c.layer = canvas.layer
      /\ c.number = [canvas.number EXCEPT ![o] = 0]
      /\ c.inLayer = canvas.inLayer /\ c.parent = canvas.parent /\ c.members = canvas.members
      /\ c.smart = [canvas.smart EXCEPT ![o] = o \in Smarts]
      /\ IsRecord(c)
  <2>1. IsRecord(canvas)
    BY <1>2, CanvasIsRecord
  <2> QED BY <2>1 DEF IsRecord
<1> HIDE DEF c
<1>4. c \in CanvasType
  <2>1. c.alive \in SUBSET Objects
    BY <1>2, <1>3, CanvasFields
  <2>2. c.number \in [Objects -> Numbers]
    BY <1>2, <1>3, CanvasFields, LayersAssumption DEF LayersAssumption
  <2>3. c.smart \in [Objects -> BOOLEAN]
    BY <1>2, <1>3, CanvasFields
  <2> QED BY <1>2, <1>3, <2>1, <2>2, <2>3, CanvasFields, CanvasRecord
<1>5. Placed(c, A)
  <2>1. \A m : Of(c, A, m) = Of(canvas, A, m)
    BY <1>3 DEF Of
  <2>2. A \subseteq c.alive
    BY <1>3
  <2>3. Belongs(c, A)
    <3>1. ASSUME NEW p \in A
          PROVE  /\ c.layer[p] \in Range(c.layers)
                 /\ c.inLayer[p] <=> c.parent[p] = NoObject
                 /\ c.parent[p] \in c.alive \union {NoObject}
      BY <1>2, <1>3 DEF Placed, Belongs
    <3>2. ASSUME NEW p \in Objects \ A
          PROVE  ~c.inLayer[p] /\ c.parent[p] = NoObject
      BY <1>2, <1>3 DEF Placed, Belongs
    <3> QED BY <3>1, <3>2 DEF Belongs
  <2> QED BY <1>2, <1>3, <2>1, <2>2, <2>3 DEF Placed, Stacked, Grouped, Counted
<1>6. A \in SUBSET Objects /\ o \in c.alive /\ ~c.inLayer[o]
  BY <1>1, <1>2, <1>3, CanvasFields DEF Placed, Belongs
<1> DEFINE d == Inject(c, o)
<1>7. d \in CanvasType /\ Placed(d, A \union {o})
  BY <1>1, <1>4, <1>5, <1>6, InjectFacts
<1>8. d.alive = c.alive /\ d.parent = c.parent /\ d.members = c.members
  BY <1>4, <1>6, InjectEffect
<1> HIDE DEF d
<1>9. /\ canvas' \in CanvasType /\ Placed(canvas', canvas'.alive)
      /\ canvas'.alive = A \union {o} /\ canvas'.parent = canvas.parent
      /\ canvas'.members = canvas.members
  BY <1>1, <1>3, <1>7, <1>8 DEF d
<1>10. TypeOK'
  <2>1. deleteMe' \in [Objects -> 0 .. 2] /\ delRef' \in [Objects -> BOOLEAN]
    BY DEF New, IInv, TypeOK
  <2>2. ref' \in [Objects -> 0 .. MaxRef]
    BY LayersAssumption DEF New, IInv, TypeOK, LayersAssumption
  <2> QED BY <1>9, <2>1, <2>2 DEF New, IInv, TypeOK
<1>11. Rooted(canvas')
  BY <1>9 DEF IInv, Rooted
<1>12. DeletedDetached'
  BY <1>9 DEF New, IInv, TypeOK, DeletedDetached, Detached
<1>13. CallsUsable'
  BY <1>9 DEF New, IInv, CallsUsable
<1>14. FoundUsable'
  BY <1>1, <1>9 DEF New, IInv, TypeOK, FoundUsable
<1> QED BY <1>9, <1>10, <1>11, <1>12, <1>13, <1>14 DEF New, IInv

\* The list an object is in has it.
LEMMA ListOfFacts ==
  ASSUME IInv, NEW o \in canvas.alive
  PROVE  /\ ListOf(o) \in Seq(Objects) /\ IsInjective(ListOf(o)) /\ o \in Range(ListOf(o))
         /\ canvas.parent[o] # NoObject => canvas.parent[o] \in Objects
         /\ canvas.parent[o] = NoObject => canvas.layer[o] \in Numbers
         /\ \A p \in canvas.alive :
              canvas.parent[p] = canvas.parent[o]
              /\ (canvas.parent[o] = NoObject => canvas.layer[p] = canvas.layer[o])
              => p \in Range(ListOf(o))
<1> DEFINE A == canvas.alive
<1>1. /\ canvas \in CanvasType /\ A \in SUBSET Objects /\ o \in Objects
      /\ Belongs(canvas, A) /\ Stacked(canvas, A) /\ Grouped(canvas, A)
  BY CanvasFields DEF IInv, TypeOK, Placed
<1>2. CASE canvas.parent[o] # NoObject
  <2>1. canvas.parent[o] \in Objects
    BY <1>1, <1>2, CanvasFields
  <2>2. ListOf(o) = canvas.members[canvas.parent[o]]
    BY <1>2 DEF ListOf
  <2> QED BY <1>1, <1>2, <2>1, <2>2, CanvasFields DEF Grouped
<1>3. CASE canvas.parent[o] = NoObject
  <2>1. ListOf(o) = canvas.objects[canvas.layer[o]]
    BY <1>3 DEF ListOf
  <2>2. canvas.layer[o] \in Range(canvas.layers) /\ canvas.layers \in Seq(Numbers)
    BY <1>1, CanvasFields DEF Belongs
  <2>3. canvas.layer[o] \in Numbers
    BY <2>2, RangeFacts
  <2>4. \A p \in A : canvas.parent[p] = NoObject => canvas.inLayer[p]
    BY <1>1 DEF Belongs
  <2> QED BY <1>1, <1>3, <2>1, <2>3, <2>4, CanvasFields DEF Stacked
<1> QED BY <1>2, <1>3

\* The objects of one list in another order.
LEMMA RestackIInv ==
  ASSUME IInv, NEW o \in canvas.alive,
         NEW list \in Seq(Objects), IsInjective(list), Range(list) = Range(ListOf(o)),
         Restack(o, list)
  PROVE  IInv'
<1> DEFINE A == canvas.alive
           s == canvas.parent[o]
           n == canvas.layer[o]
<1>1. /\ canvas \in CanvasType /\ A \in SUBSET Objects /\ o \in Objects /\ Placed(canvas, A)
  BY CanvasFields DEF IInv, TypeOK
<1>2. (s # NoObject => s \in Objects) /\ (s = NoObject => n \in Numbers)
  BY ListOfFacts
<1>3. ListOf(o) = IF s # NoObject THEN canvas.members[s] ELSE canvas.objects[n]
  BY DEF ListOf
<1>4. canvas' = IF s # NoObject THEN [canvas EXCEPT !.members[s] = list]
                                ELSE [canvas EXCEPT !.objects[n] = list]
  BY DEF Restack
<1> HIDE DEF s, n
<1>5. /\ canvas'.alive = A /\ canvas'.layers = canvas.layers /\ canvas'.usage = canvas.usage
      /\ canvas'.layer = canvas.layer /\ canvas'.number = canvas.number
      /\ canvas'.inLayer = canvas.inLayer /\ canvas'.parent = canvas.parent
      /\ canvas'.smart = canvas.smart
      /\ canvas'.members = IF s # NoObject THEN [canvas.members EXCEPT ![s] = list]
                                          ELSE canvas.members
      /\ canvas'.objects = IF s # NoObject THEN canvas.objects
                                          ELSE [canvas.objects EXCEPT ![n] = list]
      /\ IsRecord(canvas')
  <2>1. IsRecord(canvas)
    BY <1>1, CanvasIsRecord
  <2>2. CASE s # NoObject
    BY <1>4, <2>1, <2>2 DEF IsRecord
  <2>3. CASE s = NoObject
    BY <1>4, <2>1, <2>3 DEF IsRecord
  <2> QED BY <2>2, <2>3
<1>6. canvas' \in CanvasType
  <2>1. canvas'.members \in [Objects -> Seq(Objects)]
    BY <1>1, <1>2, <1>5, CanvasFields
  <2>2. canvas'.objects \in [Numbers -> Seq(Objects)]
    BY <1>1, <1>2, <1>5, CanvasFields
  <2> QED BY <1>1, <1>5, <2>1, <2>2, CanvasFields, CanvasRecord
<1>7. Placed(canvas', A)
  <2>1. \A m : Of(canvas', A, m) = Of(canvas, A, m)
    BY <1>5 DEF Of
  <2>2. Stacked(canvas', A)
    <3> SUFFICES ASSUME NEW m \in Numbers
                 PROVE  /\ IsInjective(canvas'.objects[m])
                        /\ Range(canvas'.objects[m]) =
                             {p \in A : canvas'.inLayer[p] /\ canvas'.layer[p] = m}
      BY DEF Stacked
    <3>1. /\ IsInjective(canvas.objects[m])
          /\ Range(canvas.objects[m]) = {p \in A : canvas.inLayer[p] /\ canvas.layer[p] = m}
      BY <1>1 DEF Placed, Stacked
    <3>2. canvas'.objects[m] = canvas.objects[m]
          \/ (canvas'.objects[m] = list /\ Range(list) = Range(canvas.objects[m]))
      <4>1. CASE s = NoObject /\ m = n
        <5>1. canvas'.objects[m] = list
          BY <1>1, <1>5, <4>1, CanvasFields
        <5> QED BY <1>3, <4>1, <5>1
      <4>2. CASE s # NoObject
        BY <1>5, <4>2
      <4>3. CASE s = NoObject /\ m # n
        <5>1. canvas'.objects = [canvas.objects EXCEPT ![n] = list]
          BY <1>5, <4>3
        <5>2. canvas.objects \in [Numbers -> Seq(Objects)]
          BY <1>1, CanvasFields
        <5> QED BY <4>3, <5>1, <5>2
      <4> QED BY <4>1, <4>2, <4>3
    <3> QED BY <1>5, <3>1, <3>2
  <2>3. Grouped(canvas', A)
    <3> SUFFICES ASSUME NEW t \in Objects
                 PROVE  /\ IsInjective(canvas'.members[t])
                        /\ Range(canvas'.members[t]) = {p \in A : canvas'.parent[p] = t}
      BY DEF Grouped
    <3>1. /\ IsInjective(canvas.members[t])
          /\ Range(canvas.members[t]) = {p \in A : canvas.parent[p] = t}
      BY <1>1 DEF Placed, Grouped
    <3>2. canvas'.members[t] = canvas.members[t]
          \/ (canvas'.members[t] = list /\ Range(list) = Range(canvas.members[t]))
      <4>1. CASE s # NoObject /\ t = s
        <5>1. canvas'.members[t] = list
          BY <1>1, <1>5, <4>1, CanvasFields
        <5> QED BY <1>3, <4>1, <5>1
      <4>2. CASE s = NoObject
        BY <1>5, <4>2
      <4>3. CASE s # NoObject /\ t # s
        <5>1. canvas'.members = [canvas.members EXCEPT ![s] = list]
          BY <1>5, <4>3
        <5>2. canvas.members \in [Objects -> Seq(Objects)]
          BY <1>1, CanvasFields
        <5> QED BY <4>3, <5>1, <5>2
      <4> QED BY <4>1, <4>2, <4>3
    <3> QED BY <1>5, <3>1, <3>2
  <2>4. Belongs(canvas', A)
    <3>1. ASSUME NEW p \in A
          PROVE  /\ canvas'.layer[p] \in Range(canvas'.layers)
                 /\ canvas'.inLayer[p] <=> canvas'.parent[p] = NoObject
                 /\ canvas'.parent[p] \in canvas'.alive \union {NoObject}
      BY <1>1, <1>5 DEF Placed, Belongs
    <3>2. ASSUME NEW p \in Objects \ A
          PROVE  ~canvas'.inLayer[p] /\ canvas'.parent[p] = NoObject
      BY <1>1, <1>5 DEF Placed, Belongs
    <3> QED BY <3>1, <3>2 DEF Belongs
  <2> QED BY <1>1, <1>5, <2>1, <2>2, <2>3, <2>4 DEF Placed, Counted
<1>8. Placed(canvas', canvas'.alive) /\ canvas'.alive = canvas.alive /\ Loosened(canvas, canvas')
  BY <1>5, <1>7 DEF Loosened
<1> HIDE DEF A
<1>9. Rooted(canvas') /\ \A p \in Objects : Detached(canvas, p) => Detached(canvas', p)
  BY <1>6, <1>8, OtherLists
<1>10. /\ deleteObjects' \in {deleteObjects, <<>>}
       /\ UNCHANGED <<deleteMe, ref, delRef, calls, rendering, stage>>
  BY DEF Restack
<1>11. TypeOK'
  <2>1. deleteObjects' \in Seq(Objects)
    <3>1. deleteObjects \in Seq(Objects)
      BY DEF IInv, TypeOK
    <3>2. <<>> \in Seq(Objects)
      OBVIOUS
    <3> QED BY <1>10, <3>1, <3>2
  <2> QED BY <1>6, <1>10, <2>1 DEF IInv, TypeOK
<1>12. DeletedDetached' /\ CallsUsable'
  BY <1>8, <1>9, <1>10 DEF IInv, DeletedDetached, CallsUsable
<1>13. FoundUsable'
  <2>1. IsInjective(<<>>) /\ Range(<<>>) = {}
    BY DEF IsInjective, Range
  <2> QED BY <1>8, <1>10, <2>1 DEF IInv, FoundUsable
<1> QED BY <1>8, <1>9, <1>10, <1>11, <1>12, <1>13 DEF IInv

\* An object is raised, lowered, stacked above or below another.
LEMMA StackIInv ==
  ASSUME IInv, NEW o \in Objects, Moves(o) PROVE IInv'
<1> DEFINE old == ListOf(o)
           rest == RemoveFirst(old, o)
<1>1. o \in canvas.alive
  BY DEF Moves, Raise, Lower, StackAbove, StackBelow, SameList
<1>2. old \in Seq(Objects) /\ IsInjective(old) /\ o \in Range(old)
  BY <1>1, ListOfFacts
<1>3. rest \in Seq(Objects) /\ IsInjective(rest) /\ Range(rest) = Range(old) \ {o}
  <2> HIDE DEF old
  <2> QED BY <1>2, RemoveFirstFacts
<1>4. Range(rest) \union {o} = Range(old) /\ o \notin Range(rest)
  BY <1>2, <1>3
<1>5. CASE Raise(o)
  <2> DEFINE list == Append(rest, o)
  <2> HIDE DEF rest, old
  <2>1. list \in Seq(Objects) /\ Range(list) = Range(old)
    <3>1. list \in Seq(Objects) /\ Range(list) = Range(rest) \union {o}
      BY <1>3, AppendFacts
    <3> HIDE DEF list
    <3> QED BY <1>4, <3>1
  <2>2. IsInjective(list)
    BY <1>3, <1>4, EndsInjective
  <2>3. Restack(o, list)
    BY <1>5 DEF Raise, rest, old
  <2> HIDE DEF list
  <2> QED BY <1>1, <2>1, <2>2, <2>3, RestackIInv DEF old
<1>6. CASE Lower(o)
  <2> DEFINE list == <<o>> \o rest
  <2> HIDE DEF rest, old
  <2>1. list \in Seq(Objects) /\ Range(list) = Range(old) /\ IsInjective(list)
    <3>1. rest \in Seq(Objects) /\ IsInjective(rest) /\ o \notin Range(rest)
      BY <1>3, <1>4
    <3>2. list \in Seq(Objects) /\ Range(list) = Range(rest) \union {o} /\ IsInjective(list)
      BY <3>1, EndsInjective
    <3> HIDE DEF list
    <3> QED BY <1>4, <3>2
  <2>2. Restack(o, list)
    BY <1>6 DEF Lower, rest, old
  <2> HIDE DEF list
  <2> QED BY <1>1, <2>1, <2>2, RestackIInv DEF old
<1>7. ASSUME NEW other \in Objects, StackAbove(o, other) \/ StackBelow(o, other)
      PROVE  IInv'
  <2> DEFINE at == Position(rest, other)
             above == InsertAt(rest, at + 1, o)
             below == InsertAt(rest, at, o)
  <2>1. other \in Range(rest)
    <3>1. /\ other \in canvas.alive /\ other # o /\ canvas.parent[other] = canvas.parent[o]
          /\ canvas.parent[o] = NoObject => canvas.layer[other] = canvas.layer[o]
      BY <1>7 DEF StackAbove, StackBelow, SameList
    <3>2. other \in Range(old)
      BY <1>1, <3>1, ListOfFacts
    <3> QED BY <1>3, <3>1, <3>2
  <2> HIDE DEF rest, old
  <2>2. at \in 1 .. Len(rest)
    <3>1. \E i \in DOMAIN rest : rest[i] = other
      BY <1>3, <2>1, RangeFacts
    <3>2. at \in DOMAIN rest
      BY <3>1 DEF Position
    <3> QED BY <1>3, <3>2
  <2>3. (StackAbove(o, other) => Restack(o, above)) /\ (StackBelow(o, other) => Restack(o, below))
    BY DEF StackAbove, StackBelow, rest, old
  <2> HIDE DEF at
  <2>4. at \in 1 .. Len(rest) + 1 /\ at + 1 \in 1 .. Len(rest) + 1
    BY <1>3, <2>2
  <2>5. above \in Seq(Objects) /\ Range(above) = Range(old) /\ IsInjective(above)
    <3>1. rest \in Seq(Objects) /\ IsInjective(rest) /\ o \notin Range(rest)
      BY <1>3, <1>4
    <3>2. at + 1 \in 1 .. Len(rest) + 1
      BY <2>4
    <3>3. /\ above \in Seq(Objects) /\ Range(above) = Range(rest) \union {o}
          /\ IsInjective(above)
      BY <3>1, <3>2, InsertFacts
    <3> HIDE DEF above
    <3> QED BY <1>4, <3>3
  <2>6. below \in Seq(Objects) /\ Range(below) = Range(old) /\ IsInjective(below)
    <3>1. rest \in Seq(Objects) /\ IsInjective(rest) /\ o \notin Range(rest)
      BY <1>3, <1>4
    <3>2. at \in 1 .. Len(rest) + 1
      BY <2>4
    <3>3. /\ below \in Seq(Objects) /\ Range(below) = Range(rest) \union {o}
          /\ IsInjective(below)
      BY <3>1, <3>2, InsertFacts
    <3> HIDE DEF below
    <3> QED BY <1>4, <3>3
  <2> HIDE DEF above, below
  <2>7. Restack(o, above) => IInv'
    BY <1>1, <2>5, RestackIInv DEF old
  <2>8. Restack(o, below) => IInv'
    BY <1>1, <2>6, RestackIInv DEF old
  <2> QED BY <1>7, <2>3, <2>7, <2>8
<1> QED BY <1>5, <1>6, <1>7 DEF Moves

\* Steps that loosen objects, and delete at most the one that is detached.
LEMMA LoosenIInv ==
  ASSUME IInv, canvas' \in CanvasType, Placed(canvas', canvas'.alive),
         canvas'.alive = canvas.alive, Loosened(canvas, canvas'),
         NEW o \in Objects, deleteMe' \in {deleteMe, [deleteMe EXCEPT ![o] = 1]},
         deleteMe' # deleteMe => Detached(canvas', o),
         calls' \in Seq([object : Objects, at : {"del", "class", "free"}]), CallsUsable',
         UNCHANGED <<ref, delRef, rendering, deleteObjects, stage>>
  PROVE  IInv'
<1>1. Rooted(canvas') /\ \A p \in Objects : Detached(canvas, p) => Detached(canvas', p)
  BY OtherLists
<1>2. ASSUME NEW p \in Objects
      PROVE  deleteMe'[p] = deleteMe[p]
             \/ (p = o /\ deleteMe'[p] = 1 /\ Detached(canvas', p))
  <2>1. deleteMe \in [Objects -> 0 .. 2]
    BY DEF IInv, TypeOK
  <2>2. CASE deleteMe' = deleteMe
    BY <2>2
  <2>3. CASE deleteMe' = [deleteMe EXCEPT ![o] = 1] /\ p # o
    BY <2>1, <2>3
  <2>4. CASE deleteMe' = [deleteMe EXCEPT ![o] = 1] /\ deleteMe' # deleteMe /\ p = o
    <3>1. deleteMe'[o] = 1
      BY <2>1, <2>4
    <3> QED BY <2>4, <3>1
  <2> DEFINE marked == [deleteMe EXCEPT ![o] = 1]
  <2>5. deleteMe' = deleteMe \/ deleteMe' = marked
    OBVIOUS
  <2> HIDE DEF marked
  <2>6. CASE deleteMe' = marked /\ deleteMe' # deleteMe
    <3>1. CASE p # o
      BY <2>3, <2>6, <3>1 DEF marked
    <3>2. CASE p = o
      BY <2>4, <2>6, <3>2 DEF marked
    <3> QED BY <3>1, <3>2
  <2> QED BY <2>2, <2>5, <2>6
<1>3. deleteMe' \in [Objects -> 0 .. 2]
  <2>1. deleteMe \in [Objects -> 0 .. 2]
    BY DEF IInv, TypeOK
  <2>2. [deleteMe EXCEPT ![o] = 1] \in [Objects -> 0 .. 2]
    BY <2>1
  <2> QED BY <2>1, <2>2
<1>4. TypeOK'
  BY <1>3 DEF IInv, TypeOK
<1>5. DeletedDetached'
  BY <1>1, <1>2 DEF IInv, DeletedDetached
<1>6. FoundUsable'
  <2>1. \A p \in Range(deleteObjects) : p \in Objects
    BY RangeFacts DEF IInv, TypeOK
  <2> QED BY <1>2, <2>1 DEF IInv, FoundUsable
<1> QED BY <1>1, <1>4, <1>5, <1>6 DEF IInv

\* The steps of evas_object_del that follow its callbacks.
LEMMA ReturnIInv ==
  ASSUME IInv, Return PROVE IInv'
<1> DEFINE o == Top.object
           T == [object : Objects, at : {"del", "class", "free"}]
<1>1. calls # <<>> /\ calls \in Seq(T)
  BY DEF Return, AfterDelCallbacks, AfterClassDel, AfterFreeCallbacks, IInv, TypeOK
<1>2. Len(calls) \in Nat /\ Len(calls) \in 1 .. Len(calls) /\ DOMAIN calls = 1 .. Len(calls)
  BY <1>1
<1>3. /\ canvas \in CanvasType /\ Placed(canvas, canvas.alive) /\ o \in canvas.alive
      /\ canvas.alive \in SUBSET Objects
  BY <1>2, CanvasFields DEF IInv, TypeOK, CallsUsable, Top
<1>4. ASSUME NEW at \in {"del", "class", "free"},
             calls' = [calls EXCEPT ![Len(calls)].at = at], canvas'.alive = canvas.alive
      PROVE  calls' \in Seq(T) /\ CallsUsable'
  <2>1. \A i \in 1 .. Len(calls) : calls[i] \in T
    <3> HIDE DEF T
    <3> QED BY <1>1
  <2>2. calls' = [calls EXCEPT ![Len(calls)] = [calls[Len(calls)] EXCEPT !.at = at]]
    BY <1>4
  <2> DEFINE e == [calls[Len(calls)] EXCEPT !.at = at]
  <2>3. e \in T /\ e.object = calls[Len(calls)].object
    BY <1>2, <2>1
  <2> HIDE DEF e
  <2>4. calls' = [calls EXCEPT ![Len(calls)] = e]
    BY <2>2 DEF e
  <2>5. calls' \in Seq(T) /\ DOMAIN calls' = DOMAIN calls
    BY <1>1, <1>2, <2>3, <2>4
  <2>6. \A i \in DOMAIN calls : calls'[i].object = calls[i].object
    BY <1>1, <1>2, <2>3, <2>4
  <2> QED BY <1>4, <2>5, <2>6 DEF IInv, CallsUsable
<1>5. CASE AfterDelCallbacks
  <2>1. PICK at \in {"class", "free"} : calls' = [calls EXCEPT ![Len(calls)].at = at]
    BY <1>5 DEF AfterDelCallbacks
  <2>2. UNCHANGED <<canvas, deleteMe, ref, delRef, rendering, deleteObjects, stage>>
    BY <1>5 DEF AfterDelCallbacks
  <2>3. calls' \in Seq(T) /\ CallsUsable'
    BY <1>4, <2>1, <2>2
  <2>4. Loosened(canvas, canvas')
    BY <2>2 DEF Loosened
  <2>5. canvas' \in CanvasType /\ Placed(canvas', canvas'.alive) /\ canvas'.alive = canvas.alive
    BY <1>3, <2>2
  <2>6. deleteMe' \in {deleteMe, [deleteMe EXCEPT ![o] = 1]} /\ ~(deleteMe' # deleteMe)
    BY <2>2
  <2>7. o \in Objects
    BY <1>3
  <2> HIDE DEF o
  <2> QED BY <2>2, <2>3, <2>4, <2>5, <2>6, <2>7, LoosenIInv
<1>6. CASE AfterClassDel
  <2>1. /\ canvas' = MemberDel(canvas, o)
        /\ calls' = [calls EXCEPT ![Len(calls)].at = "free"]
        /\ UNCHANGED <<deleteMe, ref, delRef, rendering, deleteObjects, stage>>
    BY <1>6 DEF AfterClassDel
  <2> HIDE DEF o
  <2>2. /\ canvas' \in CanvasType /\ Placed(canvas', canvas'.alive)
        /\ canvas'.alive = canvas.alive /\ Loosened(canvas, canvas')
    <3>1. /\ canvas' \in CanvasType /\ Placed(canvas', canvas.alive)
          /\ canvas'.alive = canvas.alive
          /\ canvas'.parent = [canvas.parent EXCEPT ![o] = NoObject]
      BY <1>3, <2>1, MemberDelFacts
    <3>2. Loosened(canvas, canvas')
      BY <1>3, <3>1, CanvasFields DEF Loosened
    <3> QED BY <3>1, <3>2
  <2>3. calls' \in Seq(T) /\ CallsUsable'
    BY <1>4, <2>1, <2>2
  <2>4. deleteMe' \in {deleteMe, [deleteMe EXCEPT ![o] = 1]} /\ ~(deleteMe' # deleteMe)
    BY <2>1
  <2>5. o \in Objects
    BY <1>3
  <2> QED BY <2>1, <2>2, <2>3, <2>4, <2>5, LoosenIInv
<1>7. CASE AfterFreeCallbacks
  <2>1. /\ canvas' = SmartCleanup(canvas, o)
        /\ deleteMe' = [deleteMe EXCEPT ![o] = 1]
        /\ calls' = Front(calls)
        /\ UNCHANGED <<ref, delRef, rendering, deleteObjects, stage>>
    BY <1>7 DEF AfterFreeCallbacks
  <2> HIDE DEF o
  <2>2. /\ canvas' \in CanvasType /\ Placed(canvas', canvas'.alive) /\ Detached(canvas', o)
        /\ canvas'.alive = canvas.alive /\ Loosened(canvas, canvas')
    <3>1. /\ canvas' \in CanvasType /\ Placed(canvas', canvas.alive) /\ Detached(canvas', o)
          /\ canvas'.alive = canvas.alive /\ Loosened(canvas, canvas')
      BY <1>3, <2>1, SmartCleanupFacts
    <3> QED BY <3>1
  <2>3. calls' \in Seq(T) /\ CallsUsable'
    <3>1. calls' = SubSeq(calls, 1, Len(calls) - 1)
      BY <2>1 DEF Front
    <3>2. 1 \in 1 .. Len(calls) + 1 /\ Len(calls) - 1 \in 1 - 1 .. Len(calls)
      BY <1>2
    <3> DEFINE k == Len(calls) - 1
    <3>3. k \in 1 - 1 .. Len(calls) /\ calls' = SubSeq(calls, 1, k)
      BY <3>1, <3>2
    <3> HIDE DEF k
    <3> HIDE DEF T
    <3>4. /\ SubSeq(calls, 1, k) \in Seq(T) /\ Len(SubSeq(calls, 1, k)) = k - 1 + 1
          /\ \A i \in 1 .. k - 1 + 1 : SubSeq(calls, 1, k)[i] = calls[1 + i - 1]
      <4>1. calls \in Seq(T) /\ 1 \in 1 .. Len(calls) + 1 /\ k \in 1 - 1 .. Len(calls)
        BY <1>1, <3>2, <3>3
      <4> HIDE DEF CallsUsable
      <4> QED BY <4>1, PartFacts
    <3>5. calls' \in Seq(T) /\ Len(calls') = k - 1 + 1
      BY <3>3, <3>4
    <3>6. \A i \in 1 .. k - 1 + 1 : calls'[i] = calls[1 + i - 1]
      BY <3>3, <3>4
    <3>7. DOMAIN calls' = 1 .. k /\ k \in Nat /\ k <= Len(calls)
      BY <1>2, <3>3, <3>5 DEF k
    <3>8. ASSUME NEW i \in DOMAIN calls'
          PROVE  i \in DOMAIN calls /\ calls'[i] = calls[i]
      <4>1. i \in 1 .. k - 1 + 1 /\ 1 + i - 1 = i /\ i \in 1 .. Len(calls)
        BY <1>2, <3>7
      <4> QED BY <1>2, <3>6, <4>1
    <3> QED BY <2>2, <3>5, <3>8 DEF IInv, CallsUsable
  <2>4. /\ deleteMe' \in {deleteMe, [deleteMe EXCEPT ![o] = 1]}
        /\ deleteMe' # deleteMe => Detached(canvas', o)
    BY <2>1, <2>2
  <2>5. UNCHANGED <<ref, delRef, rendering, deleteObjects, stage>> /\ o \in Objects
    BY <1>3, <2>1
  <2> QED BY <2>2, <2>3, <2>4, <2>5, LoosenIInv
<1> QED BY <1>5, <1>6, <1>7 DEF Return

\* An object leaves its smart parent, or is moved to another layer.
LEMMA DelMemberIInv ==
  ASSUME IInv, NEW o \in Objects, DelMember(o) PROVE IInv'
<1>1. /\ o \in canvas.alive /\ canvas' = MemberDel(canvas, o)
      /\ UNCHANGED <<deleteMe, ref, delRef, calls, rendering, deleteObjects, stage>>
  BY DEF DelMember
<1>2. /\ canvas \in CanvasType /\ Placed(canvas, canvas.alive) /\ canvas.alive \in SUBSET Objects
      /\ calls \in Seq([object : Objects, at : {"del", "class", "free"}]) /\ CallsUsable
  BY CanvasFields DEF IInv, TypeOK
<1>3. /\ canvas' \in CanvasType /\ Placed(canvas', canvas.alive)
      /\ canvas'.alive = canvas.alive
      /\ canvas'.parent = [canvas.parent EXCEPT ![o] = NoObject]
  BY <1>1, <1>2, MemberDelFacts
<1>4. Loosened(canvas, canvas')
  BY <1>2, <1>3, CanvasFields DEF Loosened
<1>5. Placed(canvas', canvas'.alive)
  BY <1>3
<1>6. CallsUsable' /\ calls' \in Seq([object : Objects, at : {"del", "class", "free"}])
  BY <1>1, <1>2, <1>3 DEF CallsUsable
<1>7. deleteMe' \in {deleteMe, [deleteMe EXCEPT ![o] = 1]} /\ ~(deleteMe' # deleteMe)
  BY <1>1
<1> QED BY <1>1, <1>3, <1>4, <1>5, <1>6, <1>7, LoosenIInv

\* evas_object_layer_set keeps the invariant.
LEMMA SetLayerIInv ==
  ASSUME IInv, NEW o \in Objects, NEW n \in Numbers, SetLayer(o, n) PROVE IInv'
<1>1. /\ o \in canvas.alive /\ canvas.parent[o] = NoObject /\ canvas' = LayerSet(canvas, o, n)
      /\ UNCHANGED <<deleteMe, ref, delRef, calls, rendering, deleteObjects, stage>>
  BY DEF SetLayer, Usable
<1>2. /\ canvas \in CanvasType /\ Placed(canvas, canvas.alive) /\ canvas.alive \in SUBSET Objects
      /\ calls \in Seq([object : Objects, at : {"del", "class", "free"}]) /\ CallsUsable
  BY CanvasFields DEF IInv, TypeOK
<1>3. /\ canvas' \in CanvasType /\ Placed(canvas', canvas.alive)
      /\ canvas'.alive = canvas.alive /\ canvas'.parent = canvas.parent
  BY <1>1, <1>2, LayerSetFacts
<1>4. Loosened(canvas, canvas')
  BY <1>3 DEF Loosened
<1>5. Placed(canvas', canvas'.alive)
  BY <1>3
<1>6. CallsUsable' /\ calls' \in Seq([object : Objects, at : {"del", "class", "free"}])
  BY <1>1, <1>2, <1>3 DEF CallsUsable
<1>7. deleteMe' \in {deleteMe, [deleteMe EXCEPT ![o] = 1]} /\ ~(deleteMe' # deleteMe)
  BY <1>1
<1> QED BY <1>1, <1>3, <1>4, <1>5, <1>6, <1>7, LoosenIInv

\* The smart parents of an object are closed under `the smart parent of'.
LEMMA AncestorsFacts ==
  ASSUME canvas \in CanvasType, NEW s \in Objects
  PROVE  /\ Ancestors(s) \in SUBSET Objects /\ s \in Ancestors(s)
         /\ \A m \in Ancestors(s) : canvas.parent[m] \in Ancestors(s) \union {NoObject}
<1>1. Ancestors(s) \in SUBSET Objects /\ s \in Ancestors(s)
  BY DEF Ancestors
<1>2. ASSUME NEW m \in Ancestors(s), canvas.parent[m] # NoObject
      PROVE  canvas.parent[m] \in Ancestors(s)
  <2>1. canvas.parent[m] \in Objects
    BY <1>1, <1>2, CanvasFields
  <2>2. ASSUME NEW S \in SUBSET Objects, s \in S, HasParents(S)
        PROVE  canvas.parent[m] \in S
    <3>1. m \in S
      BY <2>2 DEF Ancestors
    <3> QED BY <1>2, <2>2, <3>1 DEF HasParents
  <2> QED BY <2>1, <2>2 DEF Ancestors
<1> QED BY <1>1, <1>2

\* An object becomes a member: that of no object it is an ancestor of.
LEMMA AddMemberIInv ==
  ASSUME IInv, NEW o \in Objects, NEW s \in Objects, AddMember(o, s) PROVE IInv'
<1> DEFINE A == canvas.alive
<1>1. /\ o \in A /\ s \in A /\ deleteMe[o] = 0 /\ deleteMe[s] = 0 /\ o \notin Ancestors(s)
      /\ canvas' = MemberAdd(canvas, o, s)
      /\ UNCHANGED <<deleteMe, ref, delRef, calls, rendering, deleteObjects, stage>>
  BY DEF AddMember, Usable
<1>2. canvas \in CanvasType /\ Placed(canvas, A) /\ A \in SUBSET Objects
  BY CanvasFields DEF IInv, TypeOK
<1>3. /\ Ancestors(s) \in SUBSET Objects /\ s \in Ancestors(s) /\ o # s
      /\ \A m \in Ancestors(s) : canvas.parent[m] \in Ancestors(s) \union {NoObject}
  BY <1>1, <1>2, AncestorsFacts
<1>4. /\ canvas' \in CanvasType /\ Placed(canvas', A) /\ canvas'.alive = A
      /\ canvas'.parent = [canvas.parent EXCEPT ![o] = s]
  BY <1>1, <1>2, <1>3, MemberAddFacts
<1> HIDE DEF A
<1>5. canvas'.parent[o] = s /\ \A p \in Objects : p # o => canvas'.parent[p] = canvas.parent[p]
  BY <1>2, <1>4, CanvasFields
<1>6. TypeOK'
  BY <1>1, <1>4 DEF IInv, TypeOK
<1>7. Rooted(canvas')
  <2> SUFFICES ASSUME NEW S \in SUBSET Objects, S # {}
               PROVE  \E x \in S : canvas'.parent[x] \notin S
    BY DEF Rooted
  <2>1. CASE o \notin S
    <3>1. PICK x \in S : canvas.parent[x] \notin S
      BY DEF IInv, Rooted
    <3> QED BY <1>5, <2>1, <3>1
  <2>2. CASE o \in S /\ s \notin S
    BY <1>5, <2>2
  <2>3. CASE o \in S /\ s \in S
    <3> DEFINE T == S \intersect Ancestors(s)
    <3>1. T \in SUBSET Objects /\ T # {}
      BY <1>3, <2>3
    <3>2. PICK x \in T : canvas.parent[x] \notin T
      BY <3>1 DEF IInv, Rooted
    <3>3. canvas.parent[x] \notin S
      <4>1. canvas.parent[x] \in Ancestors(s) \union {NoObject}
        BY <1>3, <3>2
      <4>2. NoObject \notin S
        BY LayersAssumption DEF LayersAssumption
      <4> QED BY <3>2, <4>1, <4>2
    <3>4. x # o /\ x \in Objects /\ x \in S
      BY <1>1, <3>1, <3>2
    <3> QED BY <1>5, <3>3, <3>4
  <2> QED BY <2>1, <2>2, <2>3
<1>8. DeletedDetached'
  <2> SUFFICES ASSUME NEW p \in Objects, deleteMe'[p] # 0
               PROVE  Detached(canvas', p)
    BY DEF DeletedDetached
  <2>1. p # o /\ p # s /\ canvas.parent[p] = NoObject /\ canvas.members[p] = <<>>
    BY <1>1 DEF IInv, DeletedDetached, Detached
  <2>2. canvas'.parent[p] = NoObject
    BY <1>5, <2>1
  <2>3. /\ canvas.members[p] \in Seq(Objects)
        /\ canvas'.members[p] \in Seq(Objects)
    BY <1>2, <1>4, CanvasFields
  <2>4. Range(canvas.members[p]) = {q \in A : canvas.parent[q] = p}
    BY <1>2 DEF Placed, Grouped
  <2>5. Range(canvas'.members[p]) = {q \in A : canvas'.parent[q] = p}
    BY <1>4 DEF Placed, Grouped
  <2>6. Range(canvas.members[p]) = {}
    BY <2>1, <2>3, NoElements
  <2>7. \A q \in A : canvas'.parent[q] # p
    BY <1>2, <1>5, <2>1, <2>4, <2>6
  <2>8. Range(canvas'.members[p]) = {}
    BY <2>5, <2>7
  <2>9. canvas'.members[p] = <<>>
    BY <2>3, <2>8, NoElements
  <2> QED BY <2>2, <2>9 DEF Detached
<1>9. CallsUsable' /\ FoundUsable'
  BY <1>1, <1>4 DEF IInv, CallsUsable, FoundUsable, A
<1> QED BY <1>1, <1>4, <1>6, <1>7, <1>8, <1>9 DEF IInv

\* An evas_object_del starts, of an object that is there.
LEMMA DeleteIInv ==
  ASSUME IInv, NEW o \in canvas.alive,
         \/ calls' = Append(calls, [object |-> o, at |-> "del"])
         \/ UNCHANGED calls,
         ref' \in [Objects -> 0 .. MaxRef], delRef' \in [Objects -> BOOLEAN],
         UNCHANGED <<canvas, deleteMe, rendering, deleteObjects, stage>>
  PROVE  IInv'
<1> DEFINE T == [object : Objects, at : {"del", "class", "free"}]
           e == [object |-> o, at |-> "del"]
<1>1. calls \in Seq(T) /\ CallsUsable /\ o \in Objects
  BY CanvasFields DEF IInv, TypeOK
<1>2. calls' \in Seq(T) /\ CallsUsable'
  <2>1. CASE UNCHANGED calls
    BY <1>1, <2>1 DEF CallsUsable
  <2>2. CASE calls' = Append(calls, e)
    <3>1. e \in T /\ e.object = o
      BY <1>1
    <3> HIDE DEF e, T
    <3>2. /\ calls' \in Seq(T) /\ DOMAIN calls' = 1 .. Len(calls) + 1
          /\ DOMAIN calls = 1 .. Len(calls)
      BY <1>1, <2>2, <3>1
    <3>3. \A i \in 1 .. Len(calls) + 1 : calls'[i] = IF i <= Len(calls) THEN calls[i] ELSE e
      BY <1>1, <2>2, <3>1
    <3>4. ASSUME NEW i \in DOMAIN calls' PROVE calls'[i].object \in canvas.alive
      <4>1. CASE i <= Len(calls)
        <5>1. i \in DOMAIN calls /\ calls'[i] = calls[i]
          BY <1>1, <3>2, <3>3, <4>1
        <5> QED BY <1>1, <5>1 DEF CallsUsable
      <4>2. CASE ~(i <= Len(calls))
        <5>1. calls'[i] = e
          BY <3>2, <3>3, <4>2
        <5> QED BY <3>1, <5>1
      <4> QED BY <4>1, <4>2
    <3> QED BY <3>2, <3>4 DEF CallsUsable
  <2> QED BY <2>1, <2>2
<1>3. TypeOK'
  BY <1>2 DEF IInv, TypeOK
<1>4. DeletedDetached' /\ FoundUsable'
  BY DEF IInv, DeletedDetached, FoundUsable
<1>5. (stage # "used" => ~rendering)'
  BY DEF IInv
<1> QED BY <1>2, <1>3, <1>4, <1>5, SameCanvas

\* The calls that delete an object or take references of it.
LEMMA ReferIInv ==
  ASSUME IInv, NEW o \in Objects, Del(o) \/ PreFree(o) \/ Ref(o) \/ Unref(o)
  PROVE  IInv'
<1> USE DEF Usable
<1>1. /\ canvas \in CanvasType /\ Placed(canvas, canvas.alive)
      /\ ref \in [Objects -> 0 .. MaxRef] /\ delRef \in [Objects -> BOOLEAN]
  BY DEF IInv, TypeOK
<1>2. o \in Listed(canvas) => o \in canvas.alive
  <2> SUFFICES ASSUME o \in Listed(canvas) PROVE o \in canvas.alive
    OBVIOUS
  <2>1. PICK n \in Range(canvas.layers) : o \in Range(canvas.objects[n])
    BY DEF Listed
  <2>2. n \in Numbers
    BY <1>1, CanvasFields, RangeFacts
  <2> QED BY <1>1, <2>1, <2>2 DEF Placed, Stacked
<1>3. /\ o \in canvas.alive
      /\ UNCHANGED <<canvas, deleteMe, rendering, deleteObjects, stage>>
  BY <1>2 DEF Del, PreFree, Ref, Unref
<1>4. calls' = Append(calls, [object |-> o, at |-> "del"]) \/ UNCHANGED calls
  BY DEF Del, PreFree, Ref, Unref, Delete
<1>5. delRef' \in [Objects -> BOOLEAN]
  <2>1. [delRef EXCEPT ![o] = TRUE] \in [Objects -> BOOLEAN]
    BY <1>1
  <2>2. delRef' \in {delRef, [delRef EXCEPT ![o] = TRUE]}
    BY DEF Del, PreFree, Ref, Unref, Delete
  <2> QED BY <1>1, <2>1, <2>2
<1>6. ref' \in [Objects -> 0 .. MaxRef]
  <2>1. MaxRef \in Nat /\ ref[o] \in 0 .. MaxRef
    BY <1>1, LayersAssumption DEF LayersAssumption
  <2>2. CASE Del(o) \/ PreFree(o)
    BY <1>1, <2>2 DEF Del, PreFree
  <2>3. CASE Ref(o)
    <3>1. ref[o] < MaxRef /\ ref' = [ref EXCEPT ![o] = ref[o] + 1]
      BY <2>3 DEF Ref
    <3> QED BY <1>1, <2>1, <3>1
  <2>4. CASE Unref(o)
    <3>1. ref[o] > 0 /\ ref' = [ref EXCEPT ![o] = ref[o] - 1]
      BY <2>4 DEF Unref
    <3> QED BY <1>1, <2>1, <3>1
  <2> QED BY <2>2, <2>3, <2>4
<1> QED BY <1>3, <1>4, <1>5, <1>6, DeleteIInv

-----------------------------------------------------------------------------
\* The render and the free of the canvas.
LEMMA RenderPhase1IInv ==
  ASSUME IInv, RenderPhase1 PROVE IInv'
<1>1. /\ deleteObjects' = InLayers!Loop(deleteObjects, canvas.layers)
      /\ deleteMe' = [p \in Objects |->
           IF p \in Listed(canvas) /\ deleteMe[p] = 1 THEN 2 ELSE deleteMe[p]]
      /\ UNCHANGED <<canvas, ref, delRef, calls, stage>>
      /\ ~rendering /\ rendering' = TRUE /\ stage = "used"
  BY DEF RenderPhase1
<1>2. TypeOK /\ Placed(canvas, canvas.alive) /\ deleteObjects = <<>>
  BY <1>1 DEF IInv, FoundUsable
<1>3. /\ deleteObjects' \in Seq(Objects) /\ IsInjective(deleteObjects')
      /\ \A p \in Range(deleteObjects') : deleteMe[p] = 2 /\ p \in canvas.alive
  <2>1. deleteObjects' = InLayers!Loop(<<>>, canvas.layers)
    BY <1>1, <1>2
  <2> QED BY <1>2, <2>1, FoundAllFacts
<1>4. /\ deleteMe' \in [Objects -> 0 .. 2]
      /\ \A p \in Objects : (deleteMe'[p] # 0 <=> deleteMe[p] # 0)
  BY <1>1, <1>2 DEF TypeOK
<1>5. TypeOK'
  BY <1>1, <1>2, <1>3, <1>4 DEF TypeOK
<1>6. DeletedDetached' /\ CallsUsable'
  BY <1>1, <1>4 DEF IInv, DeletedDetached, CallsUsable
<1>7. FoundUsable'
  <2>1. \A p \in Range(deleteObjects') : p \in canvas.alive /\ deleteMe'[p] # 0
    <3>1. Range(deleteObjects') \subseteq Objects
      BY <1>3, RangeFacts
    <3> QED BY <1>3, <1>4, <3>1
  <2> QED BY <1>1, <1>3, <2>1 DEF FoundUsable
<1>8. (stage # "used" => ~rendering)'
  BY <1>1
<1> QED BY <1>1, <1>5, <1>6, <1>7, <1>8, SameCanvas

\* The end of a render frees what phase 1 found: deleted, hence detached, objects.
LEMMA RenderEndIInv ==
  ASSUME IInv, RenderEnd PROVE IInv'
<1>1. /\ calls = <<>> /\ rendering' = FALSE /\ deleteObjects' = <<>>
      /\ canvas' = Deleted!Loop(canvas, deleteObjects)
      /\ deleteMe' = [p \in Objects |-> IF p \in Range(deleteObjects) THEN 0 ELSE deleteMe[p]]
      /\ delRef' = [p \in Objects |-> delRef[p] /\ p \notin Range(deleteObjects)]
      /\ ref' = [p \in Objects |-> IF p \in Range(deleteObjects) THEN 0 ELSE ref[p]]
      /\ UNCHANGED <<calls, stage>>
  BY DEF RenderEnd
<1>2. canvas \in CanvasType /\ Placed(canvas, canvas.alive)
  BY DEF IInv, TypeOK
<1>3. Loose(canvas, deleteObjects)
  <2>1. deleteObjects \in Seq(Objects)
    BY DEF IInv, TypeOK
  <2>2. Range(deleteObjects) \subseteq Objects
    BY <2>1, RangeFacts
  <2> QED BY <2>1, <2>2 DEF IInv, FoundUsable, DeletedDetached, Loose
<1>4. canvas' \in Freed(canvas, deleteObjects, Len(deleteObjects))
  BY <1>1, <1>2, <1>3, DeletedFacts
<1>5. /\ canvas' \in CanvasType /\ Placed(canvas', canvas'.alive) /\ Loosened(canvas, canvas')
      /\ canvas'.alive = canvas.alive \ Range(deleteObjects)
  BY <1>2, <1>3, <1>4, FreedEnd
<1>6. Rooted(canvas') /\ \A p \in Objects : Detached(canvas, p) => Detached(canvas', p)
  <2>1. canvas'.alive \subseteq canvas.alive
    BY <1>5
  <2> QED BY <1>2, <1>5, <2>1, LoosenedFacts DEF IInv
<1>7. TypeOK'
  <2>1. deleteMe' \in [Objects -> 0 .. 2] /\ delRef' \in [Objects -> BOOLEAN]
    BY <1>1 DEF IInv, TypeOK
  <2>2. ref' \in [Objects -> 0 .. MaxRef]
    BY <1>1, LayersAssumption DEF IInv, TypeOK, LayersAssumption
  <2>3. deleteObjects' \in Seq(Objects)
    BY <1>1
  <2> QED BY <1>1, <1>5, <2>1, <2>2, <2>3 DEF IInv, TypeOK
<1>8. DeletedDetached'
  BY <1>1, <1>6 DEF IInv, DeletedDetached
<1>9. CallsUsable'
  BY <1>1 DEF CallsUsable
<1>10. FoundUsable'
  <2>1. IsInjective(<<>>) /\ Range(<<>>) = {}
    BY DEF IsInjective, Range
  <2> QED BY <1>1, <2>1 DEF FoundUsable
<1> QED BY <1>1, <1>5, <1>6, <1>7, <1>8, <1>9, <1>10 DEF IInv

\* evas_free: the start, the deletion of all objects, the end.
LEMMA FreeStartIInv ==
  ASSUME IInv, FreeStart PROVE IInv'
<1>1. /\ ~rendering /\ stage' = "freeing" /\ deleteObjects' = <<>>
      /\ UNCHANGED <<canvas, deleteMe, ref, delRef, calls, rendering>>
  BY DEF FreeStart
<1>2. deleteObjects = <<>>
  BY <1>1 DEF IInv, FoundUsable
<1>3. TypeOK' /\ FoundUsable' /\ DeletedDetached' /\ CallsUsable'
  BY <1>1, <1>2 DEF IInv, TypeOK, FoundUsable, DeletedDetached, CallsUsable
<1> QED BY <1>1, <1>3, SameCanvas

\* When no listed object is left that was not deleted, every object was deleted:
\* a member that was not has an ancestor that is listed and was not.
LEMMA AllDeleted ==
  ASSUME IInv, \A o \in Listed(canvas) : deleteMe[o] # 0
  PROVE  \A o \in canvas.alive : Detached(canvas, o)
<1> DEFINE S == {p \in canvas.alive : deleteMe[p] = 0}
<1>1. canvas \in CanvasType /\ Placed(canvas, canvas.alive) /\ canvas.alive \in SUBSET Objects
  BY CanvasFields DEF IInv, TypeOK
<1>2. ASSUME NEW o \in S, canvas.parent[o] \notin S
      PROVE  FALSE
  <2>1. /\ canvas.parent[o] \in canvas.alive \union {NoObject}
        /\ canvas.layer[o] \in Range(canvas.layers)
        /\ canvas.inLayer[o] <=> canvas.parent[o] = NoObject
    BY <1>1 DEF Placed, Belongs
  <2>2. CASE canvas.parent[o] = NoObject
    <3>1. canvas.layer[o] \in Numbers
      BY <1>1, <2>1, CanvasFields, RangeFacts
    <3>2. o \in Range(canvas.objects[canvas.layer[o]])
      BY <1>1, <2>1, <2>2, <3>1 DEF Placed, Stacked
    <3>3. o \in Listed(canvas)
      BY <2>1, <3>2 DEF Listed
    <3> QED BY <3>3
  <2>3. CASE canvas.parent[o] # NoObject
    <3> DEFINE s == canvas.parent[o]
    <3>1. s \in Objects /\ deleteMe[s] # 0
      BY <1>1, <1>2, <2>1, <2>3
    <3>2. canvas.members[s] = <<>>
      BY <3>1 DEF IInv, DeletedDetached, Detached
    <3>3. o \in Range(canvas.members[s])
      BY <1>1, <3>1 DEF Placed, Grouped
    <3> QED BY <3>2, <3>3 DEF Range
  <2> QED BY <2>2, <2>3
<1>3. S = {}
  <2>1. S \in SUBSET Objects
    BY <1>1
  <2> QED BY <1>2, <2>1 DEF IInv, Rooted
<1> QED BY <1>1, <1>3 DEF IInv, DeletedDetached

\* The end of evas_free keeps the invariant.
LEMMA FreeEndIInv ==
  ASSUME IInv, FreeEnd PROVE IInv'
<1> DEFINE d == Layers!Loop(canvas, canvas.layers)
<1>1. /\ calls = <<>> /\ stage = "freeing" /\ stage' = "gone"
      /\ canvas' = LayerClean(d)
      /\ deleteMe' = [p \in Objects |-> 0] /\ ref' = [p \in Objects |-> 0]
      /\ delRef' = [p \in Objects |-> FALSE]
      /\ UNCHANGED <<calls, rendering, deleteObjects>>
  BY DEF FreeEnd
<1>2. canvas \in CanvasType /\ Placed(canvas, canvas.alive)
  BY DEF IInv, TypeOK
<1>3. \A o \in canvas.alive : Detached(canvas, o)
  BY AllDeleted DEF FreeEnd
<1>4. d \in CanvasType /\ Placed(d, {}) /\ d.alive = {} /\ Loosened(canvas, d)
  BY <1>2, <1>3, FreeAllFacts
<1> HIDE DEF d
<1>5. /\ canvas' \in CanvasType /\ Placed(canvas', canvas'.alive) /\ canvas'.alive = {}
      /\ canvas'.parent = d.parent
  BY <1>1, <1>4, CleanFacts
<1>6. Loosened(canvas, canvas')
  BY <1>4, <1>5 DEF Loosened
<1>7. Rooted(canvas')
  <2>1. canvas'.alive \subseteq canvas.alive
    BY <1>5
  <2> QED BY <1>2, <1>5, <1>6, <2>1, LoosenedFacts DEF IInv
<1>8. ~rendering /\ deleteObjects = <<>>
  BY <1>1 DEF IInv, FoundUsable
<1>9. TypeOK'
  <2>1. deleteMe' \in [Objects -> 0 .. 2] /\ delRef' \in [Objects -> BOOLEAN]
    BY <1>1
  <2>2. ref' \in [Objects -> 0 .. MaxRef]
    BY <1>1, LayersAssumption DEF LayersAssumption
  <2> QED BY <1>1, <1>5, <2>1, <2>2 DEF IInv, TypeOK
<1>10. DeletedDetached' /\ CallsUsable'
  BY <1>1 DEF DeletedDetached, CallsUsable
<1>11. FoundUsable'
  <2>1. IsInjective(<<>>) /\ Range(<<>>) = {}
    BY DEF IsInjective, Range
  <2> QED BY <1>1, <1>8, <2>1 DEF FoundUsable
<1> QED BY <1>1, <1>5, <1>7, <1>8, <1>9, <1>10, <1>11 DEF IInv

-----------------------------------------------------------------------------
\* Every step keeps the invariant.
LEMMA NextIInv ==
  ASSUME IInv, [Next]_vars PROVE IInv'
<1>1. CASE UNCHANGED vars
  BY <1>1 DEF vars, IInv, TypeOK, DeletedDetached, CallsUsable, FoundUsable
<1>2. CASE Gone
  BY <1>2 DEF Gone, vars, IInv, TypeOK, DeletedDetached, CallsUsable, FoundUsable
<1>3. ASSUME NEW o \in Objects, New(o) PROVE IInv'
  BY <1>3, NewIInv
<1>4. ASSUME NEW o \in Objects, Moves(o) PROVE IInv'
  BY <1>4, StackIInv
<1>5. ASSUME NEW o \in Objects, DelMember(o) PROVE IInv'
  BY <1>5, DelMemberIInv
<1>6. ASSUME NEW o \in Objects, Del(o) \/ PreFree(o) \/ Ref(o) \/ Unref(o) PROVE IInv'
  BY <1>6, ReferIInv
<1>7. ASSUME NEW o \in Objects, NEW s \in Objects, AddMember(o, s) PROVE IInv'
  BY <1>7, AddMemberIInv
<1>8. ASSUME NEW o \in Objects, NEW n \in Numbers, SetLayer(o, n) PROVE IInv'
  BY <1>8, SetLayerIInv
<1>9. CASE Call
  BY <1>3, <1>4, <1>5, <1>6, <1>7, <1>8, <1>9 DEF Call, Moves
<1>10. CASE Evas
  BY <1>6, <1>10, ReturnIInv, RenderPhase1IInv, RenderEndIInv, FreeStartIInv, FreeEndIInv DEF Evas
<1> QED BY <1>1, <1>2, <1>9, <1>10 DEF Next

\* IInv holds in every reachable state.
THEOREM Invariance == Spec => []IInv
<1>1. Init => IInv
  BY InitIInv
<1>2. IInv /\ [Next]_vars => IInv'
  BY NextIInv
<1> QED BY <1>1, <1>2, PTL DEF Spec

\* The types of the variables (TypeOK).
THEOREM TypeCorrect == Spec => []TypeOK
<1>1. IInv => TypeOK
  BY DEF IInv
<1> QED BY <1>1, Invariance, PTL

\* Every object is in exactly one list, once, and the layers are in order,
\* whatever was called from the callbacks of a deletion (evas_layer.c, evas_stack.c,
\* evas_object_smart.c).
THEOREM OneListCorrect == Spec => []InOneList
<1>1. ASSUME IInv PROVE InOneList
  <2>1. /\ canvas \in CanvasType /\ Sorted(canvas.layers) /\ Belongs(canvas, canvas.alive)
        /\ Stacked(canvas, canvas.alive) /\ Grouped(canvas, canvas.alive)
    BY <1>1 DEF IInv, TypeOK, Placed
  <2>2. ASSUME NEW list \in Seq(Objects), IsInjective(list)
        PROVE  Len(list) = Cardinality(Range(list))
    BY <2>2, LengthIsCardinality
  <2>3. \A i, j \in DOMAIN canvas.layers : i < j => canvas.layers[i] < canvas.layers[j]
    BY <2>1 DEF Sorted
  <2>4. \A o \in canvas.alive : canvas.inLayer[o] <=> canvas.parent[o] = NoObject
    BY <2>1 DEF Belongs
  <2>5. ASSUME NEW n \in Numbers
        PROVE  /\ Len(canvas.objects[n]) = Cardinality(Range(canvas.objects[n]))
               /\ Range(canvas.objects[n]) \cap canvas.alive =
                    {o \in canvas.alive : canvas.inLayer[o] /\ canvas.layer[o] = n}
    <3>1. canvas.objects[n] \in Seq(Objects)
      BY <2>1, CanvasFields
    <3>2. /\ IsInjective(canvas.objects[n])
          /\ Range(canvas.objects[n]) =
               {o \in canvas.alive : canvas.inLayer[o] /\ canvas.layer[o] = n}
      BY <2>1 DEF Stacked
    <3>3. Len(canvas.objects[n]) = Cardinality(Range(canvas.objects[n]))
      BY <2>2, <3>1, <3>2
    <3> QED BY <3>2, <3>3
  <2>6. ASSUME NEW s \in Objects
        PROVE  /\ Len(canvas.members[s]) = Cardinality(Range(canvas.members[s]))
               /\ Range(canvas.members[s]) \cap canvas.alive =
                    {o \in canvas.alive : canvas.parent[o] = s}
    <3>1. canvas.members[s] \in Seq(Objects)
      BY <2>1, CanvasFields
    <3>2. /\ IsInjective(canvas.members[s])
          /\ Range(canvas.members[s]) = {o \in canvas.alive : canvas.parent[o] = s}
      BY <2>1 DEF Grouped
    <3>3. Len(canvas.members[s]) = Cardinality(Range(canvas.members[s]))
      BY <2>2, <3>1, <3>2
    <3> QED BY <3>2, <3>3
  <2> QED BY <2>3, <2>4, <2>5, <2>6 DEF InOneList
<1> QED BY <1>1, Invariance, PTL

\* No pointer to a layer or to an object outlives what it points to (evas_object_free,
\* _layer_free), whatever was called from the callbacks of a deletion.
THEOREM NothingFreedIsUsed == Spec => []NothingDangles
<1>1. ASSUME IInv PROVE NothingDangles
  <2>1. /\ canvas \in CanvasType /\ Belongs(canvas, canvas.alive) /\ Counted(canvas, canvas.alive)
        /\ Stacked(canvas, canvas.alive) /\ Grouped(canvas, canvas.alive)
        /\ canvas.alive \in SUBSET Objects
    BY <1>1, CanvasFields DEF IInv, TypeOK, Placed
  <2>2. LayersAlive
    BY <2>1 DEF LayersAlive, Belongs, Counted, Of
  <2>3. \A o \in canvas.alive :
          deleteMe[o] > 0 => canvas.parent[o] = NoObject /\ canvas.members[o] = <<>>
    BY <1>1, <2>1 DEF IInv, DeletedDetached, Detached
  <2>4. UNION {Range(canvas.objects[n]) : n \in Numbers} \subseteq canvas.alive
    BY <2>1 DEF Stacked
  <2>5. UNION {Range(canvas.members[s]) : s \in Objects} \subseteq canvas.alive
    BY <2>1 DEF Grouped
  <2>6. \A o \in canvas.alive : canvas.parent[o] \in canvas.alive \cup {NoObject}
    BY <2>1 DEF Belongs
  <2>7. {calls[i].object : i \in DOMAIN calls} \subseteq canvas.alive
    BY <1>1 DEF IInv, CallsUsable
  <2>8. Range(deleteObjects) \subseteq canvas.alive
    BY <1>1 DEF IInv, FoundUsable
  <2> QED BY <2>2, <2>3, <2>4, <2>5, <2>6, <2>7, <2>8 DEF NothingDangles, FreedIsForgotten
<1> QED BY <1>1, Invariance, PTL

-----------------------------------------------------------------------------
(***************************************************************************)
(* The order of the lists.  A function may take objects out of a list and  *)
(* append objects that were not in it when the step began; so two objects  *)
(* of the list at the beginning of the step keep their order.              *)
(***************************************************************************)

\* No two objects have changed their order from the list old to the list new.
KeepsOrder(old, new) == \A o, p \in Objects : ~Swapped(old, new, o, p)

\* No two objects of a list of b have changed their order in that list of c.
Tracks(b, c) ==
  /\ \A n \in Numbers : KeepsOrder(b.objects[n], c.objects[n])
  /\ \A s \in Objects : KeepsOrder(b.members[s], c.members[s])

\* The layer whose list an object is in is the one its number names.
Numbered(c) == \A o \in Objects : c.inLayer[o] => c.layer[o] = c.number[o]

\* A list without repetition keeps its own order.
LEMMA OrderSelf ==
  ASSUME NEW list \in Seq(Objects), IsInjective(list)
  PROVE  KeepsOrder(list, list)
<1> SUFFICES ASSUME NEW o, NEW p, Before(list, o, p), Before(list, p, o)
             PROVE  FALSE
  BY DEF KeepsOrder, Swapped
<1>1. PICK i, j \in DOMAIN list : i < j /\ list[i] = o /\ list[j] = p
  BY DEF Before
<1>2. PICK k, l \in DOMAIN list : k < l /\ list[k] = p /\ list[l] = o
  BY DEF Before
<1>3. k = j /\ l = i
  BY <1>1, <1>2 DEF IsInjective
<1>4. DOMAIN list = 1 .. Len(list)
  OBVIOUS
<1> QED BY <1>1, <1>2, <1>3, <1>4

\* What is in order without an object was in order with it.
LEMMA RemovedBefore ==
  ASSUME NEW list \in Seq(Objects), NEW x, NEW o, NEW p, Before(RemoveFirst(list, x), o, p)
  PROVE  Before(list, o, p)
<1> DEFINE r == RemoveFirst(list, x)
<1>1. /\ r \in Seq(Objects)
      /\ \E f \in [1 .. Len(r) -> 1 .. Len(list)] :
           /\ \A j \in 1 .. Len(r) : r[j] = list[f[j]]
           /\ \A j, k \in 1 .. Len(r) : j < k => f[j] < f[k]
  BY RemoveFirstOrder
<1>2. Before(r, o, p)
  OBVIOUS
<1> HIDE DEF r
<1>3. PICK i, j \in 1 .. Len(r) : i < j /\ r[i] = o /\ r[j] = p
  BY <1>1, <1>2 DEF Before
<1>4. PICK f \in [1 .. Len(r) -> 1 .. Len(list)] :
        /\ \A k \in 1 .. Len(r) : r[k] = list[f[k]]
        /\ \A k, l \in 1 .. Len(r) : k < l => f[k] < f[l]
  BY <1>1
<1>5. /\ f[i] \in DOMAIN list /\ f[j] \in DOMAIN list /\ f[i] < f[j]
      /\ list[f[i]] = o /\ list[f[j]] = p
  BY <1>3, <1>4
<1> QED BY <1>5 DEF Before

\* An object is taken out of the list.
LEMMA OrderRemoved ==
  ASSUME NEW base, NEW list \in Seq(Objects), NEW x, KeepsOrder(base, list)
  PROVE  KeepsOrder(base, RemoveFirst(list, x))
  BY RemovedBefore DEF KeepsOrder, Swapped

\* An object that was not in the list before the step is appended.
LEMMA OrderAppended ==
  ASSUME NEW base \in Seq(Objects), NEW list \in Seq(Objects), NEW x \in Objects,
         x \notin Range(base), KeepsOrder(base, list)
  PROVE  KeepsOrder(base, Append(list, x))
<1> DEFINE r == Append(list, x)
<1> SUFFICES ASSUME NEW o \in Objects, NEW p \in Objects, Before(base, o, p), Before(r, p, o)
             PROVE  FALSE
  BY DEF KeepsOrder, Swapped
<1>1. PICK i, j \in DOMAIN r : i < j /\ r[i] = p /\ r[j] = o
  BY DEF Before
<1>2. /\ Len(list) \in Nat /\ DOMAIN r = 1 .. Len(list) + 1 /\ DOMAIN list = 1 .. Len(list)
      /\ r[Len(list) + 1] = x /\ \A k \in 1 .. Len(list) : r[k] = list[k]
  OBVIOUS
<1> HIDE DEF r
<1>3. CASE j = Len(list) + 1
  <2>1. o = x
    BY <1>1, <1>2, <1>3
  <2>2. PICK k \in DOMAIN base : base[k] = o
    BY DEF Before
  <2>3. o \in Range(base)
    BY <2>2 DEF Range
  <2> QED BY <2>1, <2>3
<1>4. CASE j # Len(list) + 1
  <2>1. i \in DOMAIN list /\ j \in DOMAIN list /\ list[i] = p /\ list[j] = o
    BY <1>1, <1>2, <1>4
  <2>2. Before(list, p, o)
    BY <1>1, <2>1 DEF Before
  <2> QED BY <2>2 DEF KeepsOrder, Swapped
<1> QED BY <1>3, <1>4

\* An empty list has no order to change.
LEMMA OrderEmpty ==
  ASSUME NEW base PROVE KeepsOrder(base, <<>>)
  BY DEF KeepsOrder, Swapped, Before

\* A canvas keeps its own order.
LEMMA TracksSelf ==
  ASSUME NEW c \in CanvasType, NEW A, Placed(c, A)
  PROVE  Tracks(c, c)
<1>1. ASSUME NEW n \in Numbers PROVE KeepsOrder(c.objects[n], c.objects[n])
  <2>1. c.objects[n] \in Seq(Objects) /\ IsInjective(c.objects[n])
    BY CanvasFields DEF Placed, Stacked
  <2> QED BY <2>1, OrderSelf
<1>2. ASSUME NEW s \in Objects PROVE KeepsOrder(c.members[s], c.members[s])
  <2>1. c.members[s] \in Seq(Objects) /\ IsInjective(c.members[s])
    BY CanvasFields DEF Placed, Grouped
  <2> QED BY <2>1, OrderSelf
<1> QED BY <1>1, <1>2 DEF Tracks

\* A member is in the list of no layer.
LEMMA MemberUnlisted ==
  ASSUME NEW c \in CanvasType, NEW A, Placed(c, A), NEW o \in A, c.parent[o] # NoObject,
         NEW n \in Numbers
  PROVE  o \notin Range(c.objects[n])
  BY DEF Placed, Belongs, Stacked

\* An object that was not in the list of its layer is put there.
LEMMA InjectTracks ==
  ASSUME NEW b \in CanvasType, NEW c \in CanvasType, Tracks(b, c), Numbered(c),
         NEW o \in Objects, ~c.inLayer[o], o \notin Range(b.objects[c.number[o]])
  PROVE  Tracks(b, Inject(c, o)) /\ Numbered(Inject(c, o))
<1> DEFINE d == Inject(c, o)
           n == c.number[o]
<1>1. /\ n \in Numbers /\ d.members = c.members /\ d.number = c.number
      /\ d.objects = [c.objects EXCEPT ![n] = Append(@, o)]
      /\ d.layer = [c.layer EXCEPT ![o] = n]
      /\ d.inLayer = [c.inLayer EXCEPT ![o] = TRUE]
  BY InjectEffect
<1> HIDE DEF d, n
<1>2. ASSUME NEW m \in Numbers PROVE KeepsOrder(b.objects[m], d.objects[m])
  <2>1. /\ b.objects[m] \in Seq(Objects) /\ c.objects[m] \in Seq(Objects)
        /\ KeepsOrder(b.objects[m], c.objects[m])
    BY CanvasFields DEF Tracks
  <2>2. d.objects[m] = IF m = n THEN Append(c.objects[m], o) ELSE c.objects[m]
    BY <1>1, CanvasFields
  <2>3. m = n => o \notin Range(b.objects[m])
    BY DEF n
  <2> QED BY <2>1, <2>2, <2>3, OrderAppended
<1>3. Tracks(b, d)
  BY <1>1, <1>2 DEF Tracks
<1>4. Numbered(d)
  <2> SUFFICES ASSUME NEW p \in Objects, d.inLayer[p] PROVE d.layer[p] = d.number[p]
    BY DEF Numbered
  <2>1. CASE p = o
    <3>1. d.layer[p] = n
      BY <1>1, <2>1, CanvasFields
    <3> QED BY <1>1, <2>1, <3>1 DEF n
  <2>2. CASE p # o
    <3>1. d.layer[p] = c.layer[p]
      BY <1>1, <2>2, CanvasFields
    <3>2. c.inLayer[p]
      BY <1>1, <2>2, CanvasFields
    <3>3. d.number[p] = c.number[p]
      BY <1>1
    <3> QED BY <3>1, <3>2, <3>3 DEF Numbered
  <2> QED BY <2>1, <2>2
<1> QED BY <1>3, <1>4 DEF d

\* An object is taken out of the list of its layer, which is freed or not.
LEMMA ReleaseTracks ==
  ASSUME NEW b, NEW c \in CanvasType, Tracks(b, c), Numbered(c),
         NEW o \in Objects, c.inLayer[o], c.layer[o] \in Numbers, NEW clean \in BOOLEAN
  PROVE  Tracks(b, Release(c, o, clean)) /\ Numbered(Release(c, o, clean))
<1> DEFINE d == Release(c, o, clean)
           n == c.layer[o]
           free == Empties(c, o, clean)
<1>1. /\ d.members = c.members /\ d.number = c.number
      /\ d.objects = [c.objects EXCEPT ![n] = IF free THEN <<>> ELSE RemoveFirst(@, o)]
      /\ d.layer = [c.layer EXCEPT ![o] = NoLayer]
      /\ d.inLayer = [c.inLayer EXCEPT ![o] = FALSE]
  <2>1. CASE clean = TRUE
    <3> DEFINE e == Release(c, o, TRUE)
    <3>1. /\ e.members = c.members /\ e.number = c.number
          /\ e.objects = [c.objects EXCEPT ![n] =
                            IF Empties(c, o, TRUE) THEN <<>> ELSE RemoveFirst(@, o)]
          /\ e.layer = [c.layer EXCEPT ![o] = NoLayer]
          /\ e.inLayer = [c.inLayer EXCEPT ![o] = FALSE]
      BY ReleaseEffect
    <3> HIDE DEF e
    <3> QED BY <2>1, <3>1 DEF e
  <2>2. CASE clean = FALSE
    <3> DEFINE e == Release(c, o, FALSE)
    <3>1. /\ e.members = c.members /\ e.number = c.number
          /\ e.objects = [c.objects EXCEPT ![n] =
                            IF Empties(c, o, FALSE) THEN <<>> ELSE RemoveFirst(@, o)]
          /\ e.layer = [c.layer EXCEPT ![o] = NoLayer]
          /\ e.inLayer = [c.inLayer EXCEPT ![o] = FALSE]
      BY ReleaseEffect
    <3> HIDE DEF e
    <3> QED BY <2>2, <3>1 DEF e
  <2> QED BY <2>1, <2>2
<1> HIDE DEF d, n, free
<1>2. ASSUME NEW m \in Numbers PROVE KeepsOrder(b.objects[m], d.objects[m])
  <2>1. c.objects[m] \in Seq(Objects) /\ KeepsOrder(b.objects[m], c.objects[m])
    BY CanvasFields DEF Tracks
  <2>2. d.objects[m] \in {c.objects[m], <<>>, RemoveFirst(c.objects[m], o)}
    BY <1>1, CanvasFields
  <2> QED BY <2>1, <2>2, OrderRemoved, OrderEmpty
<1>3. Tracks(b, d)
  BY <1>1, <1>2 DEF Tracks
<1>4. Numbered(d)
  <2> SUFFICES ASSUME NEW p \in Objects, d.inLayer[p] PROVE d.layer[p] = d.number[p]
    BY DEF Numbered
  <2>1. p # o
    BY <1>1, CanvasFields
  <2>2. d.layer[p] = c.layer[p]
    BY <1>1, <2>1, CanvasFields
  <2>3. c.inLayer[p]
    BY <1>1, <2>1, CanvasFields
  <2>4. d.number[p] = c.number[p]
    BY <1>1
  <2> QED BY <2>2, <2>3, <2>4 DEF Numbered
<1> QED BY <1>3, <1>4 DEF d

\* An object leaves its smart parent: since it was a member when the step began, it
\* was in no layer's list.
LEMMA MemberDelTracks ==
  ASSUME NEW b \in CanvasType, NEW c \in CanvasType, NEW A \in SUBSET Objects, Placed(c, A),
         Tracks(b, c), Numbered(c), NEW o \in A,
         c.parent[o] # NoObject => \A n \in Numbers : o \notin Range(b.objects[n])
  PROVE  Tracks(b, MemberDel(c, o)) /\ Numbered(MemberDel(c, o))
<1> DEFINE s == c.parent[o]
           n == c.layer[o]
           e == [c EXCEPT !.members[s] = RemoveFirst(@, o), !.parent[o] = NoObject,
                          !.usage[n] = @ - 1, !.number[o] = n]
<1>1. CASE s = NoObject
  BY <1>1 DEF MemberDel
<1>2. CASE s # NoObject
  <2>1. o \in Objects /\ ~c.inLayer[o] /\ n \in Numbers /\ s \in Objects
    <3>1. /\ o \in Objects /\ ~c.inLayer[o] /\ n \in Range(c.layers)
          /\ c.layers \in Seq(Numbers) /\ s \in Objects
      BY <1>2, CanvasFields DEF Placed, Belongs
    <3> QED BY <3>1, RangeFacts
  <2>2. MemberDel(c, o) = Inject(e, o)
    BY <1>2 DEF MemberDel
  <2>3. /\ e.alive = c.alive /\ e.smart = c.smart /\ e.layers = c.layers
        /\ e.objects = c.objects /\ e.layer = c.layer /\ e.inLayer = c.inLayer
        /\ e.members = [c.members EXCEPT ![s] = RemoveFirst(@, o)]
        /\ e.parent = [c.parent EXCEPT ![o] = NoObject]
        /\ e.usage = [c.usage EXCEPT ![n] = @ - 1]
        /\ e.number = [c.number EXCEPT ![o] = n]
        /\ IsRecord(e)
    <3>1. IsRecord(c)
      BY CanvasIsRecord
    <3> QED BY <3>1 DEF IsRecord
  <2> DEFINE r == RemoveFirst(c.members[s], o)
  <2>4. c.members[s] \in Seq(Objects) /\ r \in Seq(Objects)
    <3>1. c.members[s] \in Seq(Objects)
      BY <2>1, CanvasFields
    <3> QED BY <2>1, <3>1, RemoveFirstFacts
  <2>5. e.members = [c.members EXCEPT ![s] = r]
    BY <2>3
  <2>6. \A m \in Numbers : o \notin Range(b.objects[m])
    BY <1>2
  <2> HIDE DEF e, n, s, r
  <2>7. e \in CanvasType
    <3>1. /\ e.members \in [Objects -> Seq(Objects)] /\ e.usage \in [Numbers -> Int]
          /\ e.parent \in [Objects -> Objects \union {NoObject}]
          /\ e.number \in [Objects -> Numbers]
      BY <2>1, <2>3, <2>4, <2>5, CanvasFields
    <3> QED BY <2>3, <3>1, CanvasFields, CanvasRecord
  <2>8. Tracks(b, e)
    <3>1. ASSUME NEW t \in Objects PROVE KeepsOrder(b.members[t], e.members[t])
      <4>1. c.members[t] \in Seq(Objects) /\ KeepsOrder(b.members[t], c.members[t])
        BY CanvasFields DEF Tracks
      <4>2. e.members[t] = IF t = s THEN RemoveFirst(c.members[t], o) ELSE c.members[t]
        BY <2>5, CanvasFields DEF r
      <4> QED BY <4>1, <4>2, OrderRemoved
    <3> QED BY <2>3, <3>1 DEF Tracks
  <2>9. Numbered(e)
    <3> SUFFICES ASSUME NEW p \in Objects, e.inLayer[p] PROVE e.layer[p] = e.number[p]
      BY DEF Numbered
    <3>1. p # o /\ c.inLayer[p]
      BY <2>1, <2>3
    <3>2. e.number[p] = c.number[p]
      BY <2>3, <3>1, CanvasFields
    <3> QED BY <2>3, <3>1, <3>2 DEF Numbered
  <2>10. e.number[o] \in Numbers /\ ~e.inLayer[o]
    BY <2>1, <2>3, <2>7, CanvasFields
  <2> QED BY <2>1, <2>2, <2>6, <2>7, <2>8, <2>9, <2>10, InjectTracks
<1> QED BY <1>1, <1>2

\* An object becomes a member of a smart object it was no member of.
LEMMA MemberAddTracks ==
  ASSUME NEW c \in CanvasType, NEW A \in SUBSET Objects, Placed(c, A), Numbered(c),
         NEW o \in A, NEW s \in A, c.parent[o] # s
  PROVE  Tracks(c, MemberAdd(c, o, s)) /\ Numbered(MemberAdd(c, o, s))
<1> DEFINE b == MemberDel(c, o)
           d == Release(b, o, TRUE)
           n == d.layer[s]
           e == MemberAdd(c, o, s)
<1>1. b \in CanvasType /\ Placed(b, A) /\ b.parent = [c.parent EXCEPT ![o] = NoObject]
  BY MemberDelFacts
<1>2. Tracks(c, b) /\ Numbered(b)
  <2>1. Tracks(c, c)
    BY TracksSelf
  <2>2. c.parent[o] # NoObject => \A m \in Numbers : o \notin Range(c.objects[m])
    BY MemberUnlisted
  <2> QED BY <2>1, <2>2, MemberDelTracks
<1>3. e = [d EXCEPT !.layer[o] = n, !.number[o] = n, !.usage[n] = @ + 1,
                    !.parent[o] = s, !.members[s] = Append(@, o)]
  BY DEF MemberAdd
<1> HIDE DEF b
<1>4. o \in Objects /\ s \in Objects /\ b.parent[o] = NoObject
  BY <1>1, CanvasFields
<1>5. b.inLayer[o] /\ b.layer[o] \in Numbers
  <2>1. b.inLayer[o] /\ b.layer[o] \in Range(b.layers) /\ b.layers \in Seq(Numbers)
    BY <1>1, <1>4, CanvasFields DEF Placed, Belongs
  <2> QED BY <2>1, RangeFacts
<1>6. d \in CanvasType
  BY <1>1, <1>4, ReleaseFacts
<1>7. Tracks(c, d) /\ Numbered(d)
  BY <1>1, <1>2, <1>4, <1>5, ReleaseTracks
<1> HIDE DEF d, n, e
<1>8. /\ e.objects = d.objects /\ e.inLayer = d.inLayer
      /\ e.layer = [d.layer EXCEPT ![o] = n]
      /\ e.number = [d.number EXCEPT ![o] = n]
      /\ e.members = [d.members EXCEPT ![s] = Append(@, o)]
  <2>1. IsRecord(d)
    BY <1>6, CanvasIsRecord
  <2> QED BY <1>3, <2>1 DEF IsRecord
<1>9. Tracks(c, e)
  <2>1. ASSUME NEW t \in Objects PROVE KeepsOrder(c.members[t], e.members[t])
    <3>1. /\ c.members[t] \in Seq(Objects) /\ d.members[t] \in Seq(Objects)
          /\ KeepsOrder(c.members[t], d.members[t])
      BY <1>6, <1>7, CanvasFields DEF Tracks
    <3>2. e.members[t] = IF t = s THEN Append(d.members[t], o) ELSE d.members[t]
      BY <1>6, <1>8, CanvasFields
    <3>3. t = s => o \notin Range(c.members[t])
      BY DEF Placed, Grouped
    <3> QED BY <1>4, <3>1, <3>2, <3>3, OrderAppended
  <2> QED BY <1>7, <1>8, <2>1 DEF Tracks
<1>10. Numbered(e)
  <2> SUFFICES ASSUME NEW p \in Objects, e.inLayer[p] PROVE e.layer[p] = e.number[p]
    BY DEF Numbered
  <2>1. CASE p = o
    BY <1>6, <1>8, <2>1, CanvasFields
  <2>2. CASE p # o
    <3>1. e.layer[p] = d.layer[p] /\ e.number[p] = d.number[p]
      BY <1>6, <1>8, <2>2, CanvasFields
    <3> QED BY <1>7, <1>8, <3>1 DEF Numbered
  <2> QED BY <2>1, <2>2
<1> QED BY <1>9, <1>10 DEF e

\* An object is moved to another layer, whose list it was not in.
LEMMA LayerSetTracks ==
  ASSUME NEW c \in CanvasType, NEW A \in SUBSET Objects, Placed(c, A), Numbered(c),
         NEW o \in A, c.parent[o] = NoObject, NEW n \in Numbers, c.number[o] # n
  PROVE  Tracks(c, LayerSet(c, o, n)) /\ Numbered(LayerSet(c, o, n))
<1> DEFINE b == Release(c, o, TRUE)
           e == [b EXCEPT !.number[o] = n]
           i == Inject(e, o)
           B == A \ {o}
<1>1. o \in Objects /\ c.inLayer[o] /\ c.layer[o] \in Numbers
  <2>1. o \in Objects /\ c.inLayer[o] /\ c.layer[o] \in Range(c.layers) /\ c.layers \in Seq(Numbers)
    BY CanvasFields DEF Placed, Belongs
  <2> QED BY <2>1, RangeFacts
<1>2. b \in CanvasType /\ Placed(b, B)
  BY ReleaseFacts
<1>3. Tracks(c, b) /\ Numbered(b)
  <2>1. Tracks(c, c)
    BY TracksSelf
  <2> QED BY <1>1, <2>1, ReleaseTracks
<1>4. LayerSet(c, o, n) = IF i.smart[o] THEN LayerSetChildren(i, o, n) ELSE i
  BY DEF LayerSet
<1>5. ~b.inLayer[o]
  BY <1>1, <1>2 DEF Placed, Belongs
<1> HIDE DEF b, B
<1>6. /\ e.alive = b.alive /\ e.smart = b.smart /\ e.layers = b.layers
      /\ e.objects = b.objects /\ e.inLayer = b.inLayer /\ e.layer = b.layer
      /\ e.parent = b.parent /\ e.members = b.members /\ e.usage = b.usage
      /\ e.number = [b.number EXCEPT ![o] = n]
      /\ IsRecord(e)
  <2>1. IsRecord(b)
    BY <1>2, CanvasIsRecord
  <2> QED BY <2>1 DEF IsRecord
<1> HIDE DEF e
<1>7. e \in CanvasType
  <2>1. e.number \in [Objects -> Numbers]
    BY <1>2, <1>6, CanvasFields
  <2> QED BY <1>2, <1>6, <2>1, CanvasFields, CanvasRecord
<1>8. Tracks(c, e)
  BY <1>3, <1>6 DEF Tracks
<1>9. Numbered(e)
  <2> SUFFICES ASSUME NEW p \in Objects, e.inLayer[p] PROVE e.layer[p] = e.number[p]
    BY DEF Numbered
  <2>1. p # o /\ b.inLayer[p]
    BY <1>5, <1>6
  <2>2. e.number[p] = b.number[p]
    BY <1>2, <1>6, <2>1, CanvasFields
  <2> QED BY <1>3, <1>6, <2>1, <2>2 DEF Numbered
<1>10. e.number[o] = n /\ ~e.inLayer[o]
  BY <1>1, <1>2, <1>5, <1>6, CanvasFields
<1>11. o \notin Range(c.objects[n])
  <2>1. c.layer[o] # n
    BY <1>1 DEF Numbered
  <2> QED BY <2>1 DEF Placed, Stacked
<1>12. Tracks(c, i) /\ Numbered(i)
  BY <1>1, <1>7, <1>8, <1>9, <1>10, <1>11, InjectTracks
<1>13. i \in CanvasType
  <2>1. /\ i.alive = e.alive /\ i.smart = e.smart /\ i.parent = e.parent
        /\ i.members = e.members /\ i.number = e.number
        /\ i.layers = IF n \in Range(e.layers) THEN e.layers ELSE LayerAdd(e.layers, n)
        /\ i.objects = [e.objects EXCEPT ![n] = Append(@, o)]
    BY <1>1, <1>7, <1>10, InjectEffect
  <2>2. B \in SUBSET Objects /\ o \notin B /\ o \in e.alive
    <3>1. b.alive = c.alive
      BY <1>1, ReleaseEffect DEF b
    <3> QED BY <1>6, <3>1 DEF B, Placed
  <2>3. Placed(e, B)
    <3>1. \A m : Of(e, B, m) = Of(b, B, m)
      BY <1>6 DEF Of
    <3> QED BY <1>2, <1>6, <3>1 DEF Placed, Belongs, Stacked, Grouped, Counted
  <2> QED BY <1>7, <2>2, <2>3, InjectFacts
<1> HIDE DEF i
<1> DEFINE d == LayerSetChildren(i, o, n)
           moved == Followers(i, o, n)
<1>14. Tracks(c, d) /\ Numbered(d)
  <2>1. d = [i EXCEPT !.number = [m \in Objects |-> IF m \in moved THEN n ELSE i.number[m]],
                      !.layer = [m \in Objects |-> IF m \in moved THEN n ELSE i.layer[m]],
                      !.usage[n] = @ + Cardinality(moved)]
    BY DEF LayerSetChildren
  <2> HIDE DEF d, moved
  <2>2. /\ d.objects = i.objects /\ d.members = i.members /\ d.inLayer = i.inLayer
        /\ d.number = [m \in Objects |-> IF m \in moved THEN n ELSE i.number[m]]
        /\ d.layer = [m \in Objects |-> IF m \in moved THEN n ELSE i.layer[m]]
    <3>1. IsRecord(i)
      BY <1>13, CanvasIsRecord
    <3> QED BY <2>1, <3>1 DEF IsRecord
  <2>3. Tracks(c, d)
    BY <1>12, <2>2 DEF Tracks
  <2>4. Numbered(d)
    BY <1>12, <2>2 DEF Numbered
  <2> QED BY <2>3, <2>4
<1> HIDE DEF d
<1> QED BY <1>4, <1>12, <1>14 DEF d

\* The members of a smart object, deleted one by one.
LEMMA MembersLoopTracks ==
  ASSUME NEW b \in CanvasType, NEW c \in CanvasType, NEW A \in SUBSET Objects, Placed(c, A),
         Tracks(b, c), Numbered(c), NEW o \in Objects,
         \A p \in Range(c.members[o]) : \A n \in Numbers : p \notin Range(b.objects[n])
  PROVE  LET d == Members!Loop(c, c.members[o])
         IN  Tracks(b, d) /\ Numbered(d)
<1> DEFINE list == c.members[o]
           d == Members!Loop(c, list)
           Kept(x) == Placed(x, A) /\ Tracks(b, x) /\ Numbered(x)
           I == [k \in 0 .. Len(list) |-> {x \in CanvasType : Kept(x)}]
<1>1. list \in Seq(Objects) /\ Range(list) = {p \in A : c.parent[p] = o}
  BY CanvasFields DEF Placed, Grouped
<1>2. \A p \in Range(list) : \A n \in Numbers : p \notin Range(b.objects[n])
  OBVIOUS
<1> HIDE DEF list
<1>3. Len(list) \in Nat /\ \A k \in 1 .. Len(list) : list[k] \in A /\ list[k] \in Range(list)
  BY <1>1, RangeFacts
<1>4. c \in I[0]
  BY <1>3
<1>5. ASSUME NEW k \in 1 .. Len(list), NEW x \in I[k - 1]
      PROVE  MemberDel(x, list[k]) \in I[k]
  <2> DEFINE m == list[k]
             y == MemberDel(x, m)
  <2>1. k - 1 \in 0 .. Len(list) /\ k \in 0 .. Len(list)
    BY <1>3
  <2>2. x \in CanvasType /\ Placed(x, A) /\ Tracks(b, x) /\ Numbered(x)
    BY <2>1
  <2>3. m \in A /\ \A n \in Numbers : m \notin Range(b.objects[n])
    BY <1>2, <1>3
  <2> HIDE DEF I, m
  <2>4. y \in CanvasType /\ Placed(y, A)
    BY <2>2, <2>3, MemberDelFacts
  <2>5. Tracks(b, y) /\ Numbered(y)
    BY <2>2, <2>3, MemberDelTracks
  <2> QED BY <2>1, <2>4, <2>5 DEF I, m
<1>6. I[Len(list)] = {x \in CanvasType : Kept(x)}
  BY <1>3
<1>7. d \in I[Len(list)]
  <2> HIDE DEF I
  <2> QED BY <1>1, <1>4, <1>5, Members!LoopKeeps
<1> HIDE DEF d
<1>8. Kept(d)
  BY <1>6, <1>7
<1> QED BY <1>8 DEF d, list

\* evas_object_smart_cleanup
LEMMA SmartCleanupTracks ==
  ASSUME NEW c \in CanvasType, NEW A \in SUBSET Objects, Placed(c, A), Numbered(c), NEW o \in A
  PROVE  Tracks(c, SmartCleanup(c, o)) /\ Numbered(SmartCleanup(c, o))
<1> DEFINE b == MemberDel(c, o)
           e == Members!Loop(b, b.members[o])
           d == [e EXCEPT !.smart[o] = FALSE]
<1>1. b \in CanvasType /\ Placed(b, A) /\ b.parent = [c.parent EXCEPT ![o] = NoObject]
  BY MemberDelFacts
<1>2. Tracks(c, b) /\ Numbered(b)
  <2>1. Tracks(c, c)
    BY TracksSelf
  <2>2. c.parent[o] # NoObject => \A m \in Numbers : o \notin Range(c.objects[m])
    BY MemberUnlisted
  <2> QED BY <2>1, <2>2, MemberDelTracks
<1>3. SmartCleanup(c, o) = d
  BY DEF SmartCleanup
<1> HIDE DEF b
<1>4. ASSUME NEW p \in Range(b.members[o]), NEW n \in Numbers
      PROVE  p \notin Range(c.objects[n])
  <2>1. p \in A /\ p \in Objects /\ b.parent[p] = o
    BY <1>1 DEF Placed, Grouped
  <2>2. o # NoObject
    BY LayersAssumption DEF LayersAssumption
  <2>3. c.parent[p] # NoObject
    BY <1>1, <2>1, <2>2, CanvasFields
  <2> QED BY <2>1, <2>3, MemberUnlisted
<1>5. o \in Objects
  OBVIOUS
<1>6. Tracks(c, e) /\ Numbered(e)
  BY <1>1, <1>2, <1>4, <1>5, MembersLoopTracks
<1>7. e \in CanvasType
  BY <1>1, <1>5, MembersLoopFacts
<1> HIDE DEF e
<1>8. /\ d.objects = e.objects /\ d.members = e.members /\ d.inLayer = e.inLayer
      /\ d.layer = e.layer /\ d.number = e.number
  <2>1. IsRecord(e)
    BY <1>7, CanvasIsRecord
  <2> QED BY <2>1 DEF IsRecord
<1> HIDE DEF d
<1> QED BY <1>3, <1>6, <1>8 DEF Tracks, Numbered

\* evas_object_free, of an object that is no member and has none.
LEMMA FreeTracks ==
  ASSUME NEW b, NEW c \in CanvasType, Placed(c, c.alive), Tracks(b, c), Numbered(c),
         NEW o \in c.alive, Detached(c, o), NEW clean \in BOOLEAN
  PROVE  Tracks(b, FreeObject(c, o, clean)) /\ Numbered(FreeObject(c, o, clean))
<1> DEFINE a == [c EXCEPT !.smart[o] = FALSE]
           r == Release(a, o, clean)
           d == [r EXCEPT !.alive = @ \ {o}]
<1>1. /\ o \in Objects /\ c.parent[o] = NoObject /\ c.members[o] = <<>>
      /\ c.inLayer[o] /\ c.layer[o] \in Range(c.layers) /\ c.layers \in Seq(Numbers)
  BY CanvasFields DEF Detached, Placed, Belongs
<1>2. Members!Loop(c, <<>>) = c
  BY NoMembers
<1>3. FreeObject(c, o, clean) = d
  <2>1. MemberDel(c, o) = c
    BY <1>1 DEF MemberDel
  <2>2. SmartCleanup(c, o) = a
    BY <1>1, <1>2, <2>1 DEF SmartCleanup
  <2> QED BY <1>1, <2>2 DEF FreeObject
<1>4. /\ a.alive = c.alive /\ a.layers = c.layers /\ a.objects = c.objects
      /\ a.usage = c.usage /\ a.layer = c.layer /\ a.number = c.number
      /\ a.inLayer = c.inLayer /\ a.parent = c.parent /\ a.members = c.members
      /\ a.smart = [c.smart EXCEPT ![o] = FALSE]
      /\ IsRecord(a)
  <2>1. IsRecord(c)
    BY CanvasIsRecord
  <2> QED BY <2>1 DEF IsRecord
<1> HIDE DEF a
<1>5. a \in CanvasType
  <2>1. a.smart \in [Objects -> BOOLEAN]
    BY <1>4, CanvasFields
  <2> QED BY <1>4, <2>1, CanvasFields, CanvasRecord
<1>6. Tracks(b, a) /\ Numbered(a)
  BY <1>4 DEF Tracks, Numbered
<1>7. a.inLayer[o] /\ a.layer[o] \in Numbers
  BY <1>1, <1>4, RangeFacts
<1>8. Tracks(b, r) /\ Numbered(r)
  BY <1>1, <1>5, <1>6, <1>7, ReleaseTracks
<1>9. IsRecord(r)
  <2>1. IsRecord(Release(a, o, TRUE)) /\ IsRecord(Release(a, o, FALSE))
    BY <1>1, <1>5, <1>7, ReleaseEffect
  <2>2. clean = TRUE \/ clean = FALSE
    OBVIOUS
  <2> QED BY <2>1, <2>2
<1> HIDE DEF r
<1>10. /\ d.objects = r.objects /\ d.members = r.members /\ d.inLayer = r.inLayer
       /\ d.layer = r.layer /\ d.number = r.number
  BY <1>9 DEF IsRecord
<1> HIDE DEF d
<1> QED BY <1>3, <1>8, <1>10 DEF Tracks, Numbered

\* The objects a render frees, one by one.
LEMMA DeletedTracks ==
  ASSUME NEW c \in CanvasType, Placed(c, c.alive), Numbered(c), NEW list, Loose(c, list)
  PROVE  LET d == Deleted!Loop(c, list)
         IN  Tracks(c, d) /\ Numbered(d)
<1> DEFINE d == Deleted!Loop(c, list)
           Kept(k) == {x \in Freed(c, list, k) : Tracks(c, x) /\ Numbered(x)}
           I == [k \in 0 .. Len(list) |-> Kept(k)]
<1>1. list \in Seq(Objects) /\ Len(list) \in Nat
  BY DEF Loose
<1>2. c \in I[0]
  <2>1. Tracks(c, c)
    BY TracksSelf
  <2>2. c \in Freed(c, list, 0)
    BY FreedStart
  <2> QED BY <1>1, <2>1, <2>2
<1>3. ASSUME NEW k \in 1 .. Len(list), NEW x \in I[k - 1]
      PROVE  FreeOfRender(x, list[k]) \in I[k]
  <2> DEFINE o == list[k]
             y == FreeObject(x, o, TRUE)
  <2>1. k - 1 \in 0 .. Len(list) /\ k \in 0 .. Len(list)
    BY <1>1
  <2>2. x \in Freed(c, list, k - 1) /\ Tracks(c, x) /\ Numbered(x)
    BY <2>1
  <2> HIDE DEF I
  <2>3. o \in x.alive /\ Detached(x, o) /\ x \in CanvasType /\ Placed(x, x.alive)
    BY <2>2, FreedNext
  <2>4. y \in Freed(c, list, k)
    BY <2>2, FreedStep
  <2> HIDE DEF o
  <2>5. Tracks(c, y) /\ Numbered(y)
    BY <2>2, <2>3, FreeTracks
  <2> QED BY <2>1, <2>4, <2>5 DEF FreeOfRender, I, o
<1>4. I[Len(list)] = Kept(Len(list))
  BY <1>1
<1>5. d \in I[Len(list)]
  <2> HIDE DEF I
  <2> QED BY <1>1, <1>2, <1>3, Deleted!LoopKeeps
<1> HIDE DEF d, I
<1>6. Tracks(c, d) /\ Numbered(d)
  BY <1>4, <1>5
<1> QED BY <1>6 DEF d

\* A canvas without objects in its lists.
LEMMA EmptyTracks ==
  ASSUME NEW c, NEW d \in CanvasType, Placed(d, {})
  PROVE  Tracks(c, d) /\ Numbered(d)
<1>1. ASSUME NEW n \in Numbers PROVE d.objects[n] = <<>>
  <2>1. d.objects[n] \in Seq(Objects) /\ Range(d.objects[n]) = {}
    BY CanvasFields DEF Placed, Stacked
  <2> QED BY <2>1, NoElements
<1>2. ASSUME NEW s \in Objects PROVE d.members[s] = <<>>
  <2>1. d.members[s] \in Seq(Objects) /\ Range(d.members[s]) = {}
    BY CanvasFields DEF Placed, Grouped
  <2> QED BY <2>1, NoElements
<1>3. Tracks(c, d)
  BY <1>1, <1>2, OrderEmpty DEF Tracks
<1>4. Numbered(d)
  BY DEF Placed, Belongs, Numbered
<1> QED BY <1>3, <1>4

\* The list t is s with x inserted at i.
Inserts(s, t, i, x) ==
  /\ Len(t) = Len(s) + 1 /\ i \in 1 .. Len(s) + 1
  /\ \A j \in 1 .. Len(s) + 1 :
       t[j] = IF j < i THEN s[j] ELSE IF j = i THEN x ELSE s[j - 1]

\* What is in order with the new element, and is not it, was in order without it.
LEMMA NewBefore ==
  ASSUME NEW s \in Seq(Objects), NEW t \in Seq(Objects), NEW x, NEW i, Inserts(s, t, i, x),
         NEW o, NEW p, o # x, p # x, Before(t, o, p)
  PROVE  Before(s, o, p)
<1> DEFINE at(j) == IF j < i THEN j ELSE j - 1
<1>1. /\ Len(s) \in Nat /\ DOMAIN s = 1 .. Len(s) /\ DOMAIN t = 1 .. Len(s) + 1
      /\ i \in 1 .. Len(s) + 1
      /\ \A j \in 1 .. Len(s) + 1 :
           t[j] = IF j < i THEN s[j] ELSE IF j = i THEN x ELSE s[j - 1]
  BY DEF Inserts
<1>2. PICK k, l \in 1 .. Len(s) + 1 : k < l /\ t[k] = o /\ t[l] = p
  BY <1>1 DEF Before
<1>3. k # i /\ l # i
  BY <1>1, <1>2
<1>4. /\ at(k) \in 1 .. Len(s) /\ s[at(k)] = o
      /\ at(l) \in 1 .. Len(s) /\ s[at(l)] = p
  BY <1>1, <1>2, <1>3
<1>5. at(k) < at(l)
  BY <1>1, <1>2, <1>3
<1> HIDE DEF at
<1> QED BY <1>1, <1>4, <1>5 DEF Before

\* The list in which o is raised, lowered or stacked has the others as before.
LEMMA MovedBefore ==
  ASSUME IInv, NEW q \in Objects, Moves(q)
  PROVE  \E list \in Seq(Objects) :
           /\ Restack(q, list)
           /\ \A o, p : o # q /\ p # q /\ Before(list, o, p) => Before(ListOf(q), o, p)
<1> DEFINE old == ListOf(q)
           rest == RemoveFirst(old, q)
           Good(list) == \A o, p : o # q /\ p # q /\ Before(list, o, p) => Before(old, o, p)
<1>1. q \in canvas.alive
  BY DEF Moves, Raise, Lower, StackAbove, StackBelow, SameList
<1>2. old \in Seq(Objects) /\ IsInjective(old) /\ q \in Range(old)
  BY <1>1, ListOfFacts
<1>3. rest \in Seq(Objects) /\ Range(rest) = Range(old) \ {q}
  <2> HIDE DEF old
  <2> QED BY <1>2, RemoveFirstFacts
<1>4. ASSUME NEW o, NEW p, Before(rest, o, p) PROVE Before(old, o, p)
  BY <1>2, <1>4, RemovedBefore
<1> HIDE DEF old, rest
<1>5. ASSUME NEW list \in Seq(Objects), NEW i, Inserts(rest, list, i, q)
      PROVE  Good(list)
  <2> SUFFICES ASSUME NEW o, NEW p, o # q, p # q, Before(list, o, p)
               PROVE  Before(old, o, p)
    OBVIOUS
  <2>1. Before(rest, o, p)
    BY <1>3, <1>5, NewBefore
  <2> QED BY <1>4, <2>1
<1>6. Len(rest) \in Nat
  BY <1>3
<1>7. CASE Raise(q)
  <2> DEFINE list == Append(rest, q)
  <2>1. list \in Seq(Objects) /\ Inserts(rest, list, Len(rest) + 1, q)
    BY <1>3, <1>6 DEF Inserts
  <2>2. Restack(q, list)
    BY <1>7 DEF Raise, rest, old
  <2> HIDE DEF list, Good
  <2>3. Good(list)
    BY <1>5, <2>1
  <2> QED BY <2>1, <2>2, <2>3 DEF Good, old
<1>8. CASE Lower(q)
  <2> DEFINE e == <<q>>
             list == e \o rest
  <2>1. e \in Seq(Objects) /\ Len(e) = 1 /\ e[1] = q
    OBVIOUS
  <2>2. Restack(q, list)
    BY <1>8 DEF Lower, rest, old
  <2> HIDE DEF e
  <2>3. /\ list \in Seq(Objects) /\ Len(list) = Len(e) + Len(rest)
        /\ \A j \in 1 .. Len(e) + Len(rest) :
             list[j] = IF j <= Len(e) THEN e[j] ELSE rest[j - Len(e)]
    <3>1. e \in Seq(Objects) /\ rest \in Seq(Objects)
      BY <1>3, <2>1
    <3> QED BY ONLY <3>1, ConcatProperties
  <2> HIDE DEF list, Good
  <2>4. Inserts(rest, list, 1, q)
    BY <1>6, <2>1, <2>3 DEF Inserts
  <2>5. Good(list)
    BY <1>5, <2>3, <2>4
  <2> QED BY <2>2, <2>3, <2>5 DEF Good, old
<1>9. ASSUME NEW i \in 1 .. Len(rest) + 1, Restack(q, InsertAt(rest, i, q))
      PROVE  \E list \in Seq(Objects) : Restack(q, list) /\ Good(list)
  <2> DEFINE list == InsertAt(rest, i, q)
  <2>1. list \in Seq(Objects) /\ Inserts(rest, list, i, q)
    BY <1>3, InsertElements DEF Inserts
  <2>2. Restack(q, list)
    BY <1>9
  <2> HIDE DEF list, Good
  <2>3. Good(list)
    BY <1>5, <2>1
  <2> QED BY <2>1, <2>2, <2>3
<1>10. ASSUME NEW other \in Objects, StackAbove(q, other) \/ StackBelow(q, other)
       PROVE  \E list \in Seq(Objects) : Restack(q, list) /\ Good(list)
  <2> DEFINE at == Position(rest, other)
  <2>1. other \in Range(rest)
    <3>1. /\ other \in canvas.alive /\ other # q /\ canvas.parent[other] = canvas.parent[q]
          /\ canvas.parent[q] = NoObject => canvas.layer[other] = canvas.layer[q]
      BY <1>10 DEF StackAbove, StackBelow, SameList
    <3>2. other \in Range(old)
      BY <1>1, <3>1, ListOfFacts DEF old
    <3> QED BY <1>3, <3>1, <3>2
  <2>2. at \in 1 .. Len(rest)
    <3>1. \E i \in DOMAIN rest : rest[i] = other
      BY <1>3, <2>1, RangeFacts
    <3>2. at \in DOMAIN rest
      BY <3>1 DEF Position
    <3> QED BY <1>3, <3>2
  <2>3. \/ Restack(q, InsertAt(rest, at + 1, q))
        \/ Restack(q, InsertAt(rest, at, q))
    BY <1>10 DEF StackAbove, StackBelow, rest, old
  <2> HIDE DEF at, Good
  <2>4. at \in 1 .. Len(rest) + 1 /\ at + 1 \in 1 .. Len(rest) + 1
    BY <1>6, <2>2
  <2> QED BY <1>9, <2>3, <2>4
<1> QED BY <1>7, <1>8, <1>9, <1>10 DEF Moves, Good, old

\* The other objects keep their order when one is stacked.
LEMMA MovesOrder ==
  ASSUME IInv, Numbered(canvas), NEW q \in Objects, Moves(q)
  PROVE  /\ Numbered(canvas')
         /\ \A o, p \in Objects : o # q /\ p # q =>
              /\ \A n \in Numbers : ~Swapped(canvas.objects[n], canvas'.objects[n], o, p)
              /\ \A s \in Objects : ~Swapped(canvas.members[s], canvas'.members[s], o, p)
<1> DEFINE s == canvas.parent[q]
           n == canvas.layer[q]
<1>1. q \in canvas.alive
  BY DEF Moves, Raise, Lower, StackAbove, StackBelow, SameList
<1>2. PICK list \in Seq(Objects) :
        /\ Restack(q, list)
        /\ \A o, p : o # q /\ p # q /\ Before(list, o, p) => Before(ListOf(q), o, p)
  BY MovedBefore
<1>3. canvas \in CanvasType /\ Placed(canvas, canvas.alive) /\ Tracks(canvas, canvas)
  BY TracksSelf DEF IInv, TypeOK
<1>4. /\ ListOf(q) = IF s # NoObject THEN canvas.members[s] ELSE canvas.objects[n]
      /\ s # NoObject => s \in Objects
      /\ s = NoObject => n \in Numbers
  BY <1>1, ListOfFacts DEF ListOf
<1>5. canvas' = IF s # NoObject THEN [canvas EXCEPT !.members[s] = list]
                                ELSE [canvas EXCEPT !.objects[n] = list]
  BY <1>2 DEF Restack
<1> HIDE DEF s, n
<1>6. /\ canvas'.layer = canvas.layer /\ canvas'.number = canvas.number
      /\ canvas'.inLayer = canvas.inLayer
      /\ canvas'.members = IF s # NoObject THEN [canvas.members EXCEPT ![s] = list]
                                          ELSE canvas.members
      /\ canvas'.objects = IF s # NoObject THEN canvas.objects
                                          ELSE [canvas.objects EXCEPT ![n] = list]
  <2>1. IsRecord(canvas)
    BY <1>3, CanvasIsRecord
  <2>2. CASE s # NoObject
    BY <1>5, <2>1, <2>2 DEF IsRecord
  <2>3. CASE s = NoObject
    BY <1>5, <2>1, <2>3 DEF IsRecord
  <2> QED BY <2>2, <2>3
<1>7. Numbered(canvas')
  BY <1>6 DEF Numbered
<1>8. ASSUME NEW old, NEW new, KeepsOrder(old, old),
             new = old \/ (new = list /\ old = ListOf(q)),
             NEW o \in Objects, NEW p \in Objects, o # q, p # q
      PROVE  ~Swapped(old, new, o, p)
  <2>1. ~Swapped(old, old, o, p)
    BY <1>8 DEF KeepsOrder
  <2>2. Before(new, p, o) => Before(old, p, o)
    BY <1>2, <1>8
  <2> QED BY <2>1, <2>2 DEF Swapped
<1>9. ASSUME NEW m \in Numbers
      PROVE  /\ KeepsOrder(canvas.objects[m], canvas.objects[m])
             /\ \/ canvas'.objects[m] = canvas.objects[m]
                \/ canvas'.objects[m] = list /\ canvas.objects[m] = ListOf(q)
  <2>1. KeepsOrder(canvas.objects[m], canvas.objects[m])
    BY <1>3 DEF Tracks
  <2>2. CASE s = NoObject /\ m = n
    BY <1>3, <1>4, <1>6, <2>1, <2>2, CanvasFields
  <2>3. CASE s # NoObject
    BY <1>6, <2>1, <2>3
  <2>4. CASE s = NoObject /\ m # n
    <3>1. canvas'.objects = [canvas.objects EXCEPT ![n] = list]
      BY <1>6, <2>4
    <3>2. canvas.objects \in [Numbers -> Seq(Objects)]
      BY <1>3, CanvasFields
    <3> QED BY <2>1, <2>4, <3>1, <3>2
  <2> QED BY <2>2, <2>3, <2>4
<1>10. ASSUME NEW t \in Objects
       PROVE  /\ KeepsOrder(canvas.members[t], canvas.members[t])
              /\ \/ canvas'.members[t] = canvas.members[t]
                 \/ canvas'.members[t] = list /\ canvas.members[t] = ListOf(q)
  <2>1. KeepsOrder(canvas.members[t], canvas.members[t])
    BY <1>3 DEF Tracks
  <2>2. CASE s # NoObject /\ t = s
    BY <1>3, <1>4, <1>6, <2>1, <2>2, CanvasFields
  <2>3. CASE s = NoObject
    BY <1>6, <2>1, <2>3
  <2>4. CASE s # NoObject /\ t # s
    <3>1. canvas'.members = [canvas.members EXCEPT ![s] = list]
      BY <1>6, <2>4
    <3>2. canvas.members \in [Objects -> Seq(Objects)]
      BY <1>3, CanvasFields
    <3> QED BY <2>1, <2>4, <3>1, <3>2
  <2> QED BY <2>2, <2>3, <2>4
<1> QED BY <1>7, <1>8, <1>9, <1>10

\* No other step changes the order of a list.
LEMMA OthersKeepOrder ==
  ASSUME IInv, Numbered(canvas), [Next]_vars, ~ \E q \in Objects : Moves(q)
  PROVE  Tracks(canvas, canvas') /\ Numbered(canvas')
<1> DEFINE A == canvas.alive
           Kept == Tracks(canvas, canvas') /\ Numbered(canvas')
<1> SUFFICES Kept
  OBVIOUS
<1>1. /\ canvas \in CanvasType /\ Placed(canvas, A) /\ A \in SUBSET Objects
      /\ Tracks(canvas, canvas)
  BY TracksSelf, CanvasFields DEF IInv, TypeOK
<1>2. ASSUME UNCHANGED canvas PROVE Kept
  BY <1>1, <1>2
<1>3. ASSUME NEW o \in Objects, New(o) PROVE Kept
  <2> DEFINE c == [canvas EXCEPT !.alive = @ \union {o}, !.number[o] = 0,
                                 !.smart[o] = o \in Smarts]
  <2>1. canvas' = Inject(c, o) /\ o \notin A
    BY <1>3 DEF New
  <2>2. /\ c.alive = A \union {o} /\ c.layers = canvas.layers /\ c.objects = canvas.objects
        /\ c.usage = canvas.usage /\ c.layer = canvas.layer
        /\ c.number = [canvas.number EXCEPT ![o] = 0]
        /\ c.inLayer = canvas.inLayer /\ c.parent = canvas.parent
        /\ c.members = canvas.members
        /\ c.smart = [canvas.smart EXCEPT ![o] = o \in Smarts]
        /\ IsRecord(c)
    <3>1. IsRecord(canvas)
      BY <1>1, CanvasIsRecord
    <3> QED BY <3>1 DEF IsRecord
  <2> HIDE DEF c
  <2>3. c \in CanvasType
    <3>1. c.alive \in SUBSET Objects
      BY <1>1, <2>2
    <3>2. c.number \in [Objects -> Numbers]
      BY <1>1, <2>2, CanvasFields, LayersAssumption DEF LayersAssumption
    <3>3. c.smart \in [Objects -> BOOLEAN]
      BY <1>1, <2>2, CanvasFields
    <3> QED BY <1>1, <2>2, <3>1, <3>2, <3>3, CanvasFields, CanvasRecord
  <2>4. ~canvas.inLayer[o] /\ ~c.inLayer[o]
    BY <1>1, <2>1, <2>2 DEF Placed, Belongs
  <2>5. Tracks(canvas, c)
    BY <1>1, <2>2 DEF Tracks
  <2>6. Numbered(c)
    <3> SUFFICES ASSUME NEW p \in Objects, c.inLayer[p] PROVE c.layer[p] = c.number[p]
      BY DEF Numbered
    <3>1. p # o /\ canvas.inLayer[p]
      BY <2>2, <2>4
    <3>2. c.number[p] = canvas.number[p]
      BY <1>1, <2>2, <3>1, CanvasFields
    <3> QED BY <2>2, <3>1, <3>2 DEF Numbered
  <2>7. o \notin Range(canvas.objects[c.number[o]])
    <3>1. c.number[o] \in Numbers
      BY <2>3, CanvasFields
    <3> QED BY <1>1, <2>1, <3>1 DEF Placed, Stacked
  <2> QED BY <1>1, <2>1, <2>3, <2>4, <2>5, <2>6, <2>7, InjectTracks
<1>4. ASSUME NEW o \in A, canvas' = MemberDel(canvas, o) PROVE Kept
  <2>1. canvas.parent[o] # NoObject => \A m \in Numbers : o \notin Range(canvas.objects[m])
    BY <1>1, MemberUnlisted
  <2> QED BY <1>1, <1>4, <2>1, MemberDelTracks
<1>5. ASSUME NEW o \in Objects, NEW s \in Objects, AddMember(o, s) PROVE Kept
  <2>1. o \in A /\ s \in A /\ canvas.parent[o] # s /\ canvas' = MemberAdd(canvas, o, s)
    BY <1>5 DEF AddMember, Usable
  <2> QED BY <1>1, <2>1, MemberAddTracks
<1>6. ASSUME NEW o \in Objects, NEW n \in Numbers, SetLayer(o, n) PROVE Kept
  <2>1. /\ o \in A /\ canvas.parent[o] = NoObject /\ canvas.number[o] # n
        /\ canvas' = LayerSet(canvas, o, n)
    BY <1>6 DEF SetLayer, Usable
  <2> QED BY <1>1, <2>1, LayerSetTracks
<1>7. CASE Return
  <2>1. calls # <<>> => Top.object \in A
    <3>1. calls # <<>> => Len(calls) \in DOMAIN calls
      BY DEF IInv, TypeOK
    <3> QED BY <3>1 DEF IInv, CallsUsable, Top
  <2>2. CASE AfterDelCallbacks
    BY <1>2, <2>2 DEF AfterDelCallbacks
  <2>3. CASE AfterClassDel
    BY <1>4, <2>1, <2>3 DEF AfterClassDel
  <2>4. CASE AfterFreeCallbacks
    <3> DEFINE o == Top.object
    <3>1. o \in A /\ canvas' = SmartCleanup(canvas, o)
      BY <2>1, <2>4 DEF AfterFreeCallbacks
    <3> HIDE DEF o
    <3> QED BY <1>1, <3>1, SmartCleanupTracks
  <2> QED BY <1>7, <2>2, <2>3, <2>4 DEF Return
<1>8. CASE RenderEnd
  <2>1. canvas' = Deleted!Loop(canvas, deleteObjects)
    BY <1>8 DEF RenderEnd
  <2>2. Loose(canvas, deleteObjects)
    <3>1. deleteObjects \in Seq(Objects)
      BY DEF IInv, TypeOK
    <3>2. Range(deleteObjects) \subseteq Objects
      BY <3>1, RangeFacts
    <3> QED BY <3>1, <3>2 DEF IInv, FoundUsable, DeletedDetached, Loose
  <2> QED BY <1>1, <2>1, <2>2, DeletedTracks
<1>9. CASE FreeEnd
  <2> DEFINE d == Layers!Loop(canvas, canvas.layers)
  <2>1. canvas' = LayerClean(d) /\ \A o \in A : Detached(canvas, o)
    BY <1>9, AllDeleted DEF FreeEnd
  <2>2. d \in CanvasType /\ Placed(d, {}) /\ d.alive = {}
    BY <1>1, <2>1, FreeAllFacts
  <2> HIDE DEF d
  <2>3. canvas' \in CanvasType /\ Placed(canvas', {})
    BY <2>1, <2>2, CleanFacts
  <2> QED BY <2>3, EmptyTracks
<1> HIDE DEF Kept, A
<1>10. ASSUME NEW o \in Objects, Del(o) \/ Ref(o) \/ Unref(o) \/ PreFree(o) PROVE Kept
  BY <1>2, <1>10 DEF Del, Ref, Unref, PreFree
<1>11. ASSUME NEW o \in Objects, DelMember(o) PROVE Kept
  BY <1>4, <1>11 DEF DelMember, A
<1>12. CASE RenderPhase1 \/ FreeStart \/ Gone \/ UNCHANGED vars
  BY <1>2, <1>12 DEF RenderPhase1, FreeStart, Gone, vars
<1>13. CASE Call
  BY <1>3, <1>5, <1>6, <1>10, <1>11, <1>13 DEF Call, Moves
<1>14. CASE Evas
  BY <1>7, <1>8, <1>9, <1>10, <1>12, <1>14 DEF Evas
<1> QED BY <1>12, <1>13, <1>14 DEF Next

\* The order of two objects of a list only changes when one of them is stacked
\* (evas_stack.c); a function that moves an object to another list, and whatever
\* the callbacks of a deletion call, leaves the order of the others.
THEOREM OrderCorrect == Spec => OrderKept
<1> DEFINE Only == \A o, p \in Objects :
                     \/ \E n \in Numbers : Swapped(canvas.objects[n], canvas'.objects[n], o, p)
                     \/ \E s \in Objects : Swapped(canvas.members[s], canvas'.members[s], o, p)
                     => Moves(o) \/ Moves(p)
           Inv == IInv /\ Numbered(canvas)
<1>1. Init => Inv
  <2>1. Init => Numbered(canvas)
    BY DEF Init, Numbered
  <2> QED BY <2>1, InitIInv
<1>2. Inv /\ [Next]_vars => Numbered(canvas)' /\ Only
  <2> SUFFICES ASSUME IInv, Numbered(canvas), [Next]_vars
               PROVE  Numbered(canvas)' /\ Only
    OBVIOUS
  <2>1. CASE \E q \in Objects : Moves(q)
    <3>1. PICK q \in Objects : Moves(q)
      BY <2>1
    <3>2. /\ Numbered(canvas')
          /\ \A o, p \in Objects : o # q /\ p # q =>
               /\ \A n \in Numbers : ~Swapped(canvas.objects[n], canvas'.objects[n], o, p)
               /\ \A s \in Objects : ~Swapped(canvas.members[s], canvas'.members[s], o, p)
      BY <3>1, MovesOrder
    <3>3. Only
      BY <3>1, <3>2
    <3> QED BY <3>2, <3>3
  <2>2. CASE ~ \E q \in Objects : Moves(q)
    <3>1. Tracks(canvas, canvas') /\ Numbered(canvas')
      BY <2>2, OthersKeepOrder
    <3>2. Only
      BY <3>1 DEF Tracks, KeepsOrder
    <3> QED BY <3>1, <3>2
  <2> QED BY <2>1, <2>2
<1>3. Inv /\ [Next]_vars => Inv'
  BY <1>2, NextIInv
<1>4. Inv /\ [Next]_vars => [Only]_vars
  BY <1>2
<1> HIDE DEF Only, Inv
<1>5. Spec => [][Only]_vars
  BY <1>1, <1>3, <1>4, PTL DEF Spec
<1> QED BY <1>5 DEF OrderKept, Only
=============================================================================
