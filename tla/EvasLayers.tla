----------------------------- MODULE EvasLayers -----------------------------
(***************************************************************************)
(* The objects of one canvas: the layers they are stacked in               *)
(* (evas_layer.c, evas_stack.c), the smart objects they are members of     *)
(* (evas_object_smart.c), and their life (evas_object_main.c), from        *)
(* evas_object_del, whose callbacks may call any of these functions again, *)
(* over the render passes that count `delete_me' up, to the free.          *)
(*                                                                         *)
(* A layer is named by its number: the list never holds two layers of one  *)
(* number, and a layer that is freed under an object that points to it is  *)
(* an error the invariant NothingDangles would show.                       *)
(***************************************************************************)
EXTENDS Integers, FiniteSets, SequencesExt

CONSTANTS
  Objects,   \* the objects a program may create
  Smarts,    \* those of them that are smart objects
  Numbers,   \* layer numbers, 0 among them
  NoObject,  \* NULL
  NoLayer,   \* NULL
  MaxDepth,  \* bound: nested evas_object_del; the innermost's callbacks call nothing
  Held,      \* the objects programs take references of
  MaxRef     \* bound: references of one object (evas_object_ref)

ASSUME LayersAssumption ==
  /\ IsFiniteSet(Objects)
  /\ Smarts \subseteq Objects
  /\ Numbers \subseteq Int
  /\ 0 \in Numbers
  /\ NoObject \notin Objects
  /\ NoLayer \notin Numbers
  /\ MaxDepth \in Nat \ {0}
  /\ Held \subseteq Objects
  /\ MaxRef \in Nat

VARIABLES
  canvas,         \* the lists, and the fields of layers and objects they use
  deleteMe,       \* delete_me: 0, 1 after evas_object_del, 2 after a render
  ref,            \* ref
  delRef,         \* del_ref
  calls,          \* the evas_object_del that run, the innermost last
  rendering,      \* between phase 1 of a render and its end
  deleteObjects,  \* delete_objects
  stage           \* the canvas is "used", "freeing" or "gone"

vars == <<canvas, deleteMe, ref, delRef, calls, rendering, deleteObjects, stage>>

(***************************************************************************)
(* evas_layer.c                                                            *)
(***************************************************************************)
LayerAdd(list, n) ==
  LET above == {i \in DOMAIN list : list[i] > n}
  IN  InsertAt(list, IF above = {} THEN Len(list) + 1 ELSE Min(above), n)

Inject(c, o) ==
  IF c.inLayer[o] THEN c
  ELSE LET n == c.number[o]
       IN  [c EXCEPT !.layers = IF n \in Range(@) THEN @ ELSE LayerAdd(@, n),
                     !.objects[n] = Append(@, o),
                     !.usage[n] = @ + 1,
                     !.layer[o] = n,
                     !.inLayer[o] = TRUE]

Unlink(c, n) ==
  [c EXCEPT !.layers = RemoveFirst(@, n), !.objects[n] = <<>>, !.usage[n] = 0]

Release(c, o, clean) ==
  IF ~c.inLayer[o] THEN c
  ELSE LET n == c.layer[o]
           d == [c EXCEPT !.objects[n] = RemoveFirst(@, o), !.usage[n] = @ - 1,
                          !.layer[o] = NoLayer, !.inLayer[o] = FALSE]
       IN  IF clean /\ d.usage[n] <= 0 THEN Unlink(d, n) ELSE d

\* S has the members of o that are to move to layer n, and theirs.
HasFollowers(c, o, n, S) ==
  \A m \in Objects :
    c.parent[m] \in S \cup {o} /\ deleteMe[m] = 0 /\ c.number[m] # n => m \in S

\* The objects _evas_object_layer_set_child reaches from the smart object o.
Followers(c, o, n) ==
  {m \in Objects : \A S \in SUBSET Objects : HasFollowers(c, o, n, S) => m \in S}

\* A member is in no layer's list, so that evas_object_release leaves the
\* usage of its old layer as it is.
LayerSetChildren(c, o, n) ==
  LET moved == Followers(c, o, n)
  IN  [c EXCEPT !.number = [m \in Objects |-> IF m \in moved THEN n ELSE c.number[m]],
                !.layer = [m \in Objects |-> IF m \in moved THEN n ELSE c.layer[m]],
                !.usage[n] = @ + Cardinality(moved)]

LayerSet(c, o, n) ==
  LET d == Inject([Release(c, o, TRUE) EXCEPT !.number[o] = n], o)
  IN  IF d.smart[o] THEN LayerSetChildren(d, o, n) ELSE d

\* Mutant: the usage of the layer is lowered twice, by the caller and by the
\* release that follows.
MemberDelTwice(c, o) ==
  IF c.parent[o] = NoObject THEN c
  ELSE Inject([c EXCEPT !.members[c.parent[o]] = RemoveFirst(@, o),
                        !.parent[o] = NoObject,
                        !.usage[c.layer[o]] = @ - 2,
                        !.number[o] = c.layer[o]], o)

(***************************************************************************)
(* evas_object_smart.c                                                     *)
(***************************************************************************)
MemberDel(c, o) ==
  IF c.parent[o] = NoObject THEN c
  ELSE Inject([c EXCEPT !.members[c.parent[o]] = RemoveFirst(@, o),
                        !.parent[o] = NoObject,
                        !.usage[c.layer[o]] = @ - 1,
                        !.number[o] = c.layer[o]], o)

\* Mutant: the object stays in the list of its layer.
MemberAddKeepsLayer(c, o, s) ==
  LET d == MemberDel(c, o)
      n == d.layer[s]
  IN  [d EXCEPT !.layer[o] = n, !.number[o] = n, !.usage[n] = @ + 1,
                !.parent[o] = s, !.members[s] = Append(@, o)]

MemberAdd(c, o, s) ==
  LET d == Release(MemberDel(c, o), o, TRUE)
      n == d.layer[s]
  IN  [d EXCEPT !.layer[o] = n, !.number[o] = n, !.usage[n] = @ + 1,
                !.parent[o] = s, !.members[s] = Append(@, o)]

Members == INSTANCE ListLoops WITH Step <- MemberDel

SmartCleanup(c, o) ==
  LET d == MemberDel(c, o)
  IN  [Members!Loop(d, d.members[o]) EXCEPT !.smart[o] = FALSE]

(***************************************************************************)
(* evas_object_free: one object, those that a render found, those of a     *)
(* layer, those of all layers                                              *)
(***************************************************************************)
FreeObject(c, o, clean) ==
  LET d == SmartCleanup(c, o)
      r == IF c.parent[o] = NoObject THEN Release(d, o, clean) ELSE d
  IN  [r EXCEPT !.alive = @ \ {o}]

FreeOfRender(c, o) == FreeObject(c, o, TRUE)

Deleted == INSTANCE ListLoops WITH Step <- FreeOfRender

FreeOfLayer(c, o) == FreeObject(c, o, FALSE)

OfLayer == INSTANCE ListLoops WITH Step <- FreeOfLayer

LayerFreeObjects(c, n) == OfLayer!Loop(c, c.objects[n])

Layers == INSTANCE ListLoops WITH Step <- LayerFreeObjects

LayerClean(c) ==
  LET gone == Range(c.layers)
  IN  [c EXCEPT !.layers = <<>>,
                !.objects = [n \in Numbers |-> IF n \in gone THEN <<>> ELSE c.objects[n]],
                !.usage = [n \in Numbers |-> IF n \in gone THEN 0 ELSE c.usage[n]]]

-----------------------------------------------------------------------------
Init ==
  /\ canvas = [alive |-> {},
               layers |-> <<>>,
               objects |-> [n \in Numbers |-> <<>>],
               usage |-> [n \in Numbers |-> 0],
               layer |-> [o \in Objects |-> NoLayer],
               number |-> [o \in Objects |-> 0],
               inLayer |-> [o \in Objects |-> FALSE],
               parent |-> [o \in Objects |-> NoObject],
               members |-> [o \in Objects |-> <<>>],
               smart |-> [o \in Objects |-> FALSE]]
  /\ deleteMe = [o \in Objects |-> 0]
  /\ ref = [o \in Objects |-> 0]
  /\ delRef = [o \in Objects |-> FALSE]
  /\ calls = <<>>
  /\ rendering = FALSE
  /\ deleteObjects = <<>>
  /\ stage = "used"

\* The program calls in from outside, or from a callback of evas_object_del.
InProgram ==
  /\ Len(calls) < MaxDepth
  /\ stage = "used" \/ (stage = "freeing" /\ calls # <<>>)

Usable(o) == InProgram /\ o \in canvas.alive /\ deleteMe[o] = 0

\* evas_object_rectangle_add and the like, evas_object_smart_add
New(o) ==
  /\ InProgram
  /\ o \notin canvas.alive
  /\ canvas' = Inject([canvas EXCEPT !.alive = @ \cup {o}, !.number[o] = 0,
                                     !.smart[o] = o \in Smarts], o)
  /\ deleteMe' = [deleteMe EXCEPT ![o] = 0]
  /\ ref' = [ref EXCEPT ![o] = 0]
  /\ delRef' = [delRef EXCEPT ![o] = FALSE]
  /\ UNCHANGED <<calls, rendering, deleteObjects, stage>>

-----------------------------------------------------------------------------
(***************************************************************************)
(* evas_stack.c.  An object that clips others returns before               *)
(* evas_render_invalidate, which forgets the objects that are to be freed. *)
(***************************************************************************)
ListOf(o) == IF canvas.parent[o] # NoObject THEN canvas.members[canvas.parent[o]]
                                            ELSE canvas.objects[canvas.layer[o]]

Restack(o, list) ==
  /\ canvas' = IF canvas.parent[o] # NoObject
               THEN [canvas EXCEPT !.members[canvas.parent[o]] = list]
               ELSE [canvas EXCEPT !.objects[canvas.layer[o]] = list]
  /\ deleteObjects' \in {deleteObjects, <<>>}
  /\ UNCHANGED <<deleteMe, ref, delRef, calls, rendering, stage>>

Raise(o) ==
  /\ InProgram
  /\ o \in canvas.alive
  /\ Last(ListOf(o)) # o
  /\ Restack(o, Append(RemoveFirst(ListOf(o), o), o))

\* Mutant: the object changes places with the lowest one.
LowerByExchange(o) ==
  /\ InProgram
  /\ o \in canvas.alive
  /\ Head(ListOf(o)) # o
  /\ Restack(o, [i \in DOMAIN ListOf(o) |->
                   CASE ListOf(o)[i] = o -> Head(ListOf(o))
                     [] i = 1 -> o
                     [] OTHER -> ListOf(o)[i]])

Lower(o) ==
  /\ InProgram
  /\ o \in canvas.alive
  /\ Head(ListOf(o)) # o
  /\ Restack(o, <<o>> \o RemoveFirst(ListOf(o), o))

\* Both are members of one smart object, or in the list of one layer.
SameList(o, other) ==
  /\ InProgram
  /\ o # other
  /\ {o, other} \subseteq canvas.alive
  /\ canvas.parent[o] = canvas.parent[other]
  /\ canvas.parent[o] = NoObject => canvas.layer[o] = canvas.layer[other]

Position(list, o) == CHOOSE i \in DOMAIN list : list[i] = o

StackAbove(o, other) ==
  /\ SameList(o, other)
  /\ LET rest == RemoveFirst(ListOf(o), o)
         list == InsertAt(rest, Position(rest, other) + 1, o)
     IN  list # ListOf(o) /\ Restack(o, list)

StackBelow(o, other) ==
  /\ SameList(o, other)
  /\ LET rest == RemoveFirst(ListOf(o), o)
         list == InsertAt(rest, Position(rest, other), o)
     IN  list # ListOf(o) /\ Restack(o, list)

UsageExact(c) ==
  \A n \in Numbers : c.usage[n] = Cardinality({o \in c.alive : c.layer[o] = n})

\* Bound: once the members that followed a smart object have left the usage of
\* their old layer too high, no smart object with members moves any more.
\* evas_object_layer_set with the layer the object has is evas_object_raise.
SetLayer(o, n) ==
  /\ Usable(o)
  /\ canvas.parent[o] = NoObject
  /\ canvas.number[o] # n
  /\ canvas.members[o] # <<>> => UsageExact(canvas)
  /\ canvas' = LayerSet(canvas, o, n)
  /\ UNCHANGED <<deleteMe, ref, delRef, calls, rendering, deleteObjects, stage>>

-----------------------------------------------------------------------------
\* S has the smart parent of each of its objects.
HasParents(S) == \A m \in S : canvas.parent[m] \in S \cup {NoObject}

\* The object o, its smart parent, the smart parent of that, and so on.
Ancestors(o) ==
  {a \in Objects : \A S \in SUBSET Objects : o \in S /\ HasParents(S) => a \in S}

\* A program that adds a deleted object, or to a deleted one, is aborted, and
\* one that adds an object to a member of its own loops.
AddMember(o, s) ==
  /\ Usable(o)
  /\ Usable(s)
  /\ s \in Smarts
  /\ canvas.parent[o] # s
  /\ o \notin Ancestors(s)
  /\ canvas.members[o] # <<>> => UsageExact(canvas)
  /\ canvas' = MemberAdd(canvas, o, s)
  /\ UNCHANGED <<deleteMe, ref, delRef, calls, rendering, deleteObjects, stage>>

DelMember(o) ==
  /\ InProgram
  /\ o \in canvas.alive
  /\ canvas.parent[o] # NoObject
  /\ canvas' = MemberDel(canvas, o)
  /\ UNCHANGED <<deleteMe, ref, delRef, calls, rendering, deleteObjects, stage>>

-----------------------------------------------------------------------------
(***************************************************************************)
(* evas_object_del, cut where it calls back: the DEL callbacks, the class' *)
(* `del' of a smart object, the FREE callbacks.                            *)
(***************************************************************************)
Delete(o) ==
  IF ref[o] > 0
  THEN delRef' = [delRef EXCEPT ![o] = TRUE] /\ UNCHANGED calls
  ELSE calls' = Append(calls, [object |-> o, at |-> "del"]) /\ UNCHANGED delRef

Del(o) ==
  /\ Usable(o)
  /\ Delete(o)
  /\ UNCHANGED <<canvas, deleteMe, ref, rendering, deleteObjects, stage>>

Top == calls[Len(calls)]

AfterDelCallbacks ==
  /\ calls # <<>>
  /\ Top.at = "del"
  /\ LET o == Top.object
     IN  calls' = [calls EXCEPT ![Len(calls)].at =
                     IF canvas.smart[o] /\ deleteMe[o] = 0 THEN "class" ELSE "free"]
  /\ UNCHANGED <<canvas, deleteMe, ref, delRef, rendering, deleteObjects, stage>>

AfterClassDel ==
  /\ calls # <<>>
  /\ Top.at = "class"
  /\ canvas' = MemberDel(canvas, Top.object)
  /\ calls' = [calls EXCEPT ![Len(calls)].at = "free"]
  /\ UNCHANGED <<deleteMe, ref, delRef, rendering, deleteObjects, stage>>

AfterFreeCallbacks ==
  /\ calls # <<>>
  /\ Top.at = "free"
  /\ canvas' = SmartCleanup(canvas, Top.object)
  /\ deleteMe' = [deleteMe EXCEPT ![Top.object] = 1]
  /\ calls' = Front(calls)
  /\ UNCHANGED <<ref, delRef, rendering, deleteObjects, stage>>

Return == AfterDelCallbacks \/ AfterClassDel \/ AfterFreeCallbacks

Ref(o) ==
  /\ Usable(o)
  /\ o \in Held
  /\ ref[o] < MaxRef
  /\ ref' = [ref EXCEPT ![o] = @ + 1]
  /\ UNCHANGED <<canvas, deleteMe, delRef, calls, rendering, deleteObjects, stage>>

Unref(o) ==
  /\ InProgram
  /\ o \in canvas.alive
  /\ ref[o] > 0
  /\ ref' = [ref EXCEPT ![o] = @ - 1]
  /\ IF delRef[o] /\ ref[o] = 1 /\ deleteMe[o] = 0
     THEN calls' = Append(calls, [object |-> o, at |-> "del"])
     ELSE UNCHANGED calls
  /\ UNCHANGED <<canvas, deleteMe, delRef, rendering, deleteObjects, stage>>

-----------------------------------------------------------------------------
(***************************************************************************)
(* evas_render_updates_internal, as far as it counts deleted objects and   *)
(* frees them; its callbacks run between the two.                          *)
(***************************************************************************)
Listed(c) == UNION {Range(c.objects[n]) : n \in Range(c.layers)}

\* The objects to free, in the order phase 1 finds them: one object, the objects
\* of one layer, those of all layers.
Found(list, o) == IF deleteMe[o] = 2 THEN Append(list, o) ELSE list

InLayer == INSTANCE ListLoops WITH Step <- Found

FoundInLayer(list, n) == InLayer!Loop(list, canvas.objects[n])

InLayers == INSTANCE ListLoops WITH Step <- FoundInLayer

\* Mutant: delete_me is counted on although the object is to be freed.
RenderPhase1CountsOn ==
  /\ stage = "used" /\ calls = <<>> /\ ~rendering
  /\ rendering' = TRUE
  /\ deleteObjects' = InLayers!Loop(deleteObjects, canvas.layers)
  /\ deleteMe' = [o \in Objects |->
       IF o \in Listed(canvas) /\ deleteMe[o] > 0 THEN deleteMe[o] + 1 ELSE deleteMe[o]]
  /\ UNCHANGED <<canvas, ref, delRef, calls, stage>>

\* A render that need not run phase 1 again does none of this.
RenderPhase1 ==
  /\ stage = "used" /\ calls = <<>> /\ ~rendering
  /\ rendering' = TRUE
  /\ deleteObjects' = InLayers!Loop(deleteObjects, canvas.layers)
  /\ deleteMe' = [o \in Objects |->
       IF o \in Listed(canvas) /\ deleteMe[o] = 1 THEN 2 ELSE deleteMe[o]]
  /\ UNCHANGED <<canvas, ref, delRef, calls, stage>>

RenderEnd ==
  /\ rendering /\ calls = <<>>
  /\ rendering' = FALSE
  /\ canvas' = Deleted!Loop(canvas, deleteObjects)
  /\ deleteMe' = [o \in Objects |-> IF o \in Range(deleteObjects) THEN 0 ELSE deleteMe[o]]
  /\ delRef' = [o \in Objects |-> delRef[o] /\ o \notin Range(deleteObjects)]
  /\ ref' = [o \in Objects |-> IF o \in Range(deleteObjects) THEN 0 ELSE ref[o]]
  /\ deleteObjects' = <<>>
  /\ UNCHANGED <<calls, stage>>

(***************************************************************************)
(* evas_free: every object that is not a member is deleted, again and      *)
(* again until none is left, then all are freed.                           *)
(***************************************************************************)
FreeStart ==
  /\ stage = "used" /\ calls = <<>> /\ ~rendering
  /\ stage' = "freeing"
  /\ deleteObjects' = <<>>
  /\ UNCHANGED <<canvas, deleteMe, ref, delRef, calls, rendering>>

PreFree(o) ==
  /\ stage = "freeing" /\ calls = <<>>
  /\ o \in Listed(canvas)
  /\ deleteMe[o] = 0 /\ canvas.parent[o] = NoObject
  /\ Delete(o)
  /\ UNCHANGED <<canvas, deleteMe, ref, rendering, deleteObjects, stage>>

FreeEnd ==
  /\ stage = "freeing" /\ calls = <<>>
  /\ \A o \in Listed(canvas) : deleteMe[o] # 0
  /\ stage' = "gone"
  /\ canvas' = LayerClean(Layers!Loop(canvas, canvas.layers))
  /\ deleteMe' = [o \in Objects |-> 0]
  /\ ref' = [o \in Objects |-> 0]
  /\ delRef' = [o \in Objects |-> FALSE]
  /\ UNCHANGED <<calls, rendering, deleteObjects>>

Gone == stage = "gone" /\ UNCHANGED vars

-----------------------------------------------------------------------------
Call ==
  \E o \in Objects :
    \/ New(o) \/ Raise(o) \/ Lower(o) \/ DelMember(o)
    \/ Del(o) \/ Ref(o) \/ Unref(o)
    \/ \E other \in Objects :
         StackAbove(o, other) \/ StackBelow(o, other) \/ AddMember(o, other)
    \/ \E n \in Numbers : SetLayer(o, n)

Evas == Return \/ RenderPhase1 \/ RenderEnd \/ FreeStart
          \/ (\E o \in Objects : PreFree(o)) \/ FreeEnd

Next == Call \/ Evas \/ Gone

Spec == Init /\ [][Next]_vars

-----------------------------------------------------------------------------
(* What should hold *)

CanvasType ==
  [alive : SUBSET Objects, layers : Seq(Numbers), objects : [Numbers -> Seq(Objects)],
   usage : [Numbers -> Int], layer : [Objects -> Numbers \cup {NoLayer}],
   number : [Objects -> Numbers], inLayer : [Objects -> BOOLEAN],
   parent : [Objects -> Objects \cup {NoObject}], members : [Objects -> Seq(Objects)],
   smart : [Objects -> BOOLEAN]]

\* The types of the variables.
TypeOK ==
  /\ canvas \in CanvasType
  /\ deleteMe \in [Objects -> 0..2]
  /\ ref \in [Objects -> 0..MaxRef]
  /\ delRef \in [Objects -> BOOLEAN]
  /\ calls \in Seq([object : Objects, at : {"del", "class", "free"}])
  /\ rendering \in BOOLEAN
  /\ deleteObjects \in Seq(Objects)
  /\ stage \in {"used", "freeing", "gone"}

\* Every object is in exactly one list, once: that of its layer, or that of
\* its smart parent, whatever was called from the callbacks of a deletion
\* (in_layer and smart.parent say which, evas_object_inject, member_add); the
\* layers are in the order of their numbers (evas_layer_add, evas_layer_find).
InOneList ==
  /\ \A i, j \in DOMAIN canvas.layers : i < j => canvas.layers[i] < canvas.layers[j]
  /\ \A o \in canvas.alive : canvas.inLayer[o] <=> canvas.parent[o] = NoObject
  /\ \A n \in Numbers :
       /\ Len(canvas.objects[n]) = Cardinality(Range(canvas.objects[n]))
       /\ Range(canvas.objects[n]) \cap canvas.alive =
            {o \in canvas.alive : canvas.inLayer[o] /\ canvas.layer[o] = n}
  /\ \A s \in Objects :
       /\ Len(canvas.members[s]) = Cardinality(Range(canvas.members[s]))
       /\ Range(canvas.members[s]) \cap canvas.alive = {o \in canvas.alive : canvas.parent[o] = s}

\* A layer lives as long as an object points to it: its usage counts at least
\* the objects that do, members included (evas_object_release frees a layer
\* whose usage is 0).
LayersAlive ==
  /\ \A o \in canvas.alive : canvas.layer[o] \in Range(canvas.layers)
  /\ \A n \in Numbers :
       canvas.usage[n] >= Cardinality({o \in canvas.alive : canvas.layer[o] = n})

\* A freed object is in no list any more, is nobody's parent or member, and
\* no evas_object_del and no render will come back to it; already one that was
\* deleted has left its smart parent and has no members, so that neither can be
\* reached through the other until it is freed.
FreedIsForgotten ==
  /\ \A o \in canvas.alive :
       deleteMe[o] > 0 => canvas.parent[o] = NoObject /\ canvas.members[o] = <<>>
  /\ UNION {Range(canvas.objects[n]) : n \in Numbers} \subseteq canvas.alive
  /\ UNION {Range(canvas.members[s]) : s \in Objects} \subseteq canvas.alive
  /\ \A o \in canvas.alive : canvas.parent[o] \in canvas.alive \cup {NoObject}
  /\ {calls[i].object : i \in DOMAIN calls} \subseteq canvas.alive
  /\ Range(deleteObjects) \subseteq canvas.alive

\* Both: no pointer to a layer or an object outlives what it points to, whatever
\* was called from the callbacks of a deletion (evas_object_free, _layer_free).
NothingDangles == LayersAlive /\ FreedIsForgotten

\* The order of two objects of a list only changes when one of them is
\* stacked, or moved to another list: calls on a third object leave it.
Moves(o) ==
  \/ Raise(o) \/ Lower(o)
  \/ \E p \in Objects : StackAbove(o, p) \/ StackBelow(o, p)

Before(list, o, p) == \E i, j \in DOMAIN list : i < j /\ list[i] = o /\ list[j] = p

Swapped(old, new, o, p) == Before(old, o, p) /\ Before(new, p, o)

OrderKept ==
  [][\A o, p \in Objects :
       \/ \E n \in Numbers : Swapped(canvas.objects[n], canvas'.objects[n], o, p)
       \/ \E s \in Objects : Swapped(canvas.members[s], canvas'.members[s], o, p)
       => Moves(o) \/ Moves(p)]_vars
=============================================================================
