------------------------- MODULE EvasEventsProofs ---------------------------
(***************************************************************************)
(* Proofs about EvasEvents, for any number of objects, points and nested   *)
(* callbacks. Good says of a canvas in the middle of any functions what is *)
(* left of them to do: which objects were told "in" and which will be told *)
(* "out", which hold the pointer and how many buttons they wait for.       *)
(* It is the inductive invariant. A lemma for each of the functions that   *)
(* run in one go says what it does to a canvas, and one for each action    *)
(* that the action keeps Good.                                             *)
(***************************************************************************)
EXTENDS EvasEvents, ListLemmas

\* The assumptions that all theorems here make of programs. The code guarantees
\* none of them, and without each TLC finds a canvas that violates one of the
\* properties: the list of the pointer is replaced behind callbacks of in, out
\* and move by one that was worked out before them (evas_events.c:856), ...
HoverCallbacksCallNothing == Busy \intersect {"in", "out", "move"} = {}

\* ... buttons fed while events are frozen change the buttons that are down but
\* not the grabs (evas_events.c:462), ...
ButtonsNotFrozen == FrozenFeeds \subseteq {"in", "move"}

\* ... and what counts the grabs of objects that keep button events to themselves
\* stays as it is when one of them is deleted, so that the list is made anew
\* behind another (evas_events.c:943): a canvas has at most one of them.
OneKeepsButtons ==
  \A kind \in Kinds : \A o, p \in Objects :
    kind[o].mode = "norepeat" /\ kind[p].mode = "norepeat" => o = p

\* The three together, for the lemmas.
Assumed == HoverCallbacksCallNothing /\ ButtonsNotFrozen /\ OneKeepsButtons

\* The functions that walk the list of the pointer in one go, those that the
\* main loop starts, and those that others may run above of.
Walks   == {"drag", "dragged", "dragout", "leave", "enter", "in", "out", "outed", "postout", "postin"}
Buttons == {"down", "up", "upped"}
Bottoms == Buttons \union {"in", "out", "outed", "postout", "postin"}
Waits   == {"down", "upped", "returning", "inform", "del", "deleted", "freeing"}
Quiet   == {"callback", "returning", "inform", "del", "deleted", "freeing"}

\* The walk that is on, and the button event that is reported.
Still(f)  == [f EXCEPT !.gone = {}]
Walk(s)   == IF s.stack # <<>> /\ Top(s).at \in Walks THEN Still(Top(s)) ELSE Still(Blank)
Button(s) == IF s.stack # <<>> /\ s.stack[1].at \in Buttons THEN Still(s.stack[1]) ELSE Still(Blank)
Gone(s)   == IF s.stack # <<>> THEN s.stack[1].gone ELSE {}

-----------------------------------------------------------------------------
\* The functions that run.

\* What a function works on is there: the i-th function from the bottom, f, may
\* be what it is.
FitsIn(s, f, i) ==
  /\ f.at \in {"dragged", "outed", "upped", "inform", "del", "deleted", "freeing"} =>
       f.cur \in Objects
  /\ f.at # "dragout" => IsInjective(f.rest)
  /\ f.at \in Bottoms => i = 1
  /\ s.frozen > 0 => f.at \in Quiet
  /\ f.at \in {"del", "deleted"} => ~s.obj[f.cur].visible
  /\ f.at = "freeing" => s.obj[f.cur].life # "alive"
  /\ \A o \in Range(f.rest) : s.obj[o].life # "freed"

\* What may run above an object's inform call and the start of its deletion.
Above(f, at) == f.at \in {"inform", "del"} => at \in Walks \union {"inform"}

Fits(s, i) ==
  /\ FitsIn(s, s.stack[i], i)
  /\ i < Len(s.stack) => s.stack[i].at \in Waits
  /\ \A j \in i + 1 .. Len(s.stack) : Above(s.stack[i], s.stack[j].at)

Nested(s) == \A i \in 1 .. Len(s.stack) : Fits(s, i)

-----------------------------------------------------------------------------
\* What is so while the walk w and the button event b are under way.

Listed(s, o) == o \in Range(s.in)
IsAlive(s, o) == s.obj[o].life = "alive"
Leaving(w) == w.at \in {"out", "outed"}
Arriving   == {"enter", "in", "postin"}

\* The list of the pointer has objects that are there, and a walk has its own.
Lists(s, w) ==
  /\ IsInjective(s.in) /\ IsInjective(s.order)
  /\ \A o \in Objects : IsAlive(s, o) => o \in Range(s.order)
  /\ \A o \in Range(s.in) : IsAlive(s, o)
  /\ w.at \in {"leave", "postout"} \union Arriving =>
       IsInjective(w.ins) /\ \A o \in Range(w.ins) : IsAlive(s, o)
  /\ w.at \in {"drag", "dragged"} => Range(w.ins) \subseteq Range(s.in) /\ w.x = s.x
  /\ w.at \in {"drag", "dragged", "leave", "postout", "out", "outed"} => Range(w.rest) \subseteq Range(s.in)
  /\ w.at \in {"dragged", "outed"} => Listed(s, w.cur)
  /\ w.at \in Arriving => Range(w.rest) \subseteq Range(w.ins)
  /\ w.at = "leave" => Range(w.rest) \intersect Range(w.ins) \subseteq Hit(s, w.x)

\* The objects the pointer is in, of those that were told so.
HasPointer(s, w, o) ==
  CASE w.at \in {"leave", "postout"} -> Listed(s, o) /\ o \in Range(w.rest) \union Range(w.ins)
    [] w.at \in Arriving -> o \in Range(w.ins) /\ (Listed(s, o) \/ o \notin Range(w.rest))
    [] w.at \in {"out", "outed"} -> o \in Range(w.rest)
    [] OTHER -> Listed(s, o)

Hover(s, w) == \A o \in Objects : s.obj[o].in <=> HasPointer(s, w, o)

\* How often each object has grabbed the pointer, and these grabs, numbered.
Counts(s) == [o \in Objects |-> s.obj[o].grabbed]
GrabsOf(n) == UNION {{o} \X (1 .. n[o]) : o \in Objects}

\* Where the objects are that have grabbed the pointer.
Holding(s, w) ==
  CASE w.at = "out" -> Range(w.rest)
    [] w.at = "outed" -> Range(w.rest) \union {w.cur}
    [] w.at \in {"leave", "enter"} -> Range(s.in) \intersect Range(w.ins)
    [] OTHER -> Range(s.in)

Held(s, w) ==
  /\ ~Leaving(w) => s.grabbed = Cardinality(GrabsOf(Counts(s)))
  /\ \A o \in Objects : s.obj[o].grabbed > 0 => o \in Holding(s, w)
  /\ \A o \in Objects : Mode(s, o) = "nograb" => s.obj[o].grabbed = 0
  /\ w.at \in {"in", "postout", "postin"} => s.grabbed = 0
  /\ w.at \in {"drag", "dragged", "dragout"} => s.grabbed > 0
  /\ w.at \in {"leave", "enter"} =>
       s.grabbed = 0 \/ (w.below /\ \E o \in Objects : Mode(s, o) = "norepeat")
  /\ w.at = "leave" => \A o \in Range(w.rest) : s.obj[o].grabbed = 0

\* The pointer is in no object while it is outside the canvas.
Outside(s, w) ==
  /\ ~s.inside /\ ~Leaving(w) => s.in = <<>>
  /\ Leaving(w) => ~s.inside
  /\ w.at \in {"leave", "enter", "in", "postin"} => s.inside
  /\ w.at = "in" => s.in = <<>>

\* An object comes before another in a list.
Before(l, o, p) == \E i, j \in DOMAIN l : i < j /\ l[i] = o /\ l[j] = p

\* The object that keeps button events to itself has grabbed the pointer, what
\* is before it in a list is above it, and what is behind it has not.
KeptBy(s, l, n) ==
  /\ s.obj[n].grabbed > 0
  /\ \A o \in Objects : /\ Before(l, o, n) => Before(s.order, o, n)
                        /\ Before(l, n, o) => s.obj[o].grabbed = 0

Keeps(s, l) == \A n \in Range(l) : Mode(s, n) = "norepeat" => KeptBy(s, l, n)

Norepeat(s, w) ==
  s.grabbed > 0 /\ ~Leaving(w) =>
    Keeps(s, s.in) /\ (w.at \in {"leave", "enter"} => Keeps(s, w.ins))

\* No object keeps button events to itself.
Repeating(s) == \A o \in Objects : Mode(s, o) # "norepeat"

\* The buttons whose release an object that has grabbed the pointer will hear.
Due(s, b, o) ==
  s.downs + (IF b.at \in {"up", "upped"} /\ o \in Range(b.rest) THEN 1 ELSE 0)

Even(s, w, b) ==
  Repeating(s) /\ ~Leaving(w) => \A o \in Objects :
    /\ s.obj[o].grabbed > 0 => s.obj[o].grabbed = Due(s, b, o)
    /\ s.grabbed > 0 /\ Listed(s, o) /\ Mode(s, o) = "autograb" => s.obj[o].grabbed = Due(s, b, o)

\* An object has a grab for each button that it heard going down and for the one
\* that it is to hear of.
Owed(s, b, o) == IF b.at = "down" /\ o \in Range(b.rest) /\ Mode(s, o) = "autograb" THEN 1 ELSE 0

Paired(s, w, b) ==
  Repeating(s) =>
    /\ \A o \in Objects : IsAlive(s, o) => s.pressed[o] + Owed(s, b, o) <= s.obj[o].grabbed
    /\ w.at = "outed" => s.pressed[w.cur] = 0

\* An object that was told "out" by a newer event has heard all releases.
Missed(s, b) ==
  Repeating(s) /\ b.at \in {"up", "upped"} =>
    \A o \in Gone(s) : IsAlive(s, o) => s.pressed[o] = 0

\* With no button down, the list has the objects at the pointer, or a walk is
\* about to make it so.
Clean(s, w, b) ==
  Repeating(s) /\ s.frozen = 0 /\ s.grabbed = 0 /\ s.downs = 0 /\ s.inside
    /\ b.at \notin {"up", "upped"} =>
      /\ w.at = "" => s.in = Hits(s, s.order, s.x)
      /\ w.at \in {"leave", "enter", "in"} => w.ins = Hits(s, s.order, s.x)

\* At most one object keeps button events to itself.
Single(s) == \A o, p \in Objects : Mode(s, o) = "norepeat" /\ Mode(s, p) = "norepeat" => o = p

Body(s, w, b) ==
  /\ Lists(s, w) /\ Hover(s, w) /\ Held(s, w) /\ Outside(s, w)
  /\ Norepeat(s, w) /\ Even(s, w, b) /\ Single(s)

\* All that a move that is fed for the canvas rests on, ...
Sound(s) ==
  /\ s \in CanvasType /\ ~s.bad
  /\ Nested(s)
  /\ Body(s, Walk(s), Button(s))
  /\ Paired(s, Walk(s), Button(s)) /\ Missed(s, Button(s))

\* ... and the inductive invariant.
Good(s) == Sound(s) /\ Clean(s, Walk(s), Button(s))

\* An object that has grabbed the pointer keeps it.
HolderKeeps(s, t) ==
  \A o \in Objects :
    s.obj[o].in /\ ~t.obj[o].in /\ IsAlive(t, o) /\ Walk(s).at # "out" => s.obj[o].grabbed = 0

-----------------------------------------------------------------------------
(***************************************************************************)
(* Canvases, their objects and their functions.                            *)
(***************************************************************************)

\* The fields of a canvas, ...
LEMMA CanvasFields ==
  ASSUME NEW s \in CanvasType
  PROVE  /\ s.obj \in [Objects -> ObjectType] /\ s.order \in Seq(Objects) /\ s.x \in Points
         /\ s.inside \in BOOLEAN /\ s.in \in Seq(Objects) /\ s.grabbed \in Nat
         /\ s.nogrep \in Nat /\ s.downs \in Nat /\ s.frozen \in {0, 1}
         /\ s.stack \in Seq(FrameType) /\ s.pressed \in [Objects -> Nat] /\ s.bad \in BOOLEAN
  BY DEF CanvasType

\* ... an object and a function that runs.
LEMMA ObjectFields ==
  ASSUME NEW s \in CanvasType, NEW o \in Objects
  PROVE  /\ s.obj[o] \in ObjectType
         /\ s.obj[o].visible \in BOOLEAN /\ s.obj[o].pass \in BOOLEAN /\ s.obj[o].in \in BOOLEAN
         /\ s.obj[o].grabbed \in Nat /\ s.obj[o].life \in {"alive", "going", "deleted", "freed"}
         /\ s.obj[o].covers \in SUBSET Points /\ s.obj[o].repeat \in BOOLEAN
         /\ s.obj[o].mode \in Modes
<1>1. s.obj \in [Objects -> ObjectType]
  BY CanvasFields
<1>2. s.obj[o] \in ObjectType
  BY <1>1
<1> QED BY <1>2 DEF ObjectType

\* The fields of a function that runs have their types.
LEMMA FrameFields ==
  ASSUME NEW f \in FrameType
  PROVE  /\ f.rest \in Seq(Objects) /\ f.cur \in Objects \union {NoObject} /\ f.ins \in Seq(Objects)
         /\ f.x \in Points /\ f.moved \in BOOLEAN /\ f.below \in BOOLEAN /\ f.gone \in SUBSET Objects
         /\ f.at \in {"drag", "dragged", "dragout", "leave", "enter", "in", "out", "outed", "down",
                      "up", "upped", "postout", "postin", "callback", "returning", "inform", "del",
                      "deleted", "freeing"}
  BY DEF FrameType

\* A record with the fields of a canvas.
IsRecord(s) ==
  s = [f \in {"obj", "order", "x", "inside", "in", "grabbed", "nogrep", "downs", "frozen", "stack",
              "pressed", "bad"} |-> s[f]]

\* A canvas is a record with these fields.
LEMMA CanvasIsRecord ==
  \A s \in CanvasType : IsRecord(s)
  BY DEF CanvasType, IsRecord

\* A record whose fields have their types is a canvas.
LEMMA CanvasRecord ==
  ASSUME NEW s, IsRecord(s),
         s.obj \in [Objects -> ObjectType], s.order \in Seq(Objects), s.x \in Points,
         s.inside \in BOOLEAN, s.in \in Seq(Objects), s.grabbed \in Nat,
         s.nogrep \in Nat, s.downs \in Nat, s.frozen \in {0, 1},
         s.stack \in Seq(FrameType), s.pressed \in [Objects -> Nat], s.bad \in BOOLEAN
  PROVE  s \in CanvasType
  BY DEF CanvasType, IsRecord

\* A function starts with nothing to do.
LEMMA BlankFields ==
  /\ Blank.rest = <<>> /\ Blank.cur = NoObject /\ Blank.ins = <<>> /\ Blank.x \in Points
  /\ Blank.at = "" /\ Blank.moved = FALSE /\ Blank.below = FALSE /\ Blank.gone = {}
<1>1. \E p \in Points : TRUE
  BY EventsAssumption DEF EventsAssumption
<1> QED BY <1>1 DEF Blank

\* A record with the fields of a function that runs.
IsFrame(f) ==
  f = [g \in {"at", "rest", "cur", "ins", "x", "moved", "below", "gone"} |-> f[g]]

\* A function that runs, and one that has not begun, are records with these
\* fields.
LEMMA FrameIsRecord ==
  IsFrame(Blank) /\ \A f \in FrameType : IsFrame(f)
<1> DEFINE p == CHOOSE p \in Points : TRUE
<1>1. Blank = [at |-> "", rest |-> <<>>, cur |-> NoObject, ins |-> <<>>,
               x |-> p, moved |-> FALSE, below |-> FALSE, gone |-> {}]
  BY DEF Blank
<1> HIDE DEF p
<1>2. IsFrame(Blank)
  BY <1>1 DEF IsFrame
<1>3. \A f \in FrameType : IsFrame(f)
  BY DEF IsFrame, FrameType
<1> QED BY <1>2, <1>3

\* A record whose fields have their types is a function that runs.
LEMMA FrameRecord ==
  ASSUME NEW f, IsFrame(f),
         f.at \in {"drag", "dragged", "dragout", "leave", "enter", "in", "out", "outed", "down",
                   "up", "upped", "postout", "postin", "callback", "returning", "inform", "del",
                   "deleted", "freeing"},
         f.rest \in Seq(Objects), f.cur \in Objects \union {NoObject}, f.ins \in Seq(Objects),
         f.x \in Points, f.moved \in BOOLEAN, f.below \in BOOLEAN, f.gone \in SUBSET Objects
  PROVE  f \in FrameType
  BY DEF FrameType, IsFrame

\* What is left of a function when it is still.
LEMMA StillFields ==
  ASSUME NEW f, f \in FrameType \/ f = Blank
  PROVE  /\ Still(f).at = f.at /\ Still(f).rest = f.rest /\ Still(f).cur = f.cur
         /\ Still(f).ins = f.ins /\ Still(f).x = f.x /\ Still(f).moved = f.moved
         /\ Still(f).below = f.below /\ Still(f).gone = {}
<1>1. IsFrame(f)
  BY FrameIsRecord
<1> QED BY <1>1 DEF Still, IsFrame

\* The functions that run, from the bottom to the top.
LEMMA StackFacts ==
  ASSUME NEW s \in CanvasType
  PROVE  /\ Len(s.stack) \in Nat /\ DOMAIN s.stack = 1 .. Len(s.stack)
         /\ \A i \in 1 .. Len(s.stack) : s.stack[i] \in FrameType
         /\ s.stack # <<>> <=> Len(s.stack) > 0
         /\ s.stack # <<>> => /\ Len(s.stack) \in 1 .. Len(s.stack) /\ 1 \in 1 .. Len(s.stack)
                              /\ Top(s) = s.stack[Len(s.stack)] /\ Top(s) \in FrameType
<1>1. s.stack \in Seq(FrameType)
  BY CanvasFields
<1>2. /\ Len(s.stack) \in Nat /\ DOMAIN s.stack = 1 .. Len(s.stack)
      /\ \A i \in 1 .. Len(s.stack) : s.stack[i] \in FrameType
      /\ s.stack # <<>> <=> Len(s.stack) > 0
  BY <1>1
<1>3. Top(s) = s.stack[Len(s.stack)]
  BY DEF Top, Last
<1> QED BY <1>2, <1>3

\* What is the same in two canvases but for the functions that run, and for what
\* the objects have heard.
SameData(s, t) ==
  /\ t.obj = s.obj /\ t.order = s.order /\ t.x = s.x /\ t.inside = s.inside /\ t.in = s.in
  /\ t.grabbed = s.grabbed /\ t.nogrep = s.nogrep /\ t.downs = s.downs /\ t.frozen = s.frozen
  /\ t.bad = s.bad

SameRest(s, t) == SameData(s, t) /\ t.pressed = s.pressed

\* A function is called, ...
LEMMA PushEffect ==
  ASSUME NEW s \in CanvasType, NEW f \in FrameType
  PROVE  /\ Push(s, f) \in CanvasType /\ SameRest(s, Push(s, f))
         /\ Push(s, f).stack = Append(s.stack, f)
<1> DEFINE t == Push(s, f)
<1>1. IsRecord(s)
  BY CanvasIsRecord
<1>2. /\ IsRecord(t) /\ SameRest(s, t) /\ t.stack = Append(s.stack, f)
  BY <1>1 DEF IsRecord, Push, SameRest, SameData
<1> HIDE DEF t
<1>3. t.stack \in Seq(FrameType)
  BY <1>2, CanvasFields
<1>4. t \in CanvasType
  BY <1>2, <1>3, CanvasFields, CanvasRecord DEF SameRest, SameData
<1> QED BY <1>2, <1>4 DEF t

\* ... another function takes the place of the one at the top, ...
LEMMA BecomeEffect ==
  ASSUME NEW s \in CanvasType, NEW f \in FrameType, s.stack # <<>>
  PROVE  /\ Become(s, f) \in CanvasType /\ SameRest(s, Become(s, f))
         /\ Become(s, f).stack = [s.stack EXCEPT ![Len(s.stack)] = f]
<1> DEFINE t == Become(s, f)
<1>1. IsRecord(s)
  BY CanvasIsRecord
<1>2. /\ IsRecord(t) /\ SameRest(s, t) /\ t.stack = [s.stack EXCEPT ![Len(s.stack)] = f]
  BY <1>1 DEF IsRecord, Become, SameRest, SameData
<1> HIDE DEF t
<1>3. t.stack \in Seq(FrameType)
  BY <1>2, CanvasFields
<1>4. t \in CanvasType
  BY <1>2, <1>3, CanvasFields, CanvasRecord DEF SameRest, SameData
<1> QED BY <1>2, <1>4 DEF t

\* ... and the one at the top returns.
LEMMA ReturnEffect ==
  ASSUME NEW s \in CanvasType, s.stack # <<>>
  PROVE  /\ Return(s) \in CanvasType /\ SameRest(s, Return(s))
         /\ Return(s).stack = Front(s.stack)
<1> DEFINE t == Return(s)
<1>1. IsRecord(s)
  BY CanvasIsRecord
<1>2. /\ IsRecord(t) /\ SameRest(s, t) /\ t.stack = Front(s.stack)
  BY <1>1 DEF IsRecord, Return, SameRest, SameData
<1> HIDE DEF t
<1>3. t.stack \in Seq(FrameType)
  BY <1>2, CanvasFields DEF Front
<1>4. t \in CanvasType
  BY <1>2, <1>3, CanvasFields, CanvasRecord DEF SameRest, SameData
<1> QED BY <1>2, <1>4 DEF t

\* The functions that run then.
Called(s, t, f) ==
  /\ Len(t.stack) = Len(s.stack) + 1 /\ t.stack[Len(t.stack)] = f
  /\ \A i \in 1 .. Len(s.stack) : t.stack[i] = s.stack[i]

Changed(s, t, f) ==
  /\ Len(t.stack) = Len(s.stack) /\ Len(s.stack) > 0 /\ t.stack[Len(t.stack)] = f
  /\ \A i \in 1 .. Len(s.stack) - 1 : t.stack[i] = s.stack[i]

Returned(s, t) ==
  /\ Len(t.stack) = Len(s.stack) - 1 /\ Len(s.stack) > 0
  /\ \A i \in 1 .. Len(t.stack) : t.stack[i] = s.stack[i]

\* What calling a function, going on and returning do to the stack.
LEMMA StackEffect ==
  ASSUME NEW s \in CanvasType, NEW t, NEW f \in FrameType
  PROVE  /\ t.stack = Append(s.stack, f) => Called(s, t, f)
         /\ s.stack # <<>> /\ t.stack = [s.stack EXCEPT ![Len(s.stack)] = f] => Changed(s, t, f)
         /\ s.stack # <<>> /\ t.stack = Front(s.stack) => Returned(s, t)
<1>1. s.stack \in Seq(FrameType)
  BY CanvasFields
<1>2. t.stack = Append(s.stack, f) => Called(s, t, f)
  BY <1>1 DEF Called
<1>3. s.stack # <<>> /\ t.stack = [s.stack EXCEPT ![Len(s.stack)] = f] => Changed(s, t, f)
  BY <1>1 DEF Changed
<1>4. s.stack # <<>> /\ t.stack = Front(s.stack) => Returned(s, t)
  BY <1>1 DEF Returned, Front
<1> QED BY <1>2, <1>3, <1>4

\* The walk, the button event and its objects then.
LEMMA CalledFacts ==
  ASSUME NEW s \in CanvasType, NEW t \in CanvasType, NEW f, Called(s, t, f)
  PROVE  /\ t.stack # <<>> /\ Top(t) = f
         /\ Walk(t) = IF f.at \in Walks THEN Still(f) ELSE Still(Blank)
         /\ s.stack # <<>> => Button(t) = Button(s) /\ Gone(t) = Gone(s)
         /\ s.stack = <<>> => /\ Button(t) = IF f.at \in Buttons THEN Still(f) ELSE Still(Blank)
                              /\ Gone(t) = f.gone
  BY StackFacts DEF Called, Walk, Button, Gone

\* When the function at the top goes on as f, the walk is f if it is one, and
\* the button event is another one only if f is the only function.
LEMMA ChangedFacts ==
  ASSUME NEW s \in CanvasType, NEW t \in CanvasType, NEW f, Changed(s, t, f)
  PROVE  /\ s.stack # <<>> /\ t.stack # <<>> /\ Top(t) = f
         /\ Walk(t) = IF f.at \in Walks THEN Still(f) ELSE Still(Blank)
         /\ Len(s.stack) > 1 => Button(t) = Button(s) /\ Gone(t) = Gone(s)
         /\ Len(s.stack) = 1 => /\ Button(t) = IF f.at \in Buttons THEN Still(f) ELSE Still(Blank)
                                /\ Gone(t) = f.gone
  BY StackFacts DEF Changed, Walk, Button, Gone

\* When a function returns, the one below waited for it: no walk is on, and the
\* button event stays.
LEMMA ReturnedFacts ==
  ASSUME NEW s \in CanvasType, NEW t \in CanvasType, Returned(s, t), Nested(s)
  PROVE  /\ t.stack # <<>> => Top(t).at \in Waits
         /\ Walk(t) = Still(Blank)
         /\ Len(s.stack) > 1 => /\ Button(t) = Button(s) /\ Gone(t) = Gone(s) /\ t.stack # <<>>
                                /\ Top(t) = s.stack[Len(s.stack) - 1]
         /\ Len(s.stack) = 1 => Button(t) = Still(Blank) /\ Gone(t) = {} /\ t.stack = <<>>
<1>1. ASSUME t.stack # <<>> PROVE Top(t).at \in Waits
  <2> DEFINE n == Len(t.stack)
  <2>1. n \in 1 .. Len(s.stack) /\ n < Len(s.stack) /\ n \in 1 .. n
    BY <1>1, StackFacts DEF Returned
  <2>2. Fits(s, n)
    BY <2>1 DEF Nested
  <2>3. Top(t) = t.stack[n]
    BY <1>1, StackFacts
  <2>4. t.stack[n] = s.stack[n]
    BY <2>1 DEF Returned
  <2> QED BY <2>1, <2>2, <2>3, <2>4 DEF Fits
<1>2. Waits \intersect Walks = {}
  BY DEF Waits, Walks
<1> QED BY <1>1, <1>2, StackFacts DEF Returned, Walk, Button, Gone

-----------------------------------------------------------------------------
\* An object stays what its kind says.
SameKind(s, t) ==
  \A o \in Objects : t.obj[o].covers = s.obj[o].covers /\ t.obj[o].repeat = s.obj[o].repeat
                     /\ t.obj[o].mode = s.obj[o].mode

\* What a function works on is there as long as no object is shown or freed and
\* no events are frozen.
Milder(s, t) ==
  /\ SameKind(s, t)
  /\ t.frozen > 0 => s.frozen > 0
  /\ \A o \in Objects : /\ t.obj[o].visible => s.obj[o].visible
                        /\ t.obj[o].life = "freed" => s.obj[o].life = "freed"
                        /\ IsAlive(t, o) => IsAlive(s, o)

\* A function fits a canvas that shows no more, freezes no more and frees
\* nothing.
LEMMA FitsMilder ==
  ASSUME NEW s \in CanvasType, NEW t \in CanvasType, Milder(s, t),
         NEW f \in FrameType, NEW i, FitsIn(s, f, i)
  PROVE  FitsIn(t, f, i)
<1>1. Range(f.rest) \subseteq Objects
  BY FrameFields, RangeFacts
<1>2. \A o \in Range(f.rest) : t.obj[o].life # "freed"
  BY <1>1 DEF FitsIn, Milder
<1>3. f.at \in {"del", "deleted"} => ~t.obj[f.cur].visible
  BY DEF FitsIn, Milder
<1>4. f.at = "freeing" => t.obj[f.cur].life # "alive"
  BY DEF FitsIn, Milder, IsAlive
<1> QED BY <1>2, <1>3, <1>4 DEF FitsIn, Milder

\* The functions that run stay nested when one is called, ...
LEMMA NestedCalled ==
  ASSUME NEW s \in CanvasType, NEW t \in CanvasType, Milder(s, t), Nested(s),
         NEW f \in FrameType, Called(s, t, f), FitsIn(t, f, Len(t.stack)),
         s.stack = <<>> \/ Top(s).at \in Waits,
         \A i \in 1 .. Len(s.stack) : Above(s.stack[i], f.at)
  PROVE  Nested(t)
<1> SUFFICES ASSUME NEW i \in 1 .. Len(t.stack) PROVE Fits(t, i)
  BY DEF Nested
<1>1. Len(s.stack) \in Nat /\ Len(t.stack) = Len(s.stack) + 1
  BY StackFacts DEF Called
<1>2. CASE i = Len(t.stack)
  <2>1. t.stack[i] = f
    BY <1>2 DEF Called
  <2> QED BY <1>1, <1>2, <2>1 DEF Fits
<1>3. CASE i # Len(t.stack)
  <2>1. i \in 1 .. Len(s.stack)
    BY <1>1, <1>3
  <2>2. t.stack[i] = s.stack[i] /\ s.stack[i] \in FrameType
    BY <2>1, StackFacts DEF Called
  <2>3. Fits(s, i)
    BY <2>1 DEF Nested
  <2>4. FitsIn(t, t.stack[i], i)
    BY <2>2, <2>3, FitsMilder DEF Fits
  <2>5. t.stack[i].at \in Waits
    <3>1. s.stack # <<>> /\ Top(s) = s.stack[Len(s.stack)]
      BY <2>1, StackFacts
    <3> QED BY <1>1, <2>1, <2>2, <2>3, <3>1 DEF Fits
  <2>6. \A j \in i + 1 .. Len(t.stack) : Above(t.stack[i], t.stack[j].at)
    <3> SUFFICES ASSUME NEW j \in i + 1 .. Len(t.stack) PROVE Above(t.stack[i], t.stack[j].at)
      OBVIOUS
    <3>1. CASE j = Len(t.stack)
      BY <2>1, <2>2, <3>1 DEF Called
    <3>2. CASE j # Len(t.stack)
      <4>1. j \in i + 1 .. Len(s.stack) /\ j \in 1 .. Len(s.stack)
        BY <1>1, <2>1, <3>2
      <4>2. t.stack[j] = s.stack[j]
        BY <4>1 DEF Called
      <4> QED BY <2>2, <2>3, <4>1, <4>2 DEF Fits
    <3> QED BY <3>1, <3>2
  <2> QED BY <2>4, <2>5, <2>6 DEF Fits
<1> QED BY <1>2, <1>3

\* ... when another takes the place of the one at the top, ...
LEMMA NestedChanged ==
  ASSUME NEW s \in CanvasType, NEW t \in CanvasType, Milder(s, t), Nested(s),
         NEW f \in FrameType, Changed(s, t, f), FitsIn(t, f, Len(t.stack)),
         \A i \in 1 .. Len(s.stack) - 1 : Above(s.stack[i], f.at)
  PROVE  Nested(t)
<1> SUFFICES ASSUME NEW i \in 1 .. Len(t.stack) PROVE Fits(t, i)
  BY DEF Nested
<1>1. Len(s.stack) \in Nat /\ Len(t.stack) = Len(s.stack)
  BY StackFacts DEF Changed
<1>2. CASE i = Len(t.stack)
  <2>1. t.stack[i] = f
    BY <1>2 DEF Changed
  <2> QED BY <1>1, <1>2, <2>1 DEF Fits
<1>3. CASE i # Len(t.stack)
  <2>1. i \in 1 .. Len(s.stack) - 1 /\ i \in 1 .. Len(s.stack)
    BY <1>1, <1>3
  <2>2. t.stack[i] = s.stack[i] /\ s.stack[i] \in FrameType
    BY <2>1, StackFacts DEF Changed
  <2>3. Fits(s, i)
    BY <2>1 DEF Nested
  <2>4. FitsIn(t, t.stack[i], i)
    BY <2>2, <2>3, FitsMilder DEF Fits
  <2>5. t.stack[i].at \in Waits
    BY <1>1, <2>1, <2>2, <2>3 DEF Fits
  <2>6. \A j \in i + 1 .. Len(t.stack) : Above(t.stack[i], t.stack[j].at)
    <3> SUFFICES ASSUME NEW j \in i + 1 .. Len(t.stack) PROVE Above(t.stack[i], t.stack[j].at)
      OBVIOUS
    <3>1. CASE j = Len(t.stack)
      BY <2>1, <2>2, <3>1 DEF Changed
    <3>2. CASE j # Len(t.stack)
      <4>1. j \in i + 1 .. Len(s.stack) /\ j \in 1 .. Len(s.stack) - 1
        BY <1>1, <2>1, <3>2
      <4>2. t.stack[j] = s.stack[j]
        BY <4>1 DEF Changed
      <4> QED BY <2>2, <2>3, <4>1, <4>2 DEF Fits
    <3> QED BY <3>1, <3>2
  <2> QED BY <2>4, <2>5, <2>6 DEF Fits
<1> QED BY <1>2, <1>3

\* ... when the one at the top returns, ...
LEMMA NestedReturned ==
  ASSUME NEW s \in CanvasType, NEW t \in CanvasType, Milder(s, t), Nested(s), Returned(s, t)
  PROVE  Nested(t)
<1> SUFFICES ASSUME NEW i \in 1 .. Len(t.stack) PROVE Fits(t, i)
  BY DEF Nested
<1>1. Len(s.stack) \in Nat /\ Len(t.stack) = Len(s.stack) - 1
  BY StackFacts DEF Returned
<1>2. i \in 1 .. Len(s.stack) /\ i < Len(s.stack)
  BY <1>1
<1>3. t.stack[i] = s.stack[i] /\ s.stack[i] \in FrameType
  BY <1>2, StackFacts DEF Returned
<1>4. Fits(s, i)
  BY <1>2 DEF Nested
<1>5. FitsIn(t, t.stack[i], i)
  BY <1>3, <1>4, FitsMilder DEF Fits
<1>6. ASSUME NEW j \in i + 1 .. Len(t.stack) PROVE Above(t.stack[i], t.stack[j].at)
  <2>1. j \in i + 1 .. Len(s.stack) /\ j \in 1 .. Len(t.stack)
    BY <1>1
  <2> QED BY <1>3, <1>4, <2>1 DEF Fits, Returned
<1> QED BY <1>2, <1>3, <1>4, <1>5, <1>6 DEF Fits

\* ... and when an event is noted.
Alike(s, t) ==
  /\ Len(t.stack) = Len(s.stack)
  /\ \A i \in 1 .. Len(s.stack) : Still(t.stack[i]) = Still(s.stack[i])

\* The functions fit in where they stand alike, but for what they note as gone.
LEMMA NestedAlike ==
  ASSUME NEW s \in CanvasType, NEW t \in CanvasType, Milder(s, t), Nested(s), Alike(s, t)
  PROVE  Nested(t)
<1>1. ASSUME NEW i \in 1 .. Len(s.stack)
      PROVE  /\ t.stack[i].at = s.stack[i].at /\ t.stack[i].rest = s.stack[i].rest
             /\ t.stack[i].cur = s.stack[i].cur
  <2>1. s.stack[i] \in FrameType /\ t.stack[i] \in FrameType /\ Still(t.stack[i]) = Still(s.stack[i])
    BY StackFacts DEF Alike
  <2> QED BY <2>1, StillFields
<1> SUFFICES ASSUME NEW i \in 1 .. Len(s.stack) PROVE Fits(t, i)
  BY DEF Nested, Alike
<1>2. Fits(s, i) /\ s.stack[i] \in FrameType
  BY StackFacts DEF Nested
<1>3. FitsIn(t, s.stack[i], i)
  BY <1>2, FitsMilder DEF Fits
<1>4. FitsIn(t, t.stack[i], i)
  BY <1>1, <1>3 DEF FitsIn
<1>5. ASSUME NEW j \in i + 1 .. Len(t.stack) PROVE Above(t.stack[i], t.stack[j].at)
  <2>1. Len(t.stack) = Len(s.stack) /\ Len(s.stack) \in Nat
    BY StackFacts DEF Alike
  <2>2. j \in i + 1 .. Len(s.stack) /\ j \in 1 .. Len(s.stack)
    BY <2>1
  <2>3. t.stack[j].at = s.stack[j].at /\ t.stack[i].at = s.stack[i].at
    BY <1>1, <2>2
  <2> QED BY <1>2, <2>2, <2>3 DEF Fits, Above
<1> QED BY <1>1, <1>2, <1>4, <1>5 DEF Fits, Alike

\* The walk and the button event are the same then.
LEMMA AlikeFacts ==
  ASSUME NEW s \in CanvasType, NEW t \in CanvasType, Alike(s, t)
  PROVE  /\ Walk(t) = Walk(s) /\ Button(t) = Button(s)
         /\ s.stack # <<>> <=> t.stack # <<>>
         /\ s.stack # <<>> => Still(Top(t)) = Still(Top(s)) /\ Top(t).at = Top(s).at
<1>1. Len(t.stack) = Len(s.stack) /\ Len(s.stack) \in Nat
  BY StackFacts DEF Alike
<1>2. CASE s.stack = <<>>
  <2>1. t.stack = <<>>
    BY <1>1, <1>2, StackFacts
  <2> QED BY <1>2, <2>1 DEF Walk, Button
<1>3. CASE s.stack # <<>>
  <2> DEFINE n == Len(s.stack)
  <2>1. t.stack # <<>> /\ n \in 1 .. n /\ 1 \in 1 .. n
    BY <1>1, <1>3, StackFacts
  <2>2. /\ Top(s) = s.stack[n] /\ Top(t) = t.stack[n]
        /\ s.stack[n] \in FrameType /\ t.stack[n] \in FrameType
        /\ s.stack[1] \in FrameType /\ t.stack[1] \in FrameType
    BY <1>1, <1>3, <2>1, StackFacts
  <2>3. Still(t.stack[n]) = Still(s.stack[n]) /\ Still(t.stack[1]) = Still(s.stack[1])
    BY <2>1 DEF Alike
  <2>4. t.stack[n].at = s.stack[n].at /\ t.stack[1].at = s.stack[1].at
    BY <2>2, <2>3, StillFields
  <2> HIDE DEF n
  <2> QED BY <1>3, <2>1, <2>2, <2>3, <2>4 DEF Walk, Button
<1> QED BY <1>2, <1>3

\* Nothing but walks and inform calls runs above an inform call or the start of
\* a deletion.
Open(s) == \A i \in 1 .. Len(s.stack) : s.stack[i].at \notin {"inform", "del"}

\* What may be called: anything where no function below waits to inform or
\* delete, and what already ran there.
LEMMA OpenFacts ==
  ASSUME NEW s \in CanvasType, Nested(s)
  PROVE  /\ Open(s) => \A at : \A i \in 1 .. Len(s.stack) : Above(s.stack[i], at)
         /\ \A i \in 1 .. Len(s.stack) - 1 : Above(s.stack[i], Top(s).at)
         /\ s.stack # <<>> /\ Top(s).at \notin Walks \union {"inform"} =>
              \A at : \A i \in 1 .. Len(s.stack) - 1 : Above(s.stack[i], at)
         /\ s.stack = <<>> \/ Top(s).at \notin Walks \union {"inform", "del"} => Open(s)
<1>1. Len(s.stack) \in Nat
  BY StackFacts
<1>2. ASSUME NEW i \in 1 .. Len(s.stack) - 1
      PROVE  Above(s.stack[i], Top(s).at)
  <2>1. i \in 1 .. Len(s.stack) /\ Len(s.stack) \in i + 1 .. Len(s.stack) /\ s.stack # <<>>
    BY <1>1, StackFacts
  <2>2. Fits(s, i) /\ Top(s) = s.stack[Len(s.stack)]
    BY <2>1, StackFacts DEF Nested
  <2> QED BY <2>1, <2>2 DEF Fits
<1>3. Open(s) => \A at : \A i \in 1 .. Len(s.stack) : Above(s.stack[i], at)
  BY DEF Open, Above
<1>4. s.stack # <<>> /\ Top(s).at \notin Walks \union {"inform"} =>
        \A i \in 1 .. Len(s.stack) - 1 : s.stack[i].at \notin {"inform", "del"}
  BY <1>2 DEF Above
<1>5. s.stack = <<>> \/ Top(s).at \notin Walks \union {"inform", "del"} => Open(s)
  <2>1. CASE s.stack = <<>>
    BY <2>1, StackFacts DEF Open
  <2>2. CASE s.stack # <<>> /\ Top(s).at \notin Walks \union {"inform", "del"}
    <3>1. \A i \in 1 .. Len(s.stack) : i \in 1 .. Len(s.stack) - 1 \/ s.stack[i] = Top(s)
      BY <1>1, <2>2, StackFacts
    <3> QED BY <1>4, <2>2, <3>1 DEF Open
  <2> QED BY <2>1, <2>2
<1> QED BY <1>2, <1>3, <1>4, <1>5 DEF Above

-----------------------------------------------------------------------------
(***************************************************************************)
(* What an object is told, and what the other functions note of it.        *)
(***************************************************************************)

\* An event is noted: the objects that were told "out" by a newer event.
LEMMA NotesFacts ==
  ASSUME NEW s \in CanvasType, NEW o \in Objects, NEW type
  PROVE  /\ Notes(s, o, type) \in Seq(FrameType) /\ Len(Notes(s, o, type)) = Len(s.stack)
         /\ \A i \in 1 .. Len(s.stack) :
              /\ Still(Notes(s, o, type)[i]) = Still(s.stack[i])
              /\ Notes(s, o, type)[i].gone =
                   IF type = "out" /\ i < Len(s.stack) THEN s.stack[i].gone \union {o}
                   ELSE s.stack[i].gone \ {o}
<1> DEFINE new(i) == IF type = "out" /\ i < Len(s.stack) THEN s.stack[i].gone \union {o}
                     ELSE s.stack[i].gone \ {o}
           st == Notes(s, o, type)
<1>1. /\ Len(s.stack) \in Nat /\ DOMAIN s.stack = 1 .. Len(s.stack)
      /\ \A i \in 1 .. Len(s.stack) : s.stack[i] \in FrameType
  BY StackFacts
<1>2. st = [i \in 1 .. Len(s.stack) |-> [s.stack[i] EXCEPT !.gone = new(i)]]
  BY <1>1 DEF Notes
<1>3. ASSUME NEW i \in 1 .. Len(s.stack)
      PROVE  /\ st[i] \in FrameType /\ Still(st[i]) = Still(s.stack[i]) /\ st[i].gone = new(i)
  <2> DEFINE f == s.stack[i]
             g == [f EXCEPT !.gone = new(i)]
  <2>1. st[i] = g
    BY <1>2
  <2>2. f \in FrameType
    BY <1>1
  <2>3. new(i) \in SUBSET Objects
    BY <2>2, FrameFields
  <2> HIDE DEF f, new
  <2>4. IsFrame(f)
    BY <2>2, FrameIsRecord
  <2>5. /\ IsFrame(g) /\ g.at = f.at /\ g.rest = f.rest /\ g.cur = f.cur /\ g.ins = f.ins /\ g.x = f.x
        /\ g.moved = f.moved /\ g.below = f.below /\ g.gone = new(i)
        /\ Still(g) = Still(f)
    BY <2>4 DEF IsFrame, Still
  <2> HIDE DEF g
  <2>6. g \in FrameType
    BY <2>2, <2>3, <2>5, FrameFields, FrameRecord
  <2> QED BY <2>1, <2>5, <2>6 DEF f
<1> HIDE DEF new
<1>4. st \in [1 .. Len(s.stack) -> FrameType]
  <2>1. \A i \in 1 .. Len(s.stack) : st[i] \in FrameType
    BY <1>3
  <2>2. st = [i \in 1 .. Len(s.stack) |-> st[i]]
    BY <1>2
  <2> HIDE DEF st
  <2> QED BY <2>1, <2>2
<1> HIDE DEF st
<1>5. st \in Seq(FrameType) /\ Len(st) = Len(s.stack)
  BY <1>1, <1>4
<1> QED BY <1>3, <1>5 DEF st, new

\* What an object has heard of the buttons then.
LEMMA HearsFacts ==
  ASSUME NEW s \in CanvasType, NEW o \in Objects, NEW type
  PROVE  /\ Hears(s, o, type) \in Nat
         /\ type # "down" => Hears(s, o, type) <= s.pressed[o]
         /\ Hears(s, o, type) <= s.pressed[o] + IF Mode(s, o) = "autograb" THEN 1 ELSE 0
         /\ type = "up" => Hears(s, o, type) = 0 \/ Hears(s, o, type) = s.pressed[o] - 1
         /\ type = "out" /\ Top(s).at = "outed" => Hears(s, o, type) = 0
<1>1. s.pressed[o] \in Nat
  BY CanvasFields
<1> QED BY <1>1 DEF Hears

\* An object is told of an event.
Told(s, t, o, type) ==
  /\ t \in CanvasType /\ SameData(s, t) /\ Alike(s, t)
  /\ t.pressed = [s.pressed EXCEPT ![o] = Hears(s, o, type)]
  /\ \A i \in 1 .. Len(s.stack) :
       t.stack[i].gone = IF type = "out" /\ i < Len(s.stack) THEN s.stack[i].gone \union {o}
                         ELSE s.stack[i].gone \ {o}

\* A callback of an object.
CallbackOf(o) == [Blank EXCEPT !.at = "callback", !.cur = o]

\* Telling an object of an event: it does not hear of it, or it is told, and
\* then its callback may run.
LEMMA TellEffect ==
  ASSUME NEW s \in CanvasType, NEW o \in Objects, NEW type
  PROVE  \/ /\ Tell(s, o, type) = s
            /\ ~IsAlive(s, o) \/ (o \in Top(s).gone /\ type \in {"down", "up", "move"})
         \/ Told(s, Tell(s, o, type), o, type)
         \/ type \in Busy /\ \E t : Told(s, t, o, type) /\ Tell(s, o, type) = Push(t, CallbackOf(o))
<1> DEFINE t == [s EXCEPT !.stack = Notes(s, o, type), !.pressed[o] = Hears(s, o, type)]
<1>1. IsRecord(s)
  BY CanvasIsRecord
<1>2. /\ IsRecord(t) /\ SameData(s, t) /\ t.stack = Notes(s, o, type)
      /\ t.pressed = [s.pressed EXCEPT ![o] = Hears(s, o, type)]
  BY <1>1 DEF IsRecord, SameData
<1>3. \/ /\ Tell(s, o, type) = s
         /\ ~IsAlive(s, o) \/ (o \in Top(s).gone /\ type \in {"down", "up", "move"})
      \/ Tell(s, o, type) = t
      \/ type \in Busy /\ Tell(s, o, type) = Push(t, CallbackOf(o))
  BY DEF Tell, CallbackOf, IsAlive, Marked
<1> HIDE DEF t
<1>4. t.pressed \in [Objects -> Nat]
  BY <1>2, CanvasFields, HearsFacts
<1> DEFINE st == Notes(s, o, type)
<1>0. /\ st \in Seq(FrameType) /\ Len(st) = Len(s.stack)
      /\ \A i \in 1 .. Len(s.stack) :
           /\ Still(st[i]) = Still(s.stack[i])
           /\ st[i].gone = IF type = "out" /\ i < Len(s.stack) THEN s.stack[i].gone \union {o}
                           ELSE s.stack[i].gone \ {o}
  BY NotesFacts
<1>5. t.stack = st
  BY <1>2
<1> HIDE DEF st
<1>6. t \in CanvasType
  BY <1>0, <1>2, <1>4, <1>5, CanvasFields, CanvasRecord DEF SameData
<1>7. Alike(s, t)
  BY <1>0, <1>5 DEF Alike
<1>8. Told(s, t, o, type)
  BY <1>0, <1>2, <1>5, <1>6, <1>7 DEF Told
<1> QED BY <1>3, <1>8

\* Something was noted that disturbs nobody: what objects heard of buttons that
\* went down may have become less, and objects that hold nothing may have gone.
Quieter(s, t) ==
  /\ t \in CanvasType /\ SameData(s, t) /\ Alike(s, t)
  /\ \A p \in Objects : t.pressed[p] <= s.pressed[p]
  /\ \A p \in Gone(t) : p \in Gone(s) \/ s.obj[p].grabbed = 0

\* Every canvas is as quiet as itself.
LEMMA QuieterSelf ==
  ASSUME NEW s \in CanvasType
  PROVE  Quieter(s, s)
<1>1. \A p \in Objects : s.pressed[p] \in Nat
  BY CanvasFields
<1> QED BY <1>1 DEF Quieter, SameData, Alike

\* Moves call no evas functions.
LEMMA TellQuiet ==
  ASSUME Assumed, NEW s \in CanvasType, NEW o \in Objects, s.stack # <<>>,
         NEW type \in {"in", "out", "move"},
         type = "out" /\ 1 < Len(s.stack) => s.obj[o].grabbed = 0,
         NEW t, t = Tell(s, o, type) \/ t = TellMouse(s, o, type)
  PROVE  /\ Quieter(s, t)
         /\ type = "out" /\ Top(s).at = "outed" /\ s.frozen = 0 /\ IsAlive(s, o) => t.pressed[o] = 0
<1>1. type \notin Busy
  BY EventsAssumption DEF Assumed, HoverCallbacksCallNothing, EventsAssumption
<1>2. ASSUME NEW u, Told(s, u, o, type)
      PROVE  Quieter(s, u) /\ (type = "out" /\ Top(s).at = "outed" => u.pressed[o] = 0)
  <2>1. \A p \in Objects : s.pressed[p] \in Nat /\ u.pressed[p] = IF p = o THEN Hears(s, o, type) ELSE s.pressed[p]
    BY <1>2, CanvasFields DEF Told
  <2>2. \A p \in Objects : u.pressed[p] <= s.pressed[p]
    BY <2>1, HearsFacts
  <2>3. 1 \in 1 .. Len(s.stack) /\ Len(s.stack) \in Nat
    BY StackFacts
  <2>4. Gone(u) = u.stack[1].gone /\ Gone(s) = s.stack[1].gone
    <3>1. u.stack # <<>>
      BY <1>2, AlikeFacts DEF Told
    <3> QED BY <3>1 DEF Gone
  <2>5. \A p \in Gone(u) : p \in Gone(s) \/ s.obj[p].grabbed = 0
    <3>1. u.stack[1].gone = IF type = "out" /\ 1 < Len(s.stack) THEN s.stack[1].gone \union {o}
                            ELSE s.stack[1].gone \ {o}
      BY <1>2, <2>3 DEF Told
    <3>2. \A p \in Gone(u) : p \in Gone(s) \/ (p = o /\ type = "out" /\ 1 < Len(s.stack))
      BY <2>4, <3>1
    <3> QED BY <3>2
  <2> QED BY <1>2, <2>1, <2>2, <2>5, HearsFacts DEF Told, Quieter
<1>3. \/ t = s /\ (s.frozen > 0 \/ ~IsAlive(s, o) \/ type = "move")
      \/ Told(s, t, o, type)
  <2>1. \/ Tell(s, o, type) = s /\ (~IsAlive(s, o) \/ type = "move")
        \/ Told(s, Tell(s, o, type), o, type)
    BY <1>1, TellEffect
  <2> QED BY <2>1 DEF TellMouse
<1> QED BY <1>2, <1>3, QuieterSelf

\* What the pointer is over does not depend on what was noted.
LEMMA HitsSame ==
  ASSUME NEW s, NEW t, t.obj = s.obj
  PROVE  \A l, x : Hits(t, l, x) = Hits(s, l, x)
<1>1. \A x : Hit(t, x) = Hit(s, x)
  BY DEF Hit, Covers
<1>2. {o \in Objects : Repeats(t, o)} = {o \in Objects : Repeats(s, o)}
  BY DEF Repeats
<1> QED BY <1>1, <1>2 DEF Hits

\* What is so of a canvas does not depend on its functions.
LEMMA SameDataFacts ==
  ASSUME NEW s, NEW t, SameData(s, t)
  PROVE  \A w, b : /\ Body(s, w, b) => Body(t, w, b)
                   /\ Clean(s, w, b) => Clean(t, w, b)
<1>1. ASSUME NEW w, NEW b, Body(s, w, b)
      PROVE  Body(t, w, b)
  <2>1. Lists(t, w)
    BY <1>1 DEF Body, Lists, SameData, IsAlive, Listed, Hit, Covers
  <2>2. Hover(t, w)
    BY <1>1 DEF Body, Hover, SameData, HasPointer, Listed
  <2>3. Held(t, w)
    BY <1>1 DEF Body, Held, SameData, Counts, Holding, Mode
  <2>4. Outside(t, w) /\ Single(t)
    BY <1>1 DEF Body, Outside, SameData, Single, Mode
  <2>5. Norepeat(t, w)
    BY <1>1 DEF Body, Norepeat, SameData, Keeps, KeptBy, Mode
  <2>6. Even(t, w, b)
    BY <1>1 DEF Body, Even, SameData, Repeating, Mode, Due, Listed
  <2> QED BY <2>1, <2>2, <2>3, <2>4, <2>5, <2>6 DEF Body
<1>2. ASSUME NEW w, NEW b, Clean(s, w, b)
      PROVE  Clean(t, w, b)
  <2>1. t.obj = s.obj /\ t.order = s.order /\ t.x = s.x
    BY DEF SameData
  <2>2. Hits(t, t.order, t.x) = Hits(s, s.order, s.x)
    BY <2>1, HitsSame
  <2> QED BY <1>2, <2>2 DEF Clean, SameData, Repeating, Mode
<1> QED BY <1>1, <1>2

\* Where only stack and presses differ, a walk and a button event go with both
\* canvases.
LEMMA SameRestFacts ==
  ASSUME NEW s, NEW t, SameRest(s, t)
  PROVE  \A w, b : /\ Body(s, w, b) => Body(t, w, b)
                   /\ Clean(s, w, b) => Clean(t, w, b)
                   /\ Paired(s, w, b) => Paired(t, w, b)
<1>1. \A w, b : Paired(s, w, b) => Paired(t, w, b)
  BY DEF Paired, SameRest, SameData, Repeating, Mode, IsAlive, Owed
<1> QED BY <1>1, SameDataFacts DEF SameRest

\* It keeps what is so.
LEMMA QuieterFacts ==
  ASSUME NEW s \in CanvasType, NEW t, Quieter(s, t)
  PROVE  /\ Walk(t) = Walk(s) /\ Button(t) = Button(s)
         /\ Nested(s) => Nested(t)
         /\ \A w, b : /\ Body(s, w, b) => Body(t, w, b)
                      /\ Paired(s, w, b) /\ Missed(s, b) => Missed(t, b)
                      /\ Clean(s, w, b) => Clean(t, w, b)
<1>1. t \in CanvasType /\ SameData(s, t) /\ Alike(s, t)
  BY DEF Quieter
<1>2. Walk(t) = Walk(s) /\ Button(t) = Button(s)
  BY <1>1, AlikeFacts
<1>3. Nested(s) => Nested(t)
  <2>1. Milder(s, t)
    BY <1>1 DEF Milder, SameData, SameKind, IsAlive
  <2> QED BY <1>1, <2>1, NestedAlike
<1>4. ASSUME NEW w, NEW b, Paired(s, w, b), Missed(s, b)
      PROVE  Missed(t, b)
  <2> SUFFICES ASSUME Repeating(s), b.at \in {"up", "upped"}, NEW p \in Gone(t), IsAlive(s, p)
               PROVE  t.pressed[p] = 0
    BY <1>1 DEF Missed, SameData, IsAlive, Repeating, Mode
  <2>1. p \in Objects
    BY <1>1, StackFacts, FrameFields DEF Gone
  <2>2. s.pressed[p] \in Nat /\ t.pressed[p] \in Nat /\ t.pressed[p] <= s.pressed[p]
    BY <1>1, <2>1, CanvasFields DEF Quieter
  <2>3. CASE p \in Gone(s)
    BY <1>4, <2>2, <2>3 DEF Missed
  <2>4. CASE s.obj[p].grabbed = 0
    BY <1>4, <2>1, <2>2, <2>4 DEF Paired, Owed
  <2> QED BY <2>3, <2>4 DEF Quieter
<1> QED BY <1>1, <1>2, <1>3, <1>4, SameDataFacts

\* ... with what the objects are to hear.
LEMMA QuieterPaired ==
  ASSUME NEW s \in CanvasType, NEW t, Quieter(s, t), NEW w, NEW b, Paired(s, w, b),
         w.at = "outed" => w.cur \in Objects
  PROVE  Paired(t, w, b)
<1>1. t \in CanvasType /\ SameData(s, t) /\ \A p \in Objects : t.pressed[p] <= s.pressed[p]
  BY DEF Quieter
<1> SUFFICES ASSUME Repeating(s) PROVE Paired(t, w, b)
  BY <1>1 DEF Paired, SameData, Repeating, Mode
<1>2. ASSUME NEW o \in Objects, IsAlive(t, o)
      PROVE  t.pressed[o] + Owed(t, b, o) <= t.obj[o].grabbed
  <2>1. s.pressed[o] + Owed(s, b, o) <= s.obj[o].grabbed
    BY <1>1, <1>2 DEF Paired, SameData, IsAlive
  <2>2. t.obj = s.obj /\ Owed(t, b, o) = Owed(s, b, o) /\ Owed(s, b, o) \in Nat
    BY <1>1 DEF SameData, Owed, Mode
  <2>3. s.pressed[o] \in Nat /\ t.pressed[o] \in Nat /\ s.obj[o].grabbed \in Nat
    BY <1>1, CanvasFields, ObjectFields
  <2> QED BY <1>1, <2>1, <2>2, <2>3
<1>3. w.at = "outed" => t.pressed[w.cur] = 0
  <2> SUFFICES ASSUME w.at = "outed" PROVE t.pressed[w.cur] = 0
    OBVIOUS
  <2>1. s.pressed[w.cur] = 0 /\ t.pressed[w.cur] <= s.pressed[w.cur]
    BY <1>1 DEF Paired
  <2>2. t.pressed[w.cur] \in Nat
    BY <1>1, CanvasFields
  <2> QED BY <2>1, <2>2
<1> QED BY <1>2, <1>3 DEF Paired

-----------------------------------------------------------------------------
(***************************************************************************)
(* What the pointer is over.                                               *)
(***************************************************************************)

\* The elements of h are elements of l, in their order, and in H.
Picks(h, l, n, H) ==
  \E p \in [1 .. Len(h) -> 1 .. n] :
    /\ \A j \in 1 .. Len(h) : h[j] = l[p[j]] /\ l[p[j]] \in H
    /\ \A j, k \in 1 .. Len(h) : j < k => p[j] < p[k]

\* The next element of a list is taken if it is wanted, and passed over
\* otherwise.
LEMMA PicksNext ==
  ASSUME NEW l \in Seq(Objects), NEW n \in 1 .. Len(l), NEW H, NEW h \in Seq(Objects),
         Picks(h, l, n - 1, H)
  PROVE  Picks(h, l, n, H) /\ (l[n] \in H => Picks(Append(h, l[n]), l, n, H))
<1> DEFINE m == Len(h)
<1>1. m \in Nat /\ n \in Nat /\ l[n] \in Objects
  OBVIOUS
<1>2. PICK p \in [1 .. m -> 1 .. n - 1] :
        /\ \A j \in 1 .. m : h[j] = l[p[j]] /\ l[p[j]] \in H
        /\ \A j, k \in 1 .. m : j < k => p[j] < p[k]
  BY DEF Picks
<1>3. Picks(h, l, n, H)
  <2>1. p \in [1 .. m -> 1 .. n]
    BY <1>1, <1>2
  <2> QED BY <1>2, <2>1 DEF Picks
<1>4. ASSUME l[n] \in H PROVE Picks(Append(h, l[n]), l, n, H)
  <2> DEFINE q == [j \in 1 .. m + 1 |-> IF j = m + 1 THEN n ELSE p[j]]
             a == Append(h, l[n])
  <2>1. /\ Len(a) = m + 1 /\ a[m + 1] = l[n] /\ \A j \in 1 .. m : a[j] = h[j]
    BY <1>1
  <2>2. \A j \in 1 .. m : p[j] \in 1 .. n - 1 /\ q[j] = p[j]
    <3>1. \A j \in 1 .. m : p[j] \in 1 .. n - 1
      OBVIOUS
    <3>2. \A j \in 1 .. m : j \in 1 .. m + 1 /\ j # m + 1
      BY <1>1
    <3> QED BY <3>1, <3>2
  <2>3. q[m + 1] = n
    BY <1>1
  <2>4. \A j \in 1 .. m + 1 : j \in 1 .. m \/ j = m + 1
    BY <1>1
  <2>5. q \in [1 .. m + 1 -> 1 .. n]
    <3>1. \A j \in 1 .. m + 1 : q[j] \in 1 .. n
      BY <1>1, <2>2, <2>3, <2>4
    <3> QED BY <3>1
  <2> HIDE DEF q, a
  <2>6. \A j \in 1 .. m + 1 : a[j] = l[q[j]] /\ l[q[j]] \in H
    BY <1>2, <1>4, <2>1, <2>2, <2>3, <2>4
  <2>7. ASSUME NEW j \in 1 .. m + 1, NEW k \in 1 .. m + 1, j < k PROVE q[j] < q[k]
    <3>1. j \in 1 .. m
      BY <1>1, <2>7
    <3>2. CASE k = m + 1
      BY <1>1, <2>2, <2>3, <3>1, <3>2
    <3>3. CASE k \in 1 .. m
      BY <1>2, <2>2, <2>7, <3>1, <3>3
    <3> QED BY <2>4, <3>2, <3>3
  <2>8. Picks(a, l, n, H)
    BY <2>1, <2>5, <2>6, <2>7 DEF Picks
  <2> QED BY <2>8 DEF a
<1> QED BY <1>3, <1>4

\* What is picked keeps its order.
LEMMA PicksFacts ==
  ASSUME NEW l \in Seq(Objects), NEW H, NEW h \in Seq(Objects), Picks(h, l, Len(l), H)
  PROVE  /\ Range(h) \subseteq Range(l) \intersect H
         /\ IsInjective(l) => IsInjective(h)
         /\ \A o, p : Before(h, o, p) => Before(l, o, p)
<1>1. PICK q \in [1 .. Len(h) -> 1 .. Len(l)] :
        /\ \A j \in 1 .. Len(h) : h[j] = l[q[j]] /\ l[q[j]] \in H
        /\ \A j, k \in 1 .. Len(h) : j < k => q[j] < q[k]
  BY DEF Picks
<1>2. /\ DOMAIN h = 1 .. Len(h) /\ DOMAIN l = 1 .. Len(l) /\ Len(h) \in Nat /\ Len(l) \in Nat
      /\ \A j \in 1 .. Len(h) : q[j] \in 1 .. Len(l)
  OBVIOUS
<1>3. Range(h) \subseteq Range(l) \intersect H
  BY <1>1, <1>2, RangeFacts
<1>4. ASSUME IsInjective(l) PROVE IsInjective(h)
  <2> SUFFICES ASSUME NEW j \in 1 .. Len(h), NEW k \in 1 .. Len(h), h[j] = h[k] PROVE j = k
    BY <1>2 DEF IsInjective
  <2>1. q[j] = q[k]
    BY <1>1, <1>2, <1>4 DEF IsInjective
  <2>2. j < k \/ k < j \/ j = k
    BY <1>2
  <2> QED BY <1>1, <1>2, <2>1, <2>2
<1>5. ASSUME NEW o, NEW p, Before(h, o, p) PROVE Before(l, o, p)
  <2>1. PICK j \in 1 .. Len(h), k \in 1 .. Len(h) : j < k /\ h[j] = o /\ h[k] = p
    BY <1>2, <1>5 DEF Before
  <2>2. q[j] < q[k] /\ l[q[j]] = o /\ l[q[k]] = p /\ q[j] \in 1 .. Len(l) /\ q[k] \in 1 .. Len(l)
    BY <1>1, <1>2, <2>1
  <2> QED BY <1>2, <2>2 DEF Before
<1> QED BY <1>3, <1>4, <1>5

\* What a list is taken from, and what it is so far.
Taking(H, R) == [hit : {H}, through : {R}, list : Seq(Objects), end : BOOLEAN]

\* One step of an event down a list takes the object it reaches, or nothing.
LEMMA TakeFacts ==
  ASSUME NEW H, NEW R, NEW t \in Taking(H, R), NEW o \in Objects
  PROVE  /\ Take(t, o) \in Taking(H, R) /\ t.list \in Seq(Objects)
         /\ Take(t, o) = t \/ (o \in H /\ Take(t, o).list = Append(t.list, o))
         /\ o \notin H => Take(t, o) = t
<1> DEFINE b == o \notin t.through
           u == [t EXCEPT !.list = Append(@, o), !.end = b]
<1>0. PICK l \in Seq(Objects), e \in BOOLEAN : t = [hit |-> H, through |-> R, list |-> l, end |-> e]
  BY DEF Taking
<1>1. /\ t.list = l /\ t.hit = H /\ t.through = R
      /\ t = [f \in {"hit", "through", "list", "end"} |-> t[f]]
  BY <1>0
<1>2. Take(t, o) = t \/ (o \in H /\ Take(t, o) = u)
  BY <1>1 DEF Take
<1>3. o \notin H => Take(t, o) = t
  BY <1>1 DEF Take
<1>4. b \in BOOLEAN
  OBVIOUS
<1> HIDE DEF b
<1>5. /\ u = [f \in {"hit", "through", "list", "end"} |-> u[f]]
      /\ u.hit = H /\ u.through = R /\ u.list = Append(l, o) /\ u.end = b
  BY <1>1
<1>6. Append(l, o) \in Seq(Objects)
  OBVIOUS
<1> HIDE DEF u
<1>7. u \in Taking(H, R) /\ u.list = Append(t.list, o)
  BY <1>1, <1>4, <1>5, <1>6 DEF Taking
<1> QED BY <1>1, <1>2, <1>3, <1>7

\* An event that starts down a list has taken nothing.
LEMMA TakeStart ==
  ASSUME NEW H, NEW R
  PROVE  LET start == [hit |-> H, through |-> R, list |-> <<>>, end |-> FALSE]
         IN  start \in Taking(H, R) /\ start.list = <<>>
  BY DEF Taking

\* What is taken of a list is picked from it.
LEMMA HitsPicks ==
  ASSUME NEW s, NEW l \in Seq(Objects), NEW x
  PROVE  Hits(s, l, x) \in Seq(Objects) /\ Picks(Hits(s, l, x), l, Len(l), Hit(s, x))
<1> DEFINE H == Hit(s, x)
           R == {o \in Objects : Repeats(s, o)}
           start == [hit |-> H, through |-> R, list |-> <<>>, end |-> FALSE]
           All == Taking(H, R)
           I == [k \in 0 .. Len(l) |-> {t \in All : Picks(t.list, l, k, H)}]
<1> HIDE DEF H, R
<1>1. Len(l) \in Nat
  OBVIOUS
<1>2. \A k \in 0 .. Len(l) : I[k] = {t \in All : Picks(t.list, l, k, H)}
  OBVIOUS
<1>3. start \in I[0]
  <2>1. start \in All /\ start.list = <<>>
    BY TakeStart
  <2>2. Picks(<<>>, l, 0, H)
    <3> DEFINE none == [j \in 1 .. 0 |-> 0]
               h == <<>>
    <3>1. none \in [1 .. 0 -> 1 .. 0] /\ Len(h) = 0 /\ 1 .. 0 = {}
      OBVIOUS
    <3> HIDE DEF none, h
    <3>2. Picks(h, l, 0, H)
      BY <3>1 DEF Picks
    <3> QED BY <3>2 DEF h
  <2>3. 0 \in 0 .. Len(l)
    BY <1>1
  <2> HIDE DEF start, All, I
  <2> QED BY <1>2, <2>1, <2>2, <2>3
<1>4. ASSUME NEW k \in 1 .. Len(l), NEW t \in I[k - 1] PROVE Take(t, l[k]) \in I[k]
  <2> HIDE DEF I
  <2>1. k - 1 \in 0 .. Len(l) /\ k \in 0 .. Len(l) /\ l[k] \in Objects
    BY <1>1
  <2>2. t \in All /\ Picks(t.list, l, k - 1, H)
    BY <1>2, <2>1
  <2>3. /\ Take(t, l[k]) \in All /\ t.list \in Seq(Objects)
        /\ Take(t, l[k]) = t \/ (l[k] \in H /\ Take(t, l[k]).list = Append(t.list, l[k]))
    BY <2>1, <2>2, TakeFacts
  <2> HIDE DEF All
  <2>6. Picks(t.list, l, k, H) /\ (l[k] \in H => Picks(Append(t.list, l[k]), l, k, H))
    BY <2>2, <2>3, PicksNext
  <2> QED BY <1>2, <2>1, <2>3, <2>6
<1> HIDE DEF start, I
<1>5. Taken!Loop(start, l) \in I[Len(l)]
  BY <1>3, <1>4, Taken!LoopKeeps
<1>6. /\ Taken!Loop(start, l).list \in Seq(Objects)
      /\ Picks(Taken!Loop(start, l).list, l, Len(l), H)
  <2> HIDE DEF All
  <2>1. Taken!Loop(start, l) \in All /\ Picks(Taken!Loop(start, l).list, l, Len(l), H)
    BY <1>1, <1>2, <1>5
  <2> QED BY <2>1 DEF All, Taking
<1>7. Hits(s, l, x) = Taken!Loop(start, l).list
  BY DEF Hits, start, H, R
<1> QED BY <1>6, <1>7 DEF H

\* The objects an event reaches are some of the list, each once, in its order.
LEMMA HitsFacts ==
  ASSUME NEW s, NEW l \in Seq(Objects), NEW x
  PROVE  /\ Hits(s, l, x) \in Seq(Objects)
         /\ Range(Hits(s, l, x)) \subseteq Range(l) \intersect Hit(s, x)
         /\ IsInjective(l) => IsInjective(Hits(s, l, x))
         /\ \A o, p : Before(Hits(s, l, x), o, p) => Before(l, o, p)
  BY HitsPicks, PicksFacts

\* An object that is not at the pointer makes no difference: m is l without it.
Without(l, m, i) ==
  /\ Len(l) = Len(m) + 1
  /\ \A j \in 1 .. Len(m) : m[j] = IF j < i THEN l[j] ELSE l[j + 1]

\* An object that an event does not hit may be left out of the list.
LEMMA HitsWithout ==
  ASSUME NEW s, NEW l \in Seq(Objects), NEW m \in Seq(Objects), NEW x,
         NEW i \in 1 .. Len(l), Without(l, m, i), l[i] \notin Hit(s, x)
  PROVE  Hits(s, l, x) = Hits(s, m, x)
<1> DEFINE H == Hit(s, x)
           R == {o \in Objects : Repeats(s, o)}
           start == [hit |-> H, through |-> R, list |-> <<>>, end |-> FALSE]
<1>0. l[i] \notin H
  OBVIOUS
<1> HIDE DEF H, R
<1>1. Len(l) \in Nat /\ Len(m) \in Nat /\ Len(l) = Len(m) + 1 /\ i \in Nat
  BY DEF Without
<1>2. PICK g : /\ g[0] = start /\ Taken!Loop(start, m) = g[Len(m)]
               /\ \A k \in 1 .. Len(m) : g[k] = Take(g[k - 1], m[k])
  BY Taken!LoopStates
<1> DEFINE All == Taking(H, R)
<1> DEFINE J == [k \in 0 .. Len(l) |-> IF k < i THEN {t \in All : t = g[k]} ELSE {t \in All : t = g[k - 1]}]
<1>5. start \in All
  BY TakeStart
<1> HIDE DEF start, All
<1>6. start \in J[0]
  <2>1. 0 \in 0 .. Len(l) /\ 0 < i
    BY <1>1
  <2>2. J[0] = {t \in All : t = g[0]}
    BY <2>1
  <2> HIDE DEF J
  <2> QED BY <1>2, <1>5, <2>2
<1>7. ASSUME NEW k \in 1 .. Len(l), NEW t \in J[k - 1] PROVE Take(t, l[k]) \in J[k]
  <2>1. k - 1 \in 0 .. Len(l) /\ k \in 0 .. Len(l) /\ l[k] \in Objects
    BY <1>1
  <2>2. t \in All
    BY <2>1
  <2>3. Take(t, l[k]) \in All /\ (l[k] \notin H => Take(t, l[k]) = t)
    BY <2>1, <2>2, TakeFacts DEF All
  <2>4. J[k] = IF k < i THEN {u \in All : u = g[k]} ELSE {u \in All : u = g[k - 1]}
    BY <2>1
  <2>5. J[k - 1] = IF k - 1 < i THEN {u \in All : u = g[k - 1]} ELSE {u \in All : u = g[k - 1 - 1]}
    BY <2>1
  <2> HIDE DEF J
  <2>6. CASE k < i
    <3>1. k \in 1 .. Len(m) /\ l[k] = m[k] /\ t = g[k - 1]
      BY <1>1, <2>5, <2>6 DEF Without
    <3> QED BY <1>2, <2>3, <2>4, <2>6, <3>1
  <2>7. CASE k = i
    <3>1. t = g[k - 1] /\ ~(k < i)
      BY <1>1, <2>5, <2>7
    <3>2. Take(t, l[k]) = t
      BY <1>0, <2>3, <2>7
    <3> QED BY <2>3, <2>4, <3>1, <3>2
  <2>8. CASE k > i
    <3>1. k - 1 \in 1 .. Len(m) /\ l[k] = m[k - 1] /\ t = g[k - 1 - 1] /\ ~(k < i)
      BY <1>1, <2>5, <2>8 DEF Without
    <3> QED BY <1>2, <2>3, <2>4, <3>1
  <2> QED BY <1>1, <2>6, <2>7, <2>8
<1> HIDE DEF J
<1>8. Taken!Loop(start, l) \in J[Len(l)]
  BY <1>6, <1>7, Taken!LoopKeeps
<1>9. Taken!Loop(start, l) = g[Len(m)]
  <2>1. Len(l) \in 0 .. Len(l) /\ ~(Len(l) < i) /\ Len(l) - 1 = Len(m)
    BY <1>1
  <2>2. J[Len(l)] = {t \in All : t = g[Len(m)]}
    BY <2>1 DEF J
  <2> QED BY <1>8, <2>2
<1> QED BY <1>2, <1>9 DEF Hits, start, H, R

\* It may be removed from it.
LEMMA HitsRemoved ==
  ASSUME NEW s, NEW l \in Seq(Objects), NEW x, NEW o, o \notin Hit(s, x)
  PROVE  Hits(s, RemoveFirst(l, o), x) = Hits(s, l, x)
<1>1. CASE \E i \in 1 .. Len(l) : l[i] = o
  <2>1. PICK i \in 1 .. Len(l) : l[i] = o /\ RemoveFirst(l, o) = RemoveAt(l, i)
    BY <1>1, RemoveFirstAt
  <2> DEFINE m == RemoveAt(l, i)
  <2>2. /\ m \in Seq(Objects) /\ Len(m) = Len(l) - 1 /\ Len(l) \in Nat
        /\ \A j \in 1 .. Len(l) - 1 : m[j] = IF j < i THEN l[j] ELSE l[j + 1]
    BY RemoveElements
  <2> HIDE DEF m
  <2>3. Without(l, m, i)
    BY <2>2 DEF Without
  <2>4. Hits(s, l, x) = Hits(s, m, x)
    BY <2>1, <2>2, <2>3, HitsWithout
  <2> QED BY <2>1, <2>4 DEF m
<1>2. CASE ~\E i \in 1 .. Len(l) : l[i] = o
  BY <1>2 DEF RemoveFirst
<1> QED BY <1>1, <1>2

\* It may be put in front of it.
LEMMA HitsInFront ==
  ASSUME NEW s, NEW l \in Seq(Objects), NEW x, NEW o \in Objects, o \notin Hit(s, x)
  PROVE  Hits(s, <<o>> \o l, x) = Hits(s, l, x)
<1> DEFINE m == <<o>> \o l
<1>1. /\ m \in Seq(Objects) /\ Len(m) = Len(l) + 1 /\ Len(l) \in Nat /\ m[1] = o
      /\ \A j \in 1 .. Len(l) : m[j + 1] = l[j]
  OBVIOUS
<1> HIDE DEF m
<1>2. Without(m, l, 1) /\ 1 \in 1 .. Len(m)
  BY <1>1 DEF Without
<1>3. Hits(s, m, x) = Hits(s, l, x)
  BY <1>1, <1>2, HitsWithout
<1> QED BY <1>3 DEF m

-----------------------------------------------------------------------------
(***************************************************************************)
(* The order of objects in a list.                                         *)
(***************************************************************************)

\* In a list with no object twice, two objects come one before the other.
LEMMA BeforeFacts ==
  ASSUME NEW l \in Seq(Objects)
  PROVE  /\ \A p, q : Before(l, p, q) <=> \E i, j \in 1 .. Len(l) : i < j /\ l[i] = p /\ l[j] = q
         /\ \A p, q : Before(l, p, q) => p \in Range(l) /\ q \in Range(l)
         /\ IsInjective(l) => \A p, q : Before(l, p, q) => ~Before(l, q, p)
<1>1. DOMAIN l = 1 .. Len(l) /\ Len(l) \in Nat
  OBVIOUS
<1>2. \A p, q : Before(l, p, q) <=> \E i, j \in 1 .. Len(l) : i < j /\ l[i] = p /\ l[j] = q
  BY <1>1 DEF Before
<1>3. \A p, q : Before(l, p, q) => p \in Range(l) /\ q \in Range(l)
  BY <1>2, RangeFacts
<1>4. ASSUME IsInjective(l), NEW p, NEW q, Before(l, p, q), Before(l, q, p) PROVE FALSE
  <2>1. PICK i \in 1 .. Len(l), j \in 1 .. Len(l) : i < j /\ l[i] = p /\ l[j] = q
    BY <1>2, <1>4
  <2>2. PICK x \in 1 .. Len(l), y \in 1 .. Len(l) : x < y /\ l[x] = q /\ l[y] = p
    BY <1>2, <1>4
  <2>3. i = y /\ j = x
    BY <1>1, <1>4, <2>1, <2>2 DEF IsInjective
  <2> QED BY <1>1, <2>1, <2>2, <2>3
<1> QED BY <1>2, <1>3, <1>4

\* A list that is cut behind its i-th object.
LEMMA CutOrder ==
  ASSUME NEW l \in Seq(Objects), IsInjective(l), NEW i \in 1 .. Len(l)
  PROVE  LET u == SubSeq(l, 1, i)
             r == SubSeq(l, i + 1, Len(l))
         IN  /\ u \in Seq(Objects) /\ r \in Seq(Objects) /\ Len(u) = i
             /\ IsInjective(u) /\ IsInjective(r)
             /\ Range(l) = Range(u) \union Range(r) /\ Range(u) \intersect Range(r) = {}
             /\ l[i] \in Range(u)
             /\ \A p \in Range(r) : Before(l, l[i], p)
             /\ \A p \in Range(u) : p = l[i] \/ Before(l, p, l[i])
             /\ \A p, q : Before(u, p, q) => Before(l, p, q)
             /\ \A p : ~Before(u, l[i], p)
<1> DEFINE u == SubSeq(l, 1, i)
           r == SubSeq(l, i + 1, Len(l))
           n == Len(l)
<1>1. n \in Nat /\ i \in Nat /\ i >= 1 /\ i <= n /\ DOMAIN l = 1 .. n
  OBVIOUS
<1>2. /\ u \in Seq(Objects) /\ Len(u) = i /\ \A j \in 1 .. i : u[j] = l[j]
  <2>1. 1 \in 1 .. n + 1 /\ i \in 1 - 1 .. n /\ i - 1 + 1 = i
    BY <1>1
  <2>2. /\ u \in Seq(Objects) /\ Len(u) = i - 1 + 1
        /\ \A j \in 1 .. i - 1 + 1 : u[j] = l[1 + j - 1]
    BY <2>1, PartFacts
  <2>3. \A j \in 1 .. i : 1 + j - 1 = j
    BY <1>1
  <2> HIDE DEF u
  <2> QED BY <2>1, <2>2, <2>3
<1>3. /\ r \in Seq(Objects) /\ Len(r) = n - i /\ \A j \in 1 .. n - i : r[j] = l[i + j]
  <2>1. i \in 0 .. n
    BY <1>1
  <2> QED BY <2>1, TailFacts
<1>4. Range(l) = Range(u) \union Range(r)
  <2>1. i \in 0 .. n
    BY <1>1
  <2> QED BY <2>1, CutFacts
<1> HIDE DEF u, r
<1>5. DOMAIN u = 1 .. i /\ DOMAIN r = 1 .. n - i
  BY <1>2, <1>3
<1>6. \A j, k \in 1 .. n : l[j] = l[k] => j = k
  BY <1>1 DEF IsInjective
<1> HIDE DEF n
<1>7. IsInjective(u) /\ IsInjective(r)
  <2>1. \A j \in 1 .. i : j \in 1 .. n
    BY <1>1
  <2>2. \A j \in 1 .. n - i : i + j \in 1 .. n
    BY <1>1
  <2>3. \A j, k \in 1 .. n - i : i + j = i + k => j = k
    BY <1>1
  <2>4. IsInjective(u)
    BY <1>2, <1>5, <1>6, <2>1 DEF IsInjective
  <2>5. IsInjective(r)
    BY <1>3, <1>5, <1>6, <2>2, <2>3 DEF IsInjective
  <2> QED BY <2>4, <2>5
<1>8. /\ \A p \in Range(u) : \E j \in 1 .. i : p = l[j]
      /\ \A p \in Range(r) : \E j \in i + 1 .. n : p = l[j]
  <2>1. \A p \in Range(u) : \E j \in 1 .. i : p = l[j]
    BY <1>2, <1>5 DEF Range
  <2>2. ASSUME NEW p \in Range(r) PROVE \E j \in i + 1 .. n : p = l[j]
    <3>1. PICK j \in 1 .. n - i : p = l[i + j]
      BY <1>3, <1>5 DEF Range
    <3>2. i + j \in i + 1 .. n
      BY <1>1
    <3> QED BY <3>1, <3>2
  <2> QED BY <2>1, <2>2
<1>9. Range(u) \intersect Range(r) = {}
  <2>1. ASSUME NEW p \in Range(u), p \in Range(r) PROVE FALSE
    <3>1. PICK j \in 1 .. i : p = l[j]
      BY <1>8
    <3>2. PICK k \in i + 1 .. n : p = l[k]
      BY <1>8, <2>1
    <3>3. j \in 1 .. n /\ k \in 1 .. n /\ j # k
      BY <1>1
    <3> QED BY <1>6, <3>1, <3>2, <3>3
  <2> QED BY <2>1
<1>10. l[i] \in Range(u)
  <2>1. i \in DOMAIN u /\ u[i] = l[i]
    BY <1>1, <1>2, <1>5
  <2> QED BY <2>1 DEF Range
<1>11. ASSUME NEW p \in Range(r) PROVE Before(l, l[i], p)
  <2>1. PICK k \in i + 1 .. n : p = l[k]
    BY <1>8
  <2>2. k \in 1 .. n /\ i \in 1 .. n /\ i < k
    BY <1>1
  <2> QED BY <1>1, <2>1, <2>2 DEF Before
<1>12. ASSUME NEW p \in Range(u) PROVE p = l[i] \/ Before(l, p, l[i])
  <2>1. PICK k \in 1 .. i : p = l[k]
    BY <1>8
  <2>2. k \in 1 .. n /\ i \in 1 .. n /\ (k = i \/ k < i)
    BY <1>1
  <2> QED BY <1>1, <2>1, <2>2 DEF Before
<1>13. ASSUME NEW p, NEW q, Before(u, p, q) PROVE Before(l, p, q) /\ p # l[i]
  <2>1. PICK j \in 1 .. i, k \in 1 .. i : j < k /\ u[j] = p /\ u[k] = q
    BY <1>5, <1>13 DEF Before
  <2>2. j \in 1 .. n /\ k \in 1 .. n /\ i \in 1 .. n /\ l[j] = p /\ l[k] = q /\ j # i
    BY <1>1, <1>2, <2>1
  <2> QED BY <1>1, <1>6, <2>1, <2>2 DEF Before
<1> QED BY <1>2, <1>3, <1>4, <1>7, <1>9, <1>10, <1>11, <1>12, <1>13 DEF u, r, n

\* A list that follows another.
LEMMA JoinOrder ==
  ASSUME NEW u \in Seq(Objects), NEW h \in Seq(Objects), IsInjective(u), IsInjective(h),
         Range(u) \intersect Range(h) = {}
  PROVE  /\ u \o h \in Seq(Objects) /\ IsInjective(u \o h)
         /\ Range(u \o h) = Range(u) \union Range(h)
         /\ \A p, q : Before(u \o h, p, q) => Before(u, p, q) \/ q \in Range(h)
<1> DEFINE l == u \o h
           m == Len(u)
           n == Len(h)
<1>1. /\ m \in Nat /\ n \in Nat /\ DOMAIN u = 1 .. m /\ DOMAIN h = 1 .. n
      /\ l \in Seq(Objects) /\ Len(l) = m + n /\ DOMAIN l = 1 .. m + n
      /\ \A i \in 1 .. m : l[i] = u[i]
      /\ \A i \in m + 1 .. m + n : l[i] = h[i - m]
  OBVIOUS
<1>2. Range(l) = Range(u) \union Range(h)
  BY JoinFacts
<1> HIDE DEF l, m, n
<1>3. ASSUME NEW i \in 1 .. m + n
      PROVE  \/ i \in 1 .. m /\ l[i] = u[i] /\ l[i] \in Range(u)
             \/ i - m \in 1 .. n /\ l[i] = h[i - m] /\ l[i] \in Range(h)
  <2>1. CASE i \in 1 .. m
    BY <1>1, <2>1 DEF Range
  <2>2. CASE i \in m + 1 .. m + n
    <3>1. i - m \in 1 .. n
      BY <1>1, <2>2
    <3> QED BY <1>1, <2>2, <3>1 DEF Range
  <2> QED BY <1>1, <2>1, <2>2
<1>4. ASSUME NEW i \in 1 .. m + n, NEW j \in 1 .. m + n, l[i] = l[j] PROVE i = j
  <2>1. CASE i \in 1 .. m /\ l[i] = u[i] /\ l[i] \in Range(u)
    <3>1. j \in 1 .. m /\ l[j] = u[j]
      BY <1>3, <1>4, <2>1
    <3> QED BY <1>1, <1>4, <2>1, <3>1 DEF IsInjective
  <2>2. CASE i - m \in 1 .. n /\ l[i] = h[i - m] /\ l[i] \in Range(h)
    <3>1. j - m \in 1 .. n /\ l[j] = h[j - m]
      BY <1>3, <1>4, <2>2
    <3>2. i - m = j - m
      BY <1>1, <1>4, <2>2, <3>1 DEF IsInjective
    <3> QED BY <1>1, <3>2
  <2> QED BY <1>3, <2>1, <2>2
<1>5. IsInjective(l)
  BY <1>1, <1>4 DEF IsInjective
<1>6. ASSUME NEW p, NEW q, Before(l, p, q), q \notin Range(h) PROVE Before(u, p, q)
  <2>1. PICK i \in 1 .. m + n, j \in 1 .. m + n : i < j /\ l[i] = p /\ l[j] = q
    BY <1>1, <1>6 DEF Before
  <2>2. j \in 1 .. m /\ l[j] = u[j]
    BY <1>3, <1>6, <2>1
  <2>3. i \in 1 .. m
    BY <1>1, <2>1, <2>2
  <2> QED BY <1>1, <2>1, <2>2, <2>3 DEF Before
<1> QED BY <1>1, <1>2, <1>5, <1>6 DEF l

\* An object is removed from a list.
LEMMA RemovedOrder ==
  ASSUME NEW l \in Seq(Objects), IsInjective(l), NEW o
  PROVE  LET r == RemoveFirst(l, o)
         IN  /\ r \in Seq(Objects) /\ IsInjective(r) /\ Range(r) = Range(l) \ {o}
             /\ \A p, q : Before(r, p, q) => Before(l, p, q)
             /\ \A p, q : p # o /\ q # o /\ Before(l, p, q) => Before(r, p, q)
             /\ o \notin Range(l) => r = l
<1> DEFINE r == RemoveFirst(l, o)
<1>1. CASE \E i \in 1 .. Len(l) : l[i] = o
  <2>1. PICK i \in 1 .. Len(l) : l[i] = o /\ RemoveFirst(l, o) = RemoveAt(l, i)
    BY <1>1, RemoveFirstAt
  <2> DEFINE n == Len(l)
             m == Len(r)
  <2>2. /\ r \in Seq(Objects) /\ Len(r) = n - 1 /\ n \in Nat
        /\ \A j \in 1 .. n - 1 : r[j] = IF j < i THEN l[j] ELSE l[j + 1]
    <3> DEFINE a == RemoveAt(l, i)
    <3>1. /\ a \in Seq(Objects) /\ Len(a) = Len(l) - 1 /\ Len(l) \in Nat
          /\ \A j \in 1 .. Len(l) - 1 : a[j] = IF j < i THEN l[j] ELSE l[j + 1]
      BY RemoveElements
    <3>2. r = a
      BY <2>1
    <3> HIDE DEF a, r
    <3> QED BY <3>1, <3>2
  <2>3. /\ DOMAIN l = 1 .. n /\ i \in 1 .. n
        /\ \A j, k \in 1 .. n : l[j] = l[k] => j = k
    <3>1. DOMAIN l = 1 .. n
      OBVIOUS
    <3> QED BY <3>1 DEF IsInjective
  <2> HIDE DEF r, n
  <2>4. DOMAIN r = 1 .. n - 1
    BY <2>2
  <2> DEFINE at(j) == IF j < i THEN j ELSE j + 1
             to(j) == IF j < i THEN j ELSE j - 1
  <2>5. ASSUME NEW j \in 1 .. n - 1
        PROVE  at(j) \in 1 .. n /\ at(j) # i /\ r[j] = l[at(j)]
    BY <2>2, <2>3
  <2>6. ASSUME NEW j \in 1 .. n, j # i
        PROVE  to(j) \in 1 .. n - 1 /\ at(to(j)) = j
    BY <2>2, <2>3, <2>6
  <2>7. ASSUME NEW j \in 1 .. n - 1, NEW k \in 1 .. n - 1
        PROVE  j < k <=> at(j) < at(k)
    BY <2>2, <2>3
  <2>8. \A j, k \in 1 .. n - 1 : at(j) = at(k) => j = k
    BY <2>2, <2>3
  <2> HIDE DEF at, to
  <2>9. IsInjective(r)
    BY <2>3, <2>4, <2>5, <2>8 DEF IsInjective
  <2>10. Range(r) = Range(l) \ {o}
    <3>1. \A p \in Range(r) : p \in Range(l) /\ p # o
      <4>1. ASSUME NEW j \in 1 .. n - 1 PROVE r[j] \in Range(l) /\ r[j] # o
        <5>1. at(j) \in 1 .. n /\ at(j) # i /\ r[j] = l[at(j)]
          BY <2>5
        <5> QED BY <2>1, <2>3, <5>1 DEF Range
      <4> QED BY <2>4, <4>1 DEF Range
    <3>2. \A p \in Range(l) : p # o => p \in Range(r)
      <4>1. ASSUME NEW j \in 1 .. n, l[j] # o PROVE l[j] \in Range(r)
        <5>1. to(j) \in 1 .. n - 1 /\ at(to(j)) = j
          BY <2>1, <2>6, <4>1
        <5>2. r[to(j)] = l[j]
          BY <2>5, <5>1
        <5> QED BY <2>4, <5>1, <5>2 DEF Range
      <4> QED BY <2>3, <4>1 DEF Range
    <3> QED BY <3>1, <3>2
  <2>11. ASSUME NEW p, NEW q, Before(r, p, q) PROVE Before(l, p, q)
    <3>1. PICK j \in 1 .. n - 1, k \in 1 .. n - 1 : j < k /\ r[j] = p /\ r[k] = q
      BY <2>4, <2>11 DEF Before
    <3>2. /\ at(j) < at(k) /\ l[at(j)] = p /\ l[at(k)] = q /\ at(j) \in 1 .. n /\ at(k) \in 1 .. n
      BY <2>5, <2>7, <3>1
    <3> QED BY <2>3, <3>2 DEF Before
  <2>12. ASSUME NEW p, NEW q, p # o, q # o, Before(l, p, q) PROVE Before(r, p, q)
    <3>1. PICK j \in 1 .. n, k \in 1 .. n : j < k /\ l[j] = p /\ l[k] = q
      BY <2>3, <2>12 DEF Before
    <3>2. to(j) \in 1 .. n - 1 /\ at(to(j)) = j /\ to(k) \in 1 .. n - 1 /\ at(to(k)) = k
      BY <2>1, <2>6, <2>12, <3>1
    <3>3. to(j) < to(k) /\ r[to(j)] = p /\ r[to(k)] = q
      BY <2>5, <2>7, <3>1, <3>2
    <3> QED BY <2>4, <3>2, <3>3 DEF Before
  <2>13. o \in Range(l)
    BY <2>1, <2>3 DEF Range
  <2> QED BY <2>2, <2>9, <2>10, <2>11, <2>12, <2>13 DEF r
<1>2. CASE ~\E i \in 1 .. Len(l) : l[i] = o
  <2>1. r = l
    BY <1>2 DEF RemoveFirst
  <2>2. o \notin Range(l)
    BY <1>2, RangeFacts
  <2> QED BY <2>1, <2>2
<1> QED BY <1>1, <1>2

\* Where an object is in a list.
LEMMA PlaceFacts ==
  ASSUME NEW l \in Seq(Objects), NEW o \in Range(l)
  PROVE  Place(l, o) \in 1 .. Len(l) /\ l[Place(l, o)] = o
<1> DEFINE I == {i \in 1 .. Len(l) : l[i] = o}
<1>1. I \in SUBSET Nat /\ I # {}
  BY RangeFacts
<1>2. Place(l, o) = Min(I)
  <2>1. Place(l, o) = IF I # {} THEN Min(I) ELSE 0
    BY DEF Place, SelectInSeq
  <2> QED BY <1>1, <2>1
<1> HIDE DEF I
<1>3. Min(I) \in I
  BY <1>1, MinFacts
<1> QED BY <1>2, <1>3 DEF I

-----------------------------------------------------------------------------
(***************************************************************************)
(* The grabs of the objects, counted.                                      *)
(***************************************************************************)

\* The numbered grabs are those of some object.
LEMMA GrabsMembers ==
  ASSUME NEW n
  PROVE  \A x : x \in GrabsOf(n) <=> \E o \in Objects : \E i \in 1 .. n[o] : x = <<o, i>>
  BY DEF GrabsOf

\* There are finitely many grabs.
LEMMA GrabsFinite ==
  ASSUME NEW n \in [Objects -> Nat]
  PROVE  IsFiniteSet(GrabsOf(n)) /\ Cardinality(GrabsOf(n)) \in Nat
<1> DEFINE each(o) == {o} \X (1 .. n[o])
           C == {each(o) : o \in Objects}
           f == [o \in Objects |-> each(o)]
<1>1. IsFiniteSet(Objects)
  BY EventsAssumption DEF EventsAssumption
<1>2. ASSUME NEW o \in Objects PROVE IsFiniteSet(each(o))
  <2>1. IsFiniteSet({o})
    BY FS_Singleton
  <2>2. n[o] \in Int /\ 1 \in Int
    OBVIOUS
  <2>3. IsFiniteSet(1 .. n[o])
    BY <2>2, FS_Interval
  <2> QED BY <2>1, <2>3, FS_Product
<1>3. IsFiniteSet(C)
  <2> HIDE DEF each
  <2>1. f \in Surjection(Objects, C)
    BY DEF Surjection
  <2> QED BY <1>1, <2>1, FS_Surjection
<1>4. \A T \in C : IsFiniteSet(T)
  BY <1>2
<1>5. GrabsOf(n) = UNION C
  BY DEF GrabsOf
<1> HIDE DEF C
<1>6. IsFiniteSet(GrabsOf(n))
  BY <1>3, <1>4, <1>5, FS_UNION
<1> QED BY <1>6, FS_CardinalityType

\* A part of the grabs, k of an object.
Part(o, j, k) == {o} \X (j + 1 .. j + k)

\* Grabs that are added to those an object has count as many as they are.
LEMMA GrabsPart ==
  ASSUME NEW o, NEW j \in Nat, NEW k \in Nat
  PROVE  IsFiniteSet(Part(o, j, k)) /\ Cardinality(Part(o, j, k)) = k
<1> DEFINE I == j + 1 .. j + k
<1>1. IsFiniteSet({o}) /\ Cardinality({o}) = 1
  BY FS_Singleton
<1>2. IsFiniteSet(I) /\ Cardinality(I) = k
  <2>1. IsFiniteSet(I) /\ Cardinality(I) = IF j + 1 > j + k THEN 0 ELSE (j + k) - (j + 1) + 1
    BY FS_Interval
  <2> QED BY <2>1
<1> HIDE DEF I
<1>3. IsFiniteSet({o} \X I) /\ Cardinality({o} \X I) = 1 * k
  BY <1>1, <1>2, FS_Product
<1> QED BY <1>3 DEF I, Part

\* There are none if no object has grabbed the pointer, and not fewer than any has.
LEMMA GrabsBound ==
  ASSUME NEW n \in [Objects -> Nat]
  PROVE  /\ (\A o \in Objects : n[o] = 0) => Cardinality(GrabsOf(n)) = 0
         /\ \A o \in Objects : n[o] <= Cardinality(GrabsOf(n))
<1>1. ASSUME \A o \in Objects : n[o] = 0 PROVE Cardinality(GrabsOf(n)) = 0
  <2>1. GrabsOf(n) = {}
    <3>1. \A o \in Objects : 1 .. n[o] = {}
      BY <1>1
    <3> QED BY <3>1, GrabsMembers
  <2> QED BY <2>1, FS_EmptySet
<1>2. ASSUME NEW o \in Objects PROVE n[o] <= Cardinality(GrabsOf(n))
  <2> DEFINE P == Part(o, 0, n[o])
  <2>0. 0 \in Nat /\ n[o] \in Nat
    OBVIOUS
  <2>1. IsFiniteSet(P) /\ Cardinality(P) = n[o]
    BY <2>0, GrabsPart
  <2>2. P \in SUBSET GrabsOf(n)
    BY <2>0, GrabsMembers DEF Part
  <2> HIDE DEF P
  <2>3. Cardinality(P) <= Cardinality(GrabsOf(n))
    BY <2>2, GrabsFinite, FS_Subset
  <2> QED BY <2>1, <2>3
<1> QED BY <1>1, <1>2

\* An object gives k of its grabs back.
LEMMA GrabsLess ==
  ASSUME NEW n \in [Objects -> Nat], NEW m \in [Objects -> Nat],
         NEW o \in Objects, NEW k \in Nat, n[o] = m[o] + k,
         \A p \in Objects : p # o => m[p] = n[p]
  PROVE  Cardinality(GrabsOf(m)) = Cardinality(GrabsOf(n)) - k
<1> DEFINE P == Part(o, m[o], k)
<1>0. m[o] \in Nat
  OBVIOUS
<1>1. IsFiniteSet(P) /\ Cardinality(P) = k
  BY <1>0, GrabsPart
<1>2. GrabsOf(n) = GrabsOf(m) \union P
  <2>1. ASSUME NEW x PROVE x \in GrabsOf(n) <=> x \in GrabsOf(m) \union P
    <3>1. x \in GrabsOf(n) <=> \E p \in Objects : \E i \in 1 .. n[p] : x = <<p, i>>
      BY GrabsMembers
    <3>2. x \in GrabsOf(m) <=> \E p \in Objects : \E i \in 1 .. m[p] : x = <<p, i>>
      BY GrabsMembers
    <3>3. x \in P <=> \E i \in m[o] + 1 .. m[o] + k : x = <<o, i>>
      BY DEF Part
    <3> HIDE DEF P
    <3>4. \A i : i \in 1 .. n[o] <=> i \in 1 .. m[o] \/ i \in m[o] + 1 .. m[o] + k
      OBVIOUS
    <3> QED BY <3>1, <3>2, <3>3, <3>4
  <2> QED BY <2>1
<1>3. GrabsOf(m) \intersect P = {}
  <2>1. ASSUME NEW x \in GrabsOf(m), x \in P PROVE FALSE
    <3>1. PICK i \in m[o] + 1 .. m[o] + k : x = <<o, i>>
      BY <2>1 DEF Part
    <3>2. PICK p \in Objects : \E j \in 1 .. m[p] : x = <<p, j>>
      BY <2>1, GrabsMembers
    <3>3. PICK j \in 1 .. m[p] : x = <<p, j>>
      BY <3>2
    <3>4. p = o /\ i = j
      BY <3>1, <3>3
    <3> QED BY <3>1, <3>3, <3>4
  <2> QED BY <2>1
<1> HIDE DEF P
<1>4. /\ IsFiniteSet(GrabsOf(m)) /\ Cardinality(GrabsOf(m)) \in Nat
      /\ Cardinality(GrabsOf(m) \intersect P) = 0
  BY <1>3, GrabsFinite, FS_EmptySet
<1>5. Cardinality(GrabsOf(n)) = Cardinality(GrabsOf(m)) + Cardinality(P) - Cardinality(GrabsOf(m) \intersect P)
  BY <1>1, <1>2, <1>4, FS_Union
<1> QED BY <1>1, <1>4, <1>5

\* Each object of A grabs the pointer k times.
LEMMA GrabsMore ==
  ASSUME NEW n \in [Objects -> Nat], NEW m \in [Objects -> Nat],
         NEW A \in SUBSET Objects, NEW k \in Nat,
         \A p \in Objects : m[p] = n[p] + IF p \in A THEN k ELSE 0
  PROVE  Cardinality(GrabsOf(m)) = Cardinality(GrabsOf(n)) + k * Cardinality(A)
<1> DEFINE I == 1 .. k
           P == UNION {{o} \X (n[o] + 1 .. n[o] + k) : o \in A}
           f == [x \in A \X I |-> <<x[1], n[x[1]] + x[2]>>]
<1>1. \A x : x \in P <=> \E o \in A : \E i \in n[o] + 1 .. n[o] + k : x = <<o, i>>
  OBVIOUS
<1> HIDE DEF P
<1>2. IsFiniteSet(A) /\ Cardinality(A) \in Nat
  <2>1. IsFiniteSet(Objects)
    BY EventsAssumption DEF EventsAssumption
  <2> QED BY <2>1, FS_Subset, FS_CardinalityType
<1>3. IsFiniteSet(I) /\ Cardinality(I) = k
  <2>1. IsFiniteSet(I) /\ Cardinality(I) = IF 1 > k THEN 0 ELSE k - 1 + 1
    BY FS_Interval
  <2> QED BY <2>1
<1>4. ASSUME NEW o \in A, NEW i \in I PROVE f[<<o, i>>] = <<o, n[o] + i>> /\ n[o] \in Nat /\ i \in Nat /\ i >= 1 /\ i <= k
  OBVIOUS
<1>5. \A x \in A \X I : \E o \in A, i \in I : x = <<o, i>>
  OBVIOUS
<1>6. f \in [A \X I -> P]
  <2>1. ASSUME NEW x \in A \X I PROVE f[x] \in P
    <3>1. PICK o \in A, i \in I : x = <<o, i>>
      BY <1>5
    <3>2. n[o] + i \in n[o] + 1 .. n[o] + k
      BY <1>4
    <3>3. f[x] = <<o, n[o] + i>>
      BY <1>4, <3>1
    <3> HIDE DEF f
    <3> QED BY <1>1, <3>2, <3>3
  <2>2. f = [x \in A \X I |-> f[x]]
    OBVIOUS
  <2> HIDE DEF f
  <2> QED BY <2>1, <2>2
<1>7. f \in Injection(A \X I, P)
  <2>1. ASSUME NEW x \in A \X I, NEW y \in A \X I, f[x] = f[y] PROVE x = y
    <3>1. PICK o \in A, i \in I : x = <<o, i>>
      BY <1>5
    <3>2. PICK p \in A, j \in I : y = <<p, j>>
      BY <1>5
    <3>3. <<o, n[o] + i>> = <<p, n[p] + j>>
      BY <1>4, <2>1, <3>1, <3>2
    <3>4. o = p /\ n[o] + i = n[o] + j
      BY <3>3
    <3>5. i = j
      BY <1>4, <3>4
    <3> QED BY <3>1, <3>2, <3>4, <3>5
  <2> HIDE DEF f
  <2> QED BY <1>6, <2>1 DEF Injection, IsInjective
<1>8. f \in Surjection(A \X I, P)
  <2>1. ASSUME NEW y \in P PROVE \E x \in A \X I : f[x] = y
    <3>1. PICK o \in A : \E i \in n[o] + 1 .. n[o] + k : y = <<o, i>>
      BY <1>1
    <3>2. PICK i \in n[o] + 1 .. n[o] + k : y = <<o, i>>
      BY <3>1
    <3>3. n[o] \in Nat
      OBVIOUS
    <3>4. i - n[o] \in I /\ n[o] + (i - n[o]) = i
      BY <3>3
    <3>5. f[<<o, i - n[o]>>] = <<o, i>>
      BY <1>4, <3>4
    <3> HIDE DEF f
    <3> QED BY <3>2, <3>4, <3>5
  <2> HIDE DEF f
  <2> QED BY <1>6, <2>1 DEF Surjection
<1>9. ExistsBijection(A \X I, P)
  <2> HIDE DEF f
  <2> QED BY <1>7, <1>8 DEF ExistsBijection, Bijection
<1> HIDE DEF I, f
<1>10. IsFiniteSet(A \X I) /\ Cardinality(A \X I) = Cardinality(A) * Cardinality(I)
  BY <1>2, <1>3, FS_Product
<1>11. IsFiniteSet(P) /\ Cardinality(P) = Cardinality(A) * Cardinality(I)
  BY <1>9, <1>10, FS_Bijection
<1>12. GrabsOf(m) = GrabsOf(n) \union P
  <2>1. ASSUME NEW x PROVE x \in GrabsOf(m) <=> x \in GrabsOf(n) \union P
    <3>1. x \in GrabsOf(n) <=> \E p \in Objects : \E i \in 1 .. n[p] : x = <<p, i>>
      BY GrabsMembers
    <3>2. x \in GrabsOf(m) <=> \E p \in Objects : \E i \in 1 .. m[p] : x = <<p, i>>
      BY GrabsMembers
    <3>3. ASSUME NEW p \in Objects
          PROVE  \A i : i \in 1 .. m[p] <=> i \in 1 .. n[p] \/ (p \in A /\ i \in n[p] + 1 .. n[p] + k)
      <4>1. n[p] \in Nat /\ m[p] = n[p] + IF p \in A THEN k ELSE 0
        OBVIOUS
      <4> QED BY <4>1
    <3> QED BY <1>1, <3>1, <3>2, <3>3
  <2> QED BY <2>1
<1>13. GrabsOf(n) \intersect P = {}
  <2>1. ASSUME NEW x \in GrabsOf(n), x \in P PROVE FALSE
    <3>1. PICK o \in A : \E i \in n[o] + 1 .. n[o] + k : x = <<o, i>>
      BY <1>1, <2>1
    <3>2. PICK i \in n[o] + 1 .. n[o] + k : x = <<o, i>>
      BY <3>1
    <3>3. PICK p \in Objects : \E j \in 1 .. n[p] : x = <<p, j>>
      BY <2>1, GrabsMembers
    <3>4. PICK j \in 1 .. n[p] : x = <<p, j>>
      BY <3>3
    <3>5. p = o /\ i = j /\ n[o] \in Nat
      BY <3>2, <3>4
    <3> QED BY <3>2, <3>4, <3>5
  <2> QED BY <2>1
<1>14. /\ IsFiniteSet(GrabsOf(n)) /\ Cardinality(GrabsOf(n)) \in Nat
       /\ Cardinality(GrabsOf(n) \intersect P) = 0
  BY <1>13, GrabsFinite, FS_EmptySet
<1>15. Cardinality(GrabsOf(m)) = Cardinality(GrabsOf(n)) + Cardinality(P) - Cardinality(GrabsOf(n) \intersect P)
  BY <1>11, <1>12, <1>14, FS_Union
<1> QED BY <1>2, <1>3, <1>11, <1>14, <1>15

-----------------------------------------------------------------------------
(***************************************************************************)
(* One function at the top goes on.                                        *)
(***************************************************************************)

\* The walk that is on is the function at the top.
LEMMA WalkFields ==
  ASSUME NEW s \in CanvasType
  PROVE  /\ Walk(s).gone = {}
         /\ s.stack # <<>> /\ Top(s).at \in Walks =>
              /\ Walk(s) = Still(Top(s))
              /\ Walk(s).at = Top(s).at /\ Walk(s).rest = Top(s).rest /\ Walk(s).cur = Top(s).cur
              /\ Walk(s).ins = Top(s).ins /\ Walk(s).x = Top(s).x /\ Walk(s).below = Top(s).below
         /\ s.stack = <<>> \/ Top(s).at \notin Walks => Walk(s) = Still(Blank) /\ Walk(s).at = ""
  BY StackFacts, StillFields, BlankFields DEF Walk

\* The function at the top fits.
LEMMA TopFits ==
  ASSUME NEW s \in CanvasType, Nested(s), s.stack # <<>>
  PROVE  FitsIn(s, Top(s), Len(s.stack))
<1>1. Len(s.stack) \in 1 .. Len(s.stack) /\ Top(s) = s.stack[Len(s.stack)]
  BY StackFacts
<1> QED BY <1>1 DEF Nested, Fits

\* A canvas is sound and good if its parts are.
LEMMA SoundParts ==
  ASSUME NEW t \in CanvasType, ~t.bad, Nested(t), NEW w, NEW b, Walk(t) = w, Button(t) = b,
         Body(t, w, b), Paired(t, w, b), Missed(t, b)
  PROVE  Sound(t) /\ (Clean(t, w, b) => Good(t))
  BY DEF Sound, Good

\* A count is zero or more than that ...
LEMMA ZeroOrMore ==
  \A n \in Nat : n = 0 <=> ~(n > 0)
  OBVIOUS

\* ... which is one or more than that.
LEMMA OneOrMore ==
  \A n \in Nat : n > 0 => n = 1 \/ n > 1
  OBVIOUS

\* A walk goes on: its function is g then.
LEMMA WalkMoves ==
  ASSUME NEW s, Sound(s), s.stack # <<>>, Top(s).at \in Walks,
         NEW g \in FrameType, g.at \in Walks,
         NEW t \in CanvasType, Changed(s, t, g), Milder(s, t), t.pressed = s.pressed,
         FitsIn(t, g, Len(s.stack))
  PROVE  /\ Nested(t) /\ Walk(t) = Still(g) /\ Button(t) = Button(s) /\ Missed(t, Button(t))
         /\ t.stack # <<>> /\ Top(t) = g /\ Len(t.stack) = Len(s.stack)
<1>1. s \in CanvasType /\ Nested(s) /\ Missed(s, Button(s))
  BY DEF Sound
<1>2. Len(t.stack) = Len(s.stack) /\ (Len(s.stack) = 1 \/ Len(s.stack) > 1)
  BY <1>1, StackFacts, OneOrMore DEF Changed
<1>3. \A i \in 1 .. Len(s.stack) - 1 : Above(s.stack[i], g.at)
  <2>1. \A i \in 1 .. Len(s.stack) - 1 : Above(s.stack[i], Top(s).at)
    BY <1>1, OpenFacts
  <2>2. Top(s).at \notin {"inform", "del"}
    BY DEF Walks
  <2> QED BY <2>1 DEF Above
<1>4. Nested(t)
  BY <1>1, <1>2, <1>3, NestedChanged
<1>5. /\ Walk(t) = Still(g) /\ Top(t) = g /\ t.stack # <<>>
      /\ Len(s.stack) > 1 => Button(t) = Button(s) /\ Gone(t) = Gone(s)
      /\ Len(s.stack) = 1 => Button(t) = IF g.at \in Buttons THEN Still(g) ELSE Still(Blank)
  BY <1>1, ChangedFacts
<1>6. g.at \notin Buttons /\ Top(s).at \notin Buttons
  BY DEF Buttons, Walks
<1>7. Len(s.stack) = 1 => Button(s) = Still(Blank) /\ Button(t) = Still(Blank)
  BY <1>1, <1>5, <1>6, StackFacts DEF Button
<1>8. Button(t) = Button(s)
  BY <1>2, <1>5, <1>7
<1>9. Missed(t, Button(t))
  <2>1. CASE Len(s.stack) = 1
    <3>1. Button(t).at = ""
      BY <1>7, <2>1, StillFields, BlankFields
    <3> QED BY <3>1 DEF Missed
  <2>2. CASE Len(s.stack) > 1
    <3>1. Gone(t) = Gone(s) /\ Gone(t) \subseteq Objects
      BY <1>1, <1>5, <2>2, StackFacts, FrameFields DEF Gone
    <3>2. Repeating(t) => Repeating(s)
      BY DEF Repeating, Milder, SameKind, Mode
    <3> QED BY <1>1, <1>8, <3>1, <3>2 DEF Missed, Milder
  <2> QED BY <1>2, <2>1, <2>2
<1> QED BY <1>2, <1>4, <1>5, <1>8, <1>9

\* A function goes on behind the head of its list.
LEMMA NextFits ==
  ASSUME NEW s \in CanvasType, Nested(s), s.stack # <<>>, Top(s).rest # <<>>
  PROVE  LET f == Top(s)
         IN  /\ Head(f.rest) \in Objects /\ s.obj[Head(f.rest)].life # "freed"
             /\ Head(f.rest) \in Range(f.rest)
             /\ Tail(f.rest) \in Seq(Objects) /\ Range(f.rest) = Range(Tail(f.rest)) \union {Head(f.rest)}
             /\ f.at # "dragout" => /\ IsInjective(f.rest) /\ IsInjective(Tail(f.rest))
                                    /\ Head(f.rest) \notin Range(Tail(f.rest))
             /\ \A o \in Range(f.rest) : o \in Objects /\ s.obj[o].life # "freed"
<1> DEFINE f == Top(s)
<1>1. f \in FrameType /\ FitsIn(s, f, Len(s.stack))
  BY StackFacts, TopFits
<1>2. f.rest \in Seq(Objects)
  BY <1>1, FrameFields
<1>3. /\ Head(f.rest) \in Objects /\ Tail(f.rest) \in Seq(Objects)
      /\ Range(f.rest) = Range(Tail(f.rest)) \union {Head(f.rest)}
  BY <1>2, HeadFacts
<1>4. f.at # "dragout" => /\ IsInjective(f.rest) /\ IsInjective(Tail(f.rest))
                          /\ Head(f.rest) \notin Range(Tail(f.rest))
  <2>1. ASSUME IsInjective(f.rest)
        PROVE  IsInjective(Tail(f.rest)) /\ Range(Tail(f.rest)) = Range(f.rest) \ {Head(f.rest)}
    BY <1>2, <2>1, TailInjective
  <2> QED BY <1>1, <2>1 DEF FitsIn
<1>5. \A o \in Range(f.rest) : o \in Objects
  BY <1>2, RangeFacts
<1> QED BY <1>1, <1>3, <1>4, <1>5 DEF FitsIn

-----------------------------------------------------------------------------
(***************************************************************************)
(* evas_event_feed_mouse_move while the pointer is grabbed                 *)
(***************************************************************************)

\* Something was noted at the end.
LEMMA QuieterSound ==
  ASSUME NEW s, Sound(s), NEW t, Quieter(s, t)
  PROVE  Sound(t) /\ (Good(s) => Good(t)) /\ SameData(s, t)
<1>1. s \in CanvasType /\ ~s.bad /\ Nested(s) /\ t \in CanvasType /\ SameData(s, t)
  BY DEF Sound, Quieter
<1> DEFINE w == Walk(s)
           b == Button(s)
<1>2. Body(s, w, b) /\ Paired(s, w, b) /\ Missed(s, b)
  BY DEF Sound
<1>3. w.at = "outed" => w.cur \in Objects
  <2>1. CASE s.stack # <<>> /\ Top(s).at = "outed"
    <3>1. Top(s).at \in Walks
      BY <2>1 DEF Walks
    <3> QED BY <1>1, <2>1, <3>1, TopFits, WalkFields DEF FitsIn
  <2>2. CASE ~(s.stack # <<>> /\ Top(s).at = "outed")
    BY <1>1, <2>2, WalkFields
  <2> QED BY <2>1, <2>2
<1>4. Walk(t) = w /\ Button(t) = b
  BY <1>1, QuieterFacts
<1> HIDE DEF w, b
<1>5. Nested(t) /\ Body(t, w, b) /\ Missed(t, b) /\ (Clean(s, w, b) => Clean(t, w, b))
  BY <1>1, <1>2, QuieterFacts
<1>6. Paired(t, w, b)
  BY <1>1, <1>2, <1>3, QuieterPaired
<1>7. ~t.bad
  BY <1>1 DEF SameData
<1>8. Good(s) => Clean(s, w, b)
  BY DEF Good, w, b
<1> QED BY <1>1, <1>4, <1>5, <1>6, <1>7, <1>8, SoundParts

\* The objects that hold the pointer have not changed, if none was told so.
LEMMA SameHolders ==
  ASSUME NEW s, NEW t, \A o \in Objects : t.obj[o].in = s.obj[o].in
  PROVE  HolderKeeps(s, t)
  BY DEF HolderKeeps

\* Zero is a count, and not more than zero.
LEMMA IsZero ==
  \A n : n = 0 => n \in Nat /\ ~(n > 0)
  OBVIOUS

\* What is so of the objects that have grabbed the pointer while it is dragged.
LEMMA DragBody ==
  ASSUME NEW s, NEW w, NEW b, NEW v, Body(s, w, b), Paired(s, w, b),
         w.at \in {"drag", "dragged", "dragout"}, v.at \in {"drag", "dragged", "dragout", ""},
         v.at \in {"drag", "dragged"} =>
                             /\ Range(v.ins) \subseteq Range(s.in) /\ v.x = s.x
                             /\ Range(v.rest) \subseteq Range(s.in)
                             /\ v.at = "dragged" => Listed(s, v.cur)
  PROVE  Body(s, v, b) /\ Paired(s, v, b) /\ Clean(s, v, b)
<1>1. s.grabbed > 0
  BY DEF Body, Held
<1>2. Lists(s, v)
  BY DEF Body, Lists, Arriving
<1>3. Hover(s, v)
  BY DEF Body, Hover, HasPointer, Arriving
<1>4. Held(s, v)
  BY DEF Body, Held, Holding, Leaving
<1>5. Outside(s, v)
  BY DEF Body, Outside, Leaving
<1>6. Norepeat(s, v)
  BY DEF Body, Norepeat, Leaving
<1>7. Even(s, v, b)
  BY DEF Body, Even, Leaving
<1>8. Clean(s, v, b)
  <2>1. ~(s.grabbed = 0)
    BY <1>1, IsZero
  <2> QED BY <2>1 DEF Clean
<1>9. Paired(s, v, b)
  BY DEF Paired
<1> QED BY <1>2, <1>3, <1>4, <1>5, <1>6, <1>7, <1>8, <1>9 DEF Body

\* A walk that only changes its own list.
LEMMA WalkBecomes ==
  ASSUME NEW s, Sound(s), s.stack # <<>>, Top(s).at \in Walks,
         NEW g \in FrameType, g.at \in Walks, FitsIn(s, g, Len(s.stack)),
         Body(s, Still(g), Button(s)), Paired(s, Still(g), Button(s))
  PROVE  LET t == Become(s, g)
         IN  /\ Sound(t) /\ (Clean(s, Still(g), Button(s)) => Good(t)) /\ SameRest(s, t)
             /\ t.stack # <<>> /\ Top(t) = g /\ Len(t.stack) = Len(s.stack) /\ Button(t) = Button(s)
<1> DEFINE t == Become(s, g)
           v == Still(g)
<1>1. s \in CanvasType /\ ~s.bad
  BY DEF Sound
<1>2. t \in CanvasType /\ SameRest(s, t) /\ t.stack = [s.stack EXCEPT ![Len(s.stack)] = g]
  BY <1>1, BecomeEffect
<1> HIDE DEF t
<1>3. Changed(s, t, g)
  BY <1>1, <1>2, StackEffect
<1>4. Milder(s, t) /\ t.pressed = s.pressed
  BY <1>2 DEF Milder, SameKind, SameRest, SameData, IsAlive
<1>5. FitsIn(t, g, Len(s.stack))
  BY <1>1, <1>2, <1>4, FitsMilder
<1>6. /\ Nested(t) /\ Walk(t) = v /\ Button(t) = Button(s) /\ Missed(t, Button(t))
      /\ t.stack # <<>> /\ Top(t) = g /\ Len(t.stack) = Len(s.stack)
  BY <1>2, <1>3, <1>4, <1>5, WalkMoves
<1> DEFINE b == Button(s)
<1> HIDE DEF v, b
<1>7. Body(s, v, b) /\ Paired(s, v, b)
  BY DEF v, b
<1>8. Body(t, v, b) /\ Paired(t, v, b) /\ (Clean(s, v, b) => Clean(t, v, b))
  BY <1>2, <1>7, SameRestFacts
<1>9. ~t.bad
  BY <1>1, <1>2 DEF SameRest, SameData
<1>10. Sound(t) /\ (Clean(t, v, b) => Good(t))
  BY <1>2, <1>6, <1>8, <1>9, SoundParts DEF b
<1> QED BY <1>2, <1>6, <1>8, <1>10 DEF t, v, b

\* What is known in an action of a function that goes on.
LEMMA AtFacts ==
  ASSUME NEW place, Good(c), At(place)
  PROVE  /\ c \in CanvasType /\ Sound(c) /\ Nested(c) /\ ~c.bad /\ c.stack # <<>>
         /\ Top(c) \in FrameType /\ IsFrame(Top(c)) /\ Top(c).at = place
         /\ FitsIn(c, Top(c), Len(c.stack))
         /\ Body(c, Walk(c), Button(c)) /\ Paired(c, Walk(c), Button(c)) /\ Missed(c, Button(c))
         /\ Clean(c, Walk(c), Button(c))
         /\ place \in Walks => c.frozen = 0
<1>1. c \in CanvasType /\ c.stack # <<>> /\ Nested(c)
  BY DEF Good, Sound, At
<1>2. Top(c) \in FrameType /\ FitsIn(c, Top(c), Len(c.stack)) /\ c.frozen \in {0, 1}
  BY <1>1, StackFacts, TopFits, CanvasFields
<1>3. place \in Walks => c.frozen = 0
  BY <1>2 DEF At, FitsIn, Walks, Quiet
<1> QED BY <1>1, <1>2, <1>3, FrameIsRecord DEF Good, Sound, At

\* The places a function may be at.
LEMMA Places ==
  ASSUME NEW f, IsFrame(f), f.at \in Walks \union Waits \union Bottoms \union Quiet,
         f.rest \in Seq(Objects), f.ins \in Seq(Objects), f.cur \in Objects \union {NoObject},
         f.x \in Points, f.moved \in BOOLEAN, f.below \in BOOLEAN, f.gone \in SUBSET Objects
  PROVE  /\ f \in FrameType
         /\ Still(f).at = f.at /\ Still(f).rest = f.rest /\ Still(f).cur = f.cur
         /\ Still(f).ins = f.ins /\ Still(f).x = f.x /\ Still(f).below = f.below
         /\ Still(f).moved = f.moved
<1>1. f.at \in {"drag", "dragged", "dragout", "leave", "enter", "in", "out", "outed", "down", "up",
                "upped", "postout", "postin", "callback", "returning", "inform", "del", "deleted",
                "freeing"}
  BY DEF Walks, Waits, Bottoms, Quiet, Buttons
<1>2. f \in FrameType
  BY <1>1, FrameRecord
<1> QED BY <1>2, StillFields

\* A freed object is read by no function.
LEMMA ReadingFacts ==
  ASSUME NEW o \in Objects, c.obj[o].life # "freed", NEW s
  PROVE  Reading(o, s) = s
  BY DEF Reading

\* A move on its way to those who hold the pointer: the next hears of it, or is
\* noted as leaving.
LEMMA DragGood ==
  ASSUME Assumed, Good(c), Drag
  PROVE  Good(c') /\ HolderKeeps(c, c')
<1> DEFINE f == Top(c)
           o == Head(f.rest)
           g == [f EXCEPT !.at = "dragged", !.cur = o, !.rest = Tail(@)]
           s == Become(c, g)
           h == [g EXCEPT !.ins = Append(@, o)]
           w == Walk(c)
           b == Button(c)
           n == Len(c.stack)
<1>1. At("drag") /\ f.rest # <<>>
  BY DEF Drag, More, At
<1>2. /\ c \in CanvasType /\ Sound(c) /\ Nested(c) /\ c.stack # <<>> /\ c.frozen = 0
      /\ f \in FrameType /\ IsFrame(f) /\ f.at = "drag" /\ FitsIn(c, f, n)
      /\ Body(c, w, b) /\ Paired(c, w, b)
  BY <1>1, AtFacts DEF Walks
<1>3. /\ w.at = "drag" /\ w.rest = f.rest /\ w.ins = f.ins /\ w.x = f.x
      /\ Range(f.rest) \subseteq Range(c.in) /\ Range(f.ins) \subseteq Range(c.in) /\ f.x = c.x
  BY <1>2, WalkFields DEF Walks, Body, Lists
<1>4. /\ o \in Objects /\ c.obj[o].life # "freed" /\ o \in Range(f.rest)
      /\ Tail(f.rest) \in Seq(Objects) /\ Range(Tail(f.rest)) \subseteq Range(f.rest)
      /\ IsInjective(Tail(f.rest))
      /\ \A p \in Range(f.rest) : p \in Objects /\ c.obj[p].life # "freed"
  BY <1>1, <1>2, NextFits
<1>5. /\ f.ins \in Seq(Objects) /\ f.x \in Points /\ f.moved \in BOOLEAN /\ f.below \in BOOLEAN
      /\ f.gone \in SUBSET Objects
  BY <1>2, FrameFields
<1>6. /\ Append(f.ins, o) \in Seq(Objects)
      /\ Range(Append(f.ins, o)) \subseteq Range(c.in)
  BY <1>3, <1>4, <1>5, AppendFacts
<1> HIDE DEF o, n
<1>7. /\ IsFrame(g) /\ g.at = "dragged" /\ g.cur = o /\ g.rest = Tail(f.rest) /\ g.ins = f.ins
      /\ g.x = f.x /\ g.moved = f.moved /\ g.below = f.below /\ g.gone = f.gone
  BY <1>2 DEF IsFrame
<1>8. /\ IsFrame(h) /\ h.at = "dragged" /\ h.cur = o /\ h.rest = Tail(f.rest) /\ h.ins = Append(f.ins, o)
      /\ h.x = f.x /\ h.moved = f.moved /\ h.below = f.below /\ h.gone = f.gone
  <2> HIDE DEF g
  <2> QED BY <1>7 DEF IsFrame
<1> HIDE DEF g, h
<1>9. /\ g \in FrameType /\ Still(g).at = "dragged" /\ Still(g).cur = o /\ Still(g).rest = Tail(f.rest)
      /\ Still(g).ins = f.ins /\ Still(g).x = f.x
  BY <1>4, <1>5, <1>7, Places DEF Walks
<1>10. /\ h \in FrameType /\ Still(h).at = "dragged" /\ Still(h).cur = o /\ Still(h).rest = Tail(f.rest)
       /\ Still(h).ins = Append(f.ins, o) /\ Still(h).x = f.x
  BY <1>4, <1>5, <1>6, <1>8, Places DEF Walks
<1>11. FitsIn(c, g, n) /\ FitsIn(c, h, n)
  BY <1>2, <1>4, <1>7, <1>8 DEF FitsIn, Bottoms, Buttons, Quiet
<1>12. /\ Body(c, Still(g), b) /\ Paired(c, Still(g), b) /\ Clean(c, Still(g), b)
       /\ Body(c, Still(h), b) /\ Paired(c, Still(h), b) /\ Clean(c, Still(h), b)
  BY <1>2, <1>3, <1>4, <1>6, <1>9, <1>10, DragBody DEF Listed
<1>13. /\ Good(s) /\ SameRest(c, s) /\ s.stack # <<>> /\ Top(s) = g /\ Len(s.stack) = n
       /\ Button(s) = b
  BY <1>2, <1>7, <1>9, <1>11, <1>12, WalkBecomes DEF Walks, n
<1> HIDE DEF s
<1>14. CASE c' = s
  BY <1>13, <1>14, SameHolders DEF SameRest, SameData
<1>15. CASE c' = Become(s, h)
  <2> DEFINE t == Become(s, h)
  <2>1. s \in CanvasType /\ Sound(s)
    BY <1>13 DEF Good, Sound
  <2>2. Body(s, Still(h), b) /\ Paired(s, Still(h), b) /\ Clean(s, Still(h), b)
    BY <1>12, <1>13, SameRestFacts
  <2>3. FitsIn(s, h, n)
    <3>1. Milder(c, s)
      BY <1>13 DEF Milder, SameKind, SameRest, SameData, IsAlive
    <3> QED BY <1>2, <1>10, <1>11, <2>1, <3>1, FitsMilder
  <2>4. Good(t) /\ SameRest(s, t)
    BY <1>7, <1>8, <1>10, <1>13, <2>1, <2>2, <2>3, WalkBecomes DEF Walks
  <2> QED BY <1>13, <1>15, <2>4, SameHolders DEF SameRest, SameData
<1>16. CASE c' = Tell(s, o, "move")
  <2>1. s \in CanvasType
    BY <1>13 DEF Good, Sound
  <2>2. Quieter(s, Tell(s, o, "move"))
    BY <1>4, <1>13, <2>1, TellQuiet
  <2>3. Good(c') /\ SameData(s, c')
    BY <1>13, <1>16, <2>2, QuieterSound DEF Good
  <2> QED BY <1>13, <2>3, SameHolders DEF SameRest, SameData
<1>17. c' = s \/ c' = Become(s, h) \/ c' = Tell(s, o, "move")
  <2>1. c' = Reading(o, s) \/ c' = Reading(o, Become(s, h)) \/ c' = Reading(o, Tell(s, o, "move"))
    <3>1. Become(s, [Top(s) EXCEPT !.ins = Append(@, o)]) = Become(s, h)
      BY <1>13 DEF h
    <3> QED BY <3>1 DEF Drag, Head_, o, s, g
  <2> QED BY <1>4, <2>1, ReadingFacts
<1> QED BY <1>14, <1>15, <1>16, <1>17

-----------------------------------------------------------------------------
(***************************************************************************)
(* What the assignments of a step change.                                  *)
(***************************************************************************)

\* The objects are the same but for whether the pointer is in them.
SameObjects(s, t) ==
  \A o \in Objects :
    /\ t.obj[o].visible = s.obj[o].visible /\ t.obj[o].pass = s.obj[o].pass
    /\ t.obj[o].grabbed = s.obj[o].grabbed /\ t.obj[o].life = s.obj[o].life
    /\ t.obj[o].covers = s.obj[o].covers /\ t.obj[o].repeat = s.obj[o].repeat
    /\ t.obj[o].mode = s.obj[o].mode

\* A canvas is the same but for its objects, the list of its pointer and the
\* functions that run.
SameElse(s, t) ==
  /\ t.order = s.order /\ t.x = s.x /\ t.inside = s.inside /\ t.grabbed = s.grabbed
  /\ t.nogrep = s.nogrep /\ t.downs = s.downs /\ t.frozen = s.frozen /\ t.bad = s.bad
  /\ t.pressed = s.pressed

\* What an event reaches does not depend on whether the pointer is in an object.
LEMMA HitsAlike ==
  ASSUME NEW s, NEW t, SameObjects(s, t)
  PROVE  /\ \A x : Hit(t, x) = Hit(s, x)
         /\ \A l, x : Hits(t, l, x) = Hits(s, l, x)
         /\ Counts(t) = Counts(s)
<1>1. \A x : Hit(t, x) = Hit(s, x)
  BY DEF SameObjects, Hit, Covers
<1>2. {o \in Objects : Repeats(t, o)} = {o \in Objects : Repeats(s, o)}
  BY DEF SameObjects, Repeats
<1>3. Counts(t) = Counts(s)
  BY DEF SameObjects, Counts
<1> QED BY <1>1, <1>2, <1>3 DEF Hits

\* An object is told, or not told, that the pointer is in it.
PutIn(s, o, v) == [s EXCEPT !.obj[o].in = v]

\* An object is noted as one the pointer is in, or is not: nothing else changes.
LEMMA InEffect ==
  ASSUME NEW s \in CanvasType, NEW o \in Objects, NEW v \in BOOLEAN
  PROVE  LET t == PutIn(s, o, v)
         IN  /\ t \in CanvasType /\ SameObjects(s, t) /\ SameElse(s, t)
             /\ t.in = s.in /\ t.stack = s.stack
             /\ t.obj[o].in = v /\ \A p \in Objects : p # o => t.obj[p].in = s.obj[p].in
             /\ s.obj[o].in = v => t = s
<1> DEFINE q == [s.obj[o] EXCEPT !.in = v]
           t == PutIn(s, o, v)
<1>1. IsRecord(s) /\ s.obj \in [Objects -> ObjectType] /\ s.obj[o] \in ObjectType
  BY CanvasIsRecord, CanvasFields, ObjectFields
<1>2. /\ q \in ObjectType /\ q.in = v
      /\ q.visible = s.obj[o].visible /\ q.pass = s.obj[o].pass /\ q.grabbed = s.obj[o].grabbed
      /\ q.life = s.obj[o].life /\ q.covers = s.obj[o].covers /\ q.repeat = s.obj[o].repeat
      /\ q.mode = s.obj[o].mode /\ (s.obj[o].in = v => q = s.obj[o])
  BY <1>1 DEF ObjectType
<1>3. /\ IsRecord(t) /\ t.obj = [s.obj EXCEPT ![o] = q] /\ SameElse(s, t)
      /\ t.in = s.in /\ t.stack = s.stack
  BY <1>1 DEF IsRecord, SameElse, PutIn
<1> HIDE DEF q
<1>4. s.obj[o].in = v => t = s
  <2>1. [s.obj EXCEPT ![o] = s.obj[o]] = s.obj
    BY <1>1
  <2>2. IsRecord(t)
    BY <1>3
  <2> HIDE DEF t
  <2> QED BY <1>1, <1>2, <1>3, <2>1, <2>2 DEF IsRecord, SameElse
<1> HIDE DEF t
<1>5. t.obj \in [Objects -> ObjectType] /\ t.obj[o] = q /\ \A p \in Objects : p # o => t.obj[p] = s.obj[p]
  BY <1>1, <1>2, <1>3
<1>6. t \in CanvasType
  BY <1>3, <1>5, CanvasFields, CanvasRecord DEF SameElse
<1>7. SameObjects(s, t)
  BY <1>2, <1>5 DEF SameObjects
<1> QED BY <1>2, <1>3, <1>4, <1>5, <1>6, <1>7 DEF t

\* The pointer has another list.
LEMMA ListEffect ==
  ASSUME NEW s \in CanvasType, NEW l \in Seq(Objects)
  PROVE  LET t == [s EXCEPT !.in = l]
         IN  /\ t \in CanvasType /\ SameObjects(s, t) /\ SameElse(s, t)
             /\ t.in = l /\ t.stack = s.stack /\ t.obj = s.obj
<1> DEFINE t == [s EXCEPT !.in = l]
<1>1. IsRecord(s)
  BY CanvasIsRecord
<1>2. IsRecord(t) /\ SameElse(s, t) /\ t.in = l /\ t.stack = s.stack /\ t.obj = s.obj
  BY <1>1 DEF IsRecord, SameElse
<1> HIDE DEF t
<1>3. t \in CanvasType
  BY <1>2, CanvasFields, CanvasRecord DEF SameElse
<1>4. SameObjects(s, t)
  BY <1>2 DEF SameObjects
<1> QED BY <1>2, <1>3, <1>4 DEF t

\* What is the same is no wilder.
LEMMA SameIsMilder ==
  ASSUME NEW s, NEW t, SameObjects(s, t), t.frozen = s.frozen
  PROVE  Milder(s, t)
  BY DEF SameObjects, Milder, SameKind, IsAlive

\* An object goes out of the list of those that the pointer is in, and is told
\* so, ...
LEMMA GoesOutEffect ==
  ASSUME Assumed, NEW s \in CanvasType, NEW o \in Objects, s.stack # <<>>,
         1 < Len(s.stack) => s.obj[o].grabbed = 0
  PROVE  LET t == PutIn(s, o, FALSE)
         IN  /\ t \in CanvasType /\ SameObjects(s, t) /\ SameElse(s, t)
             /\ t.in = s.in /\ t.stack = s.stack
             /\ t.obj[o].in = FALSE /\ \A p \in Objects : p # o => t.obj[p].in = s.obj[p].in
             /\ Quieter(t, GoesOut(s, o))
             /\ s.obj[o].in /\ Top(s).at = "outed" /\ s.frozen = 0 /\ IsAlive(s, o) =>
                  GoesOut(s, o).pressed[o] = 0
<1> DEFINE t == PutIn(s, o, FALSE)
<1>1. /\ t \in CanvasType /\ SameObjects(s, t) /\ SameElse(s, t) /\ t.in = s.in /\ t.stack = s.stack
      /\ t.obj[o].in = FALSE /\ \A p \in Objects : p # o => t.obj[p].in = s.obj[p].in
      /\ s.obj[o].in = FALSE => t = s
  <2> DEFINE v == FALSE
             u == PutIn(s, o, v)
  <2>1. v \in BOOLEAN
    OBVIOUS
  <2> HIDE DEF v
  <2>2. /\ u \in CanvasType /\ SameObjects(s, u) /\ SameElse(s, u) /\ u.in = s.in /\ u.stack = s.stack
        /\ u.obj[o].in = v /\ \A p \in Objects : p # o => u.obj[p].in = s.obj[p].in
        /\ s.obj[o].in = v => u = s
    BY <2>1, InEffect
  <2>3. t = u
    BY DEF v
  <2> HIDE DEF t, u
  <2> QED BY <2>2, <2>3 DEF v
<1>2. GoesOut(s, o) = IF s.obj[o].in THEN TellMouse(t, o, "out") ELSE s
  BY DEF GoesOut, PutIn
<1>3. s.obj[o].in \in BOOLEAN
  BY ObjectFields
<1> HIDE DEF t
<1>4. t.obj[o].grabbed = s.obj[o].grabbed /\ t.stack = s.stack /\ t.frozen = s.frozen
      /\ t.obj[o].life = s.obj[o].life /\ Top(t) = Top(s)
  BY <1>1 DEF SameObjects, SameElse, Top
<1>5. CASE s.obj[o].in
  <2>1. GoesOut(s, o) = TellMouse(t, o, "out")
    BY <1>2, <1>5
  <2>2. /\ Quieter(t, GoesOut(s, o))
        /\ Top(t).at = "outed" /\ t.frozen = 0 /\ IsAlive(t, o) => GoesOut(s, o).pressed[o] = 0
    BY <1>1, <1>4, <2>1, TellQuiet
  <2> QED BY <1>1, <1>4, <2>2 DEF t, IsAlive
<1>6. CASE s.obj[o].in = FALSE
  <2>1. GoesOut(s, o) = t
    BY <1>1, <1>2, <1>6
  <2>2. Quieter(t, GoesOut(s, o))
    BY <1>1, <2>1, QuieterSelf
  <2> QED BY <1>1, <1>6, <2>2 DEF t
<1> QED BY <1>3, <1>5, <1>6

\* ... or comes in.
LEMMA ComesInEffect ==
  ASSUME Assumed, NEW s \in CanvasType, NEW o \in Objects, s.stack # <<>>,
         o \in Range(s.in) => s.obj[o].in
  PROVE  LET t == PutIn(s, o, TRUE)
         IN  /\ t \in CanvasType /\ SameObjects(s, t) /\ SameElse(s, t)
             /\ t.in = s.in /\ t.stack = s.stack
             /\ t.obj[o].in /\ \A p \in Objects : p # o => t.obj[p].in = s.obj[p].in
             /\ Quieter(t, ComesIn(s, o))
<1> DEFINE t == PutIn(s, o, TRUE)
<1>1. /\ t \in CanvasType /\ SameObjects(s, t) /\ SameElse(s, t) /\ t.in = s.in /\ t.stack = s.stack
      /\ t.obj[o].in = TRUE /\ \A p \in Objects : p # o => t.obj[p].in = s.obj[p].in
      /\ s.obj[o].in = TRUE => t = s
  BY InEffect
<1>2. ComesIn(s, o) = IF ~Contains(s.in, o) /\ ~s.obj[o].in THEN TellMouse(t, o, "in") ELSE s
  BY DEF ComesIn, PutIn
<1>3. s.obj[o].in \in BOOLEAN /\ s.in \in Seq(Objects)
  BY ObjectFields, CanvasFields
<1>4. Contains(s.in, o) => s.obj[o].in
  BY <1>3, RangeFacts DEF Contains
<1> HIDE DEF t
<1>5. CASE s.obj[o].in = FALSE
  <2>1. ComesIn(s, o) = TellMouse(t, o, "in")
    BY <1>2, <1>4, <1>5
  <2>2. Quieter(t, ComesIn(s, o))
    BY <1>1, <2>1, TellQuiet
  <2> QED BY <1>1, <2>2 DEF t
<1>6. CASE s.obj[o].in = TRUE
  <2>1. ComesIn(s, o) = t
    BY <1>1, <1>2, <1>6
  <2>2. Quieter(t, ComesIn(s, o))
    BY <1>1, <2>1, QuieterSelf
  <2> QED BY <1>1, <2>2 DEF t
<1> QED BY <1>3, <1>5, <1>6

-----------------------------------------------------------------------------
(***************************************************************************)
(* Walks start, go on and end.                                             *)
(***************************************************************************)

\* A walk goes on, and has changed the canvas.
LEMMA WalkStep ==
  ASSUME NEW s, Sound(s), s.stack # <<>>, Top(s).at \in Walks,
         NEW g \in FrameType, g.at \in Walks, FitsIn(s, g, Len(s.stack)),
         NEW t \in CanvasType, t.stack = [s.stack EXCEPT ![Len(s.stack)] = g],
         Milder(s, t), t.pressed = s.pressed, t.bad = s.bad,
         NEW b, b = Button(s), Body(t, Still(g), b), Paired(t, Still(g), b)
  PROVE  /\ Sound(t) /\ (Clean(t, Still(g), b) => Good(t))
         /\ t.stack # <<>> /\ Top(t) = g /\ Len(t.stack) = Len(s.stack)
         /\ Walk(t) = Still(g) /\ Button(t) = b
<1>1. s \in CanvasType /\ ~s.bad
  BY DEF Sound
<1>2. Changed(s, t, g)
  BY <1>1, StackEffect
<1>3. FitsIn(t, g, Len(s.stack))
  BY <1>1, FitsMilder
<1> DEFINE v == Still(g)
<1>4. /\ Nested(t) /\ Walk(t) = v /\ Button(t) = b /\ Missed(t, b)
      /\ t.stack # <<>> /\ Top(t) = g /\ Len(t.stack) = Len(s.stack)
  BY <1>2, <1>3, WalkMoves
<1>5. Body(t, v, b) /\ Paired(t, v, b)
  OBVIOUS
<1> HIDE DEF v
<1>6. Sound(t) /\ (Clean(t, v, b) => Good(t))
  BY <1>1, <1>4, <1>5, SoundParts
<1> QED BY <1>4, <1>6 DEF v

\* A walk ends.
LEMMA WalkEnds ==
  ASSUME NEW s, Sound(s), s.stack # <<>>, Top(s).at \in Walks,
         NEW t \in CanvasType, t.stack = Front(s.stack),
         Milder(s, t), t.pressed = s.pressed, t.bad = s.bad,
         NEW b, b = Button(s), Body(t, Still(Blank), b), Paired(t, Still(Blank), b)
  PROVE  /\ Sound(t) /\ (Clean(t, Still(Blank), b) => Good(t))
         /\ t.stack = <<>> \/ Top(t).at \in Waits
         /\ Walk(t) = Still(Blank) /\ Button(t) = b
<1>1. s \in CanvasType /\ ~s.bad /\ Nested(s) /\ Missed(s, b)
  BY DEF Sound
<1>2. Returned(s, t)
  <2>1. Top(s) \in FrameType
    BY <1>1, StackFacts
  <2> QED BY <1>1, <2>1, StackEffect
<1>3. Nested(t)
  BY <1>1, <1>2, NestedReturned
<1>4. /\ t.stack = <<>> \/ Top(t).at \in Waits
      /\ Walk(t) = Still(Blank)
      /\ Len(s.stack) > 1 => Button(t) = b /\ Gone(t) = Gone(s)
      /\ Len(s.stack) = 1 => Button(t) = Still(Blank) /\ Gone(t) = {}
  BY <1>1, <1>2, ReturnedFacts
<1>5. Len(s.stack) = 1 => b = Still(Blank)
  BY <1>1, StackFacts DEF Button, Buttons, Walks
<1>6. Len(s.stack) = 1 \/ Len(s.stack) > 1
  BY <1>1, StackFacts, OneOrMore
<1>7. Button(t) = b
  BY <1>4, <1>5, <1>6
<1>8. Missed(t, b)
  <2>1. CASE Len(s.stack) = 1
    <3>1. b.at = ""
      BY <1>5, <2>1, StillFields, BlankFields
    <3> QED BY <3>1 DEF Missed
  <2>2. CASE Len(s.stack) > 1
    <3>1. Gone(t) = Gone(s) /\ Gone(t) \subseteq Objects
      BY <1>1, <1>4, <2>2, StackFacts, FrameFields DEF Gone
    <3>2. Repeating(t) => Repeating(s)
      BY DEF Repeating, Milder, SameKind, Mode
    <3> QED BY <1>1, <3>1, <3>2 DEF Missed, Milder
  <2> QED BY <1>6, <2>1, <2>2
<1> DEFINE v == Still(Blank)
<1>9. Body(t, v, b) /\ Paired(t, v, b) /\ Walk(t) = v
  BY <1>4
<1> HIDE DEF v
<1>10. Sound(t) /\ (Clean(t, v, b) => Good(t))
  BY <1>1, <1>3, <1>7, <1>8, <1>9, SoundParts
<1> QED BY <1>4, <1>7, <1>9, <1>10 DEF v

\* A walk starts, above a function that waits for it.
LEMMA WalkStarts ==
  ASSUME NEW s \in CanvasType, Nested(s), ~s.bad, s.stack = <<>> \/ Top(s).at \in Waits,
         NEW b, b = Button(s), Missed(s, b),
         NEW g \in FrameType, g.at \in Walks, g.gone = {},
         NEW t \in CanvasType, t.stack = Append(s.stack, g),
         Milder(s, t), t.pressed = s.pressed, t.bad = s.bad, FitsIn(t, g, Len(t.stack)),
         Body(t, Still(g), b), Paired(t, Still(g), b)
  PROVE  Sound(t) /\ (Clean(t, Still(g), b) => Good(t))
<1>1. Called(s, t, g)
  BY StackEffect
<1>2. \A i \in 1 .. Len(s.stack) : Above(s.stack[i], g.at)
  BY DEF Above
<1>3. Nested(t)
  BY <1>1, <1>2, NestedCalled
<1>4. /\ Walk(t) = Still(g)
      /\ s.stack # <<>> => Button(t) = b /\ Gone(t) = Gone(s)
      /\ s.stack = <<>> => Button(t) = Still(Blank) /\ Gone(t) = {} /\ b = Still(Blank)
  <2>1. g.at \notin Buttons
    BY DEF Walks, Buttons
  <2> QED BY <1>1, <2>1, CalledFacts DEF Button
<1>5. Button(t) = b
  BY <1>4
<1>6. Missed(t, b)
  <2>1. Repeating(t) => Repeating(s)
    BY DEF Repeating, Milder, SameKind, Mode
  <2>2. Gone(t) = Gone(s) /\ Gone(t) \subseteq Objects
    <3>1. s.stack # <<>> => Gone(s) \subseteq Objects
      BY StackFacts, FrameFields DEF Gone
    <3> QED BY <1>4, <3>1 DEF Gone
  <2> QED BY <2>1, <2>2 DEF Missed, Milder
<1> DEFINE v == Still(g)
<1>7. Body(t, v, b) /\ Paired(t, v, b) /\ Walk(t) = v
  BY <1>4
<1> HIDE DEF v
<1>8. Sound(t) /\ (Clean(t, v, b) => Good(t))
  BY <1>3, <1>5, <1>6, <1>7, SoundParts
<1> QED BY <1>8 DEF v

\* The function at the top goes on behind the head of its list.
LEMMA AdvanceFacts ==
  ASSUME NEW place \in Walks \union Buttons, Good(c), More(place)
  PROVE  LET f == Top(c)
             o == Head(f.rest)
             g == [f EXCEPT !.rest = Tail(@)]
             s == Advance(c)
         IN  /\ o \in Objects /\ c.obj[o].life # "freed" /\ o \in Range(f.rest)
             /\ Range(f.rest) = Range(Tail(f.rest)) \union {o} /\ Tail(f.rest) \in Seq(Objects)
             /\ \A p \in Range(f.rest) : p \in Objects /\ c.obj[p].life # "freed"
             /\ place # "dragout" => /\ o \notin Range(Tail(f.rest)) /\ IsInjective(Tail(f.rest))
             /\ g \in FrameType /\ IsFrame(g) /\ g.at = place /\ g.rest = Tail(f.rest) /\ g.cur = f.cur
             /\ g.ins = f.ins /\ g.x = f.x /\ g.moved = f.moved /\ g.below = f.below /\ g.gone = f.gone
             /\ Still(g).at = place /\ Still(g).rest = Tail(f.rest) /\ Still(g).cur = f.cur
             /\ Still(g).ins = f.ins /\ Still(g).x = f.x /\ Still(g).below = f.below
             /\ FitsIn(c, g, Len(c.stack))
             /\ s \in CanvasType /\ SameRest(c, s) /\ s.stack = [c.stack EXCEPT ![Len(c.stack)] = g]
<1> DEFINE f == Top(c)
           o == Head(f.rest)
           g == [f EXCEPT !.rest = Tail(@)]
           s == Advance(c)
           n == Len(c.stack)
<1>1. At(place) /\ f.rest # <<>>
  BY DEF More, At
<1>2. /\ c \in CanvasType /\ Nested(c) /\ c.stack # <<>>
      /\ f \in FrameType /\ IsFrame(f) /\ f.at = place /\ FitsIn(c, f, n)
  BY <1>1, AtFacts
<1>3. /\ o \in Objects /\ c.obj[o].life # "freed" /\ o \in Range(f.rest)
      /\ Range(f.rest) = Range(Tail(f.rest)) \union {o} /\ Tail(f.rest) \in Seq(Objects)
      /\ \A p \in Range(f.rest) : p \in Objects /\ c.obj[p].life # "freed"
      /\ place # "dragout" => /\ o \notin Range(Tail(f.rest)) /\ IsInjective(Tail(f.rest))
  BY <1>1, <1>2, NextFits
<1>4. /\ f.ins \in Seq(Objects) /\ f.x \in Points /\ f.moved \in BOOLEAN /\ f.below \in BOOLEAN
      /\ f.gone \in SUBSET Objects /\ f.cur \in Objects \union {NoObject}
  BY <1>2, FrameFields
<1>5. s = Become(c, g)
  BY DEF Advance
<1>6. /\ IsFrame(g) /\ g.at = place /\ g.cur = f.cur /\ g.rest = Tail(f.rest) /\ g.ins = f.ins
      /\ g.x = f.x /\ g.moved = f.moved /\ g.below = f.below /\ g.gone = f.gone
  BY <1>2 DEF IsFrame
<1> HIDE DEF o, n, g, s
<1>7. /\ g \in FrameType /\ Still(g).at = place /\ Still(g).rest = Tail(f.rest) /\ Still(g).cur = f.cur
      /\ Still(g).ins = f.ins /\ Still(g).x = f.x /\ Still(g).below = f.below
  <2>1. g.at \in Walks \union Waits \union Bottoms \union Quiet
    BY <1>6 DEF Bottoms
  <2> QED BY <1>3, <1>4, <1>6, <2>1, Places
<1>8. FitsIn(c, g, n)
  BY <1>2, <1>3, <1>6 DEF FitsIn
<1>9. s \in CanvasType /\ SameRest(c, s) /\ s.stack = [c.stack EXCEPT ![n] = g]
  BY <1>2, <1>5, <1>7, BecomeEffect DEF n
<1> QED BY <1>3, <1>6, <1>7, <1>8, <1>9 DEF o, n, g, s

\* The pointer moved in an object that it stays in.
LEMMA MoveTold ==
  ASSUME Assumed, NEW s, Good(s), s.stack # <<>>, NEW o \in Objects,
         NEW t, t = s \/ t = Tell(s, o, "move")
  PROVE  Good(t) /\ SameData(s, t)
<1>1. s \in CanvasType /\ Sound(s)
  BY DEF Good, Sound
<1>2. CASE t = s
  BY <1>2 DEF SameData
<1>3. CASE t = Tell(s, o, "move")
  <2>1. Quieter(s, t)
    BY <1>1, <1>3, TellQuiet
  <2> QED BY <1>1, <2>1, QuieterSound
<1> QED BY <1>2, <1>3
\* The next object that moved the pointer away is looked at.
LEMMA DragDoneGood ==
  ASSUME Assumed, Good(c), DragDone
  PROVE  Good(c') /\ HolderKeeps(c, c')
<1> DEFINE f == Top(c)
           g == [f EXCEPT !.at = "dragout", !.rest = f.ins, !.gone = {}]
           w == Walk(c)
           b == Button(c)
           n == Len(c.stack)
<1>1. At("drag") /\ f.rest = <<>> /\ c' = Become(c, g)
  BY DEF DragDone, Done, At
<1>2. /\ c \in CanvasType /\ Sound(c) /\ c.stack # <<>> /\ c.frozen = 0
      /\ f \in FrameType /\ IsFrame(f) /\ f.at = "drag" /\ FitsIn(c, f, n)
      /\ Body(c, w, b) /\ Paired(c, w, b)
  BY <1>1, AtFacts DEF Walks
<1>3. /\ w.at = "drag" /\ w.ins = f.ins /\ Range(f.ins) \subseteq Range(c.in)
      /\ \A o \in Range(c.in) : IsAlive(c, o)
  BY <1>2, WalkFields DEF Walks, Body, Lists
<1>4. /\ f.ins \in Seq(Objects) /\ f.x \in Points /\ f.moved \in BOOLEAN /\ f.below \in BOOLEAN
      /\ f.cur \in Objects \union {NoObject}
  BY <1>2, FrameFields
<1>5. /\ IsFrame(g) /\ g.at = "dragout" /\ g.rest = f.ins /\ g.ins = f.ins /\ g.cur = f.cur
      /\ g.x = f.x /\ g.moved = f.moved /\ g.below = f.below /\ g.gone = {}
  BY <1>2 DEF IsFrame
<1> HIDE DEF g, n
<1>6. g \in FrameType /\ Still(g).at = "dragout"
  BY <1>4, <1>5, Places DEF Walks
<1>7. FitsIn(c, g, n)
  BY <1>2, <1>3, <1>5 DEF FitsIn, Bottoms, Buttons, IsAlive
<1>8. Body(c, Still(g), b) /\ Paired(c, Still(g), b) /\ Clean(c, Still(g), b)
  BY <1>2, <1>3, <1>6, DragBody
<1>9. Good(c') /\ SameRest(c, c')
  BY <1>1, <1>2, <1>5, <1>6, <1>7, <1>8, WalkBecomes DEF Walks, n
<1> QED BY <1>9, SameHolders DEF SameRest, SameData

\* An object that has not grabbed the pointer leaves the list.
LEMMA RemoveBody ==
  ASSUME NEW s \in CanvasType, NEW w, NEW b, NEW v, NEW t, NEW o \in Objects,
         Body(s, w, b), Paired(s, w, b), w.at = "dragout", v.at = "dragout",
         SameObjects(s, t), SameElse(s, t), t.in = RemoveFirst(s.in, o),
         t.obj[o].in = FALSE, \A p \in Objects : p # o => t.obj[p].in = s.obj[p].in,
         s.obj[o].grabbed = 0
  PROVE  Body(t, v, b) /\ Paired(t, v, b) /\ Clean(t, v, b)
<1>1. /\ s.in \in Seq(Objects) /\ IsInjective(s.in) /\ s.grabbed > 0
      /\ s.obj[o].in \in BOOLEAN /\ Range(s.in) \subseteq Objects
  BY CanvasFields, ObjectFields, RangeFacts DEF Body, Lists, Held
<1>2. /\ IsInjective(t.in) /\ Range(t.in) = Range(s.in) \ {o}
      /\ \A p, q : Before(t.in, p, q) => Before(s.in, p, q)
      /\ o \notin Range(s.in) => t.in = s.in
  BY <1>1, RemovedOrder
<1>3. Counts(t) = Counts(s)
  BY HitsAlike
<1>4. Lists(t, v)
  BY <1>1, <1>2 DEF Body, Lists, SameObjects, SameElse, IsAlive, Arriving
<1>5. Hover(t, v)
  BY <1>2 DEF Body, Hover, HasPointer, Listed, Arriving
<1>6. Held(t, v)
  BY <1>1, <1>2, <1>3 DEF Body, Held, Holding, Leaving, SameObjects, SameElse, Mode
<1>7. Outside(t, v)
  <2>1. s.in = <<>> => o \notin Range(s.in)
    BY DEF Range
  <2> QED BY <1>2, <2>1 DEF Body, Outside, Leaving, SameElse
<1>8. Norepeat(t, v)
  BY <1>1, <1>2 DEF Body, Norepeat, Leaving, Keeps, KeptBy, SameObjects, SameElse, Mode
<1>9. Even(t, v, b)
  BY <1>1, <1>2 DEF Body, Even, Leaving, Due, Listed, Repeating, SameObjects, SameElse, Mode
<1>10. Paired(t, v, b)
  BY DEF Paired, SameObjects, SameElse, Owed, IsAlive, Mode, Repeating
<1>11. Clean(t, v, b)
  BY <1>1 DEF Clean, SameElse
<1>12. Single(t)
  BY DEF Body, Single, SameObjects, Mode
<1> QED BY <1>4, <1>5, <1>6, <1>7, <1>8, <1>9, <1>10, <1>11, <1>12 DEF Body

\* One that holds the pointer no more is left.
LEMMA DragOutGood ==
  ASSUME Assumed, Good(c), DragOut
  PROVE  Good(c') /\ HolderKeeps(c, c')
<1> DEFINE f == Top(c)
           o == Head(f.rest)
           g == [f EXCEPT !.rest = Tail(@)]
           s == Advance(c)
           w == Walk(c)
           b == Button(c)
           n == Len(c.stack)
<1>1. More("dragout") /\ At("dragout") /\ "dragout" \in Walks
  BY DEF DragOut, More, At, Walks
<1>2. /\ c \in CanvasType /\ Sound(c) /\ c.stack # <<>> /\ Nested(c) /\ ~c.bad
      /\ Body(c, w, b) /\ Paired(c, w, b) /\ f.at = "dragout" /\ w.at = "dragout"
  BY <1>1, AtFacts, WalkFields
<1>3. /\ o \in Objects /\ c.obj[o].life # "freed"
      /\ g \in FrameType /\ g.at = "dragout" /\ Still(g).at = "dragout" /\ FitsIn(c, g, n)
      /\ s \in CanvasType /\ SameRest(c, s) /\ s.stack = [c.stack EXCEPT ![n] = g]
  BY <1>1, AdvanceFacts
<1>4. /\ c.obj[o].grabbed # 0 => c' = s
      /\ c.obj[o].grabbed = 0 => c' = GoesOut([s EXCEPT !.in = RemoveFirst(@, o)], o)
  BY <1>3, ReadingFacts DEF DragOut, Head_
<1> HIDE DEF o, s, g, n
<1>5. CASE c.obj[o].grabbed # 0
  <2>1. c' = s
    BY <1>4, <1>5
  <2>2. Body(c, Still(g), b) /\ Paired(c, Still(g), b) /\ Clean(c, Still(g), b)
    BY <1>2, <1>3, DragBody
  <2>3. Body(s, Still(g), b) /\ Paired(s, Still(g), b) /\ Clean(s, Still(g), b)
    BY <1>3, <2>2, SameRestFacts
  <2>4. Milder(c, s) /\ s.pressed = c.pressed /\ s.bad = c.bad
    BY <1>3 DEF Milder, SameKind, SameRest, SameData, IsAlive
  <2>5. Good(s)
    BY <1>1, <1>2, <1>3, <2>3, <2>4, WalkStep DEF n
  <2> QED BY <1>3, <2>1, <2>5, SameHolders DEF SameRest, SameData
<1>6. CASE c.obj[o].grabbed = 0
  <2> DEFINE u == [s EXCEPT !.in = RemoveFirst(@, o)]
             t == PutIn(u, o, FALSE)
  <2>1. RemoveFirst(s.in, o) \in Seq(Objects) /\ s.in = c.in
    <3>1. s.in \in Seq(Objects)
      BY <1>3, CanvasFields
    <3> QED BY <1>3, <3>1, RemoveFirstFacts DEF SameRest, SameData
  <2>2. /\ u \in CanvasType /\ SameObjects(s, u) /\ SameElse(s, u)
        /\ u.in = RemoveFirst(c.in, o) /\ u.stack = s.stack /\ u.obj = s.obj
    <3> DEFINE l == RemoveFirst(s.in, o)
    <3>1. u = [s EXCEPT !.in = l]
      OBVIOUS
    <3> HIDE DEF u, l
    <3> QED BY <1>3, <2>1, <3>1, ListEffect DEF l
  <2>3. u.stack # <<>> /\ u.obj[o].grabbed = 0
    <3>1. Changed(c, s, g)
      BY <1>2, <1>3, StackEffect DEF n
    <3>2. s.stack # <<>>
      BY <1>2, <1>3, <3>1, ChangedFacts
    <3> QED BY <1>3, <1>6, <2>2, <3>2 DEF SameRest, SameData
  <2> HIDE DEF u
  <2>4. /\ t \in CanvasType /\ SameObjects(u, t) /\ SameElse(u, t) /\ t.in = u.in /\ t.stack = u.stack
        /\ t.obj[o].in = FALSE /\ \A p \in Objects : p # o => t.obj[p].in = u.obj[p].in
        /\ Quieter(t, GoesOut(u, o))
    BY <1>3, <2>2, <2>3, GoesOutEffect
  <2> HIDE DEF t
  <2>5. /\ SameObjects(c, t) /\ SameElse(c, t) /\ t.in = RemoveFirst(c.in, o)
        /\ t.stack = [c.stack EXCEPT ![n] = g]
        /\ \A p \in Objects : p # o => t.obj[p].in = c.obj[p].in
    BY <1>3, <2>2, <2>4 DEF SameRest, SameData, SameObjects, SameElse
  <2>6. Body(t, Still(g), b) /\ Paired(t, Still(g), b) /\ Clean(t, Still(g), b)
    <3> DEFINE v == Still(g)
    <3>1. /\ Body(c, w, b) /\ Paired(c, w, b) /\ w.at = "dragout" /\ v.at = "dragout"
          /\ c \in CanvasType /\ o \in Objects /\ c.obj[o].grabbed = 0
      BY <1>2, <1>3, <1>6
    <3> HIDE DEF w, b, v
    <3>2. SameObjects(c, t) /\ SameElse(c, t) /\ t.in = RemoveFirst(c.in, o)
      BY <2>5
    <3>3. t.obj[o].in = FALSE
      BY <2>4
    <3>4. \A p \in Objects : p # o => t.obj[p].in = c.obj[p].in
      BY <2>5
    <3>5. Body(t, v, b) /\ Paired(t, v, b) /\ Clean(t, v, b)
      BY <3>1, <3>2, <3>3, <3>4, RemoveBody
    <3> QED BY <3>5 DEF v
  <2>7. Milder(c, t) /\ t.pressed = c.pressed /\ t.bad = c.bad
    BY <2>5, SameIsMilder DEF SameElse
  <2>8. Good(t)
    BY <1>1, <1>2, <1>3, <2>4, <2>5, <2>6, <2>7, WalkStep DEF n
  <2>9. Good(c') /\ SameData(t, c')
    BY <1>4, <1>6, <2>4, <2>8, QuieterSound DEF Good, u
  <2> QED BY <1>6, <2>5, <2>9 DEF HolderKeeps, SameData
<1> QED BY <1>5, <1>6

\* All that were to be left are.
LEMMA DragOutDoneGood ==
  ASSUME Assumed, Good(c), Done("dragout"), c' = Return(c)
  PROVE  Good(c') /\ HolderKeeps(c, c')
<1> DEFINE w == Walk(c)
           b == Button(c)
<1>1. At("dragout") /\ "dragout" \in Walks
  BY DEF Done, At, Walks
<1>2. /\ c \in CanvasType /\ Sound(c) /\ c.stack # <<>> /\ Top(c).at \in Walks
      /\ Body(c, w, b) /\ Paired(c, w, b) /\ w.at = "dragout"
  BY <1>1, AtFacts, WalkFields
<1>3. c' \in CanvasType /\ SameRest(c, c') /\ c'.stack = Front(c.stack)
  BY <1>2, ReturnEffect
<1> DEFINE v == Still(Blank)
<1>4. v.at = ""
  BY StillFields, BlankFields
<1> HIDE DEF v
<1>5. Body(c, v, b) /\ Paired(c, v, b) /\ Clean(c, v, b)
  BY <1>2, <1>4, DragBody
<1>6. Body(c', v, b) /\ Paired(c', v, b) /\ Clean(c', v, b)
  BY <1>3, <1>5, SameRestFacts
<1>7. Milder(c, c') /\ c'.pressed = c.pressed /\ c'.bad = c.bad
  BY <1>3 DEF Milder, SameKind, SameRest, SameData, IsAlive
<1>8. Good(c')
  BY <1>2, <1>3, <1>6, <1>7, WalkEnds DEF v
<1> QED BY <1>3, <1>8, SameHolders DEF SameRest, SameData

\* The list is made anew behind an object that keeps button events to itself:
\* what is before it stays, what is below it comes, and it still holds the
\* pointer.
LEMMA BelowBody ==
  ASSUME NEW s \in CanvasType, NEW w, NEW b, NEW v, NEW o,
         Body(s, w, b), w.at = "dragged", w.cur = o, w.x = s.x, Mode(s, o) = "norepeat",
         NEW i \in 1 .. Len(s.in), s.in[i] = o, NEW k \in 1 .. Len(s.order), s.order[k] = o,
         v.at = "leave", v.below = TRUE, v.x = s.x, v.rest = SubSeq(s.in, i + 1, Len(s.in)),
         v.ins = SubSeq(s.in, 1, i) \o Hits(s, SubSeq(s.order, k + 1, Len(s.order)), s.x)
  PROVE  /\ Body(s, v, b) /\ Paired(s, v, b) /\ Clean(s, v, b)
         /\ IsInjective(v.rest) /\ v.rest \in Seq(Objects) /\ v.ins \in Seq(Objects)
         /\ Range(v.rest) \subseteq Range(s.in)
<1> DEFINE u == SubSeq(s.in, 1, i)
           r == SubSeq(s.in, i + 1, Len(s.in))
           l == SubSeq(s.order, k + 1, Len(s.order))
           h == Hits(s, l, s.x)
<1>1. /\ s.in \in Seq(Objects) /\ s.order \in Seq(Objects) /\ IsInjective(s.in) /\ IsInjective(s.order)
      /\ Range(s.in) \subseteq Objects /\ o \in Range(s.in) /\ o \in Objects
      /\ s.grabbed > 0 /\ \A p \in Range(s.in) : IsAlive(s, p)
  <2>1. /\ s.in \in Seq(Objects) /\ s.order \in Seq(Objects) /\ Range(s.in) \subseteq Objects
    BY CanvasFields, RangeFacts
  <2>2. Lists(s, w) /\ Held(s, w)
    BY DEF Body
  <2>3. /\ IsInjective(s.in) /\ IsInjective(s.order) /\ Listed(s, w.cur)
        /\ \A p \in Range(s.in) : IsAlive(s, p)
    BY <2>2 DEF Lists
  <2>4. s.grabbed > 0
    BY <2>2 DEF Held
  <2> QED BY <2>1, <2>3, <2>4 DEF Listed
<1>2. /\ u \in Seq(Objects) /\ r \in Seq(Objects) /\ IsInjective(u) /\ IsInjective(r)
      /\ Range(s.in) = Range(u) \union Range(r) /\ Range(u) \intersect Range(r) = {}
      /\ o \in Range(u)
      /\ \A p \in Range(r) : Before(s.in, o, p)
      /\ \A p \in Range(u) : p = o \/ Before(s.in, p, o)
      /\ \A p, q : Before(u, p, q) => Before(s.in, p, q)
      /\ \A p : ~Before(u, o, p)
  <2> DEFINE e == s.in[i]
  <2>1. /\ u \in Seq(Objects) /\ r \in Seq(Objects) /\ IsInjective(u) /\ IsInjective(r)
        /\ Range(s.in) = Range(u) \union Range(r) /\ Range(u) \intersect Range(r) = {}
        /\ e \in Range(u)
        /\ \A p \in Range(r) : Before(s.in, e, p)
        /\ \A p \in Range(u) : p = e \/ Before(s.in, p, e)
        /\ \A p, q : Before(u, p, q) => Before(s.in, p, q)
        /\ \A p : ~Before(u, e, p)
    BY <1>1, CutOrder
  <2>2. e = o
    OBVIOUS
  <2> HIDE DEF e, u, r
  <2> QED BY <2>1, <2>2
<1>3. /\ l \in Seq(Objects) /\ IsInjective(l) /\ \A p \in Range(l) : Before(s.order, o, p)
  <2> DEFINE e == s.order[k]
  <2>1. /\ l \in Seq(Objects) /\ IsInjective(l) /\ \A p \in Range(l) : Before(s.order, e, p)
    BY <1>1, CutOrder
  <2>2. e = o
    OBVIOUS
  <2> HIDE DEF e, l
  <2> QED BY <2>1, <2>2
<1>4. \A p, q : Before(s.order, p, q) => ~Before(s.order, q, p)
  BY <1>1, BeforeFacts
<1> HIDE DEF u, r, l
<1>5. /\ h \in Seq(Objects) /\ IsInjective(h)
      /\ Range(h) \subseteq Range(l) \intersect Hit(s, s.x)
  BY <1>3, HitsFacts
<1> HIDE DEF h
<1>6. Keeps(s, s.in) /\ KeptBy(s, s.in, o)
  <2>1. Keeps(s, s.in)
    BY <1>1 DEF Body, Norepeat, Leaving
  <2> QED BY <1>1, <2>1 DEF Keeps
<1>7. Range(u) \intersect Range(h) = {}
  <2>1. ASSUME NEW p \in Range(u), p \in Range(h) PROVE FALSE
    <3>1. Before(s.order, o, p) /\ p \in Objects
      BY <1>1, <1>2, <1>3, <1>5, <2>1
    <3>2. p = o \/ Before(s.order, p, o)
      BY <1>2, <1>6, <3>1 DEF KeptBy
    <3> QED BY <1>4, <3>1, <3>2
  <2> QED BY <2>1
<1> DEFINE ins == u \o h
<1>8. /\ ins \in Seq(Objects) /\ IsInjective(ins) /\ Range(ins) = Range(u) \union Range(h)
      /\ \A p, q : Before(ins, p, q) => Before(u, p, q) \/ q \in Range(h)
  BY <1>2, <1>5, <1>7, JoinOrder
<1> HIDE DEF ins
<1>9. v.rest = r /\ v.ins = ins
  BY DEF r, ins, u, h, l
<1>10. \A p \in Range(r) : s.obj[p].grabbed = 0
  BY <1>1, <1>2, <1>6 DEF KeptBy
<1>11. \A p \in Hit(s, s.x) : IsAlive(s, p) /\ p \in Objects
  BY DEF Hit, IsAlive
<1>12. Lists(s, v)
  BY <1>1, <1>2, <1>5, <1>8, <1>9, <1>11 DEF Body, Lists, Arriving
<1>13. Hover(s, v)
  BY <1>2, <1>8, <1>9 DEF Body, Hover, HasPointer, Listed, Arriving
<1>14. Held(s, v)
  <2>1. \A p \in Objects : s.obj[p].grabbed > 0 => p \in Range(s.in) \intersect Range(ins)
    <3>1. Holding(s, w) = Range(s.in)
      BY DEF Holding
    <3> QED BY <1>2, <1>8, <1>10, <3>1 DEF Body, Held
  <2> QED BY <1>1, <1>9, <1>10, <2>1 DEF Body, Held, Holding, Leaving
<1>15. Outside(s, v)
  <2>1. s.in # <<>>
    BY <1>1 DEF Range
  <2> QED BY <2>1 DEF Body, Outside, Leaving
<1>16. Norepeat(s, v)
  <2>1. \A n \in Range(ins) : n \in Objects /\ (Mode(s, n) = "norepeat" => n = o)
    BY <1>1, <1>8, RangeFacts DEF Body, Single
  <2>2. KeptBy(s, ins, o)
    <3>1. ASSUME NEW p \in Objects, Before(ins, p, o) PROVE Before(s.order, p, o)
      <4>1. Before(u, p, o)
        BY <1>2, <1>7, <1>8, <3>1
      <4> QED BY <1>2, <1>6, <4>1 DEF KeptBy
    <3>2. ASSUME NEW p \in Objects, Before(ins, o, p) PROVE s.obj[p].grabbed = 0
      <4>1. p \in Range(h) /\ p \notin Range(u)
        BY <1>2, <1>7, <1>8, <3>2
      <4>2. s.obj[p].grabbed > 0 => p \in Range(r)
        BY <1>2, <4>1 DEF Body, Held, Holding
      <4>3. s.obj[p].grabbed \in Nat
        BY ObjectFields
      <4> QED BY <1>10, <4>2, <4>3
    <3>3. s.obj[o].grabbed > 0
      BY <1>6 DEF KeptBy
    <3> QED BY <3>1, <3>2, <3>3 DEF KeptBy
  <2> QED BY <1>6, <1>9, <2>1, <2>2 DEF Norepeat, Keeps
<1>17. ~Repeating(s)
  BY <1>1 DEF Repeating
<1>18. Even(s, v, b) /\ Paired(s, v, b) /\ Clean(s, v, b)
  BY <1>17 DEF Even, Paired, Clean
<1> QED BY <1>2, <1>8, <1>9, <1>12, <1>13, <1>14, <1>15, <1>16, <1>18 DEF Body

\* Behind one that keeps button events to itself the list is made anew.
LEMMA DraggedGood ==
  ASSUME Assumed, Good(c), Dragged
  PROVE  Good(c') /\ HolderKeeps(c, c')
<1> DEFINE f == Top(c)
           o == f.cur
           i == Place(c.in, o)
           k == Place(c.order, o)
           u == SubSeq(c.in, 1, i)
           r == SubSeq(c.in, i + 1, Len(c.in))
           h == Hits(c, SubSeq(c.order, k + 1, Len(c.order)), c.x)
           g == [f EXCEPT !.at = "leave", !.below = TRUE, !.gone = {}, !.rest = r, !.ins = u \o h]
           d == [f EXCEPT !.at = "drag"]
           w == Walk(c)
           b == Button(c)
           n == Len(c.stack)
<1>1. At("dragged") /\ "dragged" \in Walks
  BY DEF Dragged, Walks
<1>2. /\ c \in CanvasType /\ Sound(c) /\ c.stack # <<>> /\ f \in FrameType /\ IsFrame(f)
      /\ f.at = "dragged" /\ FitsIn(c, f, n) /\ c.frozen = 0
      /\ Body(c, w, b) /\ Paired(c, w, b)
      /\ w.at = "dragged" /\ w.cur = o /\ w.x = f.x /\ w.ins = f.ins /\ w.rest = f.rest
  BY <1>1, AtFacts, WalkFields
<1>3. /\ o \in Range(c.in) /\ f.x = c.x /\ Range(f.ins) \subseteq Range(c.in)
      /\ Range(f.rest) \subseteq Range(c.in)
      /\ c.in \in Seq(Objects) /\ c.order \in Seq(Objects)
      /\ \A p \in Range(c.in) : IsAlive(c, p) /\ p \in Objects
  BY <1>2, CanvasFields, RangeFacts DEF Body, Lists, Listed
<1>4. o \in Range(c.order)
  BY <1>2, <1>3 DEF Body, Lists, IsAlive
<1>5. i \in 1 .. Len(c.in) /\ c.in[i] = o /\ k \in 1 .. Len(c.order) /\ c.order[k] = o
  BY <1>3, <1>4, PlaceFacts
<1>6. /\ f.ins \in Seq(Objects) /\ f.rest \in Seq(Objects) /\ f.x \in Points /\ f.moved \in BOOLEAN
      /\ f.below \in BOOLEAN /\ f.gone \in SUBSET Objects /\ f.cur \in Objects \union {NoObject}
  BY <1>2, FrameFields
<1>7. \/ Mode(c, o) = "norepeat" /\ c' = Become(c, g)
      \/ c' = Become(c, d)
  <2> DEFINE upto == IF i = 0 THEN c.in ELSE SubSeq(c.in, 1, i)
             below == [f EXCEPT !.at = "leave", !.below = TRUE, !.gone = {},
                                !.rest = SubSeq(c.in, Len(upto) + 1, Len(c.in)), !.ins = upto \o h]
  <2>1. \/ Mode(c, o) = "norepeat" /\ c' = Become(c, below)
        \/ c' = Become(c, d)
    BY DEF Dragged
  <2>2. Len(u) = i
    BY <1>3, <1>5, CutFacts
  <2>3. i # 0
    BY <1>5
  <2>4. upto = u
    BY <2>3
  <2> HIDE DEF u
  <2>5. below = g
    BY <2>2, <2>4
  <2> HIDE DEF below, g, d
  <2> QED BY <2>1, <2>5
<1>8. CASE Mode(c, o) = "norepeat" /\ c' = Become(c, g)
  <2> DEFINE v == Still(g)
  <2>1. /\ IsFrame(g) /\ g.at = "leave" /\ g.below = TRUE /\ g.gone = {} /\ g.rest = r /\ g.ins = u \o h
        /\ g.cur = f.cur /\ g.x = f.x /\ g.moved = f.moved
    <3> HIDE DEF r, u, h
    <3> QED BY <1>2 DEF IsFrame
  <2> HIDE DEF g
  <2>2. r \in Seq(Objects) /\ u \o h \in Seq(Objects)
    <3>1. u \in Seq(Objects) /\ r \in Seq(Objects)
      BY <1>3, <1>5, CutFacts
    <3>2. SubSeq(c.order, k + 1, Len(c.order)) \in Seq(Objects)
      BY <1>3, <1>5, CutFacts
    <3>3. h \in Seq(Objects)
      BY <3>2, HitsFacts
    <3> HIDE DEF u, h
    <3> QED BY <3>1, <3>3, JoinFacts
  <2>3. /\ g \in FrameType /\ v.at = "leave" /\ v.below = TRUE /\ v.rest = r /\ v.ins = u \o h
        /\ v.x = c.x
    <3> HIDE DEF r, u, h
    <3> QED BY <1>3, <1>6, <2>1, <2>2, Places DEF Walks
  <2> HIDE DEF v
  <2>4. /\ Body(c, v, b) /\ Paired(c, v, b) /\ Clean(c, v, b)
        /\ IsInjective(v.rest) /\ Range(v.rest) \subseteq Range(c.in)
    <3> HIDE DEF w, b, i, k, o
    <3>1. /\ c \in CanvasType /\ Body(c, w, b) /\ w.at = "dragged" /\ w.cur = o /\ w.x = c.x
          /\ Mode(c, o) = "norepeat" /\ i \in 1 .. Len(c.in) /\ c.in[i] = o
          /\ k \in 1 .. Len(c.order) /\ c.order[k] = o
          /\ v.at = "leave" /\ v.below = TRUE /\ v.x = c.x /\ v.rest = r /\ v.ins = u \o h
      BY <1>2, <1>3, <1>5, <1>8, <2>3
    <3> QED BY <3>1, BelowBody
  <2>5. FitsIn(c, g, n)
    <3> HIDE DEF r
    <3> QED BY <1>2, <1>3, <2>1, <2>3, <2>4 DEF FitsIn, Bottoms, Buttons, IsAlive
  <2>6. Good(c') /\ SameRest(c, c')
    BY <1>1, <1>2, <1>8, <2>1, <2>3, <2>4, <2>5, WalkBecomes DEF Walks, v
  <2> QED BY <2>6, SameHolders DEF SameRest, SameData
<1>9. CASE c' = Become(c, d)
  <2>1. /\ IsFrame(d) /\ d.at = "drag" /\ d.rest = f.rest /\ d.ins = f.ins /\ d.cur = f.cur
        /\ d.x = f.x /\ d.moved = f.moved /\ d.below = f.below /\ d.gone = f.gone
    BY <1>2 DEF IsFrame
  <2> HIDE DEF d
  <2>2. /\ d \in FrameType /\ Still(d).at = "drag" /\ Still(d).rest = f.rest /\ Still(d).ins = f.ins
        /\ Still(d).x = f.x
    BY <1>6, <2>1, Places DEF Walks
  <2>3. FitsIn(c, d, n)
    BY <1>2, <2>1 DEF FitsIn, Bottoms, Buttons
  <2>4. Body(c, Still(d), b) /\ Paired(c, Still(d), b) /\ Clean(c, Still(d), b)
    BY <1>2, <1>3, <2>2, DragBody
  <2>5. Good(c') /\ SameRest(c, c')
    BY <1>1, <1>2, <1>9, <2>1, <2>2, <2>3, <2>4, WalkBecomes DEF Walks
  <2> QED BY <2>5, SameHolders DEF SameRest, SameData
<1> QED BY <1>7, <1>8, <1>9

-----------------------------------------------------------------------------
(***************************************************************************)
(* evas_event_feed_mouse_move                                              *)
(***************************************************************************)

\* A move may be fed: no walk is on.
Waiting(s) == s.stack = <<>> \/ Top(s).at \in Waits

\* While the function at the top waits, no walk is on.
LEMMA WaitingFacts ==
  ASSUME NEW s \in CanvasType, Waiting(s)
  PROVE  /\ Walk(s) = Still(Blank)
         /\ Still(Blank).at = "" /\ Still(Blank).rest = <<>> /\ Still(Blank).ins = <<>>
         /\ Still(Blank).below = FALSE
<1>1. s.stack = <<>> \/ Top(s).at \notin Walks
  BY DEF Waiting, Waits, Walks
<1> QED BY <1>1, WalkFields, StillFields, BlankFields

\* If the pointer is not grabbed, no object has grabbed it.
LEMMA NoneGrabbed ==
  ASSUME NEW s \in CanvasType, NEW w, Held(s, w), ~Leaving(w), s.grabbed = 0
  PROVE  \A o \in Objects : s.obj[o].grabbed = 0
<1> DEFINE n == Counts(s)
           k == Cardinality(GrabsOf(n))
<1>1. \A o \in Objects : n[o] = s.obj[o].grabbed /\ s.obj[o].grabbed \in Nat
  BY ObjectFields DEF Counts
<1>2. n \in [Objects -> Nat]
  BY <1>1 DEF Counts
<1>3. k = 0
  BY DEF Held
<1>4. \A o \in Objects : n[o] <= k
  <2> HIDE DEF n
  <2> QED BY <1>2, GrabsBound
<1> HIDE DEF n, k
<1> QED BY <1>1, <1>3, <1>4

\* A function starts to walk a list.
LEMMA FrameOf ==
  ASSUME NEW at \in Walks \union Buttons, NEW l \in Seq(Objects)
  PROVE  LET f == Frame(at, l)
         IN  /\ IsFrame(f) /\ f \in FrameType
             /\ f.at = at /\ f.rest = l /\ f.cur = NoObject /\ f.ins = <<>> /\ f.x \in Points
             /\ f.moved = FALSE /\ f.below = FALSE /\ f.gone = {}
<1> DEFINE f == Frame(at, l)
<1>1. IsFrame(Blank)
  BY FrameIsRecord
<1>2. /\ IsFrame(f) /\ f.at = at /\ f.rest = l /\ f.cur = NoObject /\ f.ins = <<>> /\ f.x \in Points
      /\ f.moved = FALSE /\ f.below = FALSE /\ f.gone = {}
  BY <1>1, BlankFields DEF Frame, IsFrame
<1> HIDE DEF f
<1>3. f.at \in Walks \union Waits \union Bottoms \union Quiet
  BY <1>2 DEF Bottoms
<1>4. /\ f.ins \in Seq(Objects) /\ f.cur \in Objects \union {NoObject} /\ f.moved \in BOOLEAN
      /\ f.below \in BOOLEAN /\ f.gone \in SUBSET Objects /\ f.rest \in Seq(Objects)
  BY <1>2, EmptySeq
<1>5. f \in FrameType
  BY <1>2, <1>3, <1>4, Places
<1> QED BY <1>2, <1>5 DEF f

\* The pointer moves.
LEMMA PointEffect ==
  ASSUME NEW s \in CanvasType, NEW x \in Points
  PROVE  LET t == [s EXCEPT !.x = x]
         IN  /\ t \in CanvasType /\ t.x = x
             /\ t.obj = s.obj /\ t.order = s.order /\ t.inside = s.inside /\ t.in = s.in
             /\ t.grabbed = s.grabbed /\ t.nogrep = s.nogrep /\ t.downs = s.downs
             /\ t.frozen = s.frozen /\ t.bad = s.bad /\ t.pressed = s.pressed /\ t.stack = s.stack
<1> DEFINE t == [s EXCEPT !.x = x]
<1>1. IsRecord(s)
  BY CanvasIsRecord
<1>2. /\ IsRecord(t) /\ t.x = x
      /\ t.obj = s.obj /\ t.order = s.order /\ t.inside = s.inside /\ t.in = s.in
      /\ t.grabbed = s.grabbed /\ t.nogrep = s.nogrep /\ t.downs = s.downs
      /\ t.frozen = s.frozen /\ t.bad = s.bad /\ t.pressed = s.pressed /\ t.stack = s.stack
  BY <1>1 DEF IsRecord
<1> HIDE DEF t
<1>3. t \in CanvasType
  BY <1>2, CanvasFields, CanvasRecord
<1> QED BY <1>2, <1>3 DEF t

\* A canvas is the same but for the place of its pointer and its functions.
SameButPoint(s, t) ==
  /\ t.obj = s.obj /\ t.order = s.order /\ t.inside = s.inside /\ t.in = s.in
  /\ t.grabbed = s.grabbed /\ t.nogrep = s.nogrep /\ t.downs = s.downs
  /\ t.frozen = s.frozen /\ t.bad = s.bad /\ t.pressed = s.pressed

\* What is so when a move starts: with the pointer grabbed, those that hold it
\* hear of it, ...
LEMMA FeedBody ==
  ASSUME NEW s \in CanvasType, NEW t, SameButPoint(s, t), s.frozen = 0,
         NEW w, NEW b, NEW v, w.at = "", Body(s, w, b), Paired(s, w, b),
         \/ v.at = "" /\ ~s.inside /\ s.grabbed = 0
         \/ v.at = "drag" /\ s.grabbed > 0 /\ v.rest = s.in /\ v.ins = <<>> /\ v.x = t.x
         \/ /\ v.at = "leave" /\ s.inside /\ s.grabbed = 0 /\ v.rest = s.in /\ v.x = t.x
            /\ v.ins = Hits(t, s.order, t.x)
  PROVE  Body(t, v, b) /\ Paired(t, v, b) /\ Clean(t, v, b)
<1>18. /\ v.at \in {"", "drag", "leave"}
       /\ v.at = "leave" => s.grabbed = 0 /\ s.inside /\ v.rest = s.in
       /\ v.at = "drag" => s.grabbed > 0
       /\ v.at = "" => s.grabbed = 0
  OBVIOUS
<1>17. s.grabbed \in Nat /\ (v.at = "leave" => ~(s.grabbed > 0))
  <2>1. s.grabbed \in Nat
    BY CanvasFields
  <2> QED BY <1>18, <2>1, ZeroOrMore
<1>1. s.order \in Seq(Objects) /\ IsInjective(s.order) /\ IsInjective(s.in)
  BY CanvasFields DEF Body, Lists
<1> DEFINE h == Hits(t, s.order, t.x)
<1>2. IsInjective(h) /\ Range(h) \subseteq Hit(t, t.x)
  BY <1>1, HitsFacts
<1>3. \A p \in Range(h) : IsAlive(t, p)
  BY <1>2 DEF Hit, IsAlive
<1> HIDE DEF h
<1>4. s.grabbed = 0 => \A o \in Objects : s.obj[o].grabbed = 0
  BY NoneGrabbed DEF Body, Leaving
<1>5. Counts(t) = Counts(s)
  BY DEF Counts, SameButPoint
<1>6. v.at = "leave" => v.ins = h
  BY DEF h
<1>7. Range(<<>>) = {} /\ Range(s.in) \subseteq Objects
  <2>1. <<>> \in Seq(Objects) /\ s.in \in Seq(Objects)
    BY CanvasFields, EmptySeq
  <2> QED BY <2>1, RangeFacts
<1>8. Lists(t, v)
  BY <1>2, <1>3, <1>6, <1>7 DEF Body, Lists, Arriving, SameButPoint, IsAlive
<1>9. Hover(t, v)
  BY DEF Body, Hover, HasPointer, Listed, Arriving, SameButPoint
<1>10. Held(t, v)
  <2>1. /\ s.grabbed = Cardinality(GrabsOf(Counts(s)))
        /\ \A o \in Objects : s.obj[o].grabbed > 0 => o \in Range(s.in)
        /\ \A o \in Objects : Mode(s, o) = "nograb" => s.obj[o].grabbed = 0
    BY DEF Body, Held, Leaving, Holding
  <2>2. /\ t.grabbed = s.grabbed /\ t.in = s.in
        /\ \A o : Mode(t, o) = Mode(s, o) /\ t.obj[o].grabbed = s.obj[o].grabbed
    BY DEF SameButPoint, Mode
  <2>3. v.at = "leave" => \A o \in Range(v.rest) : o \in Objects
    BY <1>18, <1>7
  <2>4. \A o \in Objects : s.obj[o].grabbed > 0 => v.at # "leave" /\ o \in Range(s.in)
    <3>1. \A o \in Objects : s.obj[o].grabbed \in Nat
      BY ObjectFields
    <3> QED BY <1>18, <1>4, <2>1, <3>1, ZeroOrMore
  <2>5. \A o \in Objects : t.obj[o].grabbed > 0 => o \in Holding(t, v)
    BY <1>18, <2>2, <2>4 DEF Holding
  <2> QED BY <1>18, <1>4, <1>5, <2>1, <2>2, <2>3, <2>5 DEF Held, Leaving
<1>11. Outside(t, v)
  BY DEF Body, Outside, Leaving, SameButPoint
<1>12. Norepeat(t, v)
  <2>1. \A l : Keeps(s, l) => Keeps(t, l)
    BY DEF Keeps, KeptBy, Mode, SameButPoint
  <2> QED BY <1>18, <1>17, <2>1 DEF Body, Norepeat, Leaving, SameButPoint
<1>13. Even(t, v, b)
  BY DEF Body, Even, Leaving, Due, Listed, Repeating, Mode, SameButPoint
<1>14. Paired(t, v, b)
  BY DEF Paired, Owed, IsAlive, Mode, Repeating, SameButPoint
<1>15. Clean(t, v, b)
  <2>1. h = Hits(t, t.order, t.x)
    BY DEF h, SameButPoint
  <2> QED BY <1>6, <2>1 DEF Clean, SameButPoint
<1>16. Single(t)
  BY DEF Body, Single, Mode, SameButPoint
<1> QED BY <1>8, <1>9, <1>10, <1>11, <1>12, <1>13, <1>14, <1>15, <1>16 DEF Body

\* ... and whatever the list of the pointer was, a move makes it good.
LEMMA FeedMoveGood ==
  ASSUME NEW s, Sound(s), Waiting(s), NEW x \in Points
  PROVE  Good(FeedMove(s, x)) /\ FeedMove(s, x).obj = s.obj
<1> DEFINE at    == [s EXCEPT !.x = x]
           drag  == [Frame("drag", s.in) EXCEPT !.x = x, !.moved = s.x # x]
           leave == [drag EXCEPT !.at = "leave", !.ins = EventList(at, x)]
           w == Walk(s)
           b == Button(s)
<1>1. /\ s \in CanvasType /\ ~s.bad /\ Nested(s) /\ Missed(s, b)
      /\ Body(s, w, b) /\ Paired(s, w, b) /\ w.at = "" /\ w = Still(Blank)
  BY WaitingFacts DEF Sound
<1>2. /\ s.in \in Seq(Objects) /\ s.order \in Seq(Objects) /\ s.frozen \in {0, 1} /\ s.grabbed \in Nat
      /\ s.inside \in BOOLEAN
  BY <1>1, CanvasFields
<1>3. /\ at \in CanvasType /\ at.x = x /\ SameButPoint(s, at) /\ at.stack = s.stack
  BY <1>1, PointEffect DEF SameButPoint
<1>4. FeedMove(s, x) = IF s.frozen > 0 THEN s
                       ELSE IF ~s.inside /\ s.grabbed = 0 THEN at
                       ELSE IF s.grabbed > 0 THEN Push(at, drag)
                       ELSE Push(at, leave)
  BY DEF FeedMove
<1>5. s.frozen = 0 => EventList(at, x) = Hits(at, s.order, x)
  BY <1>3 DEF EventList, SameButPoint
<1>6. Hits(at, s.order, x) \in Seq(Objects)
  BY <1>2, HitsFacts
<1>7. /\ IsFrame(drag) /\ drag.at = "drag" /\ drag.rest = s.in /\ drag.ins = <<>> /\ drag.x = x
      /\ drag.cur = NoObject /\ drag.moved \in BOOLEAN /\ drag.below = FALSE /\ drag.gone = {}
  <2> DEFINE f == Frame("drag", s.in)
  <2>1. /\ IsFrame(f) /\ f.at = "drag" /\ f.rest = s.in /\ f.cur = NoObject /\ f.ins = <<>>
        /\ f.below = FALSE /\ f.gone = {}
    <3>1. "drag" \in Walks \union Buttons
      BY DEF Walks
    <3> QED BY <1>2, <3>1, FrameOf
  <2> HIDE DEF f
  <2>2. drag = [f EXCEPT !.x = x, !.moved = s.x # x]
    BY DEF f
  <2> DEFINE m == s.x # x
  <2>3. m \in BOOLEAN
    OBVIOUS
  <2> HIDE DEF m
  <2>4. drag = [f EXCEPT !.x = x, !.moved = m]
    BY <2>2 DEF m
  <2> HIDE DEF drag
  <2> QED BY <2>1, <2>3, <2>4 DEF IsFrame
<1> HIDE DEF drag
<1>8. /\ IsFrame(leave) /\ leave.at = "leave" /\ leave.rest = s.in /\ leave.ins = EventList(at, x)
      /\ leave.x = x /\ leave.cur = NoObject /\ leave.moved \in BOOLEAN /\ leave.below = FALSE
      /\ leave.gone = {}
  BY <1>7 DEF IsFrame
<1> HIDE DEF leave, at
<1>9. /\ drag \in FrameType /\ Still(drag).at = "drag" /\ Still(drag).rest = s.in
      /\ Still(drag).ins = <<>> /\ Still(drag).x = x
  <2>1. /\ drag.at \in Walks /\ drag.rest \in Seq(Objects) /\ drag.ins \in Seq(Objects)
        /\ drag.cur \in Objects \union {NoObject} /\ drag.x \in Points /\ drag.below \in BOOLEAN
        /\ drag.gone \in SUBSET Objects
    BY <1>2, <1>7, EmptySeq DEF Walks
  <2> QED BY <1>7, <2>1, Places
<1>10. s.frozen = 0 =>
         /\ leave \in FrameType /\ Still(leave).at = "leave" /\ Still(leave).rest = s.in
         /\ Still(leave).ins = Hits(at, s.order, x) /\ Still(leave).x = x
  <2>1. leave.at \in Walks
    BY <1>8 DEF Walks
  <2> QED BY <1>2, <1>5, <1>6, <1>8, <2>1, Places
<1>11. CASE s.frozen > 0
  <2>1. Clean(s, w, b)
    <3> HIDE DEF w, b
    <3>1. s.frozen # 0
      BY <1>2, <1>11
    <3> QED BY <3>1 DEF Clean
  <2>2. FeedMove(s, x) = s
    BY <1>4, <1>11
  <2> QED BY <2>1, <2>2 DEF Good
<1>12. CASE s.frozen = 0 /\ ~s.inside /\ s.grabbed = 0
  <2>1. FeedMove(s, x) = at
    BY <1>4, <1>12
  <2>2. Walk(at) = w /\ Button(at) = b /\ Gone(at) = Gone(s)
    BY <1>3 DEF Walk, Button, Gone, Top
  <2>3. Alike(s, at) /\ Milder(s, at)
    BY <1>3 DEF Alike, Milder, SameKind, SameButPoint, IsAlive
  <2>4. Nested(at)
    BY <1>1, <1>3, <2>3, NestedAlike
  <2> HIDE DEF w, b
  <2>5. Body(at, w, b) /\ Paired(at, w, b) /\ Clean(at, w, b)
    BY <1>1, <1>3, <1>12, FeedBody
  <2>6. Missed(at, b)
    BY <1>1, <1>3, <2>2 DEF Missed, SameButPoint, IsAlive, Repeating, Mode
  <2>7. Good(at)
    BY <1>1, <1>3, <2>2, <2>4, <2>5, <2>6, SoundParts DEF SameButPoint
  <2> QED BY <1>3, <2>1, <2>7 DEF SameButPoint
<1>13. ASSUME NEW g \in FrameType, s.frozen = 0, FeedMove(s, x) = Push(at, g),
              \/ g = drag /\ s.grabbed > 0
              \/ g = leave /\ s.inside /\ s.grabbed = 0
       PROVE  Good(FeedMove(s, x)) /\ FeedMove(s, x).obj = s.obj
  <2> DEFINE t == FeedMove(s, x)
             v == Still(g)
  <2>1. /\ g.at \in {"drag", "leave"} /\ g.rest = s.in /\ g.gone = {} /\ g.at \in Walks
        /\ g.at \notin Bottoms
    BY <1>7, <1>8, <1>13 DEF Walks, Bottoms, Buttons
  <2>2. t \in CanvasType /\ SameRest(at, t) /\ t.stack = Append(s.stack, g)
    BY <1>3, <1>13, PushEffect
  <2> HIDE DEF t
  <2>3. SameButPoint(s, t) /\ t.x = x
    BY <1>3, <2>2 DEF SameButPoint, SameRest, SameData
  <2>4. \/ v.at = "drag" /\ s.grabbed > 0 /\ v.rest = s.in /\ v.ins = <<>> /\ v.x = t.x
        \/ /\ v.at = "leave" /\ s.inside /\ s.grabbed = 0 /\ v.rest = s.in /\ v.x = t.x
           /\ v.ins = Hits(t, s.order, t.x)
    <3>1. Hits(at, s.order, x) = Hits(t, s.order, t.x)
      BY <2>2, <2>3, HitsSame DEF SameRest, SameData
    <3> QED BY <1>9, <1>10, <1>13, <2>3, <3>1
  <2> HIDE DEF v, w, b
  <2>5. Body(t, v, b) /\ Paired(t, v, b) /\ Clean(t, v, b)
    BY <1>1, <1>13, <2>3, <2>4, FeedBody
  <2>6. IsInjective(s.in) /\ \A o \in Range(s.in) : IsAlive(s, o)
    BY <1>1 DEF Body, Lists
  <2>7. FitsIn(t, g, Len(t.stack))
    BY <1>13, <2>1, <2>3, <2>6 DEF FitsIn, SameButPoint, IsAlive
  <2>8. Milder(s, t) /\ t.pressed = s.pressed /\ t.bad = s.bad
    BY <2>3 DEF Milder, SameKind, SameButPoint, IsAlive
  <2>9. Good(t)
    BY <1>1, <1>13, <2>1, <2>2, <2>5, <2>7, <2>8, WalkStarts DEF Waiting, v, b
  <2> QED BY <2>3, <2>9 DEF SameButPoint, t
<1>14. CASE s.frozen = 0 /\ s.grabbed > 0
  BY <1>4, <1>9, <1>13, <1>14
<1>15. CASE s.frozen = 0 /\ s.inside /\ s.grabbed = 0
  BY <1>4, <1>10, <1>13, <1>15
<1> QED BY <1>2, <1>11, <1>12, <1>14, <1>15

-----------------------------------------------------------------------------
(***************************************************************************)
(* The objects that the pointer leaves and those that it comes to          *)
(***************************************************************************)

\* What a walk keeps that tells an object whether the pointer is in it.
Same(s, t) ==
  /\ SameObjects(s, t) /\ SameElse(s, t)

\* A canvas in which objects are the same but for the pointer being in them:
\* what else is built from it is the same.
LEMMA SameFacts ==
  ASSUME NEW s, NEW t, Same(s, t), NEW w, NEW b
  PROVE  /\ Milder(s, t) /\ t.pressed = s.pressed /\ t.bad = s.bad
         /\ Counts(t) = Counts(s) /\ \A x : Hit(t, x) = Hit(s, x)
         /\ Hits(t, t.order, t.x) = Hits(s, s.order, s.x)
         /\ \A l \in Seq(Objects) : Keeps(s, l) => Keeps(t, l)
         /\ Paired(s, w, b) => \A v : v.at # "outed" => Paired(t, v, b)
         /\ Repeating(t) <=> Repeating(s)
         /\ Single(s) => Single(t)
         /\ \A o : Due(t, b, o) = Due(s, b, o)
         /\ \A o \in Objects : /\ Mode(t, o) = Mode(s, o) /\ (IsAlive(t, o) <=> IsAlive(s, o))
                               /\ t.obj[o].grabbed = s.obj[o].grabbed
<1>1. SameObjects(s, t) /\ SameElse(s, t)
  BY DEF Same
<1>2. Milder(s, t) /\ t.pressed = s.pressed /\ t.bad = s.bad
  BY <1>1, SameIsMilder DEF SameElse
<1>3. /\ \A x : Hit(t, x) = Hit(s, x)
      /\ \A l, x : Hits(t, l, x) = Hits(s, l, x)
      /\ Counts(t) = Counts(s)
  BY <1>1, HitsAlike
<1>4. \A o \in Objects : /\ Mode(t, o) = Mode(s, o) /\ (IsAlive(t, o) <=> IsAlive(s, o))
                         /\ t.obj[o].grabbed = s.obj[o].grabbed
  BY <1>1 DEF SameObjects, Mode, IsAlive
<1>5. ASSUME NEW l \in Seq(Objects), Keeps(s, l) PROVE Keeps(t, l)
  <2>1. ASSUME NEW n \in Range(l), Mode(t, n) = "norepeat" PROVE KeptBy(t, l, n)
    <3>1. n \in Objects
      BY RangeFacts
    <3> QED BY <1>1, <1>4, <1>5, <2>1, <3>1 DEF Keeps, KeptBy, SameElse
  <2> QED BY <2>1 DEF Keeps
<1>6. Repeating(t) <=> Repeating(s)
  BY <1>4 DEF Repeating
<1>7. Paired(s, w, b) => \A v : v.at # "outed" => Paired(t, v, b)
  BY <1>2, <1>4, <1>6 DEF Paired, Owed
<1>8. Single(s) => Single(t)
  BY <1>4 DEF Single
<1>9. \A o : Due(t, b, o) = Due(s, b, o)
  BY <1>1 DEF Due, SameElse
<1>10. Hits(t, t.order, t.x) = Hits(s, s.order, s.x)
  BY <1>1, <1>3 DEF SameElse
<1> QED BY <1>2, <1>3, <1>4, <1>5, <1>6, <1>7, <1>8, <1>9, <1>10

\* An object is left that is not in the new list, and told so; another is not.
LEMMA LeaveBody ==
  ASSUME NEW s \in CanvasType, NEW t \in CanvasType, NEW w, NEW b, NEW v, NEW o \in Objects,
         Same(s, t), t.in = s.in, Body(s, w, b), Paired(s, w, b),
         w.at \in {"leave", "postout"}, v.at = w.at,
         v.ins = w.ins, v.x = w.x, v.below = w.below, w.ins \in Seq(Objects),
         Range(w.rest) = Range(v.rest) \union {o}, o \notin Range(v.rest),
         o \in Range(w.ins) => t.obj[o].in = TRUE, o \notin Range(w.ins) => t.obj[o].in = FALSE,
         \A p \in Objects : p # o => t.obj[p].in = s.obj[p].in
  PROVE  Body(t, v, b) /\ Paired(t, v, b) /\ (Clean(s, w, b) => Clean(t, v, b))
<1>1. /\ Milder(s, t) /\ t.pressed = s.pressed /\ t.bad = s.bad
      /\ Counts(t) = Counts(s) /\ \A x : Hit(t, x) = Hit(s, x)
      /\ Hits(t, t.order, t.x) = Hits(s, s.order, s.x)
      /\ \A l \in Seq(Objects) : Keeps(s, l) => Keeps(t, l)
      /\ Paired(t, v, b)
      /\ Repeating(t) <=> Repeating(s)
      /\ Single(s) => Single(t)
      /\ \A p : Due(t, b, p) = Due(s, b, p)
      /\ \A p \in Objects : /\ Mode(t, p) = Mode(s, p) /\ (IsAlive(t, p) <=> IsAlive(s, p))
                            /\ t.obj[p].grabbed = s.obj[p].grabbed
  BY SameFacts
<1>2. /\ s.in \in Seq(Objects) /\ Range(s.in) \subseteq Objects /\ Range(w.ins) \subseteq Objects
      /\ t.in = s.in /\ t.order = s.order /\ t.x = s.x /\ t.inside = s.inside /\ t.grabbed = s.grabbed
      /\ t.downs = s.downs /\ t.frozen = s.frozen
  BY CanvasFields, RangeFacts DEF Same, SameElse
<1>3. Lists(s, w) /\ Hover(s, w) /\ Held(s, w) /\ Outside(s, w) /\ Norepeat(s, w) /\ Even(s, w, b) /\ Single(s)
  BY DEF Body
<1>4. Range(w.rest) \subseteq Range(s.in)
  BY <1>3 DEF Lists
<1>5. Lists(t, v)
  <2>1. /\ IsInjective(s.in) /\ IsInjective(s.order)
        /\ \A p \in Objects : IsAlive(s, p) => p \in Range(s.order)
        /\ \A p \in Range(s.in) : IsAlive(s, p)
        /\ IsInjective(w.ins) /\ \A p \in Range(w.ins) : IsAlive(s, p)
        /\ w.at = "leave" => Range(w.rest) \intersect Range(w.ins) \subseteq Hit(s, w.x)
    BY <1>3 DEF Lists
  <2>2. \A p \in Objects : t.obj[p].life = s.obj[p].life
    BY DEF Same, SameObjects
  <2> QED BY <1>1, <1>2, <1>4, <2>1, <2>2 DEF Lists, Arriving
<1>6. Hover(t, v)
  BY <1>2, <1>3, <1>4 DEF Hover, HasPointer, Listed
<1>7. Held(t, v)
  <2>1. Holding(t, v) = Holding(s, w)
    BY <1>2 DEF Holding
  <2> QED BY <1>1, <1>2, <1>3, <1>4, <2>1 DEF Held, Leaving
<1>8. Outside(t, v)
  BY <1>2, <1>3 DEF Outside, Leaving
<1>9. Norepeat(t, v)
  BY <1>1, <1>2, <1>3 DEF Norepeat, Leaving
<1>10. Even(t, v, b)
  BY <1>1, <1>2, <1>3 DEF Even, Leaving, Listed
<1>11. Clean(s, w, b) => Clean(t, v, b)
  BY <1>1, <1>2 DEF Clean
<1> QED BY <1>1, <1>3, <1>5, <1>6, <1>7, <1>8, <1>9, <1>10, <1>11 DEF Body

\* The objects that were left are told so. The new list is looked at next, ...
LEMMA ArrivingBody ==
  ASSUME NEW s \in CanvasType, NEW w, NEW b, NEW v, Body(s, w, b), Paired(s, w, b),
         \/ w.at = "leave" /\ v.at = "enter"
         \/ w.at = "postout" /\ v.at = "postin" /\ s.inside,
         v.ins = w.ins, v.below = w.below, Range(w.rest) = {}, v.rest = w.ins
  PROVE  Body(s, v, b) /\ Paired(s, v, b) /\ (Clean(s, w, b) => Clean(s, v, b))
<1>1. Lists(s, v)
  BY DEF Body, Lists, Arriving
<1>2. Hover(s, v)
  BY DEF Body, Hover, HasPointer, Arriving
<1>3. Held(s, v)
  <2>1. Held(s, w)
    BY DEF Body
  <2>2. Holding(s, w) \subseteq Holding(s, v)
    BY DEF Holding
  <2> QED BY <2>1, <2>2 DEF Held, Leaving
<1>4. Outside(s, v)
  BY DEF Body, Outside, Leaving
<1>5. Norepeat(s, v)
  BY DEF Body, Norepeat, Leaving
<1>6. Even(s, v, b)
  BY DEF Body, Even, Leaving
<1>7. Paired(s, v, b)
  BY DEF Paired
<1>8. Clean(s, w, b) => Clean(s, v, b)
  BY DEF Clean
<1> QED BY <1>1, <1>2, <1>3, <1>4, <1>5, <1>6, <1>7, <1>8 DEF Body

\* ... and the objects of it are told that the pointer came to them.
LEMMA EnterBody ==
  ASSUME NEW s \in CanvasType, NEW t \in CanvasType, NEW w, NEW b, NEW v, NEW o \in Objects,
         Same(s, t), t.in = s.in, Body(s, w, b), Paired(s, w, b),
         w.at \in Arriving, v.at = w.at,
         v.ins = w.ins, v.x = w.x, v.below = w.below, w.ins \in Seq(Objects),
         Range(w.rest) = Range(v.rest) \union {o}, o \notin Range(v.rest),
         t.obj[o].in = TRUE, \A p \in Objects : p # o => t.obj[p].in = s.obj[p].in
  PROVE  Body(t, v, b) /\ Paired(t, v, b) /\ (Clean(s, w, b) => Clean(t, v, b))
<1>1. /\ Milder(s, t) /\ t.pressed = s.pressed /\ t.bad = s.bad
      /\ Counts(t) = Counts(s) /\ \A x : Hit(t, x) = Hit(s, x)
      /\ Hits(t, t.order, t.x) = Hits(s, s.order, s.x)
      /\ \A l \in Seq(Objects) : Keeps(s, l) => Keeps(t, l)
      /\ Paired(t, v, b)
      /\ Repeating(t) <=> Repeating(s)
      /\ Single(s) => Single(t)
      /\ \A p : Due(t, b, p) = Due(s, b, p)
      /\ \A p \in Objects : /\ Mode(t, p) = Mode(s, p) /\ (IsAlive(t, p) <=> IsAlive(s, p))
                            /\ t.obj[p].grabbed = s.obj[p].grabbed
  <2>1. v.at # "outed"
    BY DEF Arriving
  <2> QED BY <2>1, SameFacts
<1>2. /\ s.in \in Seq(Objects) /\ Range(s.in) \subseteq Objects /\ Range(w.ins) \subseteq Objects
      /\ t.in = s.in /\ t.order = s.order /\ t.x = s.x /\ t.inside = s.inside /\ t.grabbed = s.grabbed
      /\ t.downs = s.downs /\ t.frozen = s.frozen
  BY CanvasFields, RangeFacts DEF Same, SameElse
<1>3. Lists(s, w) /\ Hover(s, w) /\ Held(s, w) /\ Outside(s, w) /\ Norepeat(s, w) /\ Even(s, w, b) /\ Single(s)
  BY DEF Body
<1>4. Range(w.rest) \subseteq Range(w.ins)
  BY <1>3 DEF Lists
<1>5. Lists(t, v)
  <2>1. /\ IsInjective(s.in) /\ IsInjective(s.order)
        /\ \A p \in Objects : IsAlive(s, p) => p \in Range(s.order)
        /\ \A p \in Range(s.in) : IsAlive(s, p)
        /\ IsInjective(w.ins) /\ \A p \in Range(w.ins) : IsAlive(s, p)
    BY <1>3 DEF Lists
  <2>2. \A p \in Objects : t.obj[p].life = s.obj[p].life
    BY DEF Same, SameObjects
  <2> QED BY <1>1, <1>2, <1>4, <2>1, <2>2 DEF Lists, Arriving
<1>6. Hover(t, v)
  <2>1. \A p \in Objects : HasPointer(s, w, p) <=> p \in Range(w.ins) /\ (Listed(s, p) \/ p \notin Range(w.rest))
    BY DEF HasPointer, Arriving
  <2>2. \A p \in Objects : HasPointer(t, v, p) <=> p \in Range(w.ins) /\ (Listed(s, p) \/ p \notin Range(v.rest))
    BY <1>2 DEF HasPointer, Arriving, Listed
  <2> QED BY <1>3, <1>4, <2>1, <2>2 DEF Hover
<1>7. Held(t, v)
  <2>1. Holding(t, v) = Holding(s, w)
    BY <1>2 DEF Holding, Arriving
  <2> QED BY <1>1, <1>2, <1>3, <2>1 DEF Held, Leaving, Arriving
<1>8. Outside(t, v)
  BY <1>2, <1>3 DEF Outside, Leaving, Arriving
<1>9. Norepeat(t, v)
  BY <1>1, <1>2, <1>3 DEF Norepeat, Leaving, Arriving
<1>10. Even(t, v, b)
  BY <1>1, <1>2, <1>3 DEF Even, Leaving, Listed, Arriving
<1>11. Clean(s, w, b) => Clean(t, v, b)
  BY <1>1, <1>2 DEF Clean
<1> QED BY <1>1, <1>3, <1>5, <1>6, <1>7, <1>8, <1>9, <1>10, <1>11 DEF Body

\* The pointer is in the objects of the new list then.
LEMMA ArrivedBody ==
  ASSUME NEW s \in CanvasType, NEW t \in CanvasType, NEW w, NEW b, NEW v,
         t.obj = s.obj, SameElse(s, t), t.in = w.ins, Body(s, w, b), Paired(s, w, b),
         w.at \in Arriving, v.at = "", w.ins \in Seq(Objects), Range(w.rest) = {}
  PROVE  /\ Body(t, v, b) /\ Paired(t, v, b)
         /\ w.at # "postin" /\ Clean(s, w, b) => Clean(t, v, b)
<1>1. Same(s, t)
  BY DEF Same, SameObjects
<1>2. /\ Milder(s, t) /\ t.pressed = s.pressed /\ t.bad = s.bad
      /\ Counts(t) = Counts(s) /\ \A x : Hit(t, x) = Hit(s, x)
      /\ Hits(t, t.order, t.x) = Hits(s, s.order, s.x)
      /\ \A l \in Seq(Objects) : Keeps(s, l) => Keeps(t, l)
      /\ Paired(t, v, b)
      /\ Repeating(t) <=> Repeating(s)
      /\ Single(s) => Single(t)
      /\ \A p : Due(t, b, p) = Due(s, b, p)
      /\ \A p \in Objects : /\ Mode(t, p) = Mode(s, p) /\ (IsAlive(t, p) <=> IsAlive(s, p))
                            /\ t.obj[p].grabbed = s.obj[p].grabbed
  <2>1. v.at # "outed"
    OBVIOUS
  <2>2. Paired(s, w, b)
    OBVIOUS
  <2>3. Paired(t, v, b)
    BY <1>1, <2>1, <2>2, SameFacts
  <2>4. /\ Counts(t) = Counts(s) /\ \A x : Hit(t, x) = Hit(s, x)
        /\ Hits(t, t.order, t.x) = Hits(s, s.order, s.x)
        /\ \A p : Due(t, b, p) = Due(s, b, p)
    <3>1. \A l, x : Hits(t, l, x) = Hits(s, l, x)
      BY HitsSame
    <3>2. t.order = s.order /\ t.x = s.x /\ t.downs = s.downs
      BY DEF SameElse
    <3>3. Counts(t) = Counts(s)
      BY DEF Counts
    <3>4. \A x : Hit(t, x) = Hit(s, x)
      BY DEF Hit, Covers
    <3>5. \A p : Due(t, b, p) = Due(s, b, p)
      BY <3>2 DEF Due
    <3> QED BY <3>1, <3>2, <3>3, <3>4, <3>5
  <2>5. /\ Milder(s, t) /\ t.pressed = s.pressed /\ t.bad = s.bad
        /\ \A l \in Seq(Objects) : Keeps(s, l) => Keeps(t, l)
    BY <1>1, SameFacts
  <2>6. /\ Repeating(t) <=> Repeating(s)
        /\ Single(s) => Single(t)
    BY <1>1, SameFacts
  <2>7. \A p \in Objects : /\ Mode(t, p) = Mode(s, p) /\ (IsAlive(t, p) <=> IsAlive(s, p))
                           /\ t.obj[p].grabbed = s.obj[p].grabbed
    BY <1>1, SameFacts
  <2> QED BY <2>3, <2>4, <2>5, <2>6, <2>7
<1>3. /\ t.order = s.order /\ t.x = s.x /\ t.inside = s.inside /\ t.grabbed = s.grabbed
      /\ t.downs = s.downs /\ t.frozen = s.frozen /\ s.grabbed \in Nat /\ Range(w.ins) \subseteq Objects
  <2>1. s.grabbed \in Nat
    BY CanvasFields
  <2>2. Range(w.ins) \subseteq Objects
    BY RangeFacts
  <2> QED BY <2>1, <2>2 DEF SameElse
<1>4. Lists(s, w) /\ Hover(s, w) /\ Held(s, w) /\ Outside(s, w) /\ Norepeat(s, w) /\ Even(s, w, b) /\ Single(s)
  BY DEF Body
<1>5. Lists(t, v)
  BY <1>2, <1>3, <1>4 DEF Lists, Arriving
<1>6. Hover(t, v)
  <2>1. \A p \in Objects : HasPointer(s, w, p) <=> p \in Range(w.ins)
    BY DEF HasPointer, Arriving
  <2>2. \A p \in Objects : HasPointer(t, v, p) <=> p \in Range(w.ins)
    BY DEF HasPointer, Arriving, Listed
  <2> QED BY <1>4, <2>1, <2>2 DEF Hover
<1>7. s.grabbed = 0 => \A o \in Objects : s.obj[o].grabbed = 0
  BY <1>4, NoneGrabbed DEF Leaving, Arriving
<1>8. s.grabbed = 0 \/ (w.at = "enter" /\ ~Repeating(s))
  BY <1>4 DEF Held, Arriving, Repeating
<1>9. Held(t, v)
  <2>1. Holding(t, v) = Range(w.ins)
    BY DEF Holding
  <2>2. \A o \in Objects : s.obj[o].grabbed > 0 => o \in Range(w.ins)
    <3>1. CASE s.grabbed = 0
      BY <1>7, <3>1, ObjectFields, ZeroOrMore
    <3>2. CASE w.at = "enter"
      BY <1>4, <3>2 DEF Held, Holding
    <3> QED BY <1>8, <3>1, <3>2
  <2>3. /\ ~Leaving(w) => s.grabbed = Cardinality(GrabsOf(Counts(s)))
        /\ \A o \in Objects : Mode(s, o) = "nograb" => s.obj[o].grabbed = 0
    BY <1>4 DEF Held
  <2>4. ~Leaving(w)
    BY DEF Leaving, Arriving
  <2> QED BY <1>2, <1>3, <2>1, <2>2, <2>3, <2>4 DEF Held
<1>10. Outside(t, v)
  BY <1>3, <1>4 DEF Outside, Leaving, Arriving
<1>11. Norepeat(t, v)
  <2>1. ~Leaving(w)
    BY DEF Leaving, Arriving
  <2> QED BY <1>2, <1>3, <1>4, <1>8, <2>1, ZeroOrMore DEF Norepeat
<1>12. Even(t, v, b)
  <2>1. ~Leaving(w)
    BY DEF Leaving, Arriving
  <2> QED BY <1>2, <1>3, <1>4, <1>8, <2>1, ZeroOrMore DEF Even
<1>13. w.at # "postin" /\ Clean(s, w, b) => Clean(t, v, b)
  BY <1>2, <1>3 DEF Clean, Arriving
<1> QED BY <1>2, <1>4, <1>5, <1>6, <1>9, <1>10, <1>11, <1>12, <1>13 DEF Body

\* One object of the list is left, or it stays.
LEMMA OneLeaves ==
  ASSUME Assumed, Good(c), NEW place \in {"leave", "postout"}, More(place)
  PROVE  LET o == Head(Top(c).rest)
             s == Advance(c)
         IN  /\ o \notin Range(Top(c).ins) => Good(GoesOut(s, o)) /\ HolderKeeps(c, GoesOut(s, o))
             /\ o \in Range(Top(c).ins) =>
                  /\ Good(s) /\ SameRest(c, s) /\ s.stack # <<>> /\ c.inside
                  /\ place = "leave" => o \in Hit(c, Top(c).x)
<1> DEFINE f == Top(c)
           o == Head(f.rest)
           g == [f EXCEPT !.rest = Tail(@)]
           s == Advance(c)
           w == Walk(c)
           b == Button(c)
           n == Len(c.stack)
           v == Still(g)
<1>1. At(place) /\ place \in Walks /\ place \in Walks \union Buttons /\ place # "dragout"
  BY DEF More, At, Walks
<1>2. /\ c \in CanvasType /\ Sound(c) /\ c.stack # <<>> /\ Nested(c) /\ ~c.bad
      /\ Body(c, w, b) /\ Paired(c, w, b) /\ Clean(c, w, b) /\ f \in FrameType
      /\ w.at = place /\ w.rest = f.rest /\ w.ins = f.ins /\ w.x = f.x /\ w.below = f.below /\ f.at = place
  BY <1>1, AtFacts, WalkFields
<1>3. /\ o \in Objects /\ c.obj[o].life # "freed" /\ o \in Range(f.rest)
      /\ Range(f.rest) = Range(Tail(f.rest)) \union {o} /\ o \notin Range(Tail(f.rest))
      /\ g \in FrameType /\ g.at = place
      /\ v.at = place /\ v.rest = Tail(f.rest) /\ v.ins = f.ins /\ v.x = f.x /\ v.below = f.below
      /\ FitsIn(c, g, n)
      /\ s \in CanvasType /\ SameRest(c, s) /\ s.stack = [c.stack EXCEPT ![n] = g]
  BY <1>1, AdvanceFacts
<1>4. Changed(c, s, g)
  BY <1>2, <1>3, StackEffect DEF n
<1>5. s.stack # <<>>
  BY <1>2, <1>3, <1>4, ChangedFacts
<1>6. /\ Lists(c, w) /\ Hover(c, w) /\ Held(c, w) /\ Outside(c, w)
      /\ f.ins \in Seq(Objects)
  BY <1>2, FrameFields DEF Body
<1> HIDE DEF o, s, g, n, w, b, v
<1>7. o \in Range(c.in)
  BY <1>1, <1>2, <1>3, <1>6 DEF Lists
<1>8. c.obj[o].grabbed = 0
  <2>1. CASE place = "leave"
    BY <1>2, <1>3, <1>6, <2>1 DEF Held
  <2>2. CASE place = "postout"
    <3>1. c.grabbed = 0 /\ ~Leaving(w)
      BY <1>2, <1>6, <2>2 DEF Held, Leaving
    <3> QED BY <1>2, <1>3, <1>6, <3>1, NoneGrabbed
  <2> QED BY <2>1, <2>2
<1>9. ASSUME o \notin Range(f.ins) PROVE Good(GoesOut(s, o)) /\ HolderKeeps(c, GoesOut(s, o))
  <2> DEFINE t == PutIn(s, o, FALSE)
             u == GoesOut(s, o)
  <2>1. s.obj = c.obj /\ s.in = c.in /\ s.obj[o].grabbed = 0
    BY <1>3, <1>8 DEF SameRest, SameData
  <2>2. /\ t \in CanvasType /\ SameObjects(s, t) /\ SameElse(s, t) /\ t.in = s.in /\ t.stack = s.stack
        /\ t.obj[o].in = FALSE /\ \A p \in Objects : p # o => t.obj[p].in = s.obj[p].in
        /\ Quieter(t, u)
    BY <1>3, <1>5, <2>1, GoesOutEffect
  <2> HIDE DEF t, u
  <2>3. /\ Same(c, t) /\ t.in = c.in /\ t.stack = [c.stack EXCEPT ![n] = g]
        /\ \A p \in Objects : p # o => t.obj[p].in = c.obj[p].in
    BY <1>3, <2>1, <2>2 DEF Same, SameObjects, SameElse, SameRest, SameData
  <2>4. Body(t, v, b) /\ Paired(t, v, b) /\ Clean(t, v, b)
    <3>1. /\ w.at \in {"leave", "postout"} /\ v.at = w.at /\ v.ins = w.ins /\ v.x = w.x
          /\ v.below = w.below /\ w.ins \in Seq(Objects) /\ Range(w.rest) = Range(v.rest) \union {o}
          /\ o \notin Range(v.rest)
      BY <1>2, <1>3, <1>6
    <3>2. o \notin Range(w.ins) /\ t.obj[o].in = FALSE
      BY <1>2, <1>9, <2>2
    <3>3. t \in CanvasType /\ Same(c, t) /\ t.in = c.in
      BY <2>2, <2>3
    <3>4. \A p \in Objects : p # o => t.obj[p].in = c.obj[p].in
      BY <2>3
    <3>5. c \in CanvasType /\ o \in Objects /\ Body(c, w, b) /\ Paired(c, w, b) /\ Clean(c, w, b)
      BY <1>2, <1>3
    <3>6. (o \in Range(w.ins) => t.obj[o].in = TRUE) /\ (o \notin Range(w.ins) => t.obj[o].in = FALSE)
      BY <3>2
    <3> QED BY <3>1, <3>3, <3>4, <3>5, <3>6, LeaveBody
  <2>5. Milder(c, t) /\ t.pressed = c.pressed /\ t.bad = c.bad
    BY <2>3, SameFacts
  <2>6. Good(t)
    BY <1>1, <1>2, <1>3, <2>2, <2>3, <2>4, <2>5, WalkStep DEF n, v, b
  <2>7. Good(u) /\ SameData(t, u)
    BY <2>2, <2>6, QuieterSound DEF Good
  <2> QED BY <1>8, <2>3, <2>7 DEF HolderKeeps, SameData, u
<1>10. ASSUME o \in Range(f.ins)
       PROVE  Good(s) /\ c.inside /\ (place = "leave" => o \in Hit(c, f.x))
  <2>1. Same(c, c) /\ c.obj[o].in = TRUE
    <3>1. HasPointer(c, w, o)
      BY <1>1, <1>2, <1>3, <1>7, <1>10 DEF HasPointer, Listed
    <3>2. c.obj[o].in \in BOOLEAN
      BY <1>2, <1>3, ObjectFields
    <3>3. c.obj[o].in
      BY <1>3, <1>6, <3>1 DEF Hover
    <3> QED BY <3>2, <3>3 DEF Same, SameObjects, SameElse
  <2>2. Body(c, v, b) /\ Paired(c, v, b) /\ Clean(c, v, b)
    <3>1. /\ w.at \in {"leave", "postout"} /\ v.at = w.at /\ v.ins = w.ins /\ v.x = w.x
          /\ v.below = w.below /\ w.ins \in Seq(Objects) /\ Range(w.rest) = Range(v.rest) \union {o}
          /\ o \notin Range(v.rest)
      BY <1>2, <1>3, <1>6
    <3>2. c \in CanvasType /\ o \in Objects /\ Body(c, w, b) /\ Paired(c, w, b) /\ Clean(c, w, b)
      BY <1>2, <1>3
    <3>3. (o \in Range(w.ins) => c.obj[o].in = TRUE) /\ (o \notin Range(w.ins) => c.obj[o].in = FALSE)
      BY <1>2, <1>10, <2>1
    <3> QED BY <2>1, <3>1, <3>2, <3>3, LeaveBody
  <2>3. Body(s, v, b) /\ Paired(s, v, b) /\ Clean(s, v, b)
    BY <1>3, <2>2, SameRestFacts
  <2>4. Milder(c, s) /\ s.pressed = c.pressed /\ s.bad = c.bad
    BY <1>3 DEF Milder, SameKind, SameRest, SameData, IsAlive
  <2>5. Good(s)
    BY <1>1, <1>2, <1>3, <2>3, <2>4, WalkStep DEF n, v, b
  <2>6. c.inside
    <3>1. c.in # <<>> /\ c.inside \in BOOLEAN
      BY <1>2, <1>7, CanvasFields DEF Range
    <3> QED BY <1>1, <1>2, <1>6, <3>1 DEF Outside, Leaving
  <2>7. place = "leave" => o \in Hit(c, f.x)
    BY <1>2, <1>3, <1>6, <1>10 DEF Lists
  <2> QED BY <2>5, <2>6, <2>7
<1> QED BY <1>3, <1>5, <1>9, <1>10 DEF o, s

\* An object the pointer was in hears that it moved or has left.
LEMMA LeaveGood ==
  ASSUME Assumed, Good(c), Leave
  PROVE  Good(c') /\ HolderKeeps(c, c')
<1> DEFINE f == Top(c)
           o == Head(f.rest)
           s == Advance(c)
           stays == /\ c.frozen = 0 /\ Covers(c, o, f.x) /\ Contains(f.ins, o)
                    /\ c.obj[o].visible \/ c.obj[o].grabbed > 0
                    /\ ~c.obj[o].pass
<1>1. More("leave") /\ At("leave") /\ "leave" \in Walks
  BY DEF Leave, More, At, Walks
<1>2. /\ o \notin Range(f.ins) => Good(GoesOut(s, o)) /\ HolderKeeps(c, GoesOut(s, o))
      /\ o \in Range(f.ins) => Good(s) /\ SameRest(c, s) /\ s.stack # <<>> /\ o \in Hit(c, f.x)
  BY <1>1, OneLeaves
<1>3. o \in Objects /\ c.obj[o].life # "freed"
  BY <1>1, AdvanceFacts
<1>4. c.frozen = 0 /\ f.ins \in Seq(Objects)
  BY <1>1, AtFacts, FrameFields
<1>5. c' = IF ~stays THEN GoesOut(s, o) ELSE IF f.moved THEN Tell(s, o, "move") ELSE s
  BY <1>3, ReadingFacts DEF Leave, Head_
<1>6. Contains(f.ins, o) <=> o \in Range(f.ins)
  BY <1>4, RangeFacts DEF Contains
<1>7. o \in Hit(c, f.x) => Covers(c, o, f.x) /\ c.obj[o].visible /\ ~c.obj[o].pass
  BY DEF Hit
<1> HIDE DEF o, s
<1>8. stays <=> o \in Range(f.ins)
  BY <1>2, <1>4, <1>6, <1>7
<1> HIDE DEF stays
<1>9. CASE o \notin Range(f.ins)
  BY <1>2, <1>5, <1>8, <1>9
<1>10. CASE o \in Range(f.ins)
  <2>1. c' = s \/ c' = Tell(s, o, "move")
    BY <1>5, <1>8, <1>10
  <2>2. Good(c') /\ SameData(s, c')
    BY <1>2, <1>3, <1>10, <2>1, MoveTold
  <2> QED BY <1>2, <1>10, <2>2, SameHolders DEF SameRest, SameData
<1> QED BY <1>9, <1>10

\* The same when the last button is up.
LEMMA PostOutGood ==
  ASSUME Assumed, Good(c), PostOut
  PROVE  Good(c') /\ HolderKeeps(c, c')
<1> DEFINE f == Top(c)
           o == Head(f.rest)
           s == Advance(c)
<1>1. More("postout") /\ At("postout") /\ "postout" \in Walks
  BY DEF PostOut, More, At, Walks
<1>2. /\ o \notin Range(f.ins) => Good(GoesOut(s, o)) /\ HolderKeeps(c, GoesOut(s, o))
      /\ o \in Range(f.ins) => Good(s) /\ SameRest(c, s) /\ c.inside
  BY <1>1, OneLeaves
<1>3. o \in Objects /\ c.obj[o].life # "freed"
  BY <1>1, AdvanceFacts
<1>4. f.ins \in Seq(Objects)
  BY <1>1, AtFacts, FrameFields
<1>5. c' = IF ~Contains(f.ins, o) \/ ~c.inside THEN GoesOut(s, o) ELSE s
  BY <1>3, ReadingFacts DEF PostOut, Head_
<1>6. Contains(f.ins, o) <=> o \in Range(f.ins)
  BY <1>4, RangeFacts DEF Contains
<1> HIDE DEF o, s
<1>7. CASE o \notin Range(f.ins)
  BY <1>2, <1>5, <1>6, <1>7
<1>8. CASE o \in Range(f.ins)
  BY <1>2, <1>5, <1>6, <1>8, SameHolders DEF SameRest, SameData
<1> QED BY <1>7, <1>8

\* The walk over the objects that were left goes on to those of the new list.
LEMMA ArrivingGood ==
  ASSUME Assumed, Good(c), NEW place, NEW next,
         \/ place = "leave" /\ next = "enter"
         \/ place = "postout" /\ next = "postin" /\ c.inside,
         Done(place), c' = Become(c, [Top(c) EXCEPT !.at = next, !.rest = Top(c).ins, !.gone = {}])
  PROVE  Good(c') /\ HolderKeeps(c, c')
<1> DEFINE f == Top(c)
           g == [f EXCEPT !.at = next, !.rest = f.ins, !.gone = {}]
           w == Walk(c)
           b == Button(c)
           n == Len(c.stack)
           v == Still(g)
<1>1. At(place) /\ f.rest = <<>> /\ place \in Walks /\ next \in Walks
  BY DEF Done, At, Walks
<1>2. /\ c \in CanvasType /\ Sound(c) /\ c.stack # <<>> /\ f \in FrameType /\ IsFrame(f) /\ f.at = place
      /\ FitsIn(c, f, n) /\ c.frozen = 0
      /\ Body(c, w, b) /\ Paired(c, w, b) /\ Clean(c, w, b)
      /\ w.at = place /\ w.rest = f.rest /\ w.ins = f.ins /\ w.x = f.x /\ w.below = f.below
  BY <1>1, AtFacts, WalkFields
<1>3. /\ f.ins \in Seq(Objects) /\ f.x \in Points /\ f.moved \in BOOLEAN /\ f.below \in BOOLEAN
      /\ f.cur \in Objects \union {NoObject}
  BY <1>2, FrameFields
<1>4. IsInjective(f.ins) /\ \A o \in Range(f.ins) : IsAlive(c, o)
  BY <1>2 DEF Body, Lists
<1>5. /\ IsFrame(g) /\ g.at = next /\ g.rest = f.ins /\ g.ins = f.ins /\ g.cur = f.cur
      /\ g.x = f.x /\ g.moved = f.moved /\ g.below = f.below /\ g.gone = {}
  BY <1>2 DEF IsFrame
<1> HIDE DEF g, n, w, b
<1>6. g \in FrameType /\ v.at = next /\ v.rest = f.ins /\ v.ins = f.ins /\ v.below = f.below
  BY <1>1, <1>3, <1>5, Places
<1>7. FitsIn(c, g, n)
  BY <1>2, <1>4, <1>5 DEF FitsIn, Bottoms, Buttons, IsAlive
<1>8. Range(w.rest) = {}
  BY <1>1, <1>2, EmptySeq, RangeFacts
<1> HIDE DEF v
<1>9. Body(c, v, b) /\ Paired(c, v, b) /\ Clean(c, v, b)
  BY <1>2, <1>6, <1>8, ArrivingBody
<1>10. Good(c') /\ SameRest(c, c')
  BY <1>1, <1>2, <1>5, <1>6, <1>7, <1>9, WalkBecomes DEF n, v, b, g
<1> QED BY <1>10, SameHolders DEF SameRest, SameData

\* All that the pointer left know it; those it came to are told next.
LEMMA LeaveDoneGood ==
  ASSUME Assumed, Good(c), LeaveDone
  PROVE  Good(c') /\ HolderKeeps(c, c')
  BY ArrivingGood DEF LeaveDone

\* An object the pointer came to is told so.
LEMMA EnterGood ==
  ASSUME Assumed, Good(c), NEW place \in {"enter", "in", "postin"}, Enter(place)
  PROVE  Good(c') /\ HolderKeeps(c, c')
<1> DEFINE f == Top(c)
           o == Head(f.rest)
           g == [f EXCEPT !.rest = Tail(@)]
           s == Advance(c)
           w == Walk(c)
           b == Button(c)
           n == Len(c.stack)
           v == Still(g)
           t == PutIn(s, o, TRUE)
<1>1. More(place) /\ At(place) /\ place \in Walks /\ place \in Walks \union Buttons /\ place # "dragout"
  BY DEF Enter, More, At, Walks
<1>2. /\ c \in CanvasType /\ Sound(c) /\ c.stack # <<>> /\ Nested(c) /\ ~c.bad
      /\ Body(c, w, b) /\ Paired(c, w, b) /\ Clean(c, w, b) /\ f \in FrameType
      /\ w.at = place /\ w.rest = f.rest /\ w.ins = f.ins /\ w.x = f.x /\ w.below = f.below /\ f.at = place
  BY <1>1, AtFacts, WalkFields
<1>3. /\ o \in Objects /\ c.obj[o].life # "freed" /\ o \in Range(f.rest)
      /\ Range(f.rest) = Range(Tail(f.rest)) \union {o} /\ o \notin Range(Tail(f.rest))
      /\ g \in FrameType /\ g.at = place
      /\ v.at = place /\ v.rest = Tail(f.rest) /\ v.ins = f.ins /\ v.x = f.x /\ v.below = f.below
      /\ FitsIn(c, g, n)
      /\ s \in CanvasType /\ SameRest(c, s) /\ s.stack = [c.stack EXCEPT ![n] = g]
  BY <1>1, AdvanceFacts
<1>4. Changed(c, s, g)
  BY <1>2, <1>3, StackEffect DEF n
<1>5. s.stack # <<>>
  BY <1>2, <1>3, <1>4, ChangedFacts
<1>6. c' = ComesIn(s, o)
  BY <1>3, ReadingFacts DEF Enter, Head_
<1>7. Lists(c, w) /\ Hover(c, w) /\ f.ins \in Seq(Objects)
  BY <1>2, FrameFields DEF Body
<1> HIDE DEF o, s, g, n, w, b, v
<1>8. o \in Range(w.ins)
  BY <1>2, <1>3, <1>7 DEF Lists, Arriving
<1>9. o \in Range(s.in) => s.obj[o].in
  <2>1. Listed(c, o) => HasPointer(c, w, o)
    BY <1>2, <1>8 DEF HasPointer, Arriving
  <2> QED BY <1>3, <1>7, <2>1 DEF Hover, SameRest, SameData, Listed
<1>10. /\ t \in CanvasType /\ SameObjects(s, t) /\ SameElse(s, t) /\ t.in = s.in /\ t.stack = s.stack
       /\ t.obj[o].in /\ \A p \in Objects : p # o => t.obj[p].in = s.obj[p].in
       /\ Quieter(t, ComesIn(s, o))
  BY <1>3, <1>5, <1>9, ComesInEffect
<1> HIDE DEF t
<1>11. Same(c, t) /\ t.in = c.in /\ t.stack = [c.stack EXCEPT ![n] = g]
  BY <1>3, <1>10 DEF Same, SameObjects, SameElse, SameRest, SameData
<1>12. t.obj[o].in = TRUE /\ \A p \in Objects : p # o => t.obj[p].in = c.obj[p].in
  <2>1. t.obj[o].in \in BOOLEAN
    BY <1>3, <1>10, ObjectFields
  <2> QED BY <1>3, <1>10, <2>1 DEF SameRest, SameData
<1>13. Body(t, v, b) /\ Paired(t, v, b) /\ Clean(t, v, b)
  <2>1. /\ w.at \in Arriving /\ v.at = w.at /\ v.ins = w.ins /\ v.x = w.x
        /\ v.below = w.below /\ w.ins \in Seq(Objects) /\ Range(w.rest) = Range(v.rest) \union {o}
        /\ o \notin Range(v.rest)
    BY <1>2, <1>3, <1>7 DEF Arriving
  <2>2. c \in CanvasType /\ o \in Objects /\ Body(c, w, b) /\ Paired(c, w, b) /\ Clean(c, w, b)
    BY <1>2, <1>3
  <2>3. t \in CanvasType
    BY <1>10
  <2> QED BY <1>11, <1>12, <2>1, <2>2, <2>3, EnterBody
<1>14. Milder(c, t) /\ t.pressed = c.pressed /\ t.bad = c.bad
  BY <1>11, SameFacts
<1>15. Good(t)
  BY <1>1, <1>2, <1>3, <1>10, <1>11, <1>13, <1>14, WalkStep DEF n, v, b
<1>16. Good(c') /\ SameData(t, c')
  BY <1>6, <1>10, <1>15, QuieterSound DEF Good
<1>17. \A p \in Objects : c.obj[p].in => c'.obj[p].in
  BY <1>12, <1>16 DEF SameData
<1> QED BY <1>16, <1>17 DEF HolderKeeps

\* The walk over the new list ends, and leaves the canvas sound.
LEMMA ArrivedSound ==
  ASSUME Assumed, Good(c), NEW place \in {"enter", "in", "postin"}, Done(place),
         NEW t, t = Return(SetIn(c, Top(c).ins)) \/ t = SetIn(Return(c), Top(c).ins)
                \/ t = Return([c EXCEPT !.in = Top(c).ins])
  PROVE  /\ Sound(t) /\ (place # "postin" => Good(t)) /\ t.obj = c.obj /\ Waiting(t)
         /\ SameElse(c, t)
<1> DEFINE f == Top(c)
           w == Walk(c)
           b == Button(c)
           v == Still(Blank)
<1>1. At(place) /\ f.rest = <<>> /\ place \in Walks
  BY DEF Done, At, Walks
<1>2. /\ c \in CanvasType /\ Sound(c) /\ c.stack # <<>> /\ f \in FrameType /\ f.at = place
      /\ Body(c, w, b) /\ Paired(c, w, b) /\ Clean(c, w, b)
      /\ w.at = place /\ w.rest = f.rest /\ w.ins = f.ins
  BY <1>1, AtFacts, WalkFields
<1>3. f.ins \in Seq(Objects)
  BY <1>2, FrameFields
<1> DEFINE u == [c EXCEPT !.in = f.ins]
<1>4. /\ u \in CanvasType /\ SameElse(c, u) /\ u.in = f.ins /\ u.stack = c.stack /\ u.obj = c.obj
  BY <1>2, <1>3, ListEffect
<1>5. t = Return(u) \/ t = SetIn(Return(c), f.ins)
  BY DEF SetIn
<1> HIDE DEF u
<1>6. /\ t \in CanvasType /\ t.obj = c.obj /\ SameElse(c, t) /\ t.in = f.ins /\ t.stack = Front(c.stack)
  <2>1. CASE t = Return(u)
    <3>1. t \in CanvasType /\ SameRest(u, t) /\ t.stack = Front(u.stack)
      BY <1>2, <1>4, <2>1, ReturnEffect
    <3> QED BY <1>4, <3>1 DEF SameRest, SameData, SameElse
  <2>2. CASE t = SetIn(Return(c), f.ins)
    <3> DEFINE r == Return(c)
    <3>1. r \in CanvasType /\ SameRest(c, r) /\ r.stack = Front(c.stack)
      BY <1>2, ReturnEffect
    <3>2. t = [r EXCEPT !.in = f.ins]
      BY <2>2 DEF SetIn
    <3> HIDE DEF r
    <3>3. t \in CanvasType /\ SameElse(r, t) /\ t.in = f.ins /\ t.stack = r.stack /\ t.obj = r.obj
      BY <1>3, <3>1, <3>2, ListEffect
    <3> QED BY <3>1, <3>3 DEF SameRest, SameData, SameElse
  <2> QED BY <1>5, <2>1, <2>2
<1> HIDE DEF w, b, v
<1>7. /\ Body(t, v, b) /\ Paired(t, v, b)
      /\ w.at # "postin" /\ Clean(c, w, b) => Clean(t, v, b)
  <2>1. /\ w.at \in Arriving /\ v.at = "" /\ w.ins \in Seq(Objects) /\ Range(w.rest) = {}
        /\ t.in = w.ins
    <3>1. v.at = ""
      BY StillFields, BlankFields DEF v
    <3>2. Range(w.rest) = {}
      BY <1>1, <1>2, EmptySeq, RangeFacts
    <3> QED BY <1>2, <1>3, <1>6, <3>1, <3>2 DEF Arriving
  <2>2. c \in CanvasType /\ t \in CanvasType /\ t.obj = c.obj /\ SameElse(c, t)
        /\ Body(c, w, b) /\ Paired(c, w, b)
    BY <1>2, <1>6
  <2> QED BY <2>1, <2>2, ArrivedBody
<1>8. Milder(c, t) /\ t.pressed = c.pressed /\ t.bad = c.bad
  BY <1>6 DEF Milder, SameKind, SameElse, IsAlive
<1>9. Sound(t) /\ (Clean(t, v, b) => Good(t)) /\ (t.stack = <<>> \/ Top(t).at \in Waits)
  BY <1>1, <1>2, <1>6, <1>7, <1>8, WalkEnds DEF v, b
<1> QED BY <1>2, <1>6, <1>7, <1>9 DEF Waiting

\* All that the pointer came to know it: they are the list of the pointer,
\* unless it was grabbed in between.
LEMMA EnterDoneGood ==
  ASSUME Assumed, Good(c), EnterDone
  PROVE  Good(c') /\ HolderKeeps(c, c')
<1> DEFINE t == Return(SetIn(c, Top(c).ins))
<1>1. Done("enter") /\ At("enter") /\ "enter" \in Walks
  BY DEF EnterDone, Done, At, Walks
<1>2. c.grabbed = 0 \/ Top(c).below
  <2>1. Held(c, Walk(c)) /\ Walk(c).at = "enter" /\ Walk(c).below = Top(c).below
    BY <1>1, AtFacts, WalkFields DEF Body
  <2> QED BY <2>1 DEF Held
<1>3. c' = t
  BY <1>2 DEF EnterDone
<1>4. Good(t) /\ t.obj = c.obj
  BY <1>1, ArrivedSound
<1> HIDE DEF t
<1> QED BY <1>3, <1>4, SameHolders

\* The same when the pointer came into the canvas; a move is fed then.
LEMMA InDoneGood ==
  ASSUME Assumed, Good(c), InDone
  PROVE  Good(c') /\ HolderKeeps(c, c')
<1> DEFINE t == Return(SetIn(c, Top(c).ins))
<1>1. Done("in") /\ c' = FeedMove(t, c.x) /\ At("in")
  BY DEF InDone, Done, At
<1>2. Sound(t) /\ t.obj = c.obj /\ Waiting(t)
  BY <1>1, ArrivedSound
<1>3. c.x \in Points
  BY <1>1, AtFacts, CanvasFields
<1> HIDE DEF t
<1>4. Good(c') /\ c'.obj = t.obj
  BY <1>1, <1>2, <1>3, FeedMoveGood
<1> QED BY <1>2, <1>4, SameHolders

\* The same when the last button is up.
LEMMA PostInDoneGood ==
  ASSUME Assumed, Good(c), PostInDone
  PROVE  Good(c') /\ HolderKeeps(c, c')
<1> DEFINE t == Return(SetIn(c, Top(c).ins))
<1>1. Done("postin") /\ At("postin") /\ "postin" \in Walks
  BY DEF PostInDone, Done, At, Walks
<1>2. c.grabbed = 0 /\ c.inside
  <2>1. Held(c, Walk(c)) /\ Outside(c, Walk(c)) /\ Walk(c).at = "postin"
    BY <1>1, AtFacts, WalkFields DEF Body
  <2> QED BY <2>1 DEF Held, Outside
<1>3. c' = FeedMove(t, c.x)
  BY <1>2 DEF PostInDone
<1>4. Sound(t) /\ t.obj = c.obj /\ Waiting(t)
  BY <1>1, ArrivedSound
<1>5. c.x \in Points
  BY <1>1, AtFacts, CanvasFields
<1> HIDE DEF t
<1>6. Good(c') /\ c'.obj = t.obj
  BY <1>3, <1>4, <1>5, FeedMoveGood
<1> QED BY <1>4, <1>6, SameHolders

\* The same of those it left: outside the canvas, the list is empty now.
LEMMA PostOutDoneGood ==
  ASSUME Assumed, Good(c), PostOutDone
  PROVE  Good(c') /\ HolderKeeps(c, c')
<1> DEFINE w == Walk(c)
           b == Button(c)
           v == Still(Blank)
           u == SetIn(c, <<>>)
<1>1. Done("postout") /\ At("postout") /\ "postout" \in Walks /\ Top(c).rest = <<>>
  BY DEF PostOutDone, Done, At, Walks
<1>2. /\ c \in CanvasType /\ Sound(c) /\ c.stack # <<>> /\ Top(c).at = "postout"
      /\ Body(c, w, b) /\ Paired(c, w, b) /\ w.at = "postout" /\ w.rest = <<>>
      /\ c.inside \in BOOLEAN
  BY <1>1, AtFacts, WalkFields, CanvasFields
<1>3. CASE c.inside
  BY <1>1, <1>3, ArrivingGood DEF PostOutDone
<1>4. CASE ~c.inside
  <2>1. c.grabbed = 0 /\ c.in = <<>> /\ ~Leaving(w)
    BY <1>2, <1>4 DEF Body, Held, Outside, Leaving
  <2>2. c' = Return(u)
    BY <1>4, <2>1 DEF PostOutDone
  <2>3. u \in CanvasType /\ SameElse(c, u) /\ u.in = <<>> /\ u.stack = c.stack /\ u.obj = c.obj
    BY <1>2, EmptySeq, ListEffect DEF SetIn
  <2> HIDE DEF u
  <2>4. c' \in CanvasType /\ SameRest(u, c') /\ c'.stack = Front(c.stack)
    BY <1>2, <2>2, <2>3, ReturnEffect
  <2>5. /\ SameButPoint(c, c') /\ c'.x = c.x
    BY <2>1, <2>3, <2>4 DEF SameRest, SameData, SameElse, SameButPoint
  <2>6. v.at = ""
    BY StillFields, BlankFields
  <2> HIDE DEF v, w, b
  <2>7. \A o \in Objects : c.obj[o].grabbed = 0
    BY <1>2, <2>1, NoneGrabbed DEF Body
  <2>8. Range(c.in) = {}
    BY <2>1, EmptySeq, RangeFacts
  <2>9. Lists(c', v)
    BY <1>2, <2>5, <2>6 DEF Body, Lists, Arriving, SameButPoint, IsAlive
  <2>10. Hover(c', v)
    BY <1>2, <2>5, <2>6, <2>8 DEF Body, Hover, HasPointer, Listed, Arriving, SameButPoint
  <2>11. Held(c', v)
    <3>1. Counts(c') = Counts(c)
      BY <2>5 DEF Counts, SameButPoint
    <3>2. /\ c.grabbed = Cardinality(GrabsOf(Counts(c)))
          /\ \A o \in Objects : c.obj[o].grabbed > 0 => o \in Range(c.in)
          /\ \A o \in Objects : Mode(c, o) = "nograb" => c.obj[o].grabbed = 0
      BY <1>2, <2>1 DEF Body, Held, Holding
    <3>3. Holding(c', v) = Range(c.in)
      BY <2>5, <2>6 DEF Holding, SameButPoint
    <3> QED BY <2>5, <2>6, <3>1, <3>2, <3>3 DEF Held, SameButPoint, Mode
  <2>12. Outside(c', v)
    BY <2>1, <2>5, <2>6 DEF Outside, Leaving, SameButPoint
  <2>13. Norepeat(c', v)
    BY <2>1, <2>5 DEF Norepeat, SameButPoint
  <2>14. Even(c', v, b)
    BY <1>2, <2>1, <2>5 DEF Body, Even, Leaving, Due, Listed, Repeating, Mode, SameButPoint
  <2>15. Paired(c', v, b)
    BY <1>2, <2>5, <2>6 DEF Paired, Owed, IsAlive, Mode, Repeating, SameButPoint
  <2>16. Clean(c', v, b)
    BY <1>4, <2>5 DEF Clean, SameButPoint
  <2>17. Body(c', v, b)
    BY <1>2, <2>5, <2>9, <2>10, <2>11, <2>12, <2>13, <2>14 DEF Body, Single, Mode, SameButPoint
  <2>18. Milder(c, c') /\ c'.pressed = c.pressed /\ c'.bad = c.bad
    BY <2>5 DEF Milder, SameKind, SameButPoint, IsAlive
  <2>19. Good(c')
    BY <1>1, <1>2, <2>4, <2>15, <2>16, <2>17, <2>18, WalkEnds DEF v, b
  <2> QED BY <2>5, <2>19, SameHolders DEF SameButPoint
<1> QED BY <1>2, <1>3, <1>4

-----------------------------------------------------------------------------
(***************************************************************************)
(* evas_event_feed_mouse_in and evas_event_feed_mouse_out                  *)
(***************************************************************************)

\* Some walks run alone.
LEMMA AloneFacts ==
  ASSUME NEW s \in CanvasType, Nested(s), s.stack # <<>>, Top(s).at \in Walks \intersect Bottoms
  PROVE  Len(s.stack) = 1 /\ Button(s) = Still(Blank) /\ Button(s).at = ""
<1>1. Len(s.stack) = 1 /\ Top(s) = s.stack[1]
  BY TopFits, StackFacts DEF FitsIn
<1>2. Top(s).at \notin Buttons
  BY DEF Walks, Buttons
<1> QED BY <1>1, <1>2, StillFields, BlankFields DEF Button

\* The pointer enters or leaves the canvas.
PutInside(s, v) == [s EXCEPT !.inside = v]

\* The pointer is inside the canvas, or is not: nothing else changes.
LEMMA InsideEffect ==
  ASSUME NEW s \in CanvasType, NEW v \in BOOLEAN
  PROVE  LET t == PutInside(s, v)
         IN  /\ t \in CanvasType /\ t.inside = v
             /\ t.obj = s.obj /\ t.order = s.order /\ t.x = s.x /\ t.in = s.in
             /\ t.grabbed = s.grabbed /\ t.nogrep = s.nogrep /\ t.downs = s.downs
             /\ t.frozen = s.frozen /\ t.bad = s.bad /\ t.pressed = s.pressed /\ t.stack = s.stack
<1> DEFINE t == PutInside(s, v)
<1>1. IsRecord(s)
  BY CanvasIsRecord
<1>2. /\ IsRecord(t) /\ t.inside = v
      /\ t.obj = s.obj /\ t.order = s.order /\ t.x = s.x /\ t.in = s.in
      /\ t.grabbed = s.grabbed /\ t.nogrep = s.nogrep /\ t.downs = s.downs
      /\ t.frozen = s.frozen /\ t.bad = s.bad /\ t.pressed = s.pressed /\ t.stack = s.stack
  BY <1>1 DEF IsRecord, PutInside
<1> HIDE DEF t
<1>3. t \in CanvasType
  BY <1>2, CanvasFields, CanvasRecord
<1> QED BY <1>2, <1>3 DEF t

\* A canvas is the same but for whether the pointer is inside, and its functions.
SameButInside(s, t) ==
  /\ t.obj = s.obj /\ t.order = s.order /\ t.x = s.x /\ t.in = s.in
  /\ t.grabbed = s.grabbed /\ t.nogrep = s.nogrep /\ t.downs = s.downs
  /\ t.frozen = s.frozen /\ t.bad = s.bad /\ t.pressed = s.pressed

\* A canvas that differs in this alone: what else is built from it is the same.
LEMMA SameButInsideFacts ==
  ASSUME NEW s, NEW t, SameButInside(s, t)
  PROVE  /\ Milder(s, t) /\ Counts(t) = Counts(s) /\ Hits(t, t.order, t.x) = Hits(s, s.order, s.x)
         /\ (Repeating(t) <=> Repeating(s)) /\ (Single(s) => Single(t))
         /\ \A l : Keeps(s, l) => Keeps(t, l)
         /\ \A o : /\ Mode(t, o) = Mode(s, o) /\ (IsAlive(t, o) <=> IsAlive(s, o))
                   /\ \A b : Due(t, b, o) = Due(s, b, o) /\ Owed(t, b, o) = Owed(s, b, o)
<1>1. t.obj = s.obj /\ t.order = s.order /\ t.x = s.x /\ t.downs = s.downs /\ t.frozen = s.frozen
  BY DEF SameButInside
<1>2. Milder(s, t) /\ Counts(t) = Counts(s)
  BY <1>1 DEF Milder, SameKind, IsAlive, Counts
<1>3. Hits(t, t.order, t.x) = Hits(s, s.order, s.x)
  <2>1. \A l, x : Hits(t, l, x) = Hits(s, l, x)
    BY <1>1, HitsSame
  <2> QED BY <1>1, <2>1
<1>4. \A o : Mode(t, o) = Mode(s, o) /\ (IsAlive(t, o) <=> IsAlive(s, o))
  BY <1>1 DEF Mode, IsAlive
<1>5. (Repeating(t) <=> Repeating(s)) /\ (Single(s) => Single(t))
  BY <1>4 DEF Repeating, Single
<1>6. \A l : Keeps(s, l) => Keeps(t, l)
  BY <1>1, <1>4 DEF Keeps, KeptBy
<1>7. \A o, b : Due(t, b, o) = Due(s, b, o) /\ Owed(t, b, o) = Owed(s, b, o)
  BY <1>1, <1>4 DEF Due, Owed
<1> QED BY <1>2, <1>3, <1>4, <1>5, <1>6, <1>7

\* What is known of a canvas that nothing runs on.
LEMMA IdleFacts ==
  ASSUME Good(c), Idle
  PROVE  /\ c \in CanvasType /\ Sound(c) /\ Nested(c) /\ ~c.bad /\ c.stack = <<>> /\ Len(c.stack) = 0
         /\ Walk(c) = Still(Blank) /\ Button(c) = Still(Blank) /\ Still(Blank).at = "" /\ Gone(c) = {}
         /\ Body(c, Still(Blank), Still(Blank)) /\ Paired(c, Still(Blank), Still(Blank))
         /\ Missed(c, Still(Blank)) /\ Clean(c, Still(Blank), Still(Blank))
         /\ ~Leaving(Still(Blank)) /\ Waiting(c)
<1>1. c \in CanvasType /\ Sound(c) /\ Nested(c) /\ ~c.bad /\ c.stack = <<>> /\ Len(c.stack) = 0
  BY EmptySeq DEF Good, Sound, Idle
<1>2. Walk(c) = Still(Blank) /\ Button(c) = Still(Blank) /\ Still(Blank).at = "" /\ Gone(c) = {}
  BY <1>1, StillFields, BlankFields DEF Walk, Button, Gone
<1> HIDE DEF Idle
<1>3. ~Leaving(Still(Blank))
  BY <1>2 DEF Leaving
<1> QED BY <1>1, <1>2, <1>3 DEF Good, Sound, Waiting

\* A move is fed.
LEMMA MouseMoveGood ==
  ASSUME Assumed, Good(c), NEW x \in Points, MouseMove(x)
  PROVE  Good(c') /\ HolderKeeps(c, c')
<1>1. Idle /\ c' = FeedMove(c, x)
  BY DEF MouseMove, Feed
<1>2. Good(c') /\ c'.obj = c.obj
  BY <1>1, IdleFacts, FeedMoveGood
<1> QED BY <1>2, SameHolders

\* The pointer enters, and the objects that are there are told so one by one, ...
LEMMA InsideBody ==
  ASSUME NEW s \in CanvasType, NEW t, SameButInside(s, t), ~s.inside, t.inside = TRUE,
         NEW w, NEW b, NEW v, Body(s, w, b), Paired(s, w, b), w.at = "",
         \/ v.at = "" /\ s.frozen # 0
         \/ v.at = "in" /\ v.rest = v.ins /\ v.ins = Hits(s, s.order, s.x)
  PROVE  Body(t, v, b) /\ Paired(t, v, b) /\ Clean(t, v, b) /\ s.grabbed = 0
         /\ (v.at = "in" => IsInjective(v.rest) /\ \A o \in Range(v.rest) : IsAlive(s, o))
<1> DEFINE h == Hits(s, s.order, s.x)
<1>1. /\ Lists(s, w) /\ Hover(s, w) /\ Held(s, w) /\ Outside(s, w) /\ Norepeat(s, w) /\ Even(s, w, b)
      /\ Single(s) /\ ~Leaving(w)
  BY DEF Body, Leaving
<1>2. s.in = <<>> /\ Range(s.in) = {}
  <2>1. s.in = <<>>
    BY <1>1 DEF Outside
  <2> QED BY <2>1, EmptySeq, RangeFacts
<1>3. \A o \in Objects : s.obj[o].grabbed = 0
  <2>1. \A o \in Objects : ~(s.obj[o].grabbed > 0)
    BY <1>1, <1>2 DEF Held, Holding
  <2> QED BY <2>1, ObjectFields, ZeroOrMore
<1>4. s.grabbed = 0
  <2> DEFINE n == Counts(s)
  <2>1. \A o \in Objects : n[o] = 0 /\ n[o] \in Nat
    <3> SUFFICES ASSUME NEW o \in Objects
                 PROVE  n[o] = 0 /\ n[o] \in Nat
      OBVIOUS
    <3>1. n[o] = s.obj[o].grabbed
      BY DEF Counts
    <3> HIDE DEF n
    <3> QED BY <1>3, <3>1, ObjectFields
  <2>2. n \in [Objects -> Nat]
    BY <2>1 DEF Counts
  <2> HIDE DEF n
  <2>3. Cardinality(GrabsOf(n)) = 0
    BY <2>1, <2>2, GrabsBound
  <2> QED BY <1>1, <2>3 DEF Held, n
<1>5. IsInjective(h) /\ Range(h) \subseteq Hit(s, s.x)
  BY <1>1, CanvasFields, HitsFacts DEF Lists
<1>6. \A o \in Range(h) : IsAlive(s, o)
  BY <1>5 DEF Hit, IsAlive
<1>7. /\ Counts(t) = Counts(s) /\ Hits(t, t.order, t.x) = h
      /\ (Repeating(t) <=> Repeating(s)) /\ (Single(s) => Single(t))
      /\ \A o : /\ Mode(t, o) = Mode(s, o) /\ (IsAlive(t, o) <=> IsAlive(s, o))
                /\ Due(t, b, o) = Due(s, b, o) /\ Owed(t, b, o) = Owed(s, b, o)
  BY SameButInsideFacts
<1>8. v.at = "in" => v.ins = h /\ v.rest = h
  BY DEF h
<1> HIDE DEF h
<1>9. Lists(t, v)
  <2>1. t.obj = s.obj /\ t.order = s.order /\ t.in = s.in
    BY DEF SameButInside
  <2> QED BY <1>1, <1>5, <1>6, <1>7, <1>8, <2>1 DEF Lists, Arriving
<1>10. Hover(t, v)
  <2>1. t.obj = s.obj /\ t.in = s.in
    BY DEF SameButInside
  <2>2. \A o \in Objects : ~HasPointer(s, w, o)
    BY <1>2 DEF HasPointer, Listed, Arriving
  <2>3. \A o \in Objects : ~HasPointer(t, v, o)
    BY <1>2, <1>8, <2>1 DEF HasPointer, Listed, Arriving
  <2> QED BY <1>1, <2>1, <2>2, <2>3 DEF Hover
<1>11. Held(t, v)
  <2>1. t.obj = s.obj /\ t.grabbed = s.grabbed
    BY DEF SameButInside
  <2>2. ~Leaving(v) => t.grabbed = Cardinality(GrabsOf(Counts(t)))
    BY <1>1, <1>7, <2>1 DEF Held
  <2>3. ASSUME NEW o \in Objects
        PROVE  t.obj[o].grabbed = 0 /\ ~(t.obj[o].grabbed > 0)
    <3>1. t.obj[o].grabbed = 0
      BY <1>3, <2>1
    <3> QED BY <3>1, IsZero
  <2>4. t.grabbed = 0 /\ v.at \in {"", "in"}
    BY <1>4, <2>1
  <2> QED BY <2>2, <2>3, <2>4 DEF Held
<1>12. Outside(t, v)
  BY <1>2 DEF Outside, Leaving, SameButInside
<1>13. Norepeat(t, v)
  <2>1. t.grabbed = 0
    BY <1>4 DEF SameButInside
  <2>2. ~(t.grabbed > 0)
    BY <2>1, IsZero
  <2> QED BY <2>2 DEF Norepeat
<1>14. Even(t, v, b)
  <2>1. t.obj = s.obj /\ t.grabbed = s.grabbed /\ t.in = s.in
    BY DEF SameButInside
  <2> QED BY <1>1, <1>7, <2>1 DEF Even, Listed
<1>15. Paired(t, v, b)
  <2>1. t.obj = s.obj /\ t.pressed = s.pressed
    BY DEF SameButInside
  <2> QED BY <1>7, <2>1 DEF Paired
<1>16. Clean(t, v, b)
  <2>1. t.frozen = s.frozen
    BY DEF SameButInside
  <2> QED BY <1>7, <1>8, <2>1 DEF Clean
<1>17. v.at = "in" => IsInjective(v.rest) /\ \A o \in Range(v.rest) : IsAlive(s, o)
  BY <1>5, <1>6, <1>8
<1> QED BY <1>1, <1>4, <1>7, <1>9, <1>10, <1>11, <1>12, <1>13, <1>14, <1>15, <1>16, <1>17 DEF Body

\* The pointer comes into the canvas.
LEMMA MouseInGood ==
  ASSUME Assumed, Good(c), MouseIn
  PROVE  Good(c') /\ HolderKeeps(c, c')
<1> DEFINE s == PutInside(c, TRUE)
           l == EventList(s, s.x)
           g == [Frame("in", l) EXCEPT !.ins = l]
           v == Still(g)
           w == Still(Blank)
<1>1. Idle /\ ~c.inside /\ c' = IF s.frozen > 0 \/ s.grabbed # 0 THEN s ELSE Push(s, g)
  BY DEF MouseIn, Feed, PutInside
<1>2. /\ c \in CanvasType /\ Nested(c) /\ ~c.bad /\ c.stack = <<>> /\ Len(c.stack) = 0
      /\ Walk(c) = w /\ Button(c) = w /\ w.at = "" /\ Gone(c) = {}
      /\ Body(c, w, w) /\ Paired(c, w, w) /\ Missed(c, w) /\ Waiting(c)
  BY <1>1, IdleFacts
<1>3. /\ s \in CanvasType /\ s.inside = TRUE /\ SameButInside(c, s) /\ s.stack = c.stack
  BY <1>2, InsideEffect DEF SameButInside
<1>4. c.frozen \in {0, 1} /\ c.grabbed \in Nat /\ c.order \in Seq(Objects)
  BY <1>2, CanvasFields
<1> HIDE DEF s, w
<1>5. CASE c.frozen > 0
  <2>1. c' = s /\ c.frozen # 0
    BY <1>1, <1>3, <1>4, <1>5 DEF SameButInside
  <2>2. Body(s, w, w) /\ Paired(s, w, w) /\ Clean(s, w, w)
    BY <1>1, <1>2, <1>3, <2>1, InsideBody
  <2>3. Walk(s) = w /\ Button(s) = w /\ Gone(s) = {} /\ Nested(s)
    <3>1. s.stack = <<>>
      BY <1>2, <1>3
    <3>2. \A i : i \notin 1 .. Len(s.stack)
      BY <3>1, EmptySeq
    <3> QED BY <3>1, <3>2 DEF Walk, Button, Gone, Nested, w
  <2>4. Missed(s, w)
    BY <1>2 DEF Missed
  <2>5. Good(s)
    BY <1>2, <1>3, <2>2, <2>3, <2>4, SoundParts DEF SameButInside
  <2> QED BY <1>3, <2>1, <2>5, SameHolders DEF SameButInside
<1>6. CASE c.frozen = 0
  <2> DEFINE h == Hits(c, c.order, c.x)
  <2>1. l = h /\ l \in Seq(Objects)
    <3>1. ~(c.frozen > 0)
      BY <1>6
    <3>2. Hits(s, s.order, s.x) = h
      BY <1>3, SameButInsideFacts
    <3>3. h \in Seq(Objects)
      BY <1>4, HitsFacts
    <3>4. ~(s.frozen > 0)
      BY <1>3, <3>1 DEF SameButInside
    <3>5. l = Hits(s, s.order, s.x)
      BY <3>4 DEF EventList
    <3> HIDE DEF l, h
    <3> QED BY <3>2, <3>3, <3>5
  <2> HIDE DEF l
  <2>2. /\ IsFrame(g) /\ g.at = "in" /\ g.rest = l /\ g.ins = l /\ g.gone = {} /\ g.x \in Points
        /\ g.cur = NoObject /\ g.moved \in BOOLEAN /\ g.below = FALSE
    <3> DEFINE f == Frame("in", l)
    <3>1. "in" \in Walks \union Buttons
      BY DEF Walks
    <3> HIDE DEF h
    <3>2. l \in Seq(Objects)
      BY <2>1
    <3>5. /\ IsFrame(f) /\ f.at = "in" /\ f.rest = l /\ f.cur = NoObject /\ f.x \in Points
          /\ f.below = FALSE /\ f.gone = {} /\ f \in FrameType
      <4>1. IsFrame(f) /\ f \in FrameType
        BY <3>1, <3>2, FrameOf
      <4>2. f.at = "in" /\ f.rest = l
        BY <3>1, <3>2, FrameOf
      <4>3. f.x \in Points
        BY <3>1, <3>2, FrameOf
      <4>4. f.below = FALSE /\ f.cur = NoObject
        BY FrameIsRecord, BlankFields DEF Frame, IsFrame
      <4>5. f.gone = {}
        BY <3>1, <3>2, FrameOf
      <4> QED BY <4>1, <4>2, <4>3, <4>4, <4>5
    <3>6. f.moved \in BOOLEAN
      BY <3>5, FrameFields
    <3> HIDE DEF f
    <3>3. g = [f EXCEPT !.ins = l]
      BY DEF f
    <3> HIDE DEF g
    <3> QED BY <3>3, <3>5, <3>6 DEF IsFrame
  <2> HIDE DEF g
  <2>3. g \in FrameType /\ v.at = "in" /\ v.rest = l /\ v.ins = l
    <3>1. g.at \in Walks
      BY <2>2 DEF Walks
    <3> QED BY <2>1, <2>2, <3>1, Places
  <2> HIDE DEF v
  <2>4. /\ c.grabbed = 0 /\ IsInjective(l) /\ \A o \in Range(l) : IsAlive(c, o)
    <3>1. v.at = "in" /\ v.rest = v.ins /\ v.ins = Hits(c, c.order, c.x)
      BY <2>1, <2>3
    <3>2. ~c.inside /\ c \in CanvasType /\ Body(c, w, w) /\ Paired(c, w, w) /\ w.at = ""
      BY <1>1, <1>2
    <3>3. SameButInside(c, s) /\ s.inside = TRUE
      BY <1>3
    <3>4. /\ c.grabbed = 0 /\ IsInjective(v.rest) /\ \A o \in Range(v.rest) : IsAlive(c, o)
      BY <3>1, <3>2, <3>3, InsideBody
    <3> QED BY <2>3, <3>4
  <2>5. c' = Push(s, g)
    BY <1>1, <1>3, <1>6, <2>4 DEF SameButInside
  <2>6. c' \in CanvasType /\ SameRest(s, c') /\ c'.stack = Append(c.stack, g)
    BY <1>3, <2>3, <2>5, PushEffect
  <2>7. SameButInside(c, c') /\ c'.inside = TRUE
    BY <1>3, <2>6 DEF SameButInside, SameRest, SameData
  <2>8. Body(c', v, w) /\ Paired(c', v, w) /\ Clean(c', v, w)
    BY <1>1, <1>2, <2>1, <2>3, <2>7, InsideBody
  <2>9. FitsIn(c', g, Len(c'.stack))
    <3>1. Len(c'.stack) = 1
      <4>1. Called(c, c', g)
        BY <1>2, <2>3, <2>6, StackEffect
      <4> DEFINE n == Len(c.stack)
      <4>2. n = 0 /\ Len(c'.stack) = n + 1
        BY <1>2, <4>1 DEF Called
      <4> HIDE DEF n
      <4> QED BY <4>2
    <3>2. c'.obj = c.obj /\ c'.frozen = c.frozen
      BY <2>7 DEF SameButInside
    <3> QED BY <1>6, <2>2, <2>4, <3>1, <3>2 DEF FitsIn, IsAlive
  <2>10. Milder(c, c') /\ c'.pressed = c.pressed /\ c'.bad = c.bad
    BY <2>7, SameButInsideFacts DEF SameButInside
  <2>11. g.at \in Walks
    BY <2>2 DEF Walks
  <2>12. Good(c')
    BY <1>2, <2>2, <2>3, <2>6, <2>8, <2>9, <2>10, <2>11, WalkStarts DEF Waiting, v
  <2> QED BY <2>7, <2>12, SameHolders DEF SameButInside
<1> QED BY <1>4, <1>5, <1>6


\* The pointer leaves the canvas, and all objects it was in are told so.
LEMMA OutsideBody ==
  ASSUME NEW s \in CanvasType, NEW t, SameButInside(s, t), ~t.inside,
         NEW w, NEW b, NEW v, Body(s, w, b), Paired(s, w, b), w.at = "",
         v.at = "out", v.rest = s.in
  PROVE  Body(t, v, b) /\ Paired(t, v, b) /\ Clean(t, v, b)
<1>1. /\ Lists(s, w) /\ Hover(s, w) /\ Held(s, w) /\ Single(s) /\ Leaving(v)
  BY DEF Body, Leaving
<1>2. /\ t.obj = s.obj /\ t.order = s.order /\ t.in = s.in
  BY DEF SameButInside
<1>3. /\ (Repeating(t) <=> Repeating(s)) /\ Single(t)
      /\ \A o : /\ Mode(t, o) = Mode(s, o) /\ (IsAlive(t, o) <=> IsAlive(s, o))
                /\ Due(t, b, o) = Due(s, b, o) /\ Owed(t, b, o) = Owed(s, b, o)
  <2>1. (Repeating(t) <=> Repeating(s)) /\ (Single(s) => Single(t))
    BY <1>2 DEF Repeating, Single, Mode
  <2>2. \A o : Mode(t, o) = Mode(s, o) /\ (IsAlive(t, o) <=> IsAlive(s, o))
    BY <1>2 DEF Mode, IsAlive
  <2>3. \A o : Due(t, b, o) = Due(s, b, o) /\ Owed(t, b, o) = Owed(s, b, o)
    BY <2>2 DEF Due, Owed, SameButInside
  <2> QED BY <1>1, <2>1, <2>2, <2>3
<1>4. Lists(t, v)
  BY <1>1, <1>2, <1>3 DEF Lists, Arriving
<1>5. Hover(t, v)
  <2>1. \A o \in Objects : HasPointer(t, v, o) <=> HasPointer(s, w, o)
    BY <1>2 DEF HasPointer, Listed, Arriving
  <2> QED BY <1>1, <1>2, <2>1 DEF Hover
<1>6. Held(t, v)
  <2>1. Holding(t, v) = Range(s.in) /\ Holding(s, w) = Range(s.in)
    BY <1>2 DEF Holding
  <2> QED BY <1>1, <1>2, <1>3, <2>1 DEF Held
<1>7. Outside(t, v) /\ Norepeat(t, v) /\ Even(t, v, b) /\ Clean(t, v, b)
  BY <1>1 DEF Outside, Norepeat, Even, Clean, Leaving
<1>8. Paired(t, v, b)
  <2>1. t.pressed = s.pressed
    BY DEF SameButInside
  <2> QED BY <1>2, <1>3, <2>1 DEF Paired
<1> QED BY <1>3, <1>4, <1>5, <1>6, <1>7, <1>8 DEF Body

\* The pointer leaves the canvas: all that it is in are walked.
LEMMA MouseOutGood ==
  ASSUME Assumed, Good(c), MouseOut
  PROVE  Good(c') /\ HolderKeeps(c, c')
<1> DEFINE v0 == FALSE
           s == PutInside(c, v0)
           l == c.in
           g == Frame("out", l)
           v == Still(g)
           w == Still(Blank)
<1>1. Idle /\ ~(c.frozen > 0) /\ c' = IF s.frozen > 0 THEN s ELSE Push(s, Frame("out", s.in))
  BY DEF MouseOut, Feed, PutInside, Assumed, ButtonsNotFrozen
<1>2. /\ c \in CanvasType /\ Nested(c) /\ ~c.bad /\ c.stack = <<>> /\ Len(c.stack) = 0
      /\ Walk(c) = w /\ Button(c) = w /\ w.at = "" /\ Gone(c) = {}
      /\ Body(c, w, w) /\ Paired(c, w, w) /\ Missed(c, w) /\ Waiting(c)
  BY <1>1, IdleFacts
<1>3. v0 \in BOOLEAN /\ ~v0
  OBVIOUS
<1> HIDE DEF v0
<1>4. s \in CanvasType /\ s.inside = v0 /\ SameButInside(c, s) /\ s.stack = c.stack /\ s.in = l
  BY <1>2, <1>3, InsideEffect DEF SameButInside
<1>5. c' = Push(s, g)
  BY <1>1, <1>4 DEF SameButInside
<1>6. l \in Seq(Objects) /\ IsInjective(l) /\ c.frozen \in {0, 1} /\ \A o \in Range(l) : IsAlive(c, o)
  BY <1>2, CanvasFields DEF Body, Lists
<1> HIDE DEF s, w, l
<1>7. "out" \in Walks \union Buttons /\ "out" \in Walks
  BY DEF Walks
<1>8. g \in FrameType /\ g.at = "out" /\ g.rest = l /\ g.gone = {}
  BY <1>6, <1>7, FrameOf
<1> HIDE DEF g
<1>9. v.at = "out" /\ v.rest = l
  BY <1>8, StillFields
<1> HIDE DEF v
<1>10. c' \in CanvasType /\ SameRest(s, c') /\ c'.stack = Append(c.stack, g)
  BY <1>4, <1>5, <1>8, PushEffect
<1>11. SameButInside(c, c') /\ ~c'.inside
  BY <1>3, <1>4, <1>10 DEF SameButInside, SameRest, SameData
<1>12. Body(c', v, w) /\ Paired(c', v, w) /\ Clean(c', v, w)
  <2>1. v.at = "out" /\ v.rest = c.in
    BY <1>9 DEF l
  <2>2. c \in CanvasType /\ Body(c, w, w) /\ Paired(c, w, w) /\ w.at = ""
    BY <1>2
  <2> QED BY <1>11, <2>1, <2>2, OutsideBody
<1>13. FitsIn(c', g, Len(c'.stack))
  <2>1. Len(c'.stack) = 1
    <3>1. Called(c, c', g)
      BY <1>2, <1>8, <1>10, StackEffect
    <3> DEFINE n == Len(c.stack)
    <3>2. n = 0 /\ Len(c'.stack) = n + 1
      BY <1>2, <3>1 DEF Called
    <3> HIDE DEF n
    <3> QED BY <3>2
  <2>2. c'.obj = c.obj /\ c'.frozen = c.frozen
    BY <1>11 DEF SameButInside
  <2> QED BY <1>1, <1>6, <1>8, <2>1, <2>2 DEF FitsIn, IsAlive
<1>14. Milder(c, c') /\ c'.pressed = c.pressed /\ c'.bad = c.bad
  BY <1>11, SameButInsideFacts DEF SameButInside
<1>15. g.at \in Walks
  BY <1>7, <1>8
<1>16. Good(c')
  BY <1>2, <1>8, <1>10, <1>12, <1>13, <1>14, <1>15, WalkStarts DEF Waiting, v
<1> QED BY <1>11, <1>16, SameHolders DEF SameButInside

\* An object is told that the pointer has left the canvas; its grabs end.
LEMMA OutBody ==
  ASSUME NEW s \in CanvasType, NEW t, NEW w, NEW b, NEW v, NEW o \in Objects,
         Same(s, t), t.in = s.in, Body(s, w, b),
         w.at = "out", v.at = "outed", v.cur = o,
         Range(w.rest) = Range(v.rest) \union {o}, o \notin Range(v.rest),
         ~t.obj[o].in, \A p \in Objects : p # o => t.obj[p].in = s.obj[p].in
  PROVE  Body(t, v, b) /\ Clean(t, v, b)
<1>1. /\ Lists(s, w) /\ Hover(s, w) /\ Held(s, w) /\ Outside(s, w) /\ Single(s) /\ Leaving(w) /\ Leaving(v)
  BY DEF Body, Leaving
<1>2. /\ Single(t)
      /\ \A p \in Objects : /\ Mode(t, p) = Mode(s, p) /\ (IsAlive(t, p) <=> IsAlive(s, p))
                            /\ t.obj[p].grabbed = s.obj[p].grabbed
  BY <1>1, SameFacts
<1>3. /\ t.order = s.order /\ t.inside = s.inside /\ t.in = s.in
  BY DEF Same, SameElse
<1>4. Lists(t, v)
  <2>1. Range(s.in) \subseteq Objects
    BY CanvasFields, RangeFacts
  <2>2. \A p \in Range(s.in) : IsAlive(t, p)
    BY <1>1, <1>2, <2>1 DEF Lists
  <2>3. Range(w.rest) \subseteq Range(s.in)
    BY <1>1 DEF Lists
  <2> QED BY <1>1, <1>2, <1>3, <2>2, <2>3 DEF Lists, Listed, Arriving
<1>5. Hover(t, v)
  <2>1. \A p \in Objects : s.obj[p].in <=> p \in Range(w.rest)
    BY <1>1 DEF Hover, HasPointer, Arriving
  <2>2. \A p \in Objects : t.obj[p].in <=> p \in Range(v.rest)
    BY <2>1
  <2> QED BY <2>2 DEF Hover, HasPointer, Arriving
<1>6. Held(t, v)
  <2>1. Holding(t, v) = Range(w.rest) /\ Holding(s, w) = Range(w.rest)
    BY DEF Holding
  <2> QED BY <1>1, <1>2, <2>1 DEF Held
<1>7. Outside(t, v) /\ Norepeat(t, v) /\ Even(t, v, b) /\ Clean(t, v, b)
  BY <1>1, <1>3 DEF Outside, Norepeat, Even, Clean, Leaving
<1> QED BY <1>2, <1>4, <1>5, <1>6, <1>7 DEF Body

\* One of these is told "out".
LEMMA OutGood ==
  ASSUME Assumed, Good(c), Out
  PROVE  Good(c') /\ HolderKeeps(c, c')
<1> DEFINE f == Top(c)
           o == Head(f.rest)
           g == [f EXCEPT !.at = "outed", !.cur = o, !.rest = Tail(@)]
           s == Become(c, g)
           t == PutIn(s, o, FALSE)
           u == GoesOut(s, o)
           w == Walk(c)
           b == Button(c)
           v == Still(g)
<1>1. More("out") /\ At("out") /\ "out" \in Walks
  BY DEF Out, More, Walks
<1>2. /\ c \in CanvasType /\ Sound(c) /\ Nested(c) /\ ~c.bad /\ c.stack # <<>> /\ f \in FrameType
      /\ IsFrame(f) /\ f.at = "out" /\ Body(c, w, b) /\ Paired(c, w, b) /\ FitsIn(c, f, Len(c.stack))
      /\ c.frozen = 0
  BY <1>1, AtFacts
<1>3. /\ o \in Objects /\ c.obj[o].life # "freed" /\ o \in Range(f.rest)
      /\ Range(f.rest) = Range(Tail(f.rest)) \union {o} /\ Tail(f.rest) \in Seq(Objects)
      /\ \A p \in Range(f.rest) : p \in Objects /\ c.obj[p].life # "freed"
      /\ o \notin Range(Tail(f.rest)) /\ IsInjective(Tail(f.rest))
  BY <1>1, AdvanceFacts
<1>4. Len(c.stack) = 1 /\ b = Still(Blank) /\ b.at = ""
  <2>1. f.at \in Walks \intersect Bottoms
    BY <1>2 DEF Walks, Bottoms
  <2> QED BY <1>2, <2>1, AloneFacts
<1>5. w.at = "out" /\ w.rest = f.rest
  BY <1>1, <1>2, WalkFields
<1>6. c.obj[o].in /\ IsAlive(c, o)
  <2>1. HasPointer(c, w, o)
    BY <1>3, <1>5 DEF HasPointer, Arriving
  <2>2. o \in Range(c.in)
    BY <1>2, <1>3, <1>5 DEF Body, Lists
  <2> QED BY <1>2, <1>3, <2>1, <2>2 DEF Body, Hover, Lists
<1>7. c' = u
  <2>1. Head_ = o
    BY DEF Head_
  <2> QED BY <1>3, <1>6, <2>1, ReadingFacts DEF Out
<1> HIDE DEF o, f, w, b
<1>8. /\ IsFrame(g) /\ g.at = "outed" /\ g.cur = o /\ g.rest = Tail(f.rest) /\ g.ins = f.ins
      /\ g.x = f.x /\ g.moved = f.moved /\ g.below = f.below /\ g.gone = f.gone
  BY <1>2 DEF IsFrame
<1> HIDE DEF g
<1>9. g \in FrameType /\ v.at = "outed" /\ v.cur = o /\ v.rest = Tail(f.rest)
  <2>1. g.at \in Walks \union Waits \union Bottoms \union Quiet
    BY <1>8 DEF Walks
  <2> QED BY <1>2, <1>3, <1>8, <2>1, Places, FrameFields
<1> HIDE DEF v
<1>10. FitsIn(c, g, Len(c.stack))
  <2>1. ~(c.frozen > 0)
    BY <1>2, IsZero
  <2>2. g.at # "dragout" /\ g.at \notin {"del", "deleted", "freeing"}
    BY <1>8
  <2> QED BY <1>3, <1>4, <1>8, <2>1, <2>2 DEF FitsIn
<1>11. s \in CanvasType /\ SameRest(c, s) /\ s.stack = [c.stack EXCEPT ![Len(c.stack)] = g]
  BY <1>2, <1>9, BecomeEffect
<1>12. Len(s.stack) = 1 /\ s.stack # <<>> /\ Top(s) = g
  <2>1. Changed(c, s, g)
    BY <1>2, <1>9, <1>11, StackEffect
  <2> QED BY <1>2, <1>4, <1>11, <2>1, ChangedFacts DEF Changed
<1>13. /\ t \in CanvasType /\ SameObjects(s, t) /\ SameElse(s, t)
       /\ t.in = s.in /\ t.stack = s.stack
       /\ t.obj[o].in = FALSE /\ \A p \in Objects : p # o => t.obj[p].in = s.obj[p].in
       /\ Quieter(t, u)
       /\ s.obj[o].in /\ Top(s).at = "outed" /\ s.frozen = 0 /\ IsAlive(s, o) => u.pressed[o] = 0
  <2>1. 1 < Len(s.stack) => s.obj[o].grabbed = 0
    BY <1>12
  <2> QED BY <1>3, <1>11, <1>12, <2>1, GoesOutEffect
<1> HIDE DEF s, t, u
<1>14. u.pressed[o] = 0
  BY <1>2, <1>6, <1>8, <1>11, <1>12, <1>13 DEF SameRest, SameData, IsAlive
<1>15. /\ Same(c, t) /\ t.in = c.in /\ t.stack = [c.stack EXCEPT ![Len(c.stack)] = g] /\ ~t.obj[o].in
       /\ \A p \in Objects : p # o => t.obj[p].in = c.obj[p].in
  BY <1>11, <1>13 DEF Same, SameRest, SameData, SameElse, SameObjects
<1>16. Body(t, v, b) /\ Clean(t, v, b)
  <2>1. Range(w.rest) = Range(v.rest) \union {o} /\ o \notin Range(v.rest)
    BY <1>3, <1>5, <1>9
  <2> QED BY <1>2, <1>3, <1>5, <1>9, <1>15, <2>1, OutBody
<1>17. /\ Milder(c, t) /\ t.pressed = c.pressed /\ t.bad = c.bad
       /\ Paired(c, w, b) => \A z : z.at # "outed" => Paired(t, z, b)
  BY <1>15, SameFacts
<1>18. /\ Nested(t) /\ Walk(t) = v /\ Button(t) = b /\ Missed(t, b)
  <2>1. Changed(c, t, g)
    BY <1>2, <1>9, <1>15, StackEffect
  <2>2. g.at \in Walks
    BY <1>8 DEF Walks
  <2>3. Top(c).at \in Walks
    BY <1>1, <1>2 DEF f
  <2> QED BY <1>2, <1>9, <1>10, <1>13, <1>17, <2>1, <2>2, <2>3, WalkMoves, FitsMilder DEF v, b
<1>19. /\ Walk(u) = v /\ Button(u) = b /\ Nested(u) /\ Body(u, v, b) /\ Clean(u, v, b)
  BY <1>13, <1>16, <1>18, QuieterFacts
<1>20. Paired(u, v, b) /\ Missed(u, b)
  <2>1. Paired(t, w, b) /\ w.at # "outed"
    BY <1>2, <1>5, <1>17
  <2>2. Paired(u, w, b)
    BY <1>13, <2>1, QuieterPaired
  <2> QED BY <1>4, <1>9, <1>14, <2>2 DEF Paired, Missed
<1>21. u \in CanvasType /\ ~u.bad
  BY <1>2, <1>13, <1>17 DEF Quieter, SameData
<1>22. Good(u)
  BY <1>19, <1>20, <1>21, SoundParts
<1>23. HolderKeeps(c, u)
  <2>1. Walk(c).at = "out"
    BY <1>5 DEF w
  <2> QED BY <2>1 DEF HolderKeeps
<1> QED BY <1>7, <1>22, <1>23
-----------------------------------------------------------------------------
(***************************************************************************)
(* Grabs                                                                   *)
(***************************************************************************)

\* The objects look the same to events.
SameLook(s, t) ==
  \A o \in Objects :
    /\ t.obj[o].visible = s.obj[o].visible /\ t.obj[o].pass = s.obj[o].pass
    /\ t.obj[o].life = s.obj[o].life /\ t.obj[o].covers = s.obj[o].covers
    /\ t.obj[o].repeat = s.obj[o].repeat /\ t.obj[o].mode = s.obj[o].mode

\* A canvas is the same but for the grabs, the buttons and the functions that run.
SameButGrabs(s, t) ==
  /\ SameLook(s, t) /\ \A o \in Objects : t.obj[o].in = s.obj[o].in
  /\ t.order = s.order /\ t.x = s.x /\ t.inside = s.inside /\ t.in = s.in
  /\ t.frozen = s.frozen /\ t.bad = s.bad /\ t.pressed = s.pressed

\* A canvas that looks the same: events reach the same objects.
LEMMA LookFacts ==
  ASSUME NEW s, NEW t, SameLook(s, t)
  PROVE  /\ \A x : Hit(t, x) = Hit(s, x)
         /\ \A l, x : Hits(t, l, x) = Hits(s, l, x)
         /\ (Repeating(t) <=> Repeating(s)) /\ (Single(s) => Single(t))
         /\ \A o \in Objects : Mode(t, o) = Mode(s, o) /\ (IsAlive(t, o) <=> IsAlive(s, o))
<1>1. \A x : Hit(t, x) = Hit(s, x)
  BY DEF SameLook, Hit, Covers
<1>2. {o \in Objects : Repeats(t, o)} = {o \in Objects : Repeats(s, o)}
  BY DEF SameLook, Repeats
<1>3. \A o \in Objects : Mode(t, o) = Mode(s, o) /\ (IsAlive(t, o) <=> IsAlive(s, o))
  BY DEF SameLook, Mode, IsAlive
<1>4. (Repeating(t) <=> Repeating(s)) /\ (Single(s) => Single(t))
  BY <1>3 DEF Repeating, Single
<1>5. \A l, x : Hits(t, l, x) = Hits(s, l, x)
  BY <1>1, <1>2 DEF Hits
<1> QED BY <1>1, <1>3, <1>4, <1>5

\* What does not depend on the grabs.
LEMMA SameButGrabsFacts ==
  ASSUME NEW s, NEW t, SameButGrabs(s, t)
  PROVE  /\ Milder(s, t)
         /\ \A w : Lists(s, w) /\ Range(s.in) \subseteq Objects
                   /\ (w.at \in {"leave", "postout"} \union Arriving => Range(w.ins) \subseteq Objects)
                   => Lists(t, w)
         /\ \A w : Hover(s, w) => Hover(t, w)
         /\ \A w : Outside(s, w) => Outside(t, w)
         /\ \A o \in Objects : \A b : Owed(t, b, o) = Owed(s, b, o)
<1>1. /\ SameLook(s, t) /\ (\A o \in Objects : t.obj[o].in = s.obj[o].in)
      /\ t.order = s.order /\ t.x = s.x /\ t.inside = s.inside /\ t.in = s.in
      /\ t.frozen = s.frozen
  BY DEF SameButGrabs
<1>2. /\ \A x : Hit(t, x) = Hit(s, x)
      /\ \A o \in Objects : Mode(t, o) = Mode(s, o) /\ (IsAlive(t, o) <=> IsAlive(s, o))
  BY <1>1, LookFacts
<1>3. Milder(s, t)
  BY <1>1 DEF Milder, SameKind, SameLook, IsAlive
<1>4. ASSUME NEW w, Lists(s, w), Range(s.in) \subseteq Objects,
             w.at \in {"leave", "postout"} \union Arriving => Range(w.ins) \subseteq Objects
      PROVE  Lists(t, w)
  <2>1. \A o \in Objects : t.obj[o].life = s.obj[o].life
    BY <1>1 DEF SameLook
  <2> QED BY <1>1, <1>2, <1>4, <2>1 DEF Lists, Listed
<1>5. ASSUME NEW w, Hover(s, w)
      PROVE  Hover(t, w)
  <2>1. \A o \in Objects : HasPointer(t, w, o) <=> HasPointer(s, w, o)
    BY <1>1 DEF HasPointer, Listed, Arriving
  <2> QED BY <1>1, <1>5, <2>1 DEF Hover
<1>6. ASSUME NEW w, Outside(s, w)
      PROVE  Outside(t, w)
  BY <1>1, <1>6 DEF Outside, Leaving
<1>7. \A o \in Objects : \A b : Owed(t, b, o) = Owed(s, b, o)
  BY <1>2 DEF Owed
<1> QED BY <1>3, <1>4, <1>5, <1>6, <1>7

\* An object has grabbed the pointer n times, and the canvas counts k grabs.
PutGrabs(s, o, n, k) == [s EXCEPT !.obj[o].grabbed = n, !.grabbed = k]

\* An object has grabbed the pointer n times, and all objects k times: nothing
\* else changes.
LEMMA GrabEffect ==
  ASSUME NEW s \in CanvasType, NEW o \in Objects, NEW n \in Nat, NEW k \in Nat
  PROVE  LET t == PutGrabs(s, o, n, k)
         IN  /\ t \in CanvasType /\ SameButGrabs(s, t) /\ t.stack = s.stack /\ t.grabbed = k
             /\ t.nogrep = s.nogrep /\ t.downs = s.downs
             /\ t.obj[o].grabbed = n /\ \A p \in Objects : p # o => t.obj[p] = s.obj[p]
<1> DEFINE q == [s.obj[o] EXCEPT !.grabbed = n]
           t == PutGrabs(s, o, n, k)
<1>1. IsRecord(s) /\ s.obj \in [Objects -> ObjectType] /\ s.obj[o] \in ObjectType
  BY CanvasIsRecord, CanvasFields, ObjectFields
<1>2. /\ q \in ObjectType /\ q.grabbed = n
      /\ q.visible = s.obj[o].visible /\ q.pass = s.obj[o].pass /\ q.in = s.obj[o].in
      /\ q.life = s.obj[o].life /\ q.covers = s.obj[o].covers /\ q.repeat = s.obj[o].repeat
      /\ q.mode = s.obj[o].mode
  BY <1>1 DEF ObjectType
<1>3. /\ IsRecord(t) /\ t.obj = [s.obj EXCEPT ![o] = q] /\ t.grabbed = k
      /\ t.order = s.order /\ t.x = s.x /\ t.inside = s.inside /\ t.in = s.in /\ t.nogrep = s.nogrep
      /\ t.downs = s.downs /\ t.frozen = s.frozen /\ t.bad = s.bad /\ t.pressed = s.pressed
      /\ t.stack = s.stack
  BY <1>1 DEF IsRecord, PutGrabs
<1> HIDE DEF q, t
<1>4. t.obj \in [Objects -> ObjectType] /\ t.obj[o] = q /\ \A p \in Objects : p # o => t.obj[p] = s.obj[p]
  BY <1>1, <1>2, <1>3
<1>5. t \in CanvasType
  BY <1>3, <1>4, CanvasFields, CanvasRecord
<1>6. SameButGrabs(s, t)
  BY <1>2, <1>3, <1>4 DEF SameButGrabs, SameLook
<1> QED BY <1>2, <1>3, <1>4, <1>5, <1>6 DEF t

\* Nothing and nothing is no more than nothing.
LEMMA NoneMore ==
  \A x, y, z : x = 0 /\ y = 0 /\ z = 0 => x + y <= z
  OBVIOUS

\* No object is twice in a list of none.
LEMMA NoneTwice ==
  <<>> \in Seq(Objects) /\ Range(<<>>) = {} /\ IsInjective(<<>>)
<1> DEFINE e == <<>>
<1>1. e \in Seq(Objects) /\ Len(e) = 0
  BY EmptySeq
<1>2. Range(e) = {}
  <2>1. <<>> \in Seq(Objects)
    BY <1>1
  <2> QED BY <2>1, RangeFacts
<1> HIDE DEF e
<1>3. DOMAIN e = 1 .. 0
  BY <1>1
<1>4. IsInjective(e)
  BY <1>3 DEF IsInjective
<1> QED BY <1>1, <1>2, <1>4 DEF e

\* An object that the pointer left with the canvas gives back its grabs.
LEMMA OutedBody ==
  ASSUME NEW s \in CanvasType, NEW t, NEW w, NEW b, NEW v, NEW o \in Objects,
         SameButGrabs(s, t), Body(s, w, b), Paired(s, w, b), b.at = "",
         w.at = "outed", w.cur = o, v.at = "out", v.rest = w.rest,
         t.obj[o].grabbed = 0, \A p \in Objects : p # o => t.obj[p].grabbed = s.obj[p].grabbed
  PROVE  Body(t, v, b) /\ Paired(t, v, b) /\ Clean(t, v, b)
<1>1. /\ Lists(s, w) /\ Hover(s, w) /\ Held(s, w) /\ Outside(s, w) /\ Single(s) /\ Leaving(v) /\ Leaving(w)
  BY DEF Body, Leaving
<1>2. Range(s.in) \subseteq Objects
  BY CanvasFields, RangeFacts
<1>3. /\ Lists(s, v) /\ Hover(s, v) /\ Outside(s, v)
  <2>1. Lists(s, v)
    BY <1>1 DEF Lists, Arriving
  <2>2. \A p \in Objects : HasPointer(s, v, p) <=> HasPointer(s, w, p)
    BY DEF HasPointer, Arriving
  <2> QED BY <1>1, <2>1, <2>2 DEF Hover, Outside
<1>4. /\ Lists(t, v) /\ Hover(t, v) /\ Outside(t, v)
  <2>1. v.at \notin {"leave", "postout"} \union Arriving
    BY DEF Arriving
  <2> QED BY <1>2, <1>3, <2>1, SameButGrabsFacts
<1>5. /\ (Repeating(t) <=> Repeating(s)) /\ Single(t)
      /\ \A p \in Objects : Mode(t, p) = Mode(s, p) /\ (IsAlive(t, p) <=> IsAlive(s, p))
  <2>1. SameLook(s, t)
    BY DEF SameButGrabs
  <2> QED BY <1>1, <2>1, LookFacts
<1>6. Held(t, v)
  <2>1. Holding(t, v) = Range(w.rest) /\ Holding(s, w) = Range(w.rest) \union {o}
    BY DEF Holding
  <2>2. ~(t.obj[o].grabbed > 0)
    BY IsZero
  <2> QED BY <1>1, <1>5, <2>1, <2>2 DEF Held
<1>7. Norepeat(t, v) /\ Even(t, v, b)
  BY <1>1 DEF Norepeat, Even
<1>8. Clean(t, v, b)
  BY <1>1, <1>4 DEF Clean, Outside
<1>9. Paired(t, v, b)
  <2>1. t.pressed = s.pressed
    BY DEF SameButGrabs
  <2>2. \A p \in Objects : Owed(t, b, p) = 0 /\ Owed(s, b, p) = 0
    BY DEF Owed
  <2>3. s.pressed[o] = 0 \/ ~Repeating(s)
    BY DEF Paired
  <2>4. ASSUME NEW p \in Objects, IsAlive(t, p), Repeating(t)
        PROVE  t.pressed[p] + Owed(t, b, p) <= t.obj[p].grabbed
    <3>1. CASE p = o
      <4>1. t.pressed[p] = 0 /\ Owed(t, b, p) = 0 /\ t.obj[p].grabbed = 0
        BY <1>5, <2>1, <2>2, <2>3, <2>4, <3>1
      <4> QED BY <4>1, NoneMore
    <3>2. CASE p # o
      BY <1>5, <2>1, <2>2, <2>4, <3>2 DEF Paired
    <3> QED BY <3>1, <3>2
  <2> QED BY <2>4 DEF Paired
<1> QED BY <1>4, <1>5, <1>6, <1>7, <1>8, <1>9 DEF Body

\* It does so after it was told.
LEMMA OutedGood ==
  ASSUME Assumed, Good(c), Outed
  PROVE  Good(c') /\ HolderKeeps(c, c')
<1> DEFINE f == Top(c)
           o == f.cur
           g == [f EXCEPT !.at = "out"]
           z == 0
           k == c.grabbed
           s == PutGrabs(c, o, z, k)
           w == Walk(c)
           b == Button(c)
           v == Still(g)
<1>1. At("outed") /\ c' = Become([c EXCEPT !.obj[o].grabbed = 0], g)
  BY DEF Outed
<1>2. /\ c \in CanvasType /\ Sound(c) /\ Nested(c) /\ ~c.bad /\ c.stack # <<>> /\ f \in FrameType
      /\ IsFrame(f) /\ f.at = "outed" /\ Body(c, w, b) /\ Paired(c, w, b) /\ FitsIn(c, f, Len(c.stack))
  BY <1>1, AtFacts
<1>3. b = Still(Blank) /\ b.at = ""
  <2>1. f.at \in Walks \intersect Bottoms
    BY <1>2 DEF Walks, Bottoms
  <2> QED BY <1>2, <2>1, AloneFacts
<1>4. w.at = "outed" /\ w.rest = f.rest /\ w.cur = o
  <2>1. Top(c).at \in Walks
    BY <1>2 DEF Walks
  <2> QED BY <1>2, <2>1, WalkFields
<1>5. o \in Objects /\ f.rest \in Seq(Objects)
  BY <1>2, FrameFields DEF FitsIn
<1>6. [c EXCEPT !.obj[o].grabbed = 0] = s
  BY <1>2, CanvasIsRecord DEF PutGrabs, IsRecord
<1>7. k \in Nat
  BY <1>2, CanvasFields
<1>0. z \in Nat /\ z = 0
  OBVIOUS
<1> HIDE DEF f, o, w, b, z
<1>8. /\ s \in CanvasType /\ SameButGrabs(c, s) /\ s.stack = c.stack /\ s.grabbed = k
      /\ s.obj[o].grabbed = 0 /\ \A p \in Objects : p # o => s.obj[p] = c.obj[p]
  <2> HIDE DEF k
  <2>1. /\ s \in CanvasType /\ SameButGrabs(c, s) /\ s.stack = c.stack /\ s.grabbed = k
        /\ s.obj[o].grabbed = z /\ \A p \in Objects : p # o => s.obj[p] = c.obj[p]
    <3>1. c \in CanvasType
      BY <1>2
    <3>2. o \in Objects /\ z \in Nat /\ k \in Nat
      BY <1>0, <1>5, <1>7
    <3> QED BY <3>1, <3>2, GrabEffect
  <2> QED BY <1>0, <2>1
<1>9. c' = Become(s, g)
  BY <1>1, <1>6
<1> HIDE DEF s
<1>10. /\ IsFrame(g) /\ g.at = "out" /\ g.cur = o /\ g.rest = f.rest /\ g.ins = f.ins
       /\ g.x = f.x /\ g.moved = f.moved /\ g.below = f.below /\ g.gone = f.gone
  BY <1>2 DEF IsFrame, o
<1> HIDE DEF g
<1>11. g \in FrameType /\ v.at = "out" /\ v.rest = f.rest
  <2>1. g.at \in Walks \union Waits \union Bottoms \union Quiet
    BY <1>10 DEF Walks
  <2>2. g.cur \in Objects \union {NoObject}
    BY <1>5, <1>10
  <2> QED BY <1>2, <1>5, <1>10, <2>1, <2>2, Places, FrameFields
<1> HIDE DEF v
<1>12. FitsIn(c, g, Len(c.stack))
  <2>1. c.frozen > 0 => FALSE
    <3>1. "outed" \notin Quiet
      BY DEF Quiet
    <3> QED BY <1>2, <3>1 DEF FitsIn
  <2>2. IsInjective(f.rest) /\ Len(c.stack) = 1
    BY <1>2 DEF FitsIn, Bottoms
  <2> QED BY <1>2, <1>10, <2>1, <2>2 DEF FitsIn
<1>13. c' \in CanvasType /\ SameRest(s, c') /\ c'.stack = [c.stack EXCEPT ![Len(c.stack)] = g]
  <2>1. s.stack # <<>>
    BY <1>2, <1>8
  <2> QED BY <1>8, <1>9, <1>11, <2>1, BecomeEffect
<1>14. /\ SameButGrabs(c, c') /\ c'.obj[o].grabbed = 0
       /\ \A p \in Objects : p # o => c'.obj[p].grabbed = c.obj[p].grabbed
  BY <1>8, <1>13 DEF SameButGrabs, SameRest, SameData, SameLook
<1>15. Body(c', v, b) /\ Paired(c', v, b) /\ Clean(c', v, b)
  <2>1. v.rest = w.rest
    BY <1>4, <1>11
  <2> QED BY <1>2, <1>3, <1>4, <1>5, <1>11, <1>14, <2>1, OutedBody
<1>16. Milder(c, c') /\ c'.pressed = c.pressed /\ c'.bad = c.bad
  BY <1>14, SameButGrabsFacts DEF SameButGrabs
<1>17. g.at \in Walks /\ Top(c).at \in Walks
  BY <1>2, <1>10 DEF Walks, f
<1>18. Good(c')
  BY <1>2, <1>11, <1>12, <1>13, <1>15, <1>16, <1>17, WalkStep DEF b, v
<1> QED BY <1>14, <1>18, SameHolders DEF SameButGrabs

\* All grabs have ended.
LEMMA OutDoneBody ==
  ASSUME NEW s \in CanvasType, NEW t, NEW w, NEW b, NEW v,
         t.obj = s.obj, t.order = s.order, t.inside = s.inside, t.pressed = s.pressed,
         t.in = <<>>, t.grabbed = 0,
         Body(s, w, b), Paired(s, w, b), w.at = "out", Range(w.rest) = {}, v.at = "", b.at = ""
  PROVE  Body(t, v, b) /\ Paired(t, v, b) /\ Clean(t, v, b)
<1>1. /\ Lists(s, w) /\ Hover(s, w) /\ Held(s, w) /\ Outside(s, w) /\ Single(s) /\ ~Leaving(v) /\ Leaving(w)
  BY DEF Body, Leaving
<1>2. t.in = <<>> /\ Range(t.in) = {} /\ IsInjective(t.in)
  BY NoneTwice
<1>3. \A o \in Objects : s.obj[o].grabbed = 0 /\ ~(s.obj[o].grabbed > 0)
  <2>1. Holding(s, w) = {}
    BY DEF Holding
  <2>2. \A o \in Objects : ~(s.obj[o].grabbed > 0)
    BY <1>1, <2>1 DEF Held
  <2> QED BY <2>2, ObjectFields, ZeroOrMore
<1>4. Cardinality(GrabsOf(Counts(t))) = 0
  <2> DEFINE n == Counts(t)
  <2>1. \A o \in Objects : n[o] = 0 /\ n[o] \in Nat
    <3> SUFFICES ASSUME NEW o \in Objects
                 PROVE  n[o] = 0 /\ n[o] \in Nat
      OBVIOUS
    <3>1. n[o] = s.obj[o].grabbed
      BY DEF Counts
    <3> HIDE DEF n
    <3> QED BY <1>3, <3>1, ObjectFields
  <2>2. n \in [Objects -> Nat]
    BY <2>1 DEF Counts
  <2> HIDE DEF n
  <2>3. Cardinality(GrabsOf(n)) = 0
    BY <2>1, <2>2, GrabsBound
  <2> QED BY <2>3 DEF n
<1>5. Lists(t, v)
  <2>1. \A o \in Objects : IsAlive(t, o) => IsAlive(s, o)
    BY DEF IsAlive
  <2> QED BY <1>1, <1>2, <2>1 DEF Lists, Arriving
<1>6. Hover(t, v)
  <2>1. \A o \in Objects : ~s.obj[o].in
    BY <1>1 DEF Hover, HasPointer, Arriving
  <2>2. \A o \in Objects : ~HasPointer(t, v, o)
    BY <1>2 DEF HasPointer, Listed, Arriving
  <2> QED BY <2>1, <2>2 DEF Hover
<1>7. Held(t, v)
  <2>1. \A o \in Objects : t.obj[o].grabbed = 0 /\ ~(t.obj[o].grabbed > 0)
    BY <1>3
  <2> QED BY <1>4, <2>1 DEF Held
<1>8. Outside(t, v)
  BY <1>1, <1>2 DEF Outside
<1>9. Norepeat(t, v) /\ Even(t, v, b)
  <2>1. ~(t.grabbed > 0)
    BY IsZero
  <2> QED BY <1>3, <2>1 DEF Norepeat, Even
<1>10. Clean(t, v, b)
  BY <1>1 DEF Clean, Outside
<1>11. /\ (Repeating(t) <=> Repeating(s)) /\ Single(t)
       /\ \A o : Mode(t, o) = Mode(s, o) /\ (IsAlive(t, o) <=> IsAlive(s, o))
  BY <1>1 DEF Repeating, Single, Mode, IsAlive
<1>12. Paired(t, v, b)
  BY <1>11 DEF Paired, Owed
<1> QED BY <1>5, <1>6, <1>7, <1>8, <1>9, <1>10, <1>11, <1>12 DEF Body

\* Then nothing has grabbed the pointer, and its list is empty.
LEMMA OutDoneGood ==
  ASSUME Assumed, Good(c), OutDone
  PROVE  Good(c') /\ HolderKeeps(c, c')
<1> DEFINE f == Top(c)
           e == <<>>
           z == 0
           s == [c EXCEPT !.in = e, !.grabbed = z]
           w == Walk(c)
           b == Button(c)
<1>1. Done("out") /\ At("out") /\ f.rest = <<>> /\ c' = Return(s)
  BY DEF OutDone, Done
<1>2. /\ c \in CanvasType /\ Sound(c) /\ Nested(c) /\ ~c.bad /\ c.stack # <<>> /\ f \in FrameType
      /\ f.at = "out" /\ Body(c, w, b) /\ Paired(c, w, b)
  BY <1>1, AtFacts
<1>3. b.at = ""
  <2>1. f.at \in Walks \intersect Bottoms
    BY <1>2 DEF Walks, Bottoms
  <2> QED BY <1>2, <2>1, AloneFacts
<1>4. Top(c).at \in Walks
  BY <1>2 DEF Walks
<1>5. w.at = "out" /\ Range(w.rest) = {}
  <2>1. w.at = "out" /\ w.rest = <<>>
    BY <1>1, <1>2, <1>4, WalkFields
  <2> QED BY <2>1, EmptySeq, RangeFacts
<1> HIDE DEF f, w, b
<1>0. e \in Seq(Objects) /\ z \in Nat
  BY EmptySeq
<1> HIDE DEF e, z
<1>6. /\ IsRecord(s) /\ s.obj = c.obj /\ s.order = c.order /\ s.x = c.x /\ s.inside = c.inside
      /\ s.in = e /\ s.grabbed = z /\ s.nogrep = c.nogrep /\ s.downs = c.downs
      /\ s.frozen = c.frozen /\ s.stack = c.stack /\ s.pressed = c.pressed /\ s.bad = c.bad
  <2>1. IsRecord(c)
    BY <1>2, CanvasIsRecord
  <2> QED BY <2>1 DEF IsRecord
<1> HIDE DEF s
<1>7. s \in CanvasType
  BY <1>0, <1>2, <1>6, CanvasFields, CanvasRecord
<1>8. c' \in CanvasType /\ SameRest(s, c') /\ c'.stack = Front(c.stack)
  <2>1. s.stack # <<>>
    BY <1>2, <1>6
  <2> QED BY <1>1, <1>6, <1>7, <2>1, ReturnEffect
<1>9. /\ c'.obj = c.obj /\ c'.order = c.order /\ c'.inside = c.inside /\ c'.pressed = c.pressed
      /\ c'.in = <<>> /\ c'.grabbed = 0 /\ c'.bad = c.bad /\ c'.frozen = c.frozen
  BY <1>6, <1>8 DEF SameRest, SameData, e, z
<1>10. Still(Blank).at = ""
  BY StillFields, BlankFields
<1>11. Body(c', Still(Blank), b) /\ Paired(c', Still(Blank), b) /\ Clean(c', Still(Blank), b)
  BY <1>2, <1>3, <1>5, <1>9, <1>10, OutDoneBody
<1>12. Milder(c, c')
  BY <1>9 DEF Milder, SameKind, IsAlive
<1>13. Good(c')
  BY <1>2, <1>4, <1>8, <1>9, <1>11, <1>12, WalkEnds DEF b
<1> QED BY <1>9, <1>13, SameHolders
-----------------------------------------------------------------------------
(***************************************************************************)
(* evas_event_feed_mouse_down                                              *)
(***************************************************************************)

\* A button event reaches nothing behind an object that keeps it to itself.
LEMMA UpToFacts ==
  ASSUME NEW s, NEW l \in Seq(Objects), IsInjective(l)
  PROVE  LET u == UpToNorepeat(s, l)
         IN  /\ u \in Seq(Objects) /\ Range(u) \subseteq Range(l)
             /\ (\A o \in Range(l) : Mode(s, o) # "norepeat") => u = l
             /\ \A n \in Range(l) : Mode(s, n) = "norepeat" =>
                  /\ Single(s) => n \in Range(u)
                  /\ \A o : Before(l, n, o) => o \notin Range(u)
<1> DEFINE I == {i \in 1 .. Len(l) : Mode(s, l[i]) = "norepeat"}
           k == Min(I)
           u == UpToNorepeat(s, l)
<1>1. u = IF (IF I # {} THEN k ELSE 0) = 0 THEN l ELSE SubSeq(l, 1, IF I # {} THEN k ELSE 0)
  BY DEF UpToNorepeat, SelectInSeq
<1>2. CASE I = {}
  <2>1. u = l
    BY <1>1, <1>2
  <2>2. \A n \in Range(l) : Mode(s, n) # "norepeat"
    <3> SUFFICES ASSUME NEW n \in Range(l) PROVE Mode(s, n) # "norepeat"
      OBVIOUS
    <3>1. PICK i \in 1 .. Len(l) : l[i] = n
      BY RangeFacts
    <3> QED BY <1>2, <3>1
  <2> HIDE DEF u
  <2> QED BY <2>1, <2>2 DEF u
<1>3. CASE I # {}
  <2>1. I \in SUBSET Nat
    OBVIOUS
  <2>2. k \in I /\ \A j \in I : k <= j
    BY <1>3, <2>1, MinFacts
  <2>3. k \in 1 .. Len(l) /\ Mode(s, l[k]) = "norepeat"
    BY <2>2
  <2>4. u = SubSeq(l, 1, k)
    <3>1. k # 0
      BY <2>3
    <3> HIDE DEF k, u, I
    <3> QED BY <1>1, <1>3, <3>1
  <2> HIDE DEF k, u
  <2>5. /\ u \in Seq(Objects) /\ l[k] \in Range(u) /\ Range(u) \subseteq Range(l)
        /\ \A p \in Range(u) : p = l[k] \/ Before(l, p, l[k])
    BY <2>3, <2>4, CutOrder
  <2>6. l[k] \in Range(l) /\ Range(l) \subseteq Objects
    BY <2>3, RangeFacts
  <2>7. ASSUME NEW n \in Range(l), Mode(s, n) = "norepeat"
        PROVE  /\ Single(s) => n \in Range(u)
               /\ \A o : Before(l, n, o) => o \notin Range(u)
    <3>1. PICK i \in 1 .. Len(l) : l[i] = n
      BY RangeFacts
    <3>2. i \in I /\ k <= i
      BY <2>2, <2>7, <3>1
    <3>3. Single(s) => n = l[k]
      BY <2>3, <2>6, <2>7 DEF Single
    <3>4. ASSUME NEW o, Before(l, n, o), o \in Range(u)
          PROVE  FALSE
      <4>1. PICK a, b \in 1 .. Len(l) : a < b /\ l[a] = n /\ l[b] = o
        BY <3>4, BeforeFacts
      <4>2. a = i
        BY <3>1, <4>1 DEF IsInjective
      <4>3. CASE o = l[k]
        <5>1. b = k
          BY <2>3, <4>1, <4>3 DEF IsInjective
        <5> QED BY <3>2, <4>1, <4>2, <5>1
      <4>4. CASE Before(l, o, l[k])
        <5>1. PICK p, q \in 1 .. Len(l) : p < q /\ l[p] = o /\ l[q] = l[k]
          BY <4>4, BeforeFacts
        <5>2. p = b /\ q = k
          BY <2>3, <4>1, <5>1 DEF IsInjective
        <5> QED BY <2>3, <3>2, <4>1, <4>2, <5>1, <5>2
      <4> QED BY <2>5, <3>4, <4>3, <4>4
    <3> QED BY <2>5, <3>3, <3>4
  <2>8. (\A o \in Range(l) : Mode(s, o) # "norepeat") => u = l
    BY <2>3, <2>6
  <2> QED BY <2>5, <2>7, <2>8 DEF u
<1> QED BY <1>2, <1>3

\* An object grabs the pointer for the button, or for all that are down if it is
\* the first to do so.
Grabbing(s) == {o \in Range(UpToNorepeat(s, s.in)) : Mode(s, o) # "nograb"}
Times(s)    == IF s.grabbed = 0 THEN s.downs + 1 ELSE 1

Presses(s, t) ==
  /\ t.downs = s.downs + 1
  /\ \A o \in Objects :
       t.obj[o].grabbed = s.obj[o].grabbed + IF o \in Grabbing(s) THEN Times(s) ELSE 0
  /\ t.grabbed = s.grabbed + Times(s) * Cardinality(Grabbing(s))

\* No walk is on, or no button event is reported.
Off(f) == f.at = ""

\* A new list makes up for the buttons that are down, a kept one counts one
\* more.
LEMMA TimesFacts ==
  ASSUME NEW n \in Nat, NEW d \in Nat
  PROVE  LET k == IF n = 0 THEN d + 1 ELSE 1
         IN  /\ k \in Nat /\ k > 0 /\ (n = 0 => k = d + 1) /\ (n > 0 => k = 1)
             /\ d + 1 # 0
             /\ \A g \in Nat : g + k \in Nat /\ g + k > 0 /\ g + 0 = g
             /\ n = 0 \/ n > 0
  OBVIOUS

\* A button goes down: every object of the list has a grab for each button, and
\* will hear of this one.
LEMMA PressBody ==
  ASSUME NEW s \in CanvasType, NEW t \in CanvasType, SameButGrabs(s, t), Presses(s, t),
         NEW w, NEW a, NEW b, Body(s, w, a), Paired(s, w, a), Off(w), Off(a),
         b.at = "down", b.rest = s.in, s.grabbed = 0 => s.in = Hits(s, s.order, s.x)
  PROVE  Body(t, w, b) /\ Paired(t, w, b) /\ Clean(t, w, b)
<1> DEFINE l == s.in
           n == s.grabbed
           d == s.downs
           A == Grabbing(s)
           k == Times(s)
           G(o) == s.obj[o].grabbed
           H(o) == t.obj[o].grabbed
<1>1. /\ Lists(s, w) /\ Hover(s, w) /\ Held(s, w) /\ Outside(s, w) /\ Norepeat(s, w) /\ Even(s, w, a)
      /\ Single(s) /\ ~Leaving(w)
  BY DEF Body, Leaving, Off
<1>2. /\ n \in Nat /\ d \in Nat /\ l \in Seq(Objects) /\ Range(l) \subseteq Objects /\ IsInjective(l)
      /\ \A o \in Objects : G(o) \in Nat
  <2>1. n \in Nat /\ d \in Nat /\ l \in Seq(Objects)
    BY CanvasFields
  <2>2. Range(l) \subseteq Objects
    BY <2>1, RangeFacts
  <2>3. IsInjective(l)
    BY <1>1 DEF Lists
  <2>4. \A o \in Objects : G(o) \in Nat
    BY ObjectFields
  <2> HIDE DEF n, d, l, G
  <2> QED BY <2>1, <2>2, <2>3, <2>4
<1>20. n \in Nat
  BY <1>2
<1>21. d \in Nat
  BY <1>2
<1>22. \A o \in Objects : G(o) \in Nat
  BY <1>2
<1>3. /\ Range(UpToNorepeat(s, l)) \subseteq Range(l)
      /\ (\A o \in Range(l) : Mode(s, o) # "norepeat") => UpToNorepeat(s, l) = l
      /\ \A o \in Range(l) : Mode(s, o) = "norepeat" =>
           /\ Single(s) => o \in Range(UpToNorepeat(s, l))
           /\ \A p : Before(l, o, p) => p \notin Range(UpToNorepeat(s, l))
  BY <1>2, UpToFacts
<1>4. k \in Nat /\ k > 0 /\ (n = 0 => k = d + 1) /\ (n > 0 => k = 1)
  <2>1. k = IF n = 0 THEN d + 1 ELSE 1
    BY DEF Times
  <2> HIDE DEF n, d, k
  <2> QED BY <1>20, <1>21, <2>1, TimesFacts
<1>5. A \subseteq Range(l) /\ A \in SUBSET Objects /\ \A o \in A : Mode(s, o) # "nograb"
  BY <1>2, <1>3 DEF Grabbing
<1>6. /\ (Repeating(t) <=> Repeating(s)) /\ Single(t)
      /\ \A o \in Objects : Mode(t, o) = Mode(s, o) /\ (IsAlive(t, o) <=> IsAlive(s, o))
  <2>1. SameLook(s, t)
    BY DEF SameButGrabs
  <2> QED BY <1>1, <2>1, LookFacts
<1>7. \A o \in Objects : G(o) > 0 => o \in Range(l)
  BY <1>1 DEF Held, Holding, Off
<1>8. \A o \in Objects : n = 0 => G(o) = 0
  BY <1>1, NoneGrabbed
<1>9. t.order = s.order /\ t.in = l /\ t.downs = d + 1
  BY DEF SameButGrabs, Presses
<1>10. Lists(t, w) /\ Hover(t, w) /\ Outside(t, w)
  <2>1. w.at \notin {"leave", "postout"} \union Arriving
    BY DEF Arriving, Off
  <2> QED BY <1>1, <1>2, <2>1, SameButGrabsFacts
<1> HIDE DEF n, d, l, A, k
<1>23. \A o \in Objects : H(o) = G(o) + IF o \in A THEN k ELSE 0
  BY DEF Presses, A, k
<1>24. t.grabbed = n + k * Cardinality(A)
  BY DEF Presses, A, k, n
<1>11. \A o \in Objects : /\ H(o) \in Nat
                          /\ o \in A => H(o) = G(o) + k
                          /\ o \notin A => H(o) = G(o)
  <2> HIDE DEF G, H
  <2> SUFFICES ASSUME NEW o \in Objects
               PROVE  /\ H(o) \in Nat
                      /\ o \in A => H(o) = G(o) + k
                      /\ o \notin A => H(o) = G(o)
    OBVIOUS
  <2>1. G(o) \in Nat /\ H(o) = G(o) + IF o \in A THEN k ELSE 0
    BY <1>22, <1>23
  <2> QED BY <1>4, <2>1
<1> HIDE DEF G, H
<1>12. t.grabbed = Cardinality(GrabsOf(Counts(t)))
  <2> DEFINE p == Counts(s)
             q == Counts(t)
  <2>1. \A o \in Objects : p[o] = G(o) /\ q[o] = H(o)
    BY DEF Counts, G, H
  <2>2. p \in [Objects -> Nat] /\ q \in [Objects -> Nat]
    <3>1. \A o \in Objects : p[o] \in Nat /\ q[o] \in Nat
      BY <1>2, <1>11, <2>1
    <3> QED BY <3>1 DEF Counts
  <2>3. n = Cardinality(GrabsOf(p))
    BY <1>1 DEF Held, n
  <2> HIDE DEF p, q
  <2>4. \A o \in Objects : q[o] = p[o] + IF o \in A THEN k ELSE 0
    BY <1>23, <2>1
  <2>5. Cardinality(GrabsOf(q)) = Cardinality(GrabsOf(p)) + k * Cardinality(A)
    <3>1. k \in Nat /\ A \in SUBSET Objects
      BY <1>4, <1>5
    <3> QED BY <2>2, <2>4, <3>1, GrabsMore
  <2> QED BY <1>24, <2>3, <2>5 DEF q
<1>13. Held(t, w)
  <2>1. ASSUME NEW o \in Objects, H(o) > 0
        PROVE  o \in Range(l)
    BY <1>2, <1>5, <1>7, <1>11, <2>1
  <2>2. ASSUME NEW o \in Objects, Mode(t, o) = "nograb"
        PROVE  H(o) = 0
    <3>1. o \notin A /\ Mode(s, o) = "nograb"
      BY <1>5, <1>6, <2>2
    <3>2. G(o) = 0
      BY <1>1, <3>1 DEF Held, G
    <3> QED BY <1>11, <3>1, <3>2
  <2>3. Holding(t, w) = Range(l)
    BY <1>9 DEF Holding, Off
  <2> QED BY <1>12, <2>1, <2>2, <2>3 DEF Held, H, Off
<1>14. Norepeat(t, w)
  <2> SUFFICES ASSUME NEW m \in Range(l), Mode(t, m) = "norepeat"
               PROVE  KeptBy(t, l, m)
    BY <1>9 DEF Norepeat, Keeps, Off
  <2>1. m \in Objects /\ Mode(s, m) = "norepeat"
    BY <1>2, <1>6
  <2>2. m \in A
    <3>1. m \in Range(UpToNorepeat(s, l))
      BY <1>1, <1>3, <2>1
    <3> QED BY <2>1, <3>1 DEF A, Grabbing, l
  <2>3. H(m) > 0
    <3>1. G(m) \in Nat /\ H(m) = G(m) + k
      BY <1>11, <1>22, <2>1, <2>2
    <3> QED BY <1>4, <3>1
  <2>4. ASSUME NEW o \in Objects, Before(l, o, m)
        PROVE  Before(t.order, o, m)
    <3>1. CASE n = 0
      <4>1. l = Hits(s, s.order, s.x)
        BY <3>1 DEF l, n
      <4>2. s.order \in Seq(Objects)
        BY CanvasFields
      <4>3. Before(Hits(s, s.order, s.x), o, m)
        BY <2>4, <4>1
      <4>4. Before(s.order, o, m)
        BY <4>2, <4>3, HitsFacts
      <4> QED BY <1>9, <4>4
    <3>2. CASE n > 0
      BY <1>1, <1>9, <2>1, <2>4, <3>2 DEF Norepeat, Keeps, KeptBy, l, n
    <3> QED BY <1>20, <3>1, <3>2
  <2>5. ASSUME NEW o \in Objects, Before(l, m, o)
        PROVE  H(o) = 0
    <3>1. o \notin A
      <4>1. o \notin Range(UpToNorepeat(s, l))
        BY <1>3, <2>1, <2>5
      <4> QED BY <4>1 DEF A, Grabbing, l
    <3>2. G(o) = 0
      <4>1. CASE n = 0
        BY <1>8, <4>1
      <4>2. CASE n > 0
        BY <1>1, <2>1, <2>5, <4>2 DEF Norepeat, Keeps, KeptBy, l, n, G
      <4> QED BY <1>20, <4>1, <4>2
    <3> QED BY <1>11, <3>1, <3>2
  <2> QED BY <2>3, <2>4, <2>5 DEF KeptBy, H
<1>15. ASSUME Repeating(t)
       PROVE  /\ \A o \in A : H(o) = d + 1
              /\ \A o \in Objects : H(o) > 0 => o \in A
              /\ \A o \in Objects : o \in Range(l) /\ Mode(s, o) = "autograb" => o \in A
  <2>1. Repeating(s) /\ \A o \in Objects : Mode(s, o) # "norepeat"
    BY <1>6, <1>15 DEF Repeating
  <2>2. UpToNorepeat(s, l) = l
    BY <1>2, <1>3, <2>1
  <2>3. A = {o \in Range(l) : Mode(s, o) # "nograb"}
    BY <2>2 DEF A, Grabbing, l
  <2>4. ASSUME NEW o \in A
        PROVE  H(o) = d + 1
    <3>1. o \in Objects /\ o \in Range(l) /\ H(o) = G(o) + k /\ G(o) \in Nat
      BY <1>2, <1>5, <1>11
    <3>2. CASE n = 0
      <4>1. G(o) = 0 /\ k = d + 1
        BY <1>4, <1>8, <3>1, <3>2
      <4>2. H(o) = 0 + (d + 1)
        BY <3>1, <4>1
      <4> QED BY <1>21, <4>2
    <3>3. CASE n > 0
      <4>1. Mode(s, o) = "autograb"
        <5>1. Mode(s, o) \in {"autograb", "nograb", "norepeat"}
          BY <3>1, ObjectFields DEF Mode, Modes
        <5> QED BY <1>5, <2>1, <3>1, <5>1
      <4>2. Due(s, a, o) = d + 0
        BY DEF Due, d, Off
      <4>3. G(o) = Due(s, a, o)
        BY <1>1, <2>1, <3>1, <3>3, <4>1 DEF Even, Listed, l, n, G
      <4>4. H(o) = (d + 0) + 1
        BY <1>4, <3>1, <3>3, <4>2, <4>3
      <4> QED BY <1>21, <4>4
    <3> QED BY <1>20, <3>2, <3>3
  <2>5. ASSUME NEW o \in Objects, H(o) > 0
        PROVE  o \in A
    <3>1. SUFFICES ASSUME o \notin A
                   PROVE  FALSE
      OBVIOUS
    <3>2. G(o) > 0
      BY <1>11, <2>5, <3>1
    <3>3. o \in Range(l)
      BY <1>7, <3>2
    <3>4. Mode(s, o) = "nograb"
      BY <2>3, <3>1, <3>3
    <3>5. G(o) = 0
      BY <1>1, <3>4 DEF Held, G
    <3> QED BY <3>2, <3>5, IsZero
  <2>6. \A o \in Objects : o \in Range(l) /\ Mode(s, o) = "autograb" => o \in A
    BY <2>3
  <2> QED BY <2>4, <2>5, <2>6
<1>16. Even(t, w, b)
  <2> SUFFICES ASSUME Repeating(t), NEW o \in Objects
               PROVE  /\ H(o) > 0 => H(o) = Due(t, b, o)
                      /\ Listed(t, o) /\ Mode(t, o) = "autograb" => H(o) = Due(t, b, o)
    BY DEF Even, H
  <2>1. Due(t, b, o) = (d + 1) + 0
    BY <1>9 DEF Due
  <2>2. Due(t, b, o) = d + 1
    BY <1>21, <2>1
  <2> QED BY <1>6, <1>9, <1>15, <2>2 DEF Listed
<1>17. Paired(t, w, b)
  <2>0. t.pressed = s.pressed
    BY DEF SameButGrabs
  <2> SUFFICES ASSUME Repeating(t), NEW o \in Objects, IsAlive(t, o)
               PROVE  s.pressed[o] + Owed(t, b, o) <= H(o)
    BY <2>0 DEF Paired, H, Off
  <2> DEFINE p == s.pressed[o]
  <2>1. p \in Nat
    BY CanvasFields
  <2>2. p <= G(o)
    <3>1. Owed(s, a, o) = 0
      BY DEF Owed, Off
    <3>2. p + Owed(s, a, o) <= G(o)
      BY <1>6 DEF Paired, G
    <3> HIDE DEF p
    <3>3. p + 0 <= G(o)
      BY <3>1, <3>2
    <3> QED BY <2>1, <3>3
  <2> HIDE DEF p
  <2>3. CASE o \in A
    <3>1. Owed(t, b, o) \in {0, 1}
      BY DEF Owed
    <3>2. p + Owed(t, b, o) <= G(o) + k
      <4>1. G(o) \in Nat
        BY <1>22
      <4> QED BY <1>4, <2>1, <2>2, <3>1, <4>1
    <3> QED BY <1>11, <2>3, <3>2 DEF p
  <2>4. CASE o \notin A
    <3>1. Owed(t, b, o) = 0
      BY <1>6, <1>15, <2>4 DEF Owed, l
    <3>2. H(o) = G(o)
      BY <1>11, <2>4
    <3>3. p + 0 <= G(o)
      BY <2>1, <2>2
    <3> QED BY <3>1, <3>2, <3>3 DEF p
  <2> QED BY <2>3, <2>4
<1>18. Clean(t, w, b)
  <2>1. t.downs # 0
    <3>1. d + 1 # 0
      BY <1>21
    <3> QED BY <1>9, <3>1
  <2> QED BY <2>1 DEF Clean
<1> QED BY <1>6, <1>10, <1>12, <1>13, <1>14, <1>16, <1>17, <1>18 DEF Body

\* A button goes down over the objects of the list l: those of g grab the pointer
\* k times.
Press(s, l, g, k) ==
  LET r == [s EXCEPT !.downs = @ + 1, !.in = l]
  IN  [r EXCEPT
         !.obj = [o \in Objects |->
                    [s.obj[o] EXCEPT !.grabbed = @ + (IF o \in g THEN k ELSE 0)]],
         !.grabbed = @ + k * Cardinality(g),
         !.nogrep = @ + Cardinality({o \in g : Mode(r, o) = "norepeat"})]

\* What MouseDown writes is such a press.
LEMMA PressEffect ==
  ASSUME NEW s \in CanvasType, NEW l, l = s.in, NEW g, g = Grabbing(s), NEW k, k = Times(s)
  PROVE  LET t == Press(s, l, g, k)
         IN  t \in CanvasType /\ SameButGrabs(s, t) /\ Presses(s, t) /\ t.stack = s.stack
<1> DEFINE r == [s EXCEPT !.downs = @ + 1, !.in = l]
           m == Cardinality({o \in g : Mode(r, o) = "norepeat"})
           n == s.grabbed
           d == s.downs
           G(o) == s.obj[o].grabbed
           q(o) == [s.obj[o] EXCEPT !.grabbed = @ + (IF o \in g THEN k ELSE 0)]
           t == [r EXCEPT
                   !.obj = [o \in Objects |->
                              [s.obj[o] EXCEPT !.grabbed = @ + (IF o \in g THEN k ELSE 0)]],
                   !.grabbed = @ + k * Cardinality(g),
                   !.nogrep = @ + m]
<1>0. t = Press(s, l, g, k)
  BY DEF Press
<1>1. n \in Nat /\ d \in Nat /\ l \in Seq(Objects) /\ s.nogrep \in Nat
  BY CanvasFields
<1>2. k \in Nat
  <2>1. k = IF n = 0 THEN d + 1 ELSE 1
    BY DEF Times
  <2> HIDE DEF n, d
  <2> QED BY <1>1, <2>1, TimesFacts
<1>3. g \in SUBSET Objects
  <2> DEFINE u == UpToNorepeat(s, s.in)
  <2>1. s.in \in Seq(Objects)
    BY CanvasFields
  <2>2. u = s.in \/ \E i \in 1 .. Len(s.in) : u = SubSeq(s.in, 1, i)
    <3> DEFINE I == {i \in 1 .. Len(s.in) : Mode(s, s.in[i]) = "norepeat"}
    <3>1. u = IF (IF I # {} THEN Min(I) ELSE 0) = 0 THEN s.in ELSE SubSeq(s.in, 1, IF I # {} THEN Min(I) ELSE 0)
      BY DEF UpToNorepeat, SelectInSeq
    <3>2. I # {} => Min(I) \in I
      <4>1. I \in SUBSET Nat
        OBVIOUS
      <4> HIDE DEF I
      <4> QED BY <4>1, MinFacts
    <3>3. I # {} => Min(I) \in 1 .. Len(s.in)
      BY <3>2
    <3> HIDE DEF I, u
    <3> QED BY <3>1, <3>3
  <2>3. Range(u) \subseteq Objects
    <3>1. ASSUME NEW i \in 1 .. Len(s.in)
          PROVE  Range(SubSeq(s.in, 1, i)) \subseteq Objects
      <4>1. i \in 0 .. Len(s.in)
        OBVIOUS
      <4>2. SubSeq(s.in, 1, i) \in Seq(Objects)
        BY <2>1, <4>1, CutFacts
      <4> QED BY <4>2, RangeFacts
    <3>2. Range(s.in) \subseteq Objects
      BY <2>1, RangeFacts
    <3> HIDE DEF u
    <3> QED BY <2>2, <3>1, <3>2
  <2> QED BY <2>3 DEF Grabbing
<1>4. Cardinality(g) \in Nat /\ m \in Nat
  <2>1. IsFiniteSet(Objects)
    BY EventsAssumption
  <2> DEFINE h == {o \in g : Mode(r, o) = "norepeat"}
  <2>2. h \in SUBSET Objects
    BY <1>3
  <2>3. m = Cardinality(h)
    OBVIOUS
  <2> HIDE DEF h, m
  <2>4. IsFiniteSet(g) /\ IsFiniteSet(h)
    BY <1>3, <2>1, <2>2, FS_Subset
  <2> QED BY <2>3, <2>4, FS_CardinalityType
<1>5. IsRecord(s)
  BY CanvasIsRecord
<1> HIDE DEF m
<1>6. /\ IsRecord(r) /\ r.obj = s.obj /\ r.order = s.order /\ r.x = s.x /\ r.inside = s.inside
      /\ r.in = l /\ r.grabbed = n /\ r.nogrep = s.nogrep /\ r.downs = d + 1
      /\ r.frozen = s.frozen /\ r.stack = s.stack /\ r.pressed = s.pressed /\ r.bad = s.bad
  BY <1>5 DEF IsRecord
<1> HIDE DEF r
<1>7. /\ IsRecord(t) /\ t.obj = [o \in Objects |-> [s.obj[o] EXCEPT !.grabbed = @ + (IF o \in g THEN k ELSE 0)]]
      /\ t.order = r.order /\ t.x = r.x /\ t.inside = r.inside
      /\ t.in = r.in /\ t.grabbed = r.grabbed + k * Cardinality(g) /\ t.nogrep = r.nogrep + m
      /\ t.downs = r.downs
      /\ t.frozen = r.frozen /\ t.stack = r.stack /\ t.pressed = r.pressed /\ t.bad = r.bad
  <2> DEFINE v1 == [o \in Objects |-> [s.obj[o] EXCEPT !.grabbed = @ + (IF o \in g THEN k ELSE 0)]]
             v2 == r.grabbed + k * Cardinality(g)
             v3 == r.nogrep + m
  <2>1. t = [r EXCEPT !.obj = v1, !.grabbed = v2, !.nogrep = v3]
    OBVIOUS
  <2> HIDE DEF v1, v2, v3, t
  <2>2. IsRecord(r)
    BY <1>6
  <2>3. /\ IsRecord(t) /\ t.obj = v1 /\ t.order = r.order /\ t.x = r.x /\ t.inside = r.inside
        /\ t.in = r.in /\ t.grabbed = v2 /\ t.nogrep = v3 /\ t.downs = r.downs
        /\ t.frozen = r.frozen /\ t.stack = r.stack /\ t.pressed = r.pressed /\ t.bad = r.bad
    BY <2>1, <2>2 DEF IsRecord
  <2> QED BY <2>3 DEF v1, v2, v3
<1>8. t.obj = [o \in Objects |-> q(o)]
  BY <1>6, <1>7
<1> HIDE DEF t
<1>9. ASSUME NEW o \in Objects
      PROVE  /\ q(o) \in ObjectType /\ q(o).grabbed = G(o) + IF o \in g THEN k ELSE 0
             /\ q(o).visible = s.obj[o].visible /\ q(o).pass = s.obj[o].pass /\ q(o).in = s.obj[o].in
             /\ q(o).life = s.obj[o].life /\ q(o).covers = s.obj[o].covers
             /\ q(o).repeat = s.obj[o].repeat /\ q(o).mode = s.obj[o].mode
  <2> DEFINE e == s.obj[o]
             j == G(o) + IF o \in g THEN k ELSE 0
             z == [e EXCEPT !.grabbed = j]
  <2>1. e \in ObjectType /\ G(o) \in Nat
    BY ObjectFields
  <2>2. j \in Nat
    <3> HIDE DEF G
    <3> QED BY <1>2, <2>1
  <2>3. q(o) = z
    OBVIOUS
  <2>4. z \in ObjectType /\ z.grabbed = j
        /\ z.visible = e.visible /\ z.pass = e.pass /\ z.in = e.in
        /\ z.life = e.life /\ z.covers = e.covers /\ z.repeat = e.repeat /\ z.mode = e.mode
    <3> HIDE DEF e, j
    <3> QED BY <2>1, <2>2 DEF ObjectType
  <2> HIDE DEF q, z
  <2> QED BY <2>3, <2>4
<1> HIDE DEF q
<1>10. /\ t.obj \in [Objects -> ObjectType] /\ \A o \in Objects : t.obj[o] = q(o)
  BY <1>8, <1>9
<1>11. t.grabbed = n + k * Cardinality(g) /\ t.downs = d + 1 /\ t.nogrep = s.nogrep + m
  BY <1>6, <1>7
<1>12. t.grabbed \in Nat /\ t.downs \in Nat /\ t.nogrep \in Nat
  <2> DEFINE i == Cardinality(g)
             v == s.nogrep
  <2>1. n + k * i \in Nat /\ d + 1 \in Nat /\ v + m \in Nat
    <3>1. n \in Nat /\ k \in Nat /\ i \in Nat /\ d \in Nat /\ v \in Nat /\ m \in Nat
      BY <1>1, <1>2, <1>4
    <3> HIDE DEF n, i, d, v
    <3> QED BY <3>1
  <2> QED BY <1>11, <2>1
<1>13. t \in CanvasType
  BY <1>1, <1>6, <1>7, <1>10, <1>12, CanvasFields, CanvasRecord
<1>14. SameButGrabs(s, t)
  BY <1>6, <1>7, <1>9, <1>10 DEF SameButGrabs, SameLook
<1>15. Presses(s, t)
  BY <1>9, <1>10, <1>11 DEF Presses
<1>16. t.stack = s.stack
  BY <1>6, <1>7
<1> QED BY <1>0, <1>13, <1>14, <1>15, <1>16

\* A button event is reported from the main loop.
LEMMA ButtonStarts ==
  ASSUME NEW s \in CanvasType, s.stack = <<>>, Nested(s), ~s.bad, ~(s.frozen > 0),
         NEW g \in FrameType, g.at \in {"down", "up"}, g.gone = {}, IsInjective(g.rest),
         \A o \in Range(g.rest) : s.obj[o].life # "freed",
         NEW t \in CanvasType, t.stack = Append(s.stack, g), Milder(s, t), t.bad = s.bad,
         Body(t, Still(Blank), Still(g)), Paired(t, Still(Blank), Still(g)),
         Clean(t, Still(Blank), Still(g))
  PROVE  Good(t)
<1>1. Called(s, t, g)
  BY StackEffect
<1>2. Len(s.stack) = 0
  BY EmptySeq
<1>3. Len(t.stack) = 1
  <2> DEFINE n == Len(s.stack)
  <2>1. n = 0 /\ Len(t.stack) = n + 1
    BY <1>1, <1>2 DEF Called
  <2> HIDE DEF n
  <2> QED BY <2>1
<1>4. FitsIn(s, g, Len(t.stack))
  BY <1>3 DEF FitsIn
<1>5. FitsIn(t, g, Len(t.stack))
  BY <1>4, FitsMilder
<1>6. Nested(t)
  <2>1. \A i \in 1 .. Len(s.stack) : Above(s.stack[i], g.at)
    <3>1. \A i : i \notin 1 .. Len(s.stack)
      BY <1>2
    <3> QED BY <3>1
  <2> QED BY <1>1, <1>5, <2>1, NestedCalled
<1>7. Walk(t) = Still(Blank) /\ Button(t) = Still(g) /\ Gone(t) = {}
  <2>1. g.at \notin Walks /\ g.at \in Buttons
    BY DEF Walks, Buttons
  <2> QED BY <1>1, <2>1, CalledFacts
<1>8. Missed(t, Still(g))
  BY <1>7 DEF Missed
<1> QED BY <1>6, <1>7, <1>8, SoundParts

\* A button goes down.
LEMMA MouseDownGood ==
  ASSUME Assumed, Good(c), MouseDown
  PROVE  Good(c') /\ HolderKeeps(c, c')
<1> DEFINE l == c.in
           k == Times(c)
           a == Grabbing(c)
           w == Still(Blank)
           t == Press(c, l, a, k)
           g == Frame("down", l)
           b == Still(g)
<1>1. Idle /\ ~(c.frozen > 0) /\ c.inside /\ Moved
  BY DEF MouseDown, Feed, Assumed, ButtonsNotFrozen
<1>2. /\ c \in CanvasType /\ Nested(c) /\ ~c.bad /\ c.stack = <<>>
      /\ Body(c, w, w) /\ Paired(c, w, w) /\ Off(w)
  BY <1>1, IdleFacts DEF Off
<1>3. l \in Seq(Objects) /\ IsInjective(l) /\ \A o \in Range(l) : IsAlive(c, o)
  BY <1>2, CanvasFields DEF Body, Lists
<1>4. c.grabbed = 0 => l = Hits(c, c.order, c.x) /\ l = EventList(c, c.x)
  BY <1>1 DEF Moved, EventList
<1>5. (IF c.grabbed = 0 THEN EventList(c, c.x) ELSE c.in) = l
  BY <1>4
<1>6. IsRecord(c)
  BY <1>2, CanvasIsRecord
<1>7. c' = Push(t, g)
  <2> DEFINE new == c.grabbed = 0
             l2 == IF new THEN EventList(c, c.x) ELSE c.in
             s2 == [c EXCEPT !.downs = @ + 1, !.in = l2]
             k2 == IF new THEN s2.downs ELSE 1
             a2 == {o \in Range(UpToNorepeat(s2, s2.in)) : Mode(s2, o) # "nograb"}
             t2 == [s2 EXCEPT
                      !.obj = [o \in Objects |->
                                 [c.obj[o] EXCEPT !.grabbed = @ + (IF o \in a2 THEN k2 ELSE 0)]],
                      !.grabbed = @ + k2 * Cardinality(a2),
                      !.nogrep = @ + Cardinality({o \in a2 : Mode(s2, o) = "norepeat"})]
  <2>1. c' = IF c.frozen > 0 THEN [c EXCEPT !.downs = @ + 1] ELSE Push(t2, Frame("down", s2.in))
    BY DEF MouseDown
  <2> DEFINE r == [c EXCEPT !.downs = @ + 1, !.in = l]
             t1 == [r EXCEPT
                      !.obj = [o \in Objects |->
                                 [c.obj[o] EXCEPT !.grabbed = @ + (IF o \in a THEN k ELSE 0)]],
                      !.grabbed = @ + k * Cardinality(a),
                      !.nogrep = @ + Cardinality({o \in a : Mode(r, o) = "norepeat"})]
  <2>2. s2 = r
    BY <1>5
  <2>3. r.obj = c.obj /\ r.in = l /\ r.downs = c.downs + 1
    BY <1>6 DEF IsRecord
  <2>4. k2 = k
    BY <2>2, <2>3 DEF Times
  <2>5. a2 = a
    <3>1. \A o : Mode(r, o) = Mode(c, o)
      BY <2>3 DEF Mode
    <3>2. UpToNorepeat(r, l) = UpToNorepeat(c, l)
      BY <2>3 DEF UpToNorepeat, Mode
    <3>3. a2 = {o \in Range(UpToNorepeat(r, r.in)) : Mode(r, o) # "nograb"}
      BY <2>2
    <3> HIDE DEF r, a2
    <3> QED BY <2>3, <3>1, <3>2, <3>3 DEF Grabbing
  <2>6. t2 = t
    <3>1. t1 = t
      BY DEF Press
    <3> HIDE DEF s2, r, k2, a2, k, a, t
    <3>2. t2 = t1
      BY <2>2, <2>4, <2>5
    <3> QED BY <3>1, <3>2
  <2>7. s2.in = l
    BY <2>2, <2>3
  <2> HIDE DEF t2, s2, t
  <2> QED BY <1>1, <2>1, <2>6, <2>7
<1>8. t \in CanvasType /\ SameButGrabs(c, t) /\ Presses(c, t) /\ t.stack = c.stack
  <2>1. l = c.in /\ a = Grabbing(c) /\ k = Times(c)
    OBVIOUS
  <2>2. c \in CanvasType
    BY <1>2
  <2> HIDE DEF l, a, k, w
  <2> QED BY <2>1, <2>2, PressEffect
<1> HIDE DEF t, w, l, k, a
<1>9. g \in FrameType /\ g.at = "down" /\ g.rest = l /\ g.gone = {}
  <2>1. "down" \in Walks \union Buttons
    BY DEF Buttons
  <2> QED BY <1>3, <2>1, FrameOf
<1> HIDE DEF g
<1>10. b.at = "down" /\ b.rest = l
  BY <1>9, StillFields
<1>11. c' \in CanvasType /\ SameRest(t, c') /\ c'.stack = Append(c.stack, g)
  BY <1>7, <1>8, <1>9, PushEffect
<1>12. SameButGrabs(c, c') /\ Presses(c, c')
  BY <1>8, <1>11 DEF SameButGrabs, SameLook, Presses, SameRest, SameData
<1> HIDE DEF b
<1>13. Body(c', w, b) /\ Paired(c', w, b) /\ Clean(c', w, b)
  <2>1. b.rest = c.in /\ (c.grabbed = 0 => c.in = Hits(c, c.order, c.x))
    BY <1>4, <1>10 DEF l
  <2> QED BY <1>2, <1>10, <1>11, <1>12, <2>1, PressBody
<1>14. Milder(c, c') /\ c'.bad = c.bad
  BY <1>12, SameButGrabsFacts DEF SameButGrabs
<1>15. Good(c')
  <2>1. IsInjective(g.rest) /\ \A o \in Range(g.rest) : c.obj[o].life # "freed"
    BY <1>3, <1>9 DEF IsAlive
  <2>2. g.at \in {"down", "up"}
    BY <1>9
  <2> QED BY <1>1, <1>2, <1>9, <1>11, <1>13, <1>14, <2>1, <2>2, ButtonStarts DEF b, w
<1> QED BY <1>12, <1>15, SameHolders DEF SameButGrabs
-----------------------------------------------------------------------------
(***************************************************************************)
(* Events that may be told while a button event is reported, or while an   *)
(* object is deleted                                                       *)
(***************************************************************************)

Tells == {"down", "upped", "deleted", "freeing"}

\* Nothing that an event changes matters but what was heard of the buttons.
LEMMA ToldGood ==
  ASSUME NEW s \in CanvasType, Nested(s), ~s.bad, s.stack # <<>>, Top(s).at \in Tells,
         NEW b, b = Button(s), Body(s, Still(Blank), b), Clean(s, Still(Blank), b),
         NEW t \in CanvasType, SameData(s, t), Alike(s, t),
         Paired(t, Still(Blank), b), Missed(t, b)
  PROVE  Good(t) /\ t.obj = s.obj /\ t.stack # <<>> /\ Top(t).at = Top(s).at
<1>1. Milder(s, t) /\ ~t.bad /\ t.obj = s.obj
  BY DEF Milder, SameKind, SameData, IsAlive
<1>2. Nested(t)
  BY <1>1, NestedAlike
<1>3. /\ Walk(t) = Walk(s) /\ Button(t) = b /\ t.stack # <<>> /\ Top(t).at = Top(s).at
  BY AlikeFacts
<1>4. Walk(s) = Still(Blank)
  <2>1. Top(s).at \notin Walks
    BY DEF Tells, Walks
  <2> QED BY <2>1, WalkFields
<1>5. Body(t, Still(Blank), b) /\ Clean(t, Still(Blank), b)
  BY SameDataFacts
<1> QED BY <1>1, <1>2, <1>3, <1>4, <1>5, SoundParts

\* A callback starts.
LEMMA CallbackGood ==
  ASSUME NEW s, Good(s), s.stack # <<>>, Top(s).at \in Tells, NEW o \in Objects
  PROVE  Good(Push(s, CallbackOf(o))) /\ Push(s, CallbackOf(o)).obj = s.obj
<1> DEFINE g == CallbackOf(o)
           t == Push(s, g)
           b == Button(s)
           w == Still(Blank)
<1>1. s \in CanvasType /\ Nested(s) /\ ~s.bad /\ Body(s, Walk(s), b) /\ Paired(s, Walk(s), b)
      /\ Missed(s, b) /\ Clean(s, Walk(s), b)
  BY DEF Good, Sound
<1>2. Walk(s) = w
  <2>1. Top(s).at \notin Walks
    BY DEF Tells, Walks
  <2> QED BY <1>1, <2>1, WalkFields
<1>3. /\ IsFrame(g) /\ g.at = "callback" /\ g.cur = o /\ g.rest = <<>> /\ g.ins = <<>>
      /\ g.x \in Points /\ g.gone = {} /\ g.moved \in BOOLEAN /\ g.below \in BOOLEAN
  <2>1. IsFrame(Blank)
    BY FrameIsRecord
  <2> QED BY <2>1, BlankFields DEF CallbackOf, IsFrame
<1> HIDE DEF g, w, b
<1>4. g \in FrameType
  <2>1. g.at \in Walks \union Waits \union Bottoms \union Quiet
    BY <1>3 DEF Quiet
  <2>2. g.rest \in Seq(Objects) /\ g.ins \in Seq(Objects)
    BY <1>3, EmptySeq
  <2>3. g.cur \in Objects \union {NoObject} /\ g.gone \in SUBSET Objects
    BY <1>3
  <2> QED BY <1>3, <2>1, <2>2, <2>3, Places
<1>5. t \in CanvasType /\ SameRest(s, t) /\ t.stack = Append(s.stack, g)
  BY <1>1, <1>4, PushEffect
<1> HIDE DEF t
<1>6. Called(s, t, g)
  BY <1>1, <1>4, <1>5, StackEffect
<1>7. Milder(s, t) /\ ~t.bad /\ t.obj = s.obj
  BY <1>1, <1>5 DEF Milder, SameKind, SameRest, SameData, IsAlive
<1>8. Nested(t)
  <2>1. FitsIn(t, g, Len(t.stack))
    <3>1. IsInjective(g.rest) /\ Range(g.rest) = {}
      BY <1>3, NoneTwice
    <3>2. g.at \notin Bottoms /\ g.at \in Quiet
      BY <1>3 DEF Bottoms, Buttons, Quiet
    <3>3. g.at \notin {"dragged", "outed", "upped", "inform", "del", "deleted", "freeing"}
      BY <1>3
    <3> QED BY <3>1, <3>2, <3>3 DEF FitsIn
  <2>2. Open(s)
    <3>1. Top(s).at \notin Walks \union {"inform", "del"}
      BY DEF Tells, Walks
    <3> QED BY <1>1, <3>1, OpenFacts
  <2>3. \A i \in 1 .. Len(s.stack) : Above(s.stack[i], g.at)
    BY <1>1, <2>2, OpenFacts
  <2>4. Top(s).at \in Waits
    BY DEF Tells, Waits
  <2> QED BY <1>1, <1>4, <1>5, <1>6, <1>7, <2>1, <2>3, <2>4, NestedCalled
<1>9. Walk(t) = w /\ Button(t) = b /\ Gone(t) = Gone(s)
  <2>1. g.at \notin Walks
    BY <1>3 DEF Walks
  <2> QED BY <1>1, <1>5, <1>6, <2>1, CalledFacts DEF w, b
<1>10. Body(t, w, b) /\ Clean(t, w, b) /\ Paired(t, w, b)
  BY <1>1, <1>2, <1>5, SameRestFacts
<1>11. Missed(t, b)
  <2>1. t.obj = s.obj /\ t.pressed = s.pressed
    BY <1>5 DEF SameRest, SameData
  <2> QED BY <1>1, <1>9, <2>1 DEF Missed, Repeating, Mode, IsAlive
<1>12. Good(t)
  BY <1>5, <1>7, <1>8, <1>9, <1>10, <1>11, SoundParts
<1> QED BY <1>7, <1>12 DEF t, g

\* An object is told of an event: what was heard of the buttons is all that must
\* be looked at, whether the object hears of it or not.
LEMMA TellGood ==
  ASSUME NEW s \in CanvasType, Nested(s), ~s.bad, s.stack # <<>>, Top(s).at \in Tells,
         NEW b, b = Button(s), Body(s, Still(Blank), b), Clean(s, Still(Blank), b),
         NEW o \in Objects, NEW type, NEW u, u = Tell(s, o, type),
         ~IsAlive(s, o) \/ (o \in Top(s).gone /\ type \in {"down", "up", "move"}) =>
           Paired(s, Still(Blank), b) /\ Missed(s, b),
         \A t : Told(s, t, o, type) => Paired(t, Still(Blank), b) /\ Missed(t, b)
  PROVE  Good(u) /\ u.obj = s.obj
<1>1. ASSUME NEW t, Told(s, t, o, type)
      PROVE  Good(t) /\ t.obj = s.obj /\ t.stack # <<>> /\ Top(t).at \in Tells
  <2>1. t \in CanvasType /\ SameData(s, t) /\ Alike(s, t)
    BY <1>1 DEF Told
  <2>2. Paired(t, Still(Blank), b) /\ Missed(t, b)
    BY <1>1
  <2> QED BY <2>1, <2>2, ToldGood
<1>2. CASE u = s /\ (~IsAlive(s, o) \/ (o \in Top(s).gone /\ type \in {"down", "up", "move"}))
  <2>1. SameData(s, s) /\ Alike(s, s)
    BY DEF SameData, Alike
  <2>2. Paired(s, Still(Blank), b) /\ Missed(s, b)
    BY <1>2
  <2>3. Good(s)
    BY <2>1, <2>2, ToldGood
  <2> QED BY <1>2, <2>3
<1>3. CASE Told(s, u, o, type)
  BY <1>1, <1>3
<1>4. ASSUME NEW t, Told(s, t, o, type), u = Push(t, CallbackOf(o))
      PROVE  Good(u) /\ u.obj = s.obj
  <2>1. Good(t) /\ t.obj = s.obj /\ t.stack # <<>> /\ Top(t).at \in Tells
    BY <1>1, <1>4
  <2>2. Good(Push(t, CallbackOf(o))) /\ Push(t, CallbackOf(o)).obj = t.obj
    BY <2>1, CallbackGood
  <2> QED BY <1>4, <2>1, <2>2
<1> QED BY <1>2, <1>3, <1>4, TellEffect

\* What is so while a button event is reported.
LEMMA ButtonFacts ==
  ASSUME NEW place \in Buttons, Good(c), At(place)
  PROVE  /\ c \in CanvasType /\ Nested(c) /\ ~c.bad /\ c.stack # <<>> /\ Len(c.stack) = 1
         /\ ~(c.frozen > 0)
         /\ Top(c) \in FrameType /\ IsFrame(Top(c)) /\ Top(c).at = place
         /\ FitsIn(c, Top(c), 1)
         /\ Walk(c) = Still(Blank) /\ Off(Still(Blank)) /\ ~Leaving(Still(Blank))
         /\ Button(c) = Still(Top(c)) /\ Button(c).at = place /\ Button(c).rest = Top(c).rest
         /\ Gone(c) = Top(c).gone
         /\ Body(c, Still(Blank), Button(c)) /\ Paired(c, Still(Blank), Button(c))
         /\ Missed(c, Button(c)) /\ Clean(c, Still(Blank), Button(c))
<1>1. /\ c \in CanvasType /\ Nested(c) /\ ~c.bad /\ c.stack # <<>> /\ Top(c) \in FrameType
      /\ IsFrame(Top(c)) /\ Top(c).at = place /\ FitsIn(c, Top(c), Len(c.stack))
      /\ Body(c, Walk(c), Button(c)) /\ Paired(c, Walk(c), Button(c)) /\ Missed(c, Button(c))
      /\ Clean(c, Walk(c), Button(c))
  BY AtFacts
<1>2. place \notin Walks /\ place \in Bottoms /\ place \notin Quiet
  BY DEF Buttons, Walks, Bottoms, Quiet
<1>3. Len(c.stack) = 1 /\ ~(c.frozen > 0)
  BY <1>1, <1>2 DEF FitsIn
<1>4. Top(c) = c.stack[1]
  BY <1>1, <1>3, StackFacts
<1>5. Walk(c) = Still(Blank) /\ Still(Blank).at = ""
  BY <1>1, <1>2, WalkFields
<1>6. Button(c) = Still(Top(c)) /\ Gone(c) = Top(c).gone
  BY <1>1, <1>4 DEF Button, Gone
<1>7. Button(c).at = place /\ Button(c).rest = Top(c).rest
  BY <1>1, <1>6, StillFields
<1>8. Off(Still(Blank)) /\ ~Leaving(Still(Blank))
  BY <1>5 DEF Off, Leaving
<1> QED BY <1>1, <1>3, <1>5, <1>6, <1>7, <1>8

\* The report of a button event goes on: its function is g then.
LEMMA ButtonMoves ==
  ASSUME NEW s \in CanvasType, Nested(s), s.stack # <<>>, Len(s.stack) = 1, ~(s.frozen > 0),
         NEW g \in FrameType, g.at \in Buttons, g.at = "upped" => g.cur \in Objects,
         IsInjective(g.rest), \A o \in Range(g.rest) : s.obj[o].life # "freed",
         NEW t \in CanvasType, t.stack = [s.stack EXCEPT ![Len(s.stack)] = g], Milder(s, t)
  PROVE  /\ Nested(t) /\ t.stack # <<>> /\ Len(t.stack) = 1 /\ Top(t) = g
         /\ Walk(t) = Still(Blank) /\ Button(t) = Still(g) /\ Gone(t) = g.gone
         /\ Still(g).at = g.at /\ Still(g).rest = g.rest
<1>1. Changed(s, t, g)
  BY StackEffect
<1>2. Len(t.stack) = 1 /\ t.stack # <<>> /\ Top(t) = g
  BY <1>1, ChangedFacts DEF Changed
<1>3. FitsIn(s, g, 1)
  <2>1. g.at \notin {"dragged", "outed", "inform", "del", "deleted", "freeing"}
    BY DEF Buttons
  <2> QED BY <2>1 DEF FitsIn
<1>4. FitsIn(t, g, Len(t.stack))
  BY <1>2, <1>3, FitsMilder
<1>5. Nested(t)
  <2>1. \A i \in 1 .. Len(s.stack) - 1 : Above(s.stack[i], g.at)
    <3> DEFINE n == Len(s.stack)
    <3>1. n = 1
      OBVIOUS
    <3>2. \A i : i \notin 1 .. n - 1
      BY <3>1
    <3> QED BY <3>2
  <2> QED BY <1>1, <1>4, <2>1, NestedChanged
<1>6. Walk(t) = Still(Blank) /\ Button(t) = Still(g) /\ Gone(t) = g.gone
  <2>1. g.at \notin Walks
    BY DEF Buttons, Walks
  <2> QED BY <1>1, <2>1, ChangedFacts
<1>7. Still(g).at = g.at /\ Still(g).rest = g.rest
  BY StillFields
<1> QED BY <1>2, <1>5, <1>6, <1>7

\* Only the buttons that an object that has grabbed the pointer waits for depend
\* on which button event is reported.
LEMMA OtherButton ==
  ASSUME NEW s, NEW w, NEW b, NEW d, Body(s, w, b), \A o \in Objects : Due(s, d, o) = Due(s, b, o)
  PROVE  Body(s, w, d)
BY DEF Body, Even

\* The i-th of the objects hears that a button goes down.
LEMMA DownPaired ==
  ASSUME NEW s \in CanvasType, NEW t, t.obj = s.obj, NEW w, Off(w), NEW b, NEW d,
         b.at = "down", d.at = "down", Paired(s, w, b), NEW o \in Objects,
         o \in Range(b.rest), Range(d.rest) \subseteq Range(b.rest), o \notin Range(d.rest),
         t.pressed = s.pressed \/ t.pressed = [s.pressed EXCEPT ![o] = Hears(s, o, "down")]
  PROVE  Paired(t, w, d)
<1> SUFFICES ASSUME Repeating(s), NEW p \in Objects, IsAlive(s, p)
             PROVE  t.pressed[p] + Owed(t, d, p) <= s.obj[p].grabbed
  BY DEF Paired, Repeating, Mode, IsAlive, Off
<1>1. /\ s.pressed \in [Objects -> Nat] /\ s.pressed[p] \in Nat /\ s.obj[p].grabbed \in Nat
  BY CanvasFields, ObjectFields
<1>2. s.pressed[p] + Owed(s, b, p) <= s.obj[p].grabbed
  BY DEF Paired
<1>3. Owed(s, b, p) \in {0, 1} /\ Owed(t, d, p) \in {0, 1}
  BY DEF Owed
<1>4. Mode(t, p) = Mode(s, p)
  BY DEF Mode
<1>5. Owed(t, d, p) = 1 => Owed(s, b, p) = 1
  BY <1>4 DEF Owed
<1>6. CASE t.pressed[p] = s.pressed[p]
  BY <1>1, <1>2, <1>3, <1>5, <1>6
<1>7. CASE p = o /\ t.pressed[p] = Hears(s, o, "down")
  <2> DEFINE h == Hears(s, o, "down")
  <2>1. Owed(t, d, p) = 0
    BY <1>7 DEF Owed
  <2>2. h \in Nat /\ h <= s.pressed[p] + IF Mode(s, p) = "autograb" THEN 1 ELSE 0
    BY <1>7, HearsFacts
  <2>3. Owed(s, b, p) = IF Mode(s, p) = "autograb" THEN 1 ELSE 0
    BY <1>7 DEF Owed
  <2> HIDE DEF h
  <2>4. h <= s.pressed[p] + Owed(s, b, p)
    BY <2>2, <2>3
  <2>5. h + 0 <= s.obj[p].grabbed
    BY <1>1, <1>2, <1>3, <2>2, <2>4
  <2> QED BY <1>7, <2>1, <2>5 DEF h
<1>8. t.pressed[p] = s.pressed[p] \/ (p = o /\ t.pressed[p] = Hears(s, o, "down"))
  BY <1>1
<1> QED BY <1>6, <1>7, <1>8

\* An object of the list hears of a button going down.
LEMMA DownGood ==
  ASSUME Assumed, Good(c), Down
  PROVE  Good(c') /\ HolderKeeps(c, c')
<1> DEFINE f == Top(c)
           o == Head(f.rest)
           l == IF Mode(c, o) = "norepeat" /\ c.obj[o].life = "alive" THEN <<>> ELSE Tail(f.rest)
           g == [f EXCEPT !.rest = l]
           s == Become(c, g)
           w == Still(Blank)
           b == Button(c)
           d == Still(g)
<1>1. More("down") /\ At("down") /\ "down" \in Buttons /\ f.rest # <<>>
  BY DEF Down, More, Buttons
<1>2. /\ c \in CanvasType /\ Nested(c) /\ ~c.bad /\ c.stack # <<>> /\ Len(c.stack) = 1
      /\ ~(c.frozen > 0) /\ f \in FrameType /\ IsFrame(f) /\ f.at = "down"
      /\ Off(w) /\ b.at = "down" /\ b.rest = f.rest
      /\ Body(c, w, b) /\ Paired(c, w, b) /\ Clean(c, w, b)
  BY <1>1, ButtonFacts
<1>3. /\ o \in Objects /\ c.obj[o].life # "freed" /\ o \in Range(f.rest)
      /\ Range(f.rest) = Range(Tail(f.rest)) \union {o} /\ Tail(f.rest) \in Seq(Objects)
      /\ \A p \in Range(f.rest) : p \in Objects /\ c.obj[p].life # "freed"
      /\ o \notin Range(Tail(f.rest)) /\ IsInjective(Tail(f.rest))
  BY <1>1, AdvanceFacts
<1>4. c' = Tell(s, o, "down")
  <2>1. Head_ = o
    BY DEF Head_
  <2>2. c' = TellMouse(s, o, "down")
    BY <1>3, <2>1, ReadingFacts DEF Down
  <2>3. s.frozen = c.frozen
    BY <1>2, CanvasIsRecord DEF Become, IsRecord
  <2> HIDE DEF s
  <2> QED BY <1>2, <2>2, <2>3 DEF TellMouse
<1>5. /\ l \in Seq(Objects) /\ IsInjective(l) /\ Range(l) \subseteq Range(f.rest) /\ o \notin Range(l)
  BY <1>3, NoneTwice
<1> HIDE DEF o, f, w, b, l
<1>6. /\ IsFrame(g) /\ g.at = "down" /\ g.cur = f.cur /\ g.rest = l /\ g.ins = f.ins
      /\ g.x = f.x /\ g.moved = f.moved /\ g.below = f.below /\ g.gone = f.gone
  BY <1>2 DEF IsFrame
<1> HIDE DEF g
<1>7. g \in FrameType
  <2>1. g.at \in Walks \union Waits \union Bottoms \union Quiet
    BY <1>6 DEF Waits
  <2> QED BY <1>2, <1>5, <1>6, <2>1, Places, FrameFields
<1>8. s \in CanvasType /\ SameRest(c, s) /\ s.stack = [c.stack EXCEPT ![Len(c.stack)] = g]
  BY <1>2, <1>7, BecomeEffect
<1> HIDE DEF s
<1>9. s.obj = c.obj /\ s.pressed = c.pressed /\ ~s.bad /\ Milder(c, s)
  BY <1>2, <1>8 DEF SameRest, SameData, Milder, SameKind, IsAlive
<1>10. /\ Nested(s) /\ s.stack # <<>> /\ Top(s) = g /\ Walk(s) = Still(Blank) /\ Button(s) = d
       /\ d.at = "down" /\ d.rest = l
  <2>1. g.at \in Buttons /\ g.at # "upped"
    BY <1>6 DEF Buttons
  <2>2. IsInjective(g.rest) /\ \A p \in Range(g.rest) : c.obj[p].life # "freed"
    BY <1>3, <1>5, <1>6
  <2> QED BY <1>2, <1>6, <1>7, <1>8, <1>9, <2>1, <2>2, ButtonMoves
<1> HIDE DEF d
<1>11. Body(s, w, d) /\ Clean(s, w, d)
  <2>1. \A p \in Objects : Due(c, d, p) = Due(c, b, p)
    BY <1>2, <1>10 DEF Due
  <2>2. Body(c, w, d)
    BY <1>2, <2>1, OtherButton
  <2>3. Clean(c, w, d)
    BY <1>2, <1>10 DEF Clean
  <2> QED BY <1>8, <2>2, <2>3, SameRestFacts
<1>12. ASSUME NEW t, t.obj = c.obj,
              t.pressed = c.pressed \/ t.pressed = [c.pressed EXCEPT ![o] = Hears(c, o, "down")]
       PROVE  Paired(t, w, d) /\ Missed(t, d)
  <2>1. Paired(t, w, d)
    <3>1. /\ o \in Range(b.rest) /\ Range(d.rest) \subseteq Range(b.rest) /\ o \notin Range(d.rest)
      BY <1>2, <1>3, <1>5, <1>10
    <3> QED BY <1>2, <1>3, <1>10, <1>12, <3>1, DownPaired
  <2>2. Missed(t, d)
    BY <1>10 DEF Missed
  <2> QED BY <2>1, <2>2
<1>13. Paired(s, w, d) /\ Missed(s, d)
  BY <1>9, <1>12
<1>14. ASSUME NEW t, Told(s, t, o, "down")
       PROVE  Paired(t, w, d) /\ Missed(t, d)
  <2>1. t.obj = c.obj /\ t.pressed = [c.pressed EXCEPT ![o] = Hears(s, o, "down")]
    BY <1>9, <1>14 DEF Told, SameData
  <2>2. Hears(s, o, "down") = Hears(c, o, "down")
    BY <1>9 DEF Hears, Mode
  <2> QED BY <1>12, <2>1, <2>2
<1>15. Top(s).at \in Tells
  BY <1>6, <1>10 DEF Tells
<1>16. Good(c') /\ c'.obj = s.obj
  BY <1>3, <1>4, <1>8, <1>9, <1>10, <1>11, <1>13, <1>14, <1>15, TellGood DEF w
<1> QED BY <1>9, <1>16, SameHolders

\* The report of a button event ends.
LEMMA ButtonEnds ==
  ASSUME Good(c), NEW place \in {"down", "up"}, Done(place), place = "up" => c.grabbed # 0
  PROVE  Good(Return(c)) /\ HolderKeeps(c, Return(c))
<1> DEFINE t == Return(c)
           w == Still(Blank)
           b == Button(c)
<1>1. At(place) /\ place \in Buttons /\ Top(c).rest = <<>>
  BY DEF Done, Buttons
<1>2. /\ c \in CanvasType /\ Nested(c) /\ ~c.bad /\ c.stack # <<>> /\ Len(c.stack) = 1
      /\ ~Leaving(w) /\ Off(w)
      /\ b.at = place /\ b.rest = Top(c).rest
      /\ Body(c, w, b) /\ Paired(c, w, b) /\ Clean(c, w, b)
  BY <1>1, ButtonFacts
<1>3. t \in CanvasType /\ SameRest(c, t) /\ t.stack = Front(c.stack)
  BY <1>2, ReturnEffect
<1> HIDE DEF t, w, b
<1>4. Returned(c, t) /\ t.obj = c.obj /\ ~t.bad /\ Milder(c, t)
  <2>1. Returned(c, t)
    <3>1. \E f : f \in FrameType
      BY <1>1, <1>2, ButtonFacts
    <3> QED BY <1>2, <1>3, <3>1, StackEffect
  <2> QED BY <1>2, <1>3, <2>1 DEF SameRest, SameData, Milder, SameKind, IsAlive
<1>5. Nested(t) /\ Walk(t) = w /\ Button(t) = w /\ t.stack = <<>>
  BY <1>2, <1>3, <1>4, NestedReturned, ReturnedFacts DEF w
<1>6. Range(b.rest) = {} /\ b.at \in {"down", "up"} /\ w.at = ""
  BY <1>1, <1>2, NoneTwice DEF Off
<1>7. Body(c, w, w)
  <2>1. \A o \in Objects : Due(c, w, o) = Due(c, b, o)
    BY <1>6 DEF Due
  <2> QED BY <1>2, <2>1, OtherButton
<1>8. Paired(c, w, w)
  <2>1. \A o \in Objects : Owed(c, w, o) = Owed(c, b, o)
    BY <1>6 DEF Owed
  <2> QED BY <1>2, <2>1 DEF Paired
<1>9. Clean(c, w, w)
  BY <1>2, <1>6 DEF Clean
<1>10. Body(t, w, w) /\ Paired(t, w, w) /\ Clean(t, w, w)
  BY <1>3, <1>7, <1>8, <1>9, SameRestFacts
<1>11. Missed(t, w)
  BY <1>6 DEF Missed
<1>12. Good(t)
  BY <1>3, <1>4, <1>5, <1>10, <1>11, SoundParts
<1>13. HolderKeeps(c, t)
  BY <1>4, SameHolders
<1> QED BY <1>12, <1>13 DEF t

\* All have heard of it.
LEMMA DownDoneGood ==
  ASSUME Assumed, Good(c), DownDone
  PROVE  Good(c') /\ HolderKeeps(c, c')
BY ButtonEnds DEF DownDone

\* A canvas is the same but for the buttons that are down.
SameButDowns(s, t) ==
  /\ t.obj = s.obj /\ t.order = s.order /\ t.x = s.x /\ t.inside = s.inside /\ t.in = s.in
  /\ t.grabbed = s.grabbed /\ t.nogrep = s.nogrep /\ t.frozen = s.frozen /\ t.bad = s.bad
  /\ t.pressed = s.pressed

\* A button goes up: the objects on the list wait for one less, but for this one.
LEMMA ReleaseBody ==
  ASSUME NEW s \in CanvasType, NEW t, SameButDowns(s, t), s.downs > 0, t.downs = s.downs - 1,
         NEW w, NEW a, NEW b, Body(s, w, a), Paired(s, w, a), Off(w), Off(a),
         b.at = "up", b.rest = s.in
  PROVE  Body(t, w, b) /\ Paired(t, w, b) /\ Clean(t, w, b)
<1>1. /\ Lists(s, w) /\ Hover(s, w) /\ Held(s, w) /\ Outside(s, w) /\ Norepeat(s, w) /\ Even(s, w, a)
      /\ Single(s) /\ ~Leaving(w) /\ w.at = ""
  BY DEF Body, Leaving, Off
<1>2. s.downs \in Nat
  BY CanvasFields
<1>3. ASSUME NEW o \in Range(s.in)
      PROVE  Due(t, b, o) = Due(s, a, o)
  <2>1. Due(t, b, o) = (s.downs - 1) + 1
    BY DEF Due
  <2>2. Due(s, a, o) = s.downs + 0
    BY DEF Due, Off
  <2> QED BY <1>2, <2>1, <2>2
<1>4. Lists(t, w) /\ Hover(t, w) /\ Held(t, w) /\ Outside(t, w)
  <2>1. Counts(t) = Counts(s)
    BY DEF SameButDowns, Counts
  <2>2. Lists(t, w)
    BY <1>1 DEF SameButDowns, Lists, IsAlive, Listed, Arriving
  <2>3. Hover(t, w)
    BY <1>1 DEF SameButDowns, Hover, HasPointer, Listed, Arriving
  <2>4. Held(t, w)
    BY <1>1, <2>1 DEF SameButDowns, Held, Holding, Mode
  <2>5. Outside(t, w)
    BY <1>1 DEF SameButDowns, Outside
  <2> QED BY <2>2, <2>3, <2>4, <2>5
<1>5. Norepeat(t, w) /\ Single(t)
  BY <1>1 DEF SameButDowns, Norepeat, Keeps, KeptBy, Single, Mode
<1>6. Even(t, w, b)
  <2> SUFFICES ASSUME Repeating(t), NEW o \in Objects
               PROVE  /\ t.obj[o].grabbed > 0 => t.obj[o].grabbed = Due(t, b, o)
                      /\ t.grabbed > 0 /\ Listed(t, o) /\ Mode(t, o) = "autograb" =>
                           t.obj[o].grabbed = Due(t, b, o)
    BY DEF Even
  <2>1. Repeating(s) /\ t.obj = s.obj /\ t.in = s.in /\ t.grabbed = s.grabbed /\ Mode(t, o) = Mode(s, o)
    BY DEF SameButDowns, Repeating, Mode
  <2>2. s.obj[o].grabbed > 0 => o \in Range(s.in)
    BY <1>1 DEF Held, Holding
  <2> QED BY <1>1, <1>3, <2>1, <2>2 DEF Even, Listed
<1>7. Paired(t, w, b)
  <2> SUFFICES ASSUME Repeating(t), NEW o \in Objects, IsAlive(t, o)
               PROVE  t.pressed[o] + Owed(t, b, o) <= t.obj[o].grabbed
    BY <1>1 DEF Paired
  <2>1. Repeating(s) /\ t.obj = s.obj /\ t.pressed = s.pressed /\ IsAlive(s, o)
    BY DEF SameButDowns, Repeating, Mode, IsAlive
  <2>2. Owed(t, b, o) = 0 /\ Owed(s, a, o) = 0
    BY DEF Owed, Off
  <2>3. s.pressed[o] + Owed(s, a, o) <= s.obj[o].grabbed
    BY <2>1 DEF Paired
  <2> QED BY <2>1, <2>2, <2>3
<1>8. Clean(t, w, b)
  BY DEF Clean
<1> QED BY <1>4, <1>5, <1>6, <1>7, <1>8 DEF Body

\* One button less is down: nothing else changes.
LEMMA DownsEffect ==
  ASSUME NEW s \in CanvasType, s.downs > 0, NEW t, t = [s EXCEPT !.downs = @ - 1]
  PROVE  t \in CanvasType /\ SameButDowns(s, t) /\ t.stack = s.stack /\ t.downs = s.downs - 1
<1> DEFINE n == s.downs
<1>1. IsRecord(s)
  BY CanvasIsRecord
<1>2. n \in Nat /\ n > 0
  BY CanvasFields
<1>3. /\ IsRecord(t) /\ t.obj = s.obj /\ t.order = s.order /\ t.x = s.x /\ t.inside = s.inside
      /\ t.in = s.in /\ t.grabbed = s.grabbed /\ t.nogrep = s.nogrep /\ t.downs = n - 1
      /\ t.frozen = s.frozen /\ t.stack = s.stack /\ t.pressed = s.pressed /\ t.bad = s.bad
  BY <1>1 DEF IsRecord
<1> HIDE DEF n
<1>4. n - 1 \in Nat
  BY <1>2
<1>5. t.downs \in Nat
  BY <1>3, <1>4
<1>6. t \in CanvasType
  <2>1. /\ s.obj \in [Objects -> ObjectType] /\ s.order \in Seq(Objects) /\ s.x \in Points
        /\ s.inside \in BOOLEAN /\ s.in \in Seq(Objects) /\ s.grabbed \in Nat
        /\ s.nogrep \in Nat /\ s.frozen \in {0, 1}
        /\ s.stack \in Seq(FrameType) /\ s.pressed \in [Objects -> Nat] /\ s.bad \in BOOLEAN
    BY CanvasFields
  <2> QED BY <1>3, <1>5, <2>1, CanvasRecord
<1> QED BY <1>3, <1>6 DEF SameButDowns, n

\* A button goes up: the objects of the list have a grab more than buttons are
\* down.
LEMMA MouseUpGood ==
  ASSUME Assumed, Good(c), MouseUp
  PROVE  Good(c') /\ HolderKeeps(c, c')
<1> DEFINE s == [c EXCEPT !.downs = @ - 1]
           g == Frame("up", c.in)
           t == Push(s, g)
           w == Still(Blank)
<1>1. Idle /\ Feed("up") /\ c.downs > 0
  BY DEF MouseUp, Feed
<1>2. /\ c \in CanvasType /\ Nested(c) /\ ~c.bad /\ c.stack = <<>>
      /\ w.at = "" /\ Body(c, w, w) /\ Paired(c, w, w)
  BY <1>1, IdleFacts
<1>3. ~(c.frozen > 0)
  BY <1>1 DEF Feed, Assumed, ButtonsNotFrozen
<1>4. s \in CanvasType /\ SameButDowns(c, s) /\ s.stack = c.stack /\ s.downs = c.downs - 1
  BY <1>1, <1>2, DownsEffect
<1>5. c' = t
  BY <1>3, <1>4 DEF MouseUp, SameButDowns
<1> HIDE DEF s
<1>6. c.in \in Seq(Objects) /\ IsInjective(c.in) /\ \A o \in Range(c.in) : c.obj[o].life # "freed"
  <2>1. c.in \in Seq(Objects)
    BY <1>2, CanvasFields
  <2> QED BY <1>2, <2>1 DEF Body, Lists, IsAlive
<1>7. /\ IsFrame(g) /\ g \in FrameType /\ g.at = "up" /\ g.rest = c.in /\ g.gone = {}
  <2>1. "up" \in Walks \union Buttons
    BY DEF Buttons
  <2> QED BY <1>6, <2>1, FrameOf
<1> HIDE DEF g
<1>8. Still(g).at = "up" /\ Still(g).rest = c.in
  BY <1>7, StillFields
<1>9. t \in CanvasType /\ SameRest(s, t) /\ t.stack = Append(s.stack, g)
  BY <1>4, <1>7, PushEffect
<1> HIDE DEF t
<1>10. Body(s, w, Still(g)) /\ Paired(s, w, Still(g)) /\ Clean(s, w, Still(g))
  BY <1>1, <1>2, <1>4, <1>8, ReleaseBody DEF Off
<1>11. Body(t, w, Still(g)) /\ Paired(t, w, Still(g)) /\ Clean(t, w, Still(g))
  BY <1>9, <1>10, SameRestFacts
<1>12. t.obj = c.obj /\ t.bad = c.bad /\ t.frozen = c.frozen /\ t.stack = Append(c.stack, g)
  BY <1>4, <1>9 DEF SameButDowns, SameRest, SameData
<1>13. Milder(c, t)
  BY <1>12 DEF Milder, SameKind, IsAlive
<1>14. Good(t)
  <2>1. g.at \in {"down", "up"} /\ g.gone = {} /\ IsInjective(g.rest)
        /\ \A o \in Range(g.rest) : c.obj[o].life # "freed"
    BY <1>6, <1>7
  <2> QED BY <1>2, <1>3, <1>7, <1>9, <1>11, <1>12, <1>13, <2>1, ButtonStarts DEF w
<1> QED BY <1>5, <1>12, <1>14, SameHolders
-----------------------------------------------------------------------------
(***************************************************************************)
(* A button event goes up                                                  *)
(***************************************************************************)

\* Taking away no more than there is.
LEMMA Subtract ==
  \A g, n \in Nat : n <= g => g - n \in Nat /\ g = (g - n) + n /\ (n = g => g - n = 0)
  OBVIOUS

\* An object gives n of its grabs back.
LEMMA UngrabEffect ==
  ASSUME NEW s \in CanvasType, s.grabbed = Cardinality(GrabsOf(Counts(s))), NEW o \in Objects,
         NEW n \in Nat, n <= s.obj[o].grabbed
  PROVE  LET t == Ungrab(s, o, n)
         IN  /\ t \in CanvasType /\ SameButGrabs(s, t) /\ t.stack = s.stack
             /\ t.nogrep = s.nogrep /\ t.downs = s.downs
             /\ t.obj[o].grabbed = s.obj[o].grabbed - n
             /\ \A p \in Objects : p # o => t.obj[p] = s.obj[p]
             /\ t.grabbed = s.grabbed - n /\ t.grabbed = Cardinality(GrabsOf(Counts(t)))
<1> DEFINE g == s.obj[o].grabbed
           k == s.grabbed
           t == PutGrabs(s, o, g - n, k - n)
           p == Counts(s)
           q == Counts(t)
<1>1. t = Ungrab(s, o, n)
  <2>1. IsRecord(s)
    BY CanvasIsRecord
  <2>2. /\ s.obj \in [Objects -> ObjectType] /\ s.obj[o] \in ObjectType
    BY CanvasFields
  <2> QED BY <2>1, <2>2 DEF PutGrabs, Ungrab, IsRecord, ObjectType
<1>2. g \in Nat /\ k \in Nat /\ n <= g
  BY CanvasFields, ObjectFields
<1>3. p \in [Objects -> Nat] /\ p[o] = g
  BY ObjectFields DEF Counts
<1>4. n <= k
  <2>1. g <= Cardinality(GrabsOf(p)) /\ k = Cardinality(GrabsOf(p))
    BY <1>3, GrabsBound
  <2> HIDE DEF g, k, p
  <2> QED BY <1>2, <2>1
<1> HIDE DEF g, k, p, t
<1>5. g - n \in Nat /\ k - n \in Nat /\ g = (g - n) + n
  BY <1>2, <1>4, Subtract
<1>6. /\ t \in CanvasType /\ SameButGrabs(s, t) /\ t.stack = s.stack /\ t.grabbed = k - n
      /\ t.nogrep = s.nogrep /\ t.downs = s.downs
      /\ t.obj[o].grabbed = g - n /\ \A r \in Objects : r # o => t.obj[r] = s.obj[r]
  <2> DEFINE i == g - n
             j == k - n
  <2>1. i \in Nat /\ j \in Nat /\ t = PutGrabs(s, o, i, j)
    BY <1>5 DEF t
  <2> HIDE DEF i, j, q
  <2>3. i \in Nat
    BY <2>1
  <2>4. j \in Nat
    BY <2>1
  <2>5. t = PutGrabs(s, o, i, j)
    BY <2>1
  <2> HIDE DEF t
  <2>2. /\ t \in CanvasType /\ SameButGrabs(s, t) /\ t.stack = s.stack /\ t.grabbed = j
        /\ t.nogrep = s.nogrep /\ t.downs = s.downs
        /\ t.obj[o].grabbed = i /\ \A r \in Objects : r # o => t.obj[r] = s.obj[r]
    <3>1. LET r == PutGrabs(s, o, i, j)
          IN  /\ r \in CanvasType /\ SameButGrabs(s, r) /\ r.stack = s.stack /\ r.grabbed = j
              /\ r.nogrep = s.nogrep /\ r.downs = s.downs
              /\ r.obj[o].grabbed = i /\ \A x \in Objects : x # o => r.obj[x] = s.obj[x]
      <4>1. s \in CanvasType
        OBVIOUS
      <4>2. o \in Objects /\ i \in Nat /\ j \in Nat
        BY <2>3, <2>4
      <4> QED BY <4>1, <4>2, GrabEffect
    <3> QED BY <2>5, <3>1
  <2> QED BY <2>2 DEF i, j
<1>7. q \in [Objects -> Nat] /\ q[o] = g - n /\ \A r \in Objects : r # o => q[r] = p[r]
  BY <1>6, ObjectFields DEF Counts, p
<1> HIDE DEF q
<1>8. Cardinality(GrabsOf(q)) = Cardinality(GrabsOf(p)) - n
  <2>1. p[o] = q[o] + n
    BY <1>3, <1>5, <1>7
  <2> QED BY <1>3, <1>7, <2>1, GrabsLess
<1> QED BY <1>1, <1>6, <1>8 DEF g, k, p, q

\* The next object on the list waits for one button less: so it gives a grab back,
\* if it grabs the pointer.
LEMMA UpEven ==
  ASSUME NEW s \in CanvasType, NEW t \in CanvasType, SameButGrabs(s, t), t.downs = s.downs,
         NEW w, Off(w), NEW b, NEW d, b.at = "up", d.at = "upped",
         Held(s, w), Even(s, w, b), NEW o \in Objects,
         Range(b.rest) = Range(d.rest) \union {o}, o \notin Range(d.rest),
         \A p \in Objects : p # o => t.obj[p] = s.obj[p],
         t.grabbed > 0 => s.grabbed > 0,
         \/ /\ Mode(s, o) = "autograb" /\ s.obj[o].grabbed > 0
            /\ t.obj[o].grabbed = s.obj[o].grabbed - 1
         \/ /\ ~(Mode(s, o) = "autograb" /\ s.obj[o].grabbed > 0)
            /\ t.obj[o].grabbed = s.obj[o].grabbed
  PROVE  Even(t, w, d)
<1> DEFINE n == s.downs
<1>1. n \in Nat
  BY CanvasFields
<1>2. Due(s, b, o) = n + 1 /\ Due(t, d, o) = n + 0
  BY DEF Due
<1> HIDE DEF n
<1> SUFFICES ASSUME Repeating(t), NEW p \in Objects
             PROVE  /\ t.obj[p].grabbed > 0 => t.obj[p].grabbed = Due(t, d, p)
                    /\ t.grabbed > 0 /\ Listed(t, p) /\ Mode(t, p) = "autograb" =>
                         t.obj[p].grabbed = Due(t, d, p)
  BY DEF Even
<1>3. Repeating(s) /\ ~Leaving(w) /\ t.in = s.in /\ Mode(t, p) = Mode(s, p)
  BY LookFacts DEF SameButGrabs, Leaving, Off
<1>4. /\ s.obj[p].grabbed > 0 => s.obj[p].grabbed = Due(s, b, p)
      /\ s.grabbed > 0 /\ Listed(s, p) /\ Mode(s, p) = "autograb" => s.obj[p].grabbed = Due(s, b, p)
  BY <1>3 DEF Even
<1>5. CASE p # o
  <2>1. p \in Range(b.rest) <=> p \in Range(d.rest)
    BY <1>5
  <2>2. Due(t, d, p) = Due(s, b, p)
    BY <2>1 DEF Due
  <2> QED BY <1>3, <1>4, <1>5, <2>2 DEF Listed
<1>6. CASE p = o
  <2> DEFINE g == s.obj[o].grabbed
             h == t.obj[o].grabbed
  <2>1. g \in Nat
    BY ObjectFields
  <2>2. CASE Mode(s, o) = "autograb" /\ g > 0
    <3>1. h = g - 1 /\ g = n + 1
      BY <1>2, <1>4, <1>6, <2>2
    <3> HIDE DEF g, h
    <3>2. h = n + 0
      BY <1>1, <3>1
    <3> QED BY <1>2, <1>6, <3>2 DEF h
  <2>3. CASE ~(Mode(s, o) = "autograb" /\ g > 0)
    <3>1. h = g
      BY <2>3
    <3>2. Mode(s, o) \in {"autograb", "nograb", "norepeat"} /\ Mode(s, o) # "norepeat"
      BY <1>3, ObjectFields DEF Mode, Modes, Repeating
    <3>3. Mode(s, o) = "nograb" => g = 0
      BY DEF Held
    <3>4. ~(h > 0)
      BY <2>3, <3>1, <3>2, <3>3, IsZero
    <3>5. ~(t.grabbed > 0 /\ Listed(t, o) /\ Mode(t, o) = "autograb")
      <4> SUFFICES ASSUME t.grabbed > 0 /\ Listed(t, o) /\ Mode(t, o) = "autograb"
                   PROVE  FALSE
        OBVIOUS
      <4>1. g = n + 1
        BY <1>2, <1>3, <1>4, <1>6 DEF Listed
      <4>2. ~(g > 0)
        BY <1>3, <1>6, <2>3
      <4> HIDE DEF g
      <4> QED BY <1>1, <4>1, <4>2
    <3> QED BY <1>6, <3>4, <3>5
  <2> QED BY <2>2, <2>3
<1> QED BY <1>5, <1>6

\* An object gives back the grab of the button whose release it is to hear of
\* next.
LEMMA UpBody ==
  ASSUME NEW s \in CanvasType, NEW w, Off(w), NEW b, NEW d, b.at = "up", d.at = "upped",
         Body(s, w, b), NEW o \in Objects,
         Range(b.rest) = Range(d.rest) \union {o}, o \notin Range(d.rest),
         NEW t, t = IF Mode(s, o) = "autograb" /\ s.obj[o].grabbed > 0 THEN Ungrab(s, o, 1) ELSE s
  PROVE  /\ t \in CanvasType /\ Body(t, w, d) /\ Clean(t, w, d)
         /\ SameButGrabs(s, t) /\ t.stack = s.stack /\ t.nogrep = s.nogrep /\ t.downs = s.downs
         /\ \A p \in Objects : p # o => t.obj[p] = s.obj[p]
         /\ t.obj[o].grabbed = s.obj[o].grabbed
            \/ (s.obj[o].grabbed > 0 /\ t.obj[o].grabbed = s.obj[o].grabbed - 1)
<1>1. /\ Lists(s, w) /\ Hover(s, w) /\ Held(s, w) /\ Outside(s, w) /\ Norepeat(s, w) /\ Even(s, w, b)
      /\ Single(s) /\ ~Leaving(w) /\ w.at = ""
  BY DEF Body, Leaving, Off
<1>2. Clean(t, w, d)
  BY DEF Clean
<1>3. CASE ~(Mode(s, o) = "autograb" /\ s.obj[o].grabbed > 0)
  <2>1. t = s
    BY <1>3
  <2>2. SameButGrabs(s, s)
    BY DEF SameButGrabs, SameLook
  <2>3. Even(s, w, d)
    BY <1>1, <1>3, <2>2, UpEven
  <2>4. Body(s, w, d)
    BY <1>1, <2>3 DEF Body
  <2> QED BY <1>2, <2>1, <2>2, <2>4
<1>4. CASE Mode(s, o) = "autograb" /\ s.obj[o].grabbed > 0
  <2>1. t = Ungrab(s, o, 1)
    BY <1>4
  <2>2. s.obj[o].grabbed \in Nat /\ s.grabbed \in Nat /\ Range(s.in) \subseteq Objects
    BY CanvasFields, ObjectFields, RangeFacts
  <2>3. 1 \in Nat /\ 1 <= s.obj[o].grabbed
    BY <1>4, <2>2
  <2>4. s.grabbed = Cardinality(GrabsOf(Counts(s)))
    BY <1>1 DEF Held
  <2>5. /\ t \in CanvasType /\ SameButGrabs(s, t) /\ t.stack = s.stack
        /\ t.nogrep = s.nogrep /\ t.downs = s.downs
        /\ t.obj[o].grabbed = s.obj[o].grabbed - 1
        /\ \A p \in Objects : p # o => t.obj[p] = s.obj[p]
        /\ t.grabbed = s.grabbed - 1 /\ t.grabbed = Cardinality(GrabsOf(Counts(t)))
    BY <2>1, <2>3, <2>4, UngrabEffect
  <2>6. t.grabbed > 0 => s.grabbed > 0
    BY <2>2, <2>5
  <2>7. Even(t, w, d)
    <3>1. \/ /\ Mode(s, o) = "autograb" /\ s.obj[o].grabbed > 0
             /\ t.obj[o].grabbed = s.obj[o].grabbed - 1
          \/ /\ ~(Mode(s, o) = "autograb" /\ s.obj[o].grabbed > 0)
             /\ t.obj[o].grabbed = s.obj[o].grabbed
      BY <1>4, <2>5
    <3>2. \A p \in Objects : p # o => t.obj[p] = s.obj[p]
      BY <2>5
    <3>3. t \in CanvasType /\ SameButGrabs(s, t) /\ t.downs = s.downs
      BY <2>5
    <3>4. Held(s, w) /\ Even(s, w, b)
      BY <1>1
    <3> QED BY <2>6, <3>1, <3>2, <3>3, <3>4, UpEven
  <2>8. Lists(t, w) /\ Hover(t, w) /\ Outside(t, w)
    <3>1. w.at \notin {"leave", "postout"} \union Arriving
      BY <1>1 DEF Arriving
    <3> QED BY <1>1, <2>2, <2>5, <3>1, SameButGrabsFacts
  <2>9. /\ Single(t) /\ t.in = s.in /\ t.order = s.order
        /\ \A p \in Objects : Mode(t, p) = Mode(s, p)
    <3>1. SameLook(s, t)
      BY <2>5 DEF SameButGrabs
    <3>2. Single(s) => Single(t)
      BY <3>1, LookFacts
    <3>3. \A p \in Objects : Mode(t, p) = Mode(s, p)
      BY <3>1, LookFacts
    <3>4. t.in = s.in /\ t.order = s.order
      BY <2>5 DEF SameButGrabs
    <3> QED BY <1>1, <3>2, <3>3, <3>4
  <2>10. \A p \in Objects : t.obj[p].grabbed > 0 => s.obj[p].grabbed > 0
    BY <1>4, <2>5
  <2>11. \A p \in Objects : s.obj[p].grabbed = 0 => t.obj[p].grabbed = 0
    BY <1>4, <2>5, IsZero
  <2>12. Held(t, w)
    <3>1. \A p \in Objects : t.obj[p].grabbed > 0 => p \in Holding(t, w)
      BY <1>1, <2>9, <2>10 DEF Held, Holding
    <3>2. \A p \in Objects : Mode(t, p) = "nograb" => t.obj[p].grabbed = 0
      BY <1>1, <2>9, <2>11 DEF Held
    <3> QED BY <1>1, <2>5, <3>1, <3>2 DEF Held
  <2>13. Norepeat(t, w)
    <3> SUFFICES ASSUME t.grabbed > 0, NEW n \in Range(s.in), Mode(t, n) = "norepeat"
                 PROVE  KeptBy(t, s.in, n)
      BY <1>1, <2>9 DEF Norepeat, Keeps
    <3>1. n \in Objects /\ Mode(s, n) = "norepeat" /\ n # o
      BY <1>4, <2>2, <2>9
    <3>2. KeptBy(s, s.in, n)
      BY <1>1, <2>6, <3>1 DEF Norepeat, Keeps
    <3>3. t.obj[n].grabbed = s.obj[n].grabbed
      BY <2>5, <3>1
    <3> QED BY <2>9, <2>11, <3>2, <3>3 DEF KeptBy
  <2>14. Body(t, w, d)
    BY <2>7, <2>8, <2>9, <2>12, <2>13 DEF Body
  <2> QED BY <1>2, <1>4, <2>5, <2>14
<1> QED BY <1>3, <1>4

\* One that gives back a grab, and hears of a release, still has a grab for what
\* it heard.
LEMMA FewerPressed ==
  \A g, h, p, q \in Nat :
    p <= g /\ (h = g \/ (g > 0 /\ h = g - 1)) /\ (q = 0 \/ q = p - 1) /\ q <= p => q <= h
  OBVIOUS

\* The object hears that the button goes up.
LEMMA UpPaired ==
  ASSUME NEW s \in CanvasType, NEW t \in CanvasType, SameButGrabs(s, t),
         NEW w, Off(w), NEW b, NEW d, b.at = "up", d.at = "upped",
         Paired(s, w, b), NEW o \in Objects,
         \A p \in Objects : p # o => t.obj[p] = s.obj[p],
         t.obj[o].grabbed = s.obj[o].grabbed
            \/ (s.obj[o].grabbed > 0 /\ t.obj[o].grabbed = s.obj[o].grabbed - 1),
         NEW r, r.obj = t.obj,
         \/ r.pressed = [s.pressed EXCEPT ![o] = Hears(t, o, "up")]
         \/ r.pressed = s.pressed /\ (Repeating(s) /\ IsAlive(s, o) => s.pressed[o] = 0)
  PROVE  Paired(r, w, d)
<1>0. /\ (Repeating(t) <=> Repeating(s)) /\ \A p \in Objects : IsAlive(t, p) <=> IsAlive(s, p)
  <2>1. SameLook(s, t)
    BY DEF SameButGrabs
  <2> QED BY <2>1, LookFacts
<1> SUFFICES ASSUME Repeating(r), NEW p \in Objects, IsAlive(r, p)
             PROVE  r.pressed[p] + Owed(r, d, p) <= r.obj[p].grabbed
  BY DEF Paired, Off
<1>1. Repeating(s) /\ IsAlive(s, p)
  <2>1. Repeating(t) /\ IsAlive(t, p)
    BY DEF Repeating, Mode, IsAlive
  <2> QED BY <1>0, <2>1
<1>2. Owed(r, d, p) = 0 /\ Owed(s, b, p) = 0
  BY DEF Owed
<1> DEFINE g == s.obj[p].grabbed
           h == t.obj[p].grabbed
           k == s.pressed[p]
           q == r.pressed[p]
<1>3. /\ g \in Nat /\ h \in Nat /\ k \in Nat /\ s.pressed \in [Objects -> Nat]
      /\ t.pressed = s.pressed
  BY CanvasFields, ObjectFields DEF SameButGrabs
<1>4. k <= g
  <2>1. k + Owed(s, b, p) <= g
    BY <1>1 DEF Paired
  <2> HIDE DEF k, g
  <2>2. k + 0 <= g
    BY <1>2, <2>1
  <2> QED BY <1>3, <2>2
<1>5. h = g \/ (g > 0 /\ h = g - 1)
  <2>1. CASE p = o
    BY <2>1
  <2>2. CASE p # o
    <3>1. t.obj[p] = s.obj[p]
      BY <2>2
    <3> QED BY <3>1
  <2> QED BY <2>1, <2>2
<1>6. q \in Nat /\ q <= h
  <2>1. CASE p = o /\ r.pressed = [s.pressed EXCEPT ![o] = Hears(t, o, "up")]
    <3>1. q = Hears(t, o, "up")
      BY <1>3, <2>1
    <3>2. q \in Nat /\ q <= t.pressed[o] /\ (q = 0 \/ q = t.pressed[o] - 1)
      BY <3>1, HearsFacts
    <3>3. q \in Nat /\ q <= k /\ (q = 0 \/ q = k - 1)
      BY <1>3, <2>1, <3>2
    <3> HIDE DEF q, k, g, h
    <3> QED BY <1>3, <1>4, <1>5, <3>3, FewerPressed
  <2>2. CASE p = o /\ r.pressed = s.pressed /\ s.pressed[o] = 0
    <3>1. q = 0 /\ k = 0
      BY <2>2
    <3> HIDE DEF q, k, g, h
    <3> QED BY <1>3, <3>1
  <2>3. CASE p # o
    <3>1. q = k /\ h = g
      <4>1. t.obj[p] = s.obj[p]
        BY <2>3
      <4>2. q = k
        BY <1>3, <2>3
      <4> QED BY <4>1, <4>2
    <3> QED BY <1>3, <1>4, <3>1
  <2> QED BY <1>1, <2>1, <2>2, <2>3
<1>7. r.obj[p].grabbed = h
  OBVIOUS
<1> HIDE DEF q, h
<1> QED BY <1>2, <1>3, <1>6, <1>7 DEF q

\* An object of the list hears of a button going up.
LEMMA UpGood ==
  ASSUME Assumed, Good(c), Up
  PROVE  Good(c') /\ HolderKeeps(c, c')
<1> DEFINE f == Top(c)
           o == Head(f.rest)
           g == [f EXCEPT !.at = "upped", !.cur = o, !.rest = Tail(@)]
           s == Become(c, g)
           t == IF Mode(c, o) = "autograb" /\ c.obj[o].grabbed > 0 THEN Ungrab(s, o, 1) ELSE s
           w == Still(Blank)
           b == Button(c)
           d == Still(g)
<1>1. More("up") /\ At("up") /\ "up" \in Buttons /\ f.rest # <<>>
  BY DEF Up, More, Buttons
<1>2. /\ c \in CanvasType /\ Nested(c) /\ ~c.bad /\ c.stack # <<>> /\ Len(c.stack) = 1
      /\ ~(c.frozen > 0) /\ f \in FrameType /\ IsFrame(f) /\ f.at = "up"
      /\ Off(w) /\ b.at = "up" /\ b.rest = f.rest /\ Gone(c) = f.gone
      /\ Body(c, w, b) /\ Paired(c, w, b) /\ Missed(c, b)
  BY <1>1, ButtonFacts
<1>3. /\ o \in Objects /\ c.obj[o].life # "freed" /\ o \in Range(f.rest)
      /\ Range(f.rest) = Range(Tail(f.rest)) \union {o} /\ Tail(f.rest) \in Seq(Objects)
      /\ \A p \in Range(f.rest) : p \in Objects /\ c.obj[p].life # "freed"
      /\ o \notin Range(Tail(f.rest)) /\ IsInjective(Tail(f.rest))
  BY <1>1, AdvanceFacts
<1>4. c' = TellMouse(t, o, "up")
  BY <1>3, ReadingFacts DEF Up, Head_
<1> HIDE DEF o, f, w, b
<1> DEFINE l == Tail(f.rest)
<1>5. g = [f EXCEPT !.at = "upped", !.cur = o, !.rest = l]
  OBVIOUS
<1> HIDE DEF l, g
<1>6. /\ IsFrame(g) /\ g.at = "upped" /\ g.cur = o /\ g.rest = l /\ g.ins = f.ins
      /\ g.x = f.x /\ g.moved = f.moved /\ g.below = f.below /\ g.gone = f.gone
  BY <1>2, <1>5 DEF IsFrame
<1>7. l \in Seq(Objects) /\ IsInjective(l) /\ Range(f.rest) = Range(l) \union {o} /\ o \notin Range(l)
  BY <1>3 DEF l
<1>8. g \in FrameType
  <2>1. g.at \in Walks \union Waits \union Bottoms \union Quiet
    BY <1>6 DEF Waits
  <2> QED BY <1>2, <1>3, <1>6, <1>7, <2>1, Places, FrameFields
<1>9. s \in CanvasType /\ SameRest(c, s) /\ s.stack = [c.stack EXCEPT ![Len(c.stack)] = g]
  BY <1>2, <1>8, BecomeEffect
<1>10. t = IF Mode(s, o) = "autograb" /\ s.obj[o].grabbed > 0 THEN Ungrab(s, o, 1) ELSE s
  BY <1>9 DEF SameRest, SameData, Mode
<1> HIDE DEF s, t
<1>11. s.obj = c.obj /\ s.pressed = c.pressed /\ ~s.bad /\ s.frozen = c.frozen
  BY <1>2, <1>9 DEF SameRest, SameData
<1>12. Body(s, w, b) /\ Paired(s, w, b)
  BY <1>2, <1>9, SameRestFacts
<1>13. d.at = "upped" /\ d.rest = l
  BY <1>6, <1>8, StillFields
<1>14. Range(b.rest) = Range(d.rest) \union {o} /\ o \notin Range(d.rest)
  BY <1>2, <1>7, <1>13
<1> HIDE DEF d
<1>15. /\ t \in CanvasType /\ Body(t, w, d) /\ Clean(t, w, d)
       /\ SameButGrabs(s, t) /\ t.stack = s.stack
       /\ \A p \in Objects : p # o => t.obj[p] = s.obj[p]
       /\ t.obj[o].grabbed = s.obj[o].grabbed
            \/ (s.obj[o].grabbed > 0 /\ t.obj[o].grabbed = s.obj[o].grabbed - 1)
  <2>1. s \in CanvasType /\ o \in Objects
    BY <1>3, <1>9
  <2>2. Off(w) /\ b.at = "up" /\ d.at = "upped" /\ Body(s, w, b)
    BY <1>2, <1>12, <1>13
  <2> QED BY <1>10, <1>14, <2>1, <2>2, UpBody
<1>16. /\ t.pressed = c.pressed /\ ~t.bad /\ t.frozen = c.frozen
       /\ \A p \in Objects : IsAlive(t, p) <=> IsAlive(c, p)
  <2>1. SameLook(s, t)
    BY <1>15 DEF SameButGrabs
  <2> QED BY <1>11, <1>15, <2>1 DEF SameButGrabs, SameLook, IsAlive
<1>17. Milder(c, t)
  <2>1. Milder(s, t)
    BY <1>15, SameButGrabsFacts
  <2> QED BY <1>11, <2>1 DEF Milder, SameKind, IsAlive
<1>18. t.stack = [c.stack EXCEPT ![Len(c.stack)] = g]
  BY <1>9, <1>15
<1>19. /\ Nested(t) /\ t.stack # <<>> /\ Len(t.stack) = 1 /\ Top(t) = g /\ Walk(t) = w /\ Button(t) = d
       /\ Gone(t) = f.gone
  <2>1. g.at \in Buttons /\ g.cur \in Objects
    BY <1>3, <1>6 DEF Buttons
  <2>2. IsInjective(g.rest) /\ \A p \in Range(g.rest) : c.obj[p].life # "freed"
    BY <1>3, <1>6, <1>7
  <2> QED BY <1>2, <1>6, <1>8, <1>15, <1>17, <1>18, <2>1, <2>2, ButtonMoves DEF w, d
<1>20. Repeating(t) <=> Repeating(c)
  <2>1. SameLook(s, t)
    BY <1>15 DEF SameButGrabs
  <2>2. Repeating(t) <=> Repeating(s)
    BY <2>1, LookFacts
  <2> QED BY <1>11, <2>2 DEF Repeating, Mode
<1>21. Repeating(c) => \A p \in f.gone : IsAlive(c, p) => c.pressed[p] = 0
  BY <1>2 DEF Missed
<1>22. ~IsAlive(t, o) \/ o \in Top(t).gone => Paired(t, w, d) /\ Missed(t, d)
  <2> SUFFICES ASSUME ~IsAlive(t, o) \/ o \in f.gone
               PROVE  Paired(t, w, d) /\ Missed(t, d)
    BY <1>6, <1>19
  <2>1. Repeating(s) /\ IsAlive(s, o) => s.pressed[o] = 0
    BY <1>3, <1>11, <1>16, <1>21 DEF Repeating, Mode, IsAlive
  <2>2. Paired(t, w, d)
    <3>1. t.pressed = s.pressed
      BY <1>11, <1>16
    <3>2. \A p \in Objects : p # o => t.obj[p] = s.obj[p]
      BY <1>15
    <3>3. t \in CanvasType /\ SameButGrabs(s, t)
      BY <1>15
    <3>4. t.obj[o].grabbed = s.obj[o].grabbed
            \/ (s.obj[o].grabbed > 0 /\ t.obj[o].grabbed = s.obj[o].grabbed - 1)
      BY <1>15
    <3>5. s \in CanvasType /\ o \in Objects
      BY <1>3, <1>9
    <3> QED BY <1>2, <1>12, <1>13, <2>1, <3>1, <3>2, <3>3, <3>4, <3>5, UpPaired
  <2>3. Missed(t, d)
    <3>1. f.gone \in SUBSET Objects
      BY <1>2, FrameFields
    <3> QED BY <1>16, <1>19, <1>20, <1>21, <3>1 DEF Missed
  <2> QED BY <2>2, <2>3
<1>23. ASSUME NEW r, Told(t, r, o, "up")
       PROVE  Paired(r, w, d) /\ Missed(r, d)
  <2>1. /\ r \in CanvasType /\ r.obj = t.obj /\ r.pressed = [s.pressed EXCEPT ![o] = Hears(t, o, "up")]
    BY <1>11, <1>16, <1>23 DEF Told, SameData
  <2>2. Paired(r, w, d)
    <3>2. \A p \in Objects : p # o => t.obj[p] = s.obj[p]
      BY <1>15
    <3>3. t \in CanvasType /\ SameButGrabs(s, t)
      BY <1>15
    <3>4. t.obj[o].grabbed = s.obj[o].grabbed
            \/ (s.obj[o].grabbed > 0 /\ t.obj[o].grabbed = s.obj[o].grabbed - 1)
      BY <1>15
    <3>5. s \in CanvasType /\ o \in Objects
      BY <1>3, <1>9
    <3>6. r.obj = t.obj
      BY <2>1
    <3>7. r.pressed = [s.pressed EXCEPT ![o] = Hears(t, o, "up")]
      BY <2>1
    <3>8. Off(w) /\ b.at = "up" /\ d.at = "upped" /\ Paired(s, w, b)
      BY <1>2, <1>12, <1>13
    <3> QED BY <1>14, <3>2, <3>3, <3>4, <3>5, <3>6, <3>7, <3>8, UpPaired
  <2>3. Gone(r) = f.gone \ {o}
    <3>1. /\ Len(r.stack) = Len(t.stack)
          /\ \A i \in 1 .. Len(t.stack) : r.stack[i].gone = t.stack[i].gone \ {o}
      BY <1>23 DEF Told, Alike
    <3>2. r.stack # <<>> /\ t.stack[1] = g
      <4>1. Len(r.stack) = 1
        BY <1>19, <3>1
      <4>2. r.stack # <<>>
        BY <2>1, <4>1, StackFacts
      <4> QED BY <1>15, <1>19, <4>2, StackFacts
    <3>3. 1 \in 1 .. Len(t.stack)
      BY <1>15, <1>19, StackFacts
    <3>4. r.stack[1].gone = g.gone \ {o}
      BY <3>1, <3>2, <3>3
    <3> QED BY <1>6, <3>2, <3>4 DEF Gone
  <2>4. Missed(r, d)
    <3>1. f.gone \in SUBSET Objects /\ c.pressed \in [Objects -> Nat] /\ s.pressed = c.pressed
      BY <1>2, <1>11, FrameFields, CanvasFields
    <3>2. Repeating(r) => Repeating(c)
      BY <1>20, <2>1 DEF Repeating, Mode
    <3>3. \A p \in Objects : IsAlive(r, p) => IsAlive(c, p)
      BY <1>16, <2>1 DEF IsAlive
    <3>4. \A p \in Objects \ {o} : r.pressed[p] = c.pressed[p]
      BY <2>1, <3>1
    <3> QED BY <1>21, <2>3, <3>1, <3>2, <3>3, <3>4 DEF Missed
  <2> QED BY <2>2, <2>4
<1>24. Top(t).at \in Tells
  BY <1>6, <1>19 DEF Tells
<1>25. c' = Tell(t, o, "up")
  BY <1>2, <1>4, <1>16 DEF TellMouse
<1>26. Good(c') /\ c'.obj = t.obj
  <2>1. t \in CanvasType /\ Nested(t) /\ ~t.bad /\ t.stack # <<>> /\ Top(t).at \in Tells
    BY <1>15, <1>16, <1>19, <1>24
  <2>2. d = Button(t) /\ Body(t, Still(Blank), d) /\ Clean(t, Still(Blank), d)
    BY <1>15, <1>19 DEF w
  <2>3. ~IsAlive(t, o) \/ (o \in Top(t).gone /\ "up" \in {"down", "up", "move"}) =>
           Paired(t, Still(Blank), d) /\ Missed(t, d)
    BY <1>22 DEF w
  <2>4. \A r : Told(t, r, o, "up") => Paired(r, Still(Blank), d) /\ Missed(r, d)
    BY <1>23 DEF w
  <2> QED BY <1>3, <1>25, <2>1, <2>2, <2>3, <2>4, TellGood
<1>27. \A p \in Objects : c'.obj[p].in = c.obj[p].in
  BY <1>11, <1>15, <1>26 DEF SameButGrabs
<1> QED BY <1>26, <1>27, SameHolders

\* A canvas is the same but for the functions that run and the objects that keep
\* button events to themselves.
SameButNogrep(s, t) ==
  /\ t.obj = s.obj /\ t.order = s.order /\ t.x = s.x /\ t.inside = s.inside /\ t.in = s.in
  /\ t.grabbed = s.grabbed /\ t.downs = s.downs /\ t.frozen = s.frozen /\ t.bad = s.bad
  /\ t.pressed = s.pressed

\* The count of those that keep events to themselves is looked at by moves only
\* ...
LEMMA SameButNogrepFacts ==
  ASSUME NEW s, NEW t, SameButNogrep(s, t)
  PROVE  /\ Milder(s, t)
         /\ \A w, b : /\ Body(s, w, b) => Body(t, w, b)
                      /\ Paired(s, w, b) => Paired(t, w, b)
<1>1. Milder(s, t)
  BY DEF SameButNogrep, Milder, SameKind, IsAlive
<1>2. ASSUME NEW w, NEW b, Body(s, w, b)
      PROVE  Body(t, w, b)
  <2>1. Counts(t) = Counts(s) /\ \A x : Hit(t, x) = Hit(s, x)
    BY DEF SameButNogrep, Counts, Hit, Covers
  <2>2. Lists(t, w)
    BY <1>2, <2>1 DEF Body, SameButNogrep, Lists, IsAlive, Listed, Arriving
  <2>3. Hover(t, w)
    BY <1>2 DEF Body, SameButNogrep, Hover, HasPointer, Listed, Arriving
  <2>4. Held(t, w)
    BY <1>2, <2>1 DEF Body, SameButNogrep, Held, Holding, Mode
  <2>5. Outside(t, w) /\ Single(t)
    BY <1>2 DEF Body, SameButNogrep, Outside, Single, Mode
  <2>6. Norepeat(t, w)
    BY <1>2 DEF Body, SameButNogrep, Norepeat, Keeps, KeptBy, Mode
  <2>7. Even(t, w, b)
    BY <1>2 DEF Body, SameButNogrep, Even, Repeating, Due, Listed, Mode
  <2> QED BY <2>2, <2>3, <2>4, <2>5, <2>6, <2>7 DEF Body
<1>3. ASSUME NEW w, NEW b, Paired(s, w, b)
      PROVE  Paired(t, w, b)
  BY <1>3 DEF SameButNogrep, Paired, Repeating, Owed, IsAlive, Mode
<1> QED BY <1>1, <1>2, <1>3

\* ... and writing it changes nothing else.
LEMMA NogrepEffect ==
  ASSUME NEW s \in CanvasType, NEW n \in Nat
  PROVE  LET t == [s EXCEPT !.nogrep = n]
         IN  t \in CanvasType /\ SameButNogrep(s, t) /\ t.stack = s.stack
<1> DEFINE t == [s EXCEPT !.nogrep = n]
<1>1. IsRecord(s)
  BY CanvasIsRecord
<1>2. /\ IsRecord(t) /\ t.obj = s.obj /\ t.order = s.order /\ t.x = s.x /\ t.inside = s.inside
      /\ t.in = s.in /\ t.grabbed = s.grabbed /\ t.nogrep = n /\ t.downs = s.downs
      /\ t.frozen = s.frozen /\ t.stack = s.stack /\ t.pressed = s.pressed /\ t.bad = s.bad
  BY <1>1 DEF IsRecord
<1> HIDE DEF t
<1>3. t \in CanvasType
  BY <1>2, CanvasFields, CanvasRecord
<1> QED BY <1>2, <1>3 DEF SameButNogrep, t

\* Behind one that keeps the event to itself, none hears of it.
LEMMA UppedGood ==
  ASSUME Assumed, Good(c), Upped
  PROVE  Good(c') /\ HolderKeeps(c, c')
<1> DEFINE f == Top(c)
           last == Mode(c, f.cur) = "norepeat"
           n == IF last /\ c.nogrep > 0 THEN c.nogrep - 1 ELSE c.nogrep
           s == [c EXCEPT !.nogrep = n]
           l == IF last THEN <<>> ELSE f.rest
           g == [f EXCEPT !.at = "up", !.rest = l]
           t == Become(s, g)
           w == Still(Blank)
           b == Button(c)
           d == Still(g)
<1>1. At("upped") /\ "upped" \in Buttons
  BY DEF Upped, Buttons
<1>2. /\ c \in CanvasType /\ Nested(c) /\ ~c.bad /\ c.stack # <<>> /\ Len(c.stack) = 1
      /\ ~(c.frozen > 0) /\ f \in FrameType /\ IsFrame(f) /\ f.at = "upped" /\ FitsIn(c, f, 1)
      /\ Off(w) /\ b.at = "upped" /\ b.rest = f.rest /\ Gone(c) = f.gone
      /\ Body(c, w, b) /\ Paired(c, w, b) /\ Missed(c, b)
  BY <1>1, ButtonFacts
<1>3. c' = t
  BY <1>2, CanvasIsRecord DEF Upped, IsRecord, IsFrame
<1>4. n \in Nat
  <2> DEFINE m == c.nogrep
  <2>1. m \in Nat
    BY <1>2, CanvasFields
  <2>2. m > 0 => m - 1 \in Nat
    <3> HIDE DEF m
    <3> QED BY <2>1
  <2> QED BY <2>1, <2>2
<1>5. f.cur \in Objects /\ IsInjective(f.rest) /\ \A o \in Range(f.rest) : c.obj[o].life # "freed"
  BY <1>2 DEF FitsIn
<1> HIDE DEF n, f, w, b
<1>6. s \in CanvasType /\ SameButNogrep(c, s) /\ s.stack = c.stack
  BY <1>2, <1>4, NogrepEffect
<1> HIDE DEF s
<1>7. l \in Seq(Objects) /\ IsInjective(l) /\ \A o \in Range(l) : c.obj[o].life # "freed"
  <2>1. f.rest \in Seq(Objects)
    BY <1>2, FrameFields
  <2> QED BY <1>5, <2>1, NoneTwice
<1>8. Repeating(c) => l = f.rest
  BY <1>5 DEF Repeating
<1> HIDE DEF l
<1>9. /\ IsFrame(g) /\ g.at = "up" /\ g.cur = f.cur /\ g.rest = l /\ g.ins = f.ins
      /\ g.x = f.x /\ g.moved = f.moved /\ g.below = f.below /\ g.gone = f.gone
  BY <1>2 DEF IsFrame
<1> HIDE DEF g
<1>10. g \in FrameType
  <2>1. g.at \in Walks \union Waits \union Bottoms \union Quiet
    BY <1>9 DEF Bottoms, Buttons
  <2> QED BY <1>2, <1>7, <1>9, <2>1, Places, FrameFields
<1>11. t \in CanvasType /\ SameRest(s, t) /\ t.stack = [c.stack EXCEPT ![Len(c.stack)] = g]
  <2>1. s.stack # <<>>
    BY <1>2, <1>6
  <2>2. t \in CanvasType /\ SameRest(s, t) /\ t.stack = [s.stack EXCEPT ![Len(s.stack)] = g]
    BY <1>6, <1>10, <2>1, BecomeEffect
  <2> QED BY <1>6, <2>2
<1> HIDE DEF t
<1>12. SameButNogrep(c, t)
  BY <1>6, <1>11 DEF SameButNogrep, SameRest, SameData
<1>13. t.obj = c.obj /\ t.pressed = c.pressed /\ ~t.bad /\ Milder(c, t)
  BY <1>2, <1>12, SameButNogrepFacts DEF SameButNogrep
<1>14. Nested(t) /\ Walk(t) = w /\ Button(t) = d /\ Gone(t) = f.gone /\ d.at = "up" /\ d.rest = l
  <2>1. g.at \in Buttons /\ g.at # "upped"
    BY <1>9 DEF Buttons
  <2>2. IsInjective(g.rest) /\ \A o \in Range(g.rest) : c.obj[o].life # "freed"
    BY <1>7, <1>9
  <2> QED BY <1>2, <1>9, <1>10, <1>11, <1>13, <2>1, <2>2, ButtonMoves DEF w, d
<1> HIDE DEF d
<1>15. Body(c, w, d)
  <2>1. Repeating(c) => \A o \in Objects : Due(c, d, o) = Due(c, b, o)
    BY <1>2, <1>8, <1>14 DEF Due
  <2> QED BY <1>2, <2>1 DEF Body, Even
<1>16. Paired(c, w, d)
  <2>1. \A o \in Objects : Owed(c, d, o) = Owed(c, b, o)
    BY <1>2, <1>14 DEF Owed
  <2> QED BY <1>2, <2>1 DEF Paired
<1>17. Body(t, w, d) /\ Paired(t, w, d)
  BY <1>12, <1>15, <1>16, SameButNogrepFacts
<1>18. Missed(t, d)
  BY <1>2, <1>13, <1>14 DEF Missed, Repeating, Mode, IsAlive
<1>19. Clean(t, w, d)
  BY <1>14 DEF Clean
<1>20. Good(t)
  BY <1>11, <1>13, <1>14, <1>17, <1>18, <1>19, SoundParts
<1> QED BY <1>3, <1>13, <1>20, SameHolders

\* Once nothing holds the pointer, the feed looks what it is over.
LEMMA LooksBody ==
  ASSUME NEW s \in CanvasType, NEW w, NEW b, NEW v, NEW d, Body(s, w, b), Paired(s, w, b),
         Off(w), b.at = "up", d.at = "", s.grabbed = 0,
         v.at = "postout", v.rest = s.in, v.ins = Hits(s, s.order, s.x)
  PROVE  /\ Body(s, v, d) /\ Paired(s, v, d) /\ Clean(s, v, d)
         /\ v.ins \in Seq(Objects)
<1>1. /\ Lists(s, w) /\ Hover(s, w) /\ Held(s, w) /\ Outside(s, w) /\ Norepeat(s, w) /\ Even(s, w, b)
      /\ Single(s) /\ ~Leaving(w) /\ ~Leaving(v) /\ w.at = ""
  BY DEF Body, Leaving, Off
<1>2. \A o \in Objects : s.obj[o].grabbed = 0
  BY <1>1, NoneGrabbed
<1>3. /\ v.ins \in Seq(Objects) /\ IsInjective(v.ins) /\ \A o \in Range(v.ins) : IsAlive(s, o)
  <2>1. s.order \in Seq(Objects) /\ IsInjective(s.order)
    BY <1>1, CanvasFields DEF Lists
  <2>2. /\ v.ins \in Seq(Objects) /\ Range(v.ins) \subseteq Range(s.order) \intersect Hit(s, s.x)
        /\ IsInjective(v.ins)
    BY <2>1, HitsFacts
  <2> QED BY <2>2 DEF Hit, IsAlive
<1>4. Lists(s, v)
  BY <1>1, <1>3 DEF Lists, Arriving
<1>5. Hover(s, v)
  BY <1>1 DEF Hover, HasPointer, Arriving, Listed
<1>6. Held(s, v)
  <2>1. \A o \in Objects : ~(s.obj[o].grabbed > 0)
    BY <1>2, IsZero
  <2>2. s.grabbed = Cardinality(GrabsOf(Counts(s)))
    BY <1>1 DEF Held
  <2> QED BY <1>1, <1>2, <2>1, <2>2 DEF Held
<1>7. Outside(s, v)
  BY <1>1 DEF Outside
<1>8. ~(s.grabbed > 0) /\ \A o \in Objects : ~(s.obj[o].grabbed > 0)
  BY <1>2, IsZero
<1>9. Norepeat(s, v) /\ Even(s, v, d)
  BY <1>8 DEF Norepeat, Even
<1>10. Paired(s, v, d)
  <2>1. \A o \in Objects : Owed(s, d, o) = Owed(s, b, o)
    BY DEF Owed
  <2> QED BY <2>1 DEF Paired
<1>11. Clean(s, v, d)
  BY DEF Clean
<1> QED BY <1>1, <1>3, <1>4, <1>5, <1>6, <1>7, <1>9, <1>10, <1>11 DEF Body

\* All have heard of it; when nothing holds the pointer any more, its list is
\* brought up to date.
LEMMA UpDoneGood ==
  ASSUME Assumed, Good(c), UpDone
  PROVE  Good(c') /\ HolderKeeps(c, c')
<1>1. Done("up") /\ At("up") /\ "up" \in Buttons
  BY DEF UpDone, Done, Buttons
<1>2. CASE c.grabbed # 0
  BY <1>1, <1>2, ButtonEnds DEF UpDone
<1>3. CASE c.grabbed = 0
  <2> DEFINE e == EventList(c, c.x)
             h == Frame("postout", c.in)
             g == [h EXCEPT !.ins = e]
             t == Become(c, g)
             w == Still(Blank)
             b == Button(c)
  <2>1. /\ c \in CanvasType /\ Nested(c) /\ ~c.bad /\ c.stack # <<>> /\ Len(c.stack) = 1
        /\ ~(c.frozen > 0) /\ Off(w) /\ b.at = "up"
        /\ Body(c, w, b) /\ Paired(c, w, b)
    BY <1>1, ButtonFacts
  <2>2. c' = t
    BY <1>3 DEF UpDone
  <2>3. e = Hits(c, c.order, c.x)
    BY <2>1 DEF EventList
  <2>4. c.in \in Seq(Objects) /\ c.order \in Seq(Objects) /\ e \in Seq(Objects)
    <3>1. c.in \in Seq(Objects) /\ c.order \in Seq(Objects)
      BY <2>1, CanvasFields
    <3>2. Hits(c, c.order, c.x) \in Seq(Objects)
      BY <3>1, HitsFacts
    <3> QED BY <2>3, <3>1, <3>2
  <2>5. /\ IsFrame(h) /\ h.at = "postout" /\ h.rest = c.in /\ h.cur \in Objects \union {NoObject}
        /\ h.x \in Points /\ h.moved \in BOOLEAN /\ h.below \in BOOLEAN /\ h.gone = {}
    <3>1. "postout" \in Walks \union Buttons
      BY DEF Walks
    <3>5. c.in \in Seq(Objects)
      BY <2>4
    <3>2. h \in FrameType
      BY <3>1, <3>5, FrameOf
    <3>3. h.moved \in BOOLEAN /\ h.below \in BOOLEAN /\ h.x \in Points
      BY <3>2, FrameFields
    <3>4. IsFrame(h) /\ h.at = "postout" /\ h.rest = c.in
      BY <3>1, <3>5, FrameOf
    <3>6. h.cur \in Objects \union {NoObject}
      BY <3>2, FrameFields
    <3>7. h.gone = {}
      BY <3>1, <3>5, FrameOf
    <3> QED BY <3>3, <3>4, <3>6, <3>7
  <2> HIDE DEF e, h, w, b
  <2>6. /\ IsFrame(g) /\ g.at = "postout" /\ g.rest = c.in /\ g.cur \in Objects \union {NoObject} /\ g.ins = e
        /\ g.x \in Points /\ g.moved \in BOOLEAN /\ g.below \in BOOLEAN /\ g.gone = {}
    BY <2>5 DEF IsFrame
  <2> HIDE DEF g
  <2>7. /\ g \in FrameType /\ Still(g).at = g.at /\ Still(g).rest = g.rest /\ Still(g).ins = g.ins
    <3>1. g.at \in Walks \union Waits \union Bottoms \union Quiet
      BY <2>6 DEF Walks
    <3>2. g.cur \in Objects \union {NoObject} /\ g.gone \in SUBSET Objects
      BY <2>6
    <3> QED BY <2>4, <2>6, <3>1, <3>2, Places
  <2>8. t \in CanvasType /\ SameRest(c, t) /\ t.stack = [c.stack EXCEPT ![Len(c.stack)] = g]
    BY <2>1, <2>7, BecomeEffect
  <2> HIDE DEF t
  <2>9. /\ Changed(c, t, g) /\ t.obj = c.obj /\ ~t.bad /\ Milder(c, t)
    <3>1. Changed(c, t, g)
      BY <2>1, <2>7, <2>8, StackEffect
    <3> QED BY <2>1, <2>8, <3>1 DEF SameRest, SameData, Milder, SameKind, IsAlive
  <2>10. w.at = ""
    BY <2>1 DEF Off
  <2>11. Body(c, Still(g), w) /\ Paired(c, Still(g), w) /\ Clean(c, Still(g), w)
    BY <1>3, <2>1, <2>3, <2>6, <2>7, <2>10, LooksBody
  <2>12. Body(t, Still(g), w) /\ Paired(t, Still(g), w) /\ Clean(t, Still(g), w)
    BY <2>8, <2>11, SameRestFacts
  <2>13. FitsIn(t, g, Len(t.stack))
    <3>1. FitsIn(c, g, 1)
      <4>1. IsInjective(c.in) /\ \A o \in Range(c.in) : c.obj[o].life # "freed"
        BY <2>1 DEF Body, Lists, IsAlive
      <4> QED BY <2>1, <2>6, <4>1 DEF FitsIn
    <3>2. Len(t.stack) = 1
      BY <2>1, <2>9 DEF Changed
    <3> QED BY <2>1, <2>7, <2>8, <2>9, <3>1, <3>2, FitsMilder
  <2>14. Nested(t)
    <3>1. \A i \in 1 .. Len(c.stack) - 1 : Above(c.stack[i], g.at)
      <4> DEFINE n == Len(c.stack)
      <4>1. n = 1
        BY <2>1
      <4> HIDE DEF n
      <4>2. \A i : i \notin 1 .. n - 1
        BY <4>1
      <4> QED BY <4>2 DEF n
    <3> QED BY <2>1, <2>7, <2>8, <2>9, <2>13, <3>1, NestedChanged
  <2>15. Walk(t) = Still(g) /\ Button(t) = w
    <3>1. g.at \in Walks /\ g.at \notin Buttons
      BY <2>6 DEF Walks, Buttons
    <3> QED BY <2>1, <2>8, <2>9, <3>1, ChangedFacts DEF w
  <2>16. Missed(t, w)
    BY <2>10 DEF Missed
  <2>17. Good(t)
    BY <2>8, <2>9, <2>12, <2>14, <2>15, <2>16, SoundParts
  <2> QED BY <2>2, <2>9, <2>17, SameHolders
<1> QED BY <1>2, <1>3
-----------------------------------------------------------------------------
(***************************************************************************)
(* Callbacks, inform calls and deletions                                   *)
(***************************************************************************)

\* A function that is no walk and reports no button event.
LEMMA QuietFacts ==
  ASSUME NEW s \in CanvasType, Nested(s), s.stack # <<>>, Top(s).at \in Quiet
  PROVE  /\ Walk(s) = Still(Blank) /\ Still(Blank).at = "" /\ Top(s).at \notin Walks \union Buttons
         /\ Len(s.stack) = 1 => Button(s) = Still(Blank)
<1>1. Top(s).at \notin Walks \union Buttons
  BY DEF Quiet, Walks, Buttons
<1>2. Walk(s) = Still(Blank) /\ Still(Blank).at = ""
  <2>1. Top(s).at \notin Walks
    BY <1>1
  <2>2. Walk(s) = Still(Blank) /\ Walk(s).at = ""
    BY <2>1, WalkFields
  <2> QED BY <2>2
<1>3. Len(s.stack) = 1 => Button(s) = Still(Blank)
  BY <1>1, StackFacts DEF Button
<1> QED BY <1>1, <1>2, <1>3

\* A callback, or a step of a deletion, returns.
LEMMA QuietEnds ==
  ASSUME NEW s \in CanvasType, Nested(s), ~s.bad, s.stack # <<>>, Top(s).at \in Quiet,
         NEW b, b = Button(s), Body(s, Still(Blank), b), Paired(s, Still(Blank), b), Missed(s, b),
         Clean(s, Still(Blank), b)
  PROVE  Good(Return(s)) /\ Return(s).obj = s.obj
<1> DEFINE t == Return(s)
           w == Still(Blank)
<1>1. w.at = "" /\ (Len(s.stack) = 1 => b = w)
  BY QuietFacts
<1>2. t \in CanvasType /\ SameRest(s, t) /\ t.stack = Front(s.stack)
  BY ReturnEffect
<1> HIDE DEF t, w
<1>3. Returned(s, t) /\ t.obj = s.obj /\ t.pressed = s.pressed /\ ~t.bad /\ Milder(s, t)
  <2>1. Returned(s, t)
    <3>1. \E f : f \in FrameType
      BY StackFacts
    <3> QED BY <1>2, <3>1, StackEffect
  <2> QED BY <1>2, <2>1 DEF SameRest, SameData, Milder, SameKind, IsAlive
<1>4. Nested(t)
  BY <1>2, <1>3, NestedReturned
<1>5. /\ Walk(t) = w
      /\ Len(s.stack) > 1 => Button(t) = b /\ Gone(t) = Gone(s)
      /\ Len(s.stack) = 1 => Button(t) = w
  BY <1>2, <1>3, ReturnedFacts DEF w
<1>6. Len(s.stack) = 1 \/ Len(s.stack) > 1
  <2> DEFINE n == Len(s.stack)
  <2>1. n \in Nat /\ n > 0
    BY StackFacts
  <2> HIDE DEF n
  <2>2. n = 1 \/ n > 1
    BY <2>1, OneOrMore
  <2> QED BY <2>2 DEF n
<1>7. Button(t) = b
  BY <1>1, <1>5, <1>6
<1>8. Missed(t, b)
  <2>1. CASE Len(s.stack) = 1
    BY <1>1, <2>1 DEF Missed
  <2>2. CASE Len(s.stack) > 1
    BY <1>3, <1>5, <2>2 DEF Missed, Repeating, Mode, IsAlive
  <2> QED BY <1>6, <2>1, <2>2
<1>9. Body(t, w, b) /\ Paired(t, w, b) /\ Clean(t, w, b)
  BY <1>2, SameRestFacts DEF w
<1>10. Good(t)
  BY <1>2, <1>3, <1>4, <1>5, <1>7, <1>8, <1>9, SoundParts
<1> QED BY <1>3, <1>10 DEF t

\* What is so in a callback and in a deletion.
LEMMA QuietAt ==
  ASSUME NEW place \in Quiet, Good(c), At(place)
  PROVE  /\ c \in CanvasType /\ Nested(c) /\ ~c.bad /\ c.stack # <<>> /\ Top(c).at \in Quiet
         /\ Top(c) \in FrameType /\ IsFrame(Top(c)) /\ Top(c).at = place
         /\ FitsIn(c, Top(c), Len(c.stack))
         /\ Body(c, Still(Blank), Button(c)) /\ Paired(c, Still(Blank), Button(c))
         /\ Missed(c, Button(c)) /\ Clean(c, Still(Blank), Button(c))
         /\ Walk(c) = Still(Blank) /\ Still(Blank).at = ""
<1>1. /\ c \in CanvasType /\ Nested(c) /\ ~c.bad /\ c.stack # <<>> /\ Top(c) \in FrameType
      /\ IsFrame(Top(c)) /\ Top(c).at = place /\ FitsIn(c, Top(c), Len(c.stack))
      /\ Body(c, Walk(c), Button(c)) /\ Paired(c, Walk(c), Button(c)) /\ Missed(c, Button(c))
      /\ Clean(c, Walk(c), Button(c))
  BY AtFacts
<1>2. Walk(c) = Still(Blank) /\ Still(Blank).at = ""
  BY <1>1, QuietFacts
<1> QED BY <1>1, <1>2

\* A callback returns.
LEMMA CallbackReturnsGood ==
  ASSUME Assumed, Good(c), CallbackReturns
  PROVE  Good(c') /\ HolderKeeps(c, c')
<1>1. PICK place \in Quiet : At(place)
  BY DEF CallbackReturns, Quiet
<1>2. Good(Return(c)) /\ Return(c).obj = c.obj
  BY <1>1, QuietAt, QuietEnds
<1>3. c' = Return(c)
  BY DEF CallbackReturns
<1> QED BY <1>2, <1>3, SameHolders

\* An event other than "out" takes the object off those that are noted as gone.
LEMMA NotesOther ==
  ASSUME NEW s \in CanvasType, NEW o \in Objects, NEW type, type # "out"
  PROVE  LET st == Notes(s, o, type)
         IN  /\ st \in Seq(FrameType) /\ Len(st) = Len(s.stack)
             /\ \A i \in 1 .. Len(s.stack) : /\ Still(st[i]) = Still(s.stack[i])
                                             /\ st[i].gone = s.stack[i].gone \ {o}
<1>1. /\ Notes(s, o, type) \in Seq(FrameType) /\ Len(Notes(s, o, type)) = Len(s.stack)
      /\ \A i \in 1 .. Len(s.stack) :
           /\ Still(Notes(s, o, type)[i]) = Still(s.stack[i])
           /\ Notes(s, o, type)[i].gone =
                IF type = "out" /\ i < Len(s.stack) THEN s.stack[i].gone \union {o}
                ELSE s.stack[i].gone \ {o}
  BY NotesFacts
<1> QED BY <1>1

\* Another event for the object is noted.
LEMMA InformEffect ==
  ASSUME NEW s \in CanvasType, NEW o \in Objects
  PROVE  LET t == Inform(s, o)
         IN  /\ t \in CanvasType /\ SameRest(s, t) /\ Alike(s, t) /\ Gone(t) \subseteq Gone(s)
<1> DEFINE t == Inform(s, o)
           st == Notes(s, o, "inform")
<1>1. /\ st \in Seq(FrameType) /\ Len(st) = Len(s.stack)
      /\ \A i \in 1 .. Len(s.stack) : /\ Still(st[i]) = Still(s.stack[i])
                                      /\ st[i].gone = s.stack[i].gone \ {o}
  <2>1. "inform" # "out"
    OBVIOUS
  <2> QED BY <2>1, NotesOther
<1>2. st = [i \in DOMAIN s.stack |-> [s.stack[i] EXCEPT !.gone = @ \ {o}]]
  BY DEF Notes
<1>3. t = s \/ t = [s EXCEPT !.stack = st]
  BY <1>2 DEF Inform
<1> HIDE DEF st, t
<1>4. CASE t = s
  BY <1>4 DEF SameRest, SameData, Alike, t
<1>5. CASE t = [s EXCEPT !.stack = st]
  <2>1. IsRecord(s)
    BY CanvasIsRecord
  <2>2. IsRecord(t) /\ SameRest(s, t) /\ t.stack = st
    BY <1>5, <2>1 DEF IsRecord, SameRest, SameData
  <2>3. t \in CanvasType
    BY <1>1, <2>2, CanvasFields, CanvasRecord DEF SameRest, SameData
  <2>4. Alike(s, t)
    BY <1>1, <2>2 DEF Alike
  <2>5. Gone(t) \subseteq Gone(s)
    <3>1. CASE s.stack = <<>>
      <4>1. t.stack = <<>>
        BY <2>3, <2>4, <3>1, AlikeFacts
      <4> QED BY <3>1, <4>1 DEF Gone
    <3>2. CASE s.stack # <<>>
      <4>1. t.stack # <<>> /\ 1 \in 1 .. Len(s.stack)
        BY <2>3, <2>4, <3>2, AlikeFacts, StackFacts
      <4>2. t.stack[1].gone = s.stack[1].gone \ {o}
        BY <1>1, <2>2, <4>1
      <4> QED BY <3>2, <4>1, <4>2 DEF Gone
    <3> QED BY <3>1, <3>2
  <2> QED BY <2>2, <2>3, <2>4, <2>5 DEF t
<1> QED BY <1>3, <1>4, <1>5 DEF t

\* The inform calls return.
LEMMA InformedGood ==
  ASSUME Assumed, Good(c), Informed
  PROVE  Good(c') /\ HolderKeeps(c, c')
<1> DEFINE o == Top(c).cur
           s == Inform(c, o)
           b == Button(c)
           w == Still(Blank)
<1>1. At("inform") /\ "inform" \in Quiet
  BY DEF Informed, Quiet
<1>2. /\ c \in CanvasType /\ Nested(c) /\ ~c.bad /\ c.stack # <<>> /\ Top(c).at \in Quiet
      /\ Top(c).at = "inform" /\ FitsIn(c, Top(c), Len(c.stack))
      /\ Body(c, w, b) /\ Paired(c, w, b) /\ Missed(c, b) /\ Clean(c, w, b)
  BY <1>1, QuietAt
<1>3. o \in Objects
  BY <1>2 DEF FitsIn
<1>4. c' = Return(s)
  BY DEF Informed
<1> HIDE DEF o, b, w
<1>5. s \in CanvasType /\ SameRest(c, s) /\ Alike(c, s) /\ Gone(s) \subseteq Gone(c)
  BY <1>2, <1>3, InformEffect
<1> HIDE DEF s
<1>6. s.obj = c.obj /\ s.pressed = c.pressed /\ ~s.bad /\ Milder(c, s)
  BY <1>2, <1>5 DEF SameRest, SameData, Milder, SameKind, IsAlive
<1>7. Nested(s)
  BY <1>2, <1>5, <1>6, NestedAlike
<1>8. Button(s) = b /\ s.stack # <<>> /\ Top(s).at \in Quiet
  <2>1. Button(s) = Button(c) /\ s.stack # <<>> /\ Top(s).at = Top(c).at
    BY <1>2, <1>5, AlikeFacts
  <2> QED BY <1>2, <2>1 DEF b
<1>9. Body(s, w, b) /\ Paired(s, w, b) /\ Clean(s, w, b)
  BY <1>2, <1>5, SameRestFacts
<1>10. Missed(s, b)
  BY <1>2, <1>5, <1>6 DEF Missed, Repeating, Mode, IsAlive
<1>11. Good(Return(s)) /\ Return(s).obj = s.obj
  BY <1>2, <1>5, <1>6, <1>7, <1>8, <1>9, <1>10, QuietEnds DEF w
<1> QED BY <1>4, <1>6, <1>11, SameHolders

\* Telling of an event that presses nothing leaves a canvas as quiet as it was.
LEMMA ToldQuieter ==
  ASSUME NEW s \in CanvasType, NEW o \in Objects, NEW type, type \notin {"down", "out"},
         NEW t, Told(s, t, o, type)
  PROVE  Quieter(s, t)
<1>1. t \in CanvasType /\ SameData(s, t) /\ Alike(s, t)
  BY DEF Told
<1>2. ASSUME NEW p \in Objects
      PROVE  t.pressed[p] <= s.pressed[p]
  <2>1. s.pressed \in [Objects -> Nat] /\ s.pressed[p] \in Nat
    BY CanvasFields
  <2>2. Hears(s, o, type) <= s.pressed[o]
    BY HearsFacts
  <2>3. t.pressed[p] = s.pressed[p] \/ (p = o /\ t.pressed[p] = Hears(s, o, type))
    BY <2>1 DEF Told
  <2>4. s.pressed[p] <= s.pressed[p]
    BY <2>1
  <2> QED BY <2>2, <2>3, <2>4
<1>3. Gone(t) \subseteq Gone(s)
  <2>1. CASE s.stack = <<>>
    <3>1. t.stack = <<>>
      BY <1>1, <2>1, AlikeFacts
    <3> QED BY <2>1, <3>1 DEF Gone
  <2>2. CASE s.stack # <<>>
    <3>1. t.stack # <<>> /\ 1 \in 1 .. Len(s.stack)
      BY <1>1, <2>2, AlikeFacts, StackFacts
    <3>2. t.stack[1].gone = s.stack[1].gone \ {o}
      BY <3>1 DEF Told
    <3> QED BY <2>2, <3>1, <3>2 DEF Gone
  <2> QED BY <2>1, <2>2
<1> QED BY <1>1, <1>2, <1>3 DEF Quieter

\* A callback of a deletion is called: that of del, or, once the object has let
\* go of the pointer, that of free.
LEMMA DeletionTells ==
  ASSUME NEW u \in CanvasType, Nested(u), ~u.bad, u.stack # <<>>, Top(u).at \in {"del", "deleted"},
         NEW b, b = Button(u), Body(u, Still(Blank), b), Paired(u, Still(Blank), b),
         Missed(u, b), Clean(u, Still(Blank), b),
         NEW place \in {"deleted", "freeing"}, NEW o, o = Top(u).cur, place = "freeing" => ~IsAlive(u, o),
         NEW type \in {"del", "free"}
  PROVE  LET t == Tell(Become(u, [Top(u) EXCEPT !.at = place]), o, type) IN Good(t) /\ t.obj = u.obj
<1> DEFINE f == Top(u)
           g == [f EXCEPT !.at = place]
           s == Become(u, g)
           w == Still(Blank)
           r == Tell(s, o, type)
<1>1. Top(u).at \in Quiet
  BY DEF Quiet
<1>2. /\ u \in CanvasType /\ Nested(u) /\ ~u.bad /\ u.stack # <<>>
      /\ f \in FrameType /\ IsFrame(f) /\ f.at \in {"del", "deleted"} /\ FitsIn(u, f, Len(u.stack))
      /\ Body(u, w, b) /\ Paired(u, w, b) /\ Missed(u, b) /\ Clean(u, w, b) /\ w.at = ""
  <2>1. Top(u) \in FrameType /\ Top(u) = u.stack[Len(u.stack)] /\ Len(u.stack) \in 1 .. Len(u.stack)
    BY StackFacts
  <2>2. FitsIn(u, Top(u), Len(u.stack))
    BY <2>1 DEF Nested, Fits
  <2>3. IsFrame(Top(u))
    BY <2>1, FrameIsRecord
  <2>4. Still(Blank).at = ""
    BY <1>1, QuietFacts
  <2> QED BY <2>1, <2>2, <2>3, <2>4
<1>3. o \in Objects
  BY <1>2 DEF FitsIn
<1>5. /\ IsFrame(g) /\ g.at = place /\ g.cur = f.cur /\ g.rest = f.rest /\ g.ins = f.ins
      /\ g.x = f.x /\ g.moved = f.moved /\ g.below = f.below /\ g.gone = f.gone
  BY <1>2 DEF IsFrame
<1>6. FitsIn(u, g, Len(u.stack))
  <2>1. place \in Quiet /\ place \notin Bottoms
    BY DEF Quiet, Bottoms, Buttons
  <2>2. place = "freeing" => u.obj[f.cur].life # "alive"
    BY DEF IsAlive
  <2> HIDE DEF f, g
  <2> QED BY <1>2, <1>5, <2>1, <2>2 DEF FitsIn
<1>7. \A i \in 1 .. Len(u.stack) - 1 : Above(u.stack[i], g.at)
  <2>1. Top(u).at \notin Walks \union {"inform"}
    BY <1>2 DEF Walks
  <2> HIDE DEF f, g
  <2>2. \A at : \A i \in 1 .. Len(u.stack) - 1 : Above(u.stack[i], at)
    BY <1>2, <2>1, OpenFacts
  <2> QED BY <2>2
<1>8. Len(u.stack) = 1 => b = w
  <2>1. Top(u).at \in Quiet
    BY <1>2 DEF Quiet
  <2> QED BY <1>2, <2>1, QuietFacts
<1>9. Len(u.stack) = 1 \/ Len(u.stack) > 1
  <2> DEFINE n == Len(u.stack)
  <2>1. n \in Nat /\ n > 0
    BY <1>2, StackFacts
  <2> HIDE DEF n
  <2>2. n = 1 \/ n > 1
    BY <2>1, OneOrMore
  <2> QED BY <2>2 DEF n
<1> HIDE DEF f, g, w
<1>10. g \in FrameType
  <2>1. g.at \in Walks \union Waits \union Bottoms \union Quiet
    BY <1>5 DEF Waits
  <2> QED BY <1>2, <1>5, <2>1, Places, FrameFields
<1>11. s \in CanvasType /\ SameRest(u, s) /\ s.stack = [u.stack EXCEPT ![Len(u.stack)] = g]
  BY <1>2, <1>10, BecomeEffect
<1>4. r = Tell(s, o, type)
  OBVIOUS
<1> HIDE DEF s, r
<1>12. Changed(u, s, g) /\ s.obj = u.obj /\ s.pressed = u.pressed /\ ~s.bad /\ Milder(u, s)
  <2>1. Changed(u, s, g)
    BY <1>2, <1>10, <1>11, StackEffect
  <2> QED BY <1>2, <1>11, <2>1 DEF SameRest, SameData, Milder, SameKind, IsAlive
<1>13. Nested(s)
  <2>1. FitsIn(s, g, Len(s.stack))
    <3>1. Len(s.stack) = Len(u.stack)
      BY <1>12 DEF Changed
    <3> QED BY <1>2, <1>6, <1>10, <1>11, <1>12, <3>1, FitsMilder
  <2> QED BY <1>2, <1>7, <1>10, <1>11, <1>12, <2>1, NestedChanged
<1>14. /\ s.stack # <<>> /\ Top(s) = g /\ Walk(s) = w
       /\ Len(u.stack) > 1 => Button(s) = b /\ Gone(s) = Gone(u)
       /\ Len(u.stack) = 1 => Button(s) = w
  <2>1. g.at \notin Walks \union Buttons
    BY <1>5 DEF Walks, Buttons
  <2> QED BY <1>2, <1>11, <1>12, <2>1, ChangedFacts DEF w
<1>15. Button(s) = b
  BY <1>8, <1>9, <1>14
<1>16. Missed(s, b)
  <2>1. CASE Len(u.stack) = 1
    BY <1>2, <1>8, <2>1 DEF Missed
  <2>2. CASE Len(u.stack) > 1
    BY <1>2, <1>12, <1>14, <2>2 DEF Missed, Repeating, Mode, IsAlive
  <2> QED BY <1>9, <2>1, <2>2
<1>17. Body(s, w, b) /\ Paired(s, w, b) /\ Clean(s, w, b)
  BY <1>2, <1>11, SameRestFacts
<1>18. ASSUME NEW t, Told(s, t, o, type)
       PROVE  Paired(t, w, b) /\ Missed(t, b)
  <2>1. Quieter(s, t)
    BY <1>3, <1>11, <1>18, ToldQuieter
  <2>2. Missed(t, b)
    BY <1>11, <1>16, <1>17, <2>1, QuieterFacts
  <2>3. Paired(t, w, b)
    <3>1. w.at # "outed"
      BY <1>2
    <3> QED BY <1>11, <1>17, <2>1, <3>1, QuieterPaired
  <2> QED BY <2>2, <2>3
<1>19. Good(r) /\ r.obj = s.obj
  <2>1. s \in CanvasType /\ Nested(s) /\ ~s.bad /\ s.stack # <<>> /\ Top(s).at \in Tells
    BY <1>5, <1>11, <1>12, <1>13, <1>14 DEF Tells
  <2>2. b = Button(s) /\ Body(s, Still(Blank), b) /\ Clean(s, Still(Blank), b)
    BY <1>15, <1>17 DEF w
  <2>3. Paired(s, Still(Blank), b) /\ Missed(s, b)
    BY <1>16, <1>17 DEF w
  <2>4. \A t : Told(s, t, o, type) => Paired(t, Still(Blank), b) /\ Missed(t, b)
    BY <1>18 DEF w
  <2> QED BY <1>3, <1>4, <2>1, <2>2, <2>3, <2>4, TellGood
<1> QED BY <1>12, <1>19 DEF r, s, g, f

\* The callback of a deletion is called.
LEMMA DelTellsGood ==
  ASSUME Assumed, Good(c), DelTells
  PROVE  Good(c') /\ HolderKeeps(c, c')
<1> DEFINE o == Top(c).cur
           t == Tell(Become(c, [Top(c) EXCEPT !.at = "deleted"]), o, "del")
<1>1. At("del") /\ "del" \in Quiet
  BY DEF DelTells, Quiet
<1>2. /\ c \in CanvasType /\ Nested(c) /\ ~c.bad /\ c.stack # <<>> /\ Top(c).at = "del"
      /\ Body(c, Still(Blank), Button(c)) /\ Paired(c, Still(Blank), Button(c))
      /\ Missed(c, Button(c)) /\ Clean(c, Still(Blank), Button(c))
  BY <1>1, QuietAt
<1>3. Good(t) /\ t.obj = c.obj
  BY <1>2, DeletionTells
<1>4. c' = t
  BY DEF DelTells
<1> QED BY <1>3, <1>4, SameHolders

\* An object that is alive no longer lets go of the pointer.
LetsGo(s, t, o) ==
  /\ t.order = s.order /\ t.x = s.x /\ t.inside = s.inside /\ t.downs = s.downs
  /\ t.frozen = s.frozen /\ t.bad = s.bad /\ t.pressed = s.pressed /\ t.stack = s.stack
  /\ t.in = RemoveFirst(s.in, o)
  /\ t.grabbed = Cardinality(GrabsOf(Counts(t))) /\ (t.grabbed > 0 => s.grabbed > 0)
  /\ ~IsAlive(t, o) /\ ~t.obj[o].in /\ t.obj[o].grabbed = 0
  /\ t.obj[o].life = "freed" => s.obj[o].life = "freed"
  /\ t.obj[o].visible = s.obj[o].visible /\ t.obj[o].pass = s.obj[o].pass
  /\ t.obj[o].covers = s.obj[o].covers /\ t.obj[o].repeat = s.obj[o].repeat
  /\ t.obj[o].mode = s.obj[o].mode
  /\ \A p \in Objects : p # o => t.obj[p] = s.obj[p]

Lives == {"alive", "going", "deleted", "freed"}
Deletes(s, o, life) == [s EXCEPT !.obj[o].life = life, !.obj[o].in = FALSE]

\* An object is going or deleted, with the pointer not in it: nothing else
\* changes.
LEMMA DeletesEffect ==
  ASSUME NEW s \in CanvasType, NEW o \in Objects, NEW life \in Lives
  PROVE  LET t == Deletes(s, o, life)
         IN  /\ t \in CanvasType
             /\ t.order = s.order /\ t.x = s.x /\ t.inside = s.inside /\ t.downs = s.downs
             /\ t.frozen = s.frozen /\ t.bad = s.bad /\ t.pressed = s.pressed /\ t.stack = s.stack
             /\ t.in = s.in /\ t.grabbed = s.grabbed /\ t.nogrep = s.nogrep
             /\ t.obj[o].life = life /\ ~t.obj[o].in /\ t.obj[o].grabbed = s.obj[o].grabbed
             /\ t.obj[o].visible = s.obj[o].visible /\ t.obj[o].pass = s.obj[o].pass
             /\ t.obj[o].covers = s.obj[o].covers /\ t.obj[o].repeat = s.obj[o].repeat
             /\ t.obj[o].mode = s.obj[o].mode
             /\ \A p \in Objects : p # o => t.obj[p] = s.obj[p]
<1> DEFINE q == [s.obj[o] EXCEPT !.life = life, !.in = FALSE]
           t == Deletes(s, o, life)
<1>1. IsRecord(s) /\ s.obj \in [Objects -> ObjectType] /\ s.obj[o] \in ObjectType
  BY CanvasIsRecord, CanvasFields, ObjectFields
<1>2. /\ q \in ObjectType /\ q.life = life /\ ~q.in
      /\ q.visible = s.obj[o].visible /\ q.pass = s.obj[o].pass /\ q.grabbed = s.obj[o].grabbed
      /\ q.covers = s.obj[o].covers /\ q.repeat = s.obj[o].repeat
      /\ q.mode = s.obj[o].mode
  BY <1>1 DEF ObjectType, Lives
<1>3. /\ IsRecord(t) /\ t.obj = [s.obj EXCEPT ![o] = q]
      /\ t.order = s.order /\ t.x = s.x /\ t.inside = s.inside /\ t.in = s.in /\ t.nogrep = s.nogrep
      /\ t.downs = s.downs /\ t.frozen = s.frozen /\ t.bad = s.bad /\ t.pressed = s.pressed
      /\ t.stack = s.stack /\ t.grabbed = s.grabbed
  BY <1>1 DEF IsRecord, Deletes
<1> HIDE DEF q, t
<1>4. t.obj \in [Objects -> ObjectType] /\ t.obj[o] = q /\ \A p \in Objects : p # o => t.obj[p] = s.obj[p]
  BY <1>1, <1>2, <1>3
<1>5. t \in CanvasType
  BY <1>3, <1>4, CanvasFields, CanvasRecord
<1> QED BY <1>2, <1>3, <1>4, <1>5 DEF t

\* It lets go of the pointer: what the code writes then.
LEMMA LetsGoEffect ==
  ASSUME NEW s \in CanvasType, s.grabbed = Cardinality(GrabsOf(Counts(s))), NEW o \in Objects,
         NEW l \in Seq(Objects), l = RemoveFirst(s.in, o),
         NEW life \in Lives, life # "alive", life = "freed" => s.obj[o].life = "freed"
  PROVE  LET t == Deletes(Ungrab([s EXCEPT !.in = l], o, s.obj[o].grabbed), o, life)
         IN  t \in CanvasType /\ LetsGo(s, t, o)
<1> DEFINE u == [s EXCEPT !.in = l]
           n == s.obj[o].grabbed
           v == Ungrab(u, o, n)
           t == Deletes(v, o, life)
           z == 0
<1>1. /\ u \in CanvasType /\ SameElse(s, u) /\ u.in = l /\ u.stack = s.stack /\ u.obj = s.obj
  BY ListEffect
<1>2. u.grabbed = Cardinality(GrabsOf(Counts(u)))
  BY <1>1 DEF SameElse, Counts
<1>3. n \in Nat /\ s.grabbed \in Nat /\ \A p \in Objects : u.obj[p] = s.obj[p]
  BY <1>1, CanvasFields, ObjectFields
<1>4. n <= u.obj[o].grabbed
  <2>1. u.obj[o].grabbed = n
    BY <1>1
  <2> HIDE DEF n
  <2> QED BY <1>3, <2>1
<1>5. n - n = z
  <2> HIDE DEF n
  <2> QED BY <1>3
<1>6. u.obj[o].grabbed = n
  BY <1>1
<1> HIDE DEF n, u, v, t, z
<1>7. /\ v \in CanvasType /\ SameButGrabs(u, v) /\ v.stack = u.stack /\ v.downs = u.downs
      /\ v.obj[o].grabbed = z
      /\ \A p \in Objects : p # o => v.obj[p] = u.obj[p]
      /\ v.grabbed = u.grabbed - n /\ v.grabbed = Cardinality(GrabsOf(Counts(v)))
  <2>1. u \in CanvasType /\ o \in Objects /\ n \in Nat
    BY <1>1, <1>3
  <2>2. /\ v \in CanvasType /\ SameButGrabs(u, v) /\ v.stack = u.stack /\ v.downs = u.downs
        /\ v.obj[o].grabbed = u.obj[o].grabbed - n
        /\ \A p \in Objects : p # o => v.obj[p] = u.obj[p]
        /\ v.grabbed = u.grabbed - n /\ v.grabbed = Cardinality(GrabsOf(Counts(v)))
    BY <1>2, <1>4, <2>1, UngrabEffect DEF v
  <2> QED BY <1>5, <1>6, <2>2
<1>8. v.grabbed > 0 => s.grabbed > 0
  <2>1. v.grabbed \in Nat /\ v.grabbed = s.grabbed - n
    BY <1>1, <1>7, CanvasFields DEF SameElse
  <2> QED BY <1>3, <2>1
<1>9. /\ t \in CanvasType
      /\ t.order = v.order /\ t.x = v.x /\ t.inside = v.inside /\ t.downs = v.downs
      /\ t.frozen = v.frozen /\ t.bad = v.bad /\ t.pressed = v.pressed /\ t.stack = v.stack
      /\ t.in = v.in /\ t.grabbed = v.grabbed
      /\ t.obj[o].life = life /\ ~t.obj[o].in /\ t.obj[o].grabbed = v.obj[o].grabbed
      /\ t.obj[o].visible = v.obj[o].visible /\ t.obj[o].pass = v.obj[o].pass
      /\ t.obj[o].covers = v.obj[o].covers /\ t.obj[o].repeat = v.obj[o].repeat
      /\ t.obj[o].mode = v.obj[o].mode
      /\ \A p \in Objects : p # o => t.obj[p] = v.obj[p]
  BY <1>7, DeletesEffect DEF t
<1>10. Counts(t) = Counts(v)
  <2>1. \A p \in Objects : t.obj[p].grabbed = v.obj[p].grabbed
    BY <1>9
  <2> QED BY <2>1 DEF Counts
<1>11. /\ t.order = s.order /\ t.x = s.x /\ t.inside = s.inside /\ t.downs = s.downs
       /\ t.frozen = s.frozen /\ t.bad = s.bad /\ t.pressed = s.pressed /\ t.stack = s.stack
       /\ t.in = l
  BY <1>1, <1>7, <1>9 DEF SameElse, SameButGrabs
<1>12. /\ t.obj[o].visible = s.obj[o].visible /\ t.obj[o].pass = s.obj[o].pass
       /\ t.obj[o].covers = s.obj[o].covers /\ t.obj[o].repeat = s.obj[o].repeat
       /\ t.obj[o].mode = s.obj[o].mode
  <2>1. SameLook(u, v)
    BY <1>7 DEF SameButGrabs
  <2> QED BY <1>1, <1>9, <2>1 DEF SameLook
<1>13. /\ t.obj[o].grabbed = 0 /\ \A p \in Objects : p # o => t.obj[p] = s.obj[p]
  BY <1>1, <1>7, <1>9 DEF z
<1>14. t.grabbed = Cardinality(GrabsOf(Counts(t))) /\ (t.grabbed > 0 => s.grabbed > 0)
  BY <1>7, <1>8, <1>9, <1>10
<1>15. LetsGo(s, t, o)
  BY <1>9, <1>11, <1>12, <1>13, <1>14 DEF LetsGo, IsAlive
<1> QED BY <1>9, <1>15 DEF t, v, u, n

\* Events reach the same objects where the same are hit and repeat.
LEMMA HitsLook ==
  ASSUME NEW s, NEW t, NEW x, Hit(t, x) = Hit(s, x),
         \A o \in Objects : t.obj[o].repeat = s.obj[o].repeat
  PROVE  \A l : Hits(t, l, x) = Hits(s, l, x)
<1>1. {o \in Objects : Repeats(t, o)} = {o \in Objects : Repeats(s, o)}
  BY DEF Repeats
<1> QED BY <1>1 DEF Hits

\* A hidden object that lets go, and one that did so before, is not in the list
\* of the pointer then, and its grabs go with it.
LEMMA LetsGoBody ==
  ASSUME NEW s \in CanvasType, NEW t \in CanvasType, NEW o \in Objects, LetsGo(s, t, o),
         ~s.obj[o].visible \/ ~IsAlive(s, o), NEW w, NEW b, Off(w),
         Body(s, w, b), Paired(s, w, b), Clean(s, w, b)
  PROVE  Body(t, w, b) /\ Paired(t, w, b) /\ Clean(t, w, b)
<1>1. /\ Lists(s, w) /\ Hover(s, w) /\ Held(s, w) /\ Outside(s, w) /\ Norepeat(s, w) /\ Even(s, w, b)
      /\ Single(s) /\ ~Leaving(w) /\ w.at = "" /\ w.at \notin {"leave", "postout"} \union Arriving
  BY DEF Body, Leaving, Off, Arriving
<1>2. /\ s.in \in Seq(Objects) /\ IsInjective(s.in) /\ Range(s.in) \subseteq Objects
  <2>1. s.in \in Seq(Objects)
    BY CanvasFields
  <2>2. Range(s.in) \subseteq Objects
    BY <2>1, RangeFacts
  <2> QED BY <1>1, <2>1, <2>2 DEF Lists
<1>3. /\ t.in \in Seq(Objects) /\ IsInjective(t.in) /\ Range(t.in) = Range(s.in) \ {o}
      /\ \A p, q : Before(t.in, p, q) => Before(s.in, p, q)
      /\ o \notin Range(s.in) => t.in = s.in
  BY <1>2, RemovedOrder DEF LetsGo
<1>4. \A p \in Objects : p # o => t.obj[p] = s.obj[p]
  BY DEF LetsGo
<1>5. ~IsAlive(t, o) /\ ~t.obj[o].in /\ t.obj[o].grabbed = 0 /\ ~(t.obj[o].grabbed > 0)
  BY IsZero DEF LetsGo, IsAlive
<1>6. \A p \in Objects : Mode(t, p) = Mode(s, p) /\ t.obj[p].repeat = s.obj[p].repeat
  BY <1>4 DEF LetsGo, Mode
<1>7. (Repeating(t) <=> Repeating(s)) /\ Single(t)
  BY <1>1, <1>6 DEF Repeating, Single
<1>8. t.order = s.order /\ t.downs = s.downs /\ t.inside = s.inside /\ t.pressed = s.pressed
  BY DEF LetsGo
<1>9. t.grabbed > 0 => s.grabbed > 0
  BY DEF LetsGo
<1>10. Lists(t, w)
  <2>1. \A p \in Objects : IsAlive(t, p) => IsAlive(s, p)
    BY <1>4, <1>5 DEF IsAlive
  <2>2. \A p \in Range(t.in) : IsAlive(t, p)
    BY <1>1, <1>2, <1>3, <1>4 DEF Lists, IsAlive
  <2> QED BY <1>1, <1>3, <1>8, <2>1, <2>2 DEF Lists
<1>11. Hover(t, w)
  BY <1>1, <1>3, <1>4, <1>5 DEF Hover, HasPointer, Listed
<1>12. Held(t, w)
  <2>1. ASSUME NEW p \in Objects, t.obj[p].grabbed > 0
        PROVE  p \in Range(t.in)
    <3>1. p # o /\ s.obj[p].grabbed > 0
      BY <1>4, <1>5, <2>1
    <3>2. p \in Range(s.in)
      BY <1>1, <3>1 DEF Held, Holding
    <3> QED BY <1>3, <3>1, <3>2
  <2>2. ASSUME NEW p \in Objects, Mode(t, p) = "nograb"
        PROVE  t.obj[p].grabbed = 0
    BY <1>1, <1>4, <1>5, <1>6, <2>2 DEF Held
  <2>3. Holding(t, w) = Range(t.in)
    BY <1>1 DEF Holding
  <2>4. t.grabbed = Cardinality(GrabsOf(Counts(t)))
    BY DEF LetsGo
  <2> QED BY <1>1, <2>1, <2>2, <2>3, <2>4 DEF Held
<1>13. Outside(t, w)
  <2>1. s.in = <<>> => t.in = <<>>
    <3> SUFFICES ASSUME s.in = <<>>
                 PROVE  t.in = s.in
      OBVIOUS
    <3>1. Range(s.in) = {}
      BY NoneTwice
    <3> QED BY <1>3, <3>1
  <2> QED BY <1>1, <1>8, <2>1 DEF Outside
<1>14. Norepeat(t, w)
  <2> SUFFICES ASSUME t.grabbed > 0, NEW n \in Range(t.in), Mode(t, n) = "norepeat"
               PROVE  KeptBy(t, t.in, n)
    BY <1>1 DEF Norepeat, Keeps
  <2>1. n \in Objects /\ n \in Range(s.in) /\ n # o /\ Mode(s, n) = "norepeat"
    BY <1>2, <1>3, <1>6
  <2>2. KeptBy(s, s.in, n)
    BY <1>1, <1>9, <2>1 DEF Norepeat, Keeps
  <2>3. t.obj[n].grabbed = s.obj[n].grabbed
    BY <1>4, <2>1
  <2>4. ASSUME NEW p \in Objects, s.obj[p].grabbed = 0
        PROVE  t.obj[p].grabbed = 0
    BY <1>4, <1>5, <2>4
  <2> QED BY <1>3, <1>8, <2>2, <2>3, <2>4 DEF KeptBy
<1>15. Even(t, w, b)
  <2> SUFFICES ASSUME Repeating(t), NEW p \in Objects
               PROVE  /\ t.obj[p].grabbed > 0 => t.obj[p].grabbed = Due(t, b, p)
                      /\ t.grabbed > 0 /\ Listed(t, p) /\ Mode(t, p) = "autograb" =>
                           t.obj[p].grabbed = Due(t, b, p)
    BY DEF Even
  <2>1. CASE p = o
    BY <1>3, <1>5, <2>1 DEF Listed
  <2>2. CASE p # o
    <3>1. t.obj[p] = s.obj[p] /\ Due(t, b, p) = Due(s, b, p) /\ (Listed(t, p) => Listed(s, p))
      BY <1>3, <1>4, <1>8, <2>2 DEF Due, Listed
    <3> QED BY <1>1, <1>6, <1>7, <1>9, <3>1 DEF Even
  <2> QED BY <2>1, <2>2
<1>16. Paired(t, w, b)
  <2> SUFFICES ASSUME Repeating(t), NEW p \in Objects, IsAlive(t, p)
               PROVE  t.pressed[p] + Owed(t, b, p) <= t.obj[p].grabbed
    BY <1>1 DEF Paired
  <2>1. p # o /\ t.obj[p] = s.obj[p]
    BY <1>4, <1>5
  <2>2. IsAlive(s, p) /\ Owed(t, b, p) = Owed(s, b, p)
    BY <1>6, <2>1 DEF IsAlive, Owed
  <2>3. s.pressed[p] + Owed(s, b, p) <= s.obj[p].grabbed
    BY <1>7, <2>2 DEF Paired
  <2> QED BY <1>8, <2>1, <2>2, <2>3
<1>17. Clean(t, w, b)
  <2> SUFFICES ASSUME Repeating(t), t.frozen = 0, t.downs = 0, t.inside, b.at \notin {"up", "upped"}
               PROVE  t.in = Hits(t, t.order, t.x)
    BY <1>1 DEF Clean
  <2>1. Repeating(s) /\ s.frozen = 0 /\ s.downs = 0 /\ s.inside /\ t.x = s.x
    BY <1>7, <1>8 DEF LetsGo
  <2>2. s.grabbed = 0
    <3> DEFINE n == Counts(s)
    <3>1. \A p \in Objects : s.obj[p].grabbed \in Nat
      BY ObjectFields
    <3>2. ASSUME NEW p \in Objects
          PROVE  s.obj[p].grabbed = 0
      <4>1. s.obj[p].grabbed > 0 => s.obj[p].grabbed = Due(s, b, p)
        BY <1>1, <2>1 DEF Even
      <4>2. Due(s, b, p) = 0
        BY <2>1 DEF Due
      <4>3. s.obj[p].grabbed \in Nat
        BY <3>1
      <4> QED BY <4>1, <4>2, <4>3, ZeroOrMore
    <3>3. n \in [Objects -> Nat] /\ \A p \in Objects : n[p] = 0
      BY <3>1, <3>2 DEF Counts
    <3> HIDE DEF n
    <3>4. Cardinality(GrabsOf(n)) = 0
      BY <3>3, GrabsBound
    <3> QED BY <1>1, <3>4 DEF Held, n
  <2>3. s.in = Hits(s, s.order, s.x)
    BY <1>1, <2>1, <2>2 DEF Clean
  <2>4. o \notin Hit(s, s.x) /\ o \notin Hit(t, s.x)
    BY <1>5 DEF Hit, IsAlive
  <2>5. o \notin Range(s.in)
    <3>1. s.order \in Seq(Objects)
      BY CanvasFields
    <3>2. Range(Hits(s, s.order, s.x)) \subseteq Hit(s, s.x)
      BY <3>1, HitsFacts
    <3> QED BY <2>3, <2>4, <3>2
  <2>6. Hit(t, s.x) = Hit(s, s.x)
    <3>1. \A p \in Objects : p # o => (p \in Hit(t, s.x) <=> p \in Hit(s, s.x))
      BY <1>4 DEF Hit, Covers
    <3>2. Hit(t, s.x) \subseteq Objects /\ Hit(s, s.x) \subseteq Objects
      BY DEF Hit
    <3> QED BY <2>4, <3>1, <3>2
  <2>7. Hits(t, s.order, s.x) = Hits(s, s.order, s.x)
    BY <1>6, <2>6, HitsLook
  <2> QED BY <1>3, <1>8, <2>1, <2>3, <2>5, <2>7
<1> QED BY <1>7, <1>10, <1>11, <1>12, <1>13, <1>14, <1>15, <1>16, <1>17 DEF Body

\* What is so at a step of a deletion is so of the canvas in which the object has
\* let go of the pointer.
LEMMA LetsGoParts ==
  ASSUME Good(c), NEW place \in Quiet, At(place), NEW o \in Objects, NEW t \in CanvasType,
         LetsGo(c, t, o), ~c.obj[o].visible \/ ~IsAlive(c, o),
         NEW b, b = Button(c)
  PROVE  /\ Nested(t) /\ ~t.bad /\ t.stack = c.stack /\ Button(t) = b
         /\ Body(t, Still(Blank), b) /\ Paired(t, Still(Blank), b) /\ Missed(t, b)
         /\ Clean(t, Still(Blank), b)
         /\ \A p \in Objects : IsAlive(t, p) => t.obj[p] = c.obj[p]
<1> DEFINE w == Still(Blank)
<1>2. /\ c \in CanvasType /\ Nested(c) /\ ~c.bad /\ c.stack # <<>> /\ Top(c).at \in Quiet
      /\ Body(c, w, b) /\ Paired(c, w, b) /\ Missed(c, b) /\ Clean(c, w, b) /\ w.at = ""
  BY QuietAt
<1>5. Off(w) /\ ~Leaving(w)
  BY <1>2 DEF Off, Leaving
<1> HIDE DEF w
<1>8. t.stack = c.stack /\ t.pressed = c.pressed /\ ~t.bad /\ t.frozen = c.frozen
  BY <1>2 DEF LetsGo
<1>9. \A p \in Objects : p # o => t.obj[p] = c.obj[p]
  BY DEF LetsGo
<1>10. \A p \in Objects : IsAlive(t, p) => p # o /\ IsAlive(c, p)
  BY <1>9 DEF LetsGo, IsAlive
<1>11. Milder(c, t)
  BY <1>8, <1>9, <1>10 DEF Milder, SameKind, LetsGo
<1>12. Alike(c, t)
  BY <1>8 DEF Alike
<1>13. Nested(t)
  BY <1>2, <1>11, <1>12, NestedAlike
<1>14. Button(t) = b /\ Gone(t) = Gone(c)
  BY <1>8 DEF Button, Gone, Top
<1>15. Body(t, w, b) /\ Paired(t, w, b) /\ Clean(t, w, b)
  BY <1>2, <1>5, LetsGoBody
<1>16. Missed(t, b)
  <2>1. Repeating(t) => Repeating(c)
    <3>1. \A p \in Objects : t.obj[p].mode = c.obj[p].mode
      BY <1>9 DEF LetsGo
    <3> QED BY <3>1 DEF Repeating, Mode
  <2>2. \A p : p \in Gone(c) => p \in Objects
    <3>1. Gone(c) = c.stack[1].gone /\ c.stack[1] \in FrameType
      BY <1>2, StackFacts DEF Gone
    <3>2. c.stack[1].gone \in SUBSET Objects
      BY <3>1, FrameFields
    <3> QED BY <3>1, <3>2
  <2> QED BY <1>2, <1>8, <1>10, <1>14, <2>1, <2>2 DEF Missed
<1> QED BY <1>8, <1>9, <1>10, <1>13, <1>14, <1>15, <1>16 DEF w

\* An object lets go of the pointer, and its callback is called.
LEMMA LetGoGood ==
  ASSUME Assumed, Good(c), LetGo
  PROVE  Good(c') /\ HolderKeeps(c, c')
<1> DEFINE o == Top(c).cur
           l == IF c.obj[o].in \/ c.obj[o].grabbed > 0 THEN RemoveFirst(c.in, o) ELSE c.in
           u == [c EXCEPT !.in = l]
           life == IF Marked(c, o) THEN c.obj[o].life ELSE "going"
           t == Deletes(Ungrab(u, o, c.obj[o].grabbed), o, life)
           b == Button(c)
           w == Still(Blank)
           r == Tell(Become(t, [Top(t) EXCEPT !.at = "freeing"]), o, "free")
<1>1. At("deleted") /\ "deleted" \in Quiet
  BY DEF LetGo, Quiet
<1>2. /\ c \in CanvasType /\ ~c.bad /\ c.stack # <<>>
      /\ Top(c).at = "deleted" /\ FitsIn(c, Top(c), Len(c.stack)) /\ Body(c, w, b) /\ w.at = ""
  BY <1>1, QuietAt
<1>3. o \in Objects /\ ~c.obj[o].visible
  BY <1>2 DEF FitsIn
<1>4. c' = r
  <2>1. IsRecord(c)
    BY <1>2, CanvasIsRecord
  <2>2. [c EXCEPT !.in = IF c.obj[o].in \/ c.obj[o].grabbed > 0 THEN RemoveFirst(@, o) ELSE @] = u
    BY <2>1 DEF IsRecord
  <2>3. u.obj = c.obj
    BY <2>1 DEF IsRecord
  <2>4. c' = Parted(u, o)
    BY <2>2 DEF LetGo
  <2>5. Marked(u, o) <=> Marked(c, o)
    BY <2>3 DEF Marked
  <2> HIDE DEF u, o
  <2> QED BY <2>3, <2>4, <2>5 DEF Parted, Deletes
<1>5. Lists(c, w) /\ Hover(c, w) /\ Held(c, w) /\ ~Leaving(w)
  BY <1>2 DEF Body, Leaving
<1>6. l = RemoveFirst(c.in, o) /\ l \in Seq(Objects)
  <2>1. c.in \in Seq(Objects) /\ IsInjective(c.in)
    BY <1>2, <1>5, CanvasFields DEF Lists
  <2>2. RemoveFirst(c.in, o) \in Seq(Objects) /\ (o \notin Range(c.in) => RemoveFirst(c.in, o) = c.in)
    BY <2>1, RemovedOrder
  <2>3. ~c.obj[o].in => o \notin Range(c.in)
    BY <1>2, <1>3, <1>5 DEF Hover, HasPointer, Listed, Arriving
  <2> QED BY <2>2, <2>3
<1>7. life \in Lives /\ life # "alive" /\ (life = "freed" => c.obj[o].life = "freed")
  BY DEF Marked, Lives
<1> HIDE DEF o, b, w, l, life
<1>8. t \in CanvasType /\ LetsGo(c, t, o)
  <2>1. c.grabbed = Cardinality(GrabsOf(Counts(c)))
    BY <1>5 DEF Held
  <2>2. c \in CanvasType /\ o \in Objects /\ l \in Seq(Objects)
    BY <1>2, <1>3, <1>6
  <2>3. l = RemoveFirst(c.in, o)
    BY <1>6
  <2> QED BY <1>7, <2>1, <2>2, <2>3, LetsGoEffect
<1> HIDE DEF t
<1>9. /\ Nested(t) /\ ~t.bad /\ t.stack = c.stack /\ Button(t) = b
      /\ Body(t, Still(Blank), b) /\ Paired(t, Still(Blank), b) /\ Missed(t, b)
      /\ Clean(t, Still(Blank), b)
      /\ \A p \in Objects : IsAlive(t, p) => t.obj[p] = c.obj[p]
  BY <1>1, <1>3, <1>8, LetsGoParts DEF b
<1>10. Top(t) = Top(c) /\ t.stack # <<>>
  BY <1>2, <1>9 DEF Top
<1>11. ~IsAlive(t, o)
  BY <1>8 DEF LetsGo
<1>12. Good(r) /\ r.obj = t.obj
  <2>1. Top(t).at \in {"del", "deleted"} /\ o = Top(t).cur /\ b = Button(t)
    BY <1>2, <1>9, <1>10 DEF o
  <2> QED BY <1>8, <1>9, <1>10, <1>11, <2>1, DeletionTells
<1> HIDE DEF r
<1>13. HolderKeeps(c, c')
  BY <1>4, <1>9, <1>12 DEF HolderKeeps, IsAlive
<1> QED BY <1>4, <1>12, <1>13

\* An object is marked as deleted.
LEMMA DeletedGood ==
  ASSUME Assumed, Good(c), Deleted
  PROVE  Good(c') /\ HolderKeeps(c, c')
<1> DEFINE o == Top(c).cur
           t == [c EXCEPT !.obj[o].life = "deleted"]
           b == Button(c)
           w == Still(Blank)
<1>1. At("freeing") /\ "freeing" \in Quiet
  BY DEF Deleted, Quiet
<1>2. /\ c \in CanvasType /\ ~c.bad /\ c.stack # <<>> /\ Top(c).at \in Quiet
      /\ Top(c).at = "freeing" /\ FitsIn(c, Top(c), Len(c.stack)) /\ Body(c, w, b) /\ w.at = ""
  BY <1>1, QuietAt
<1>3. o \in Objects /\ ~IsAlive(c, o)
  BY <1>2 DEF FitsIn, IsAlive
<1>4. c' = Return(t)
  BY DEF Deleted
<1>5. Lists(c, w) /\ Hover(c, w) /\ Held(c, w) /\ ~Leaving(w) /\ Off(w)
  BY <1>2 DEF Body, Leaving, Off
<1>6. o \notin Range(c.in) /\ ~c.obj[o].in /\ c.obj[o].grabbed = 0
  <2>1. o \notin Range(c.in)
    BY <1>3, <1>5 DEF Lists
  <2>2. ~c.obj[o].in
    BY <1>2, <1>3, <1>5, <2>1 DEF Hover, HasPointer, Listed, Arriving
  <2>3. ~(c.obj[o].grabbed > 0)
    <3>1. Holding(c, w) = Range(c.in)
      BY <1>2 DEF Holding
    <3> QED BY <1>3, <1>5, <2>1, <3>1 DEF Held
  <2>4. c.obj[o].grabbed \in Nat
    BY <1>2, <1>3, ObjectFields
  <2> QED BY <2>1, <2>2, <2>3, <2>4, ZeroOrMore
<1>7. t = Deletes(c, o, "deleted")
  <2>1. c.obj[o] \in ObjectType /\ c.obj \in [Objects -> ObjectType]
    BY <1>2, <1>3, CanvasFields, ObjectFields
  <2>2. [c.obj[o] EXCEPT !.life = "deleted"] = [c.obj[o] EXCEPT !.life = "deleted", !.in = FALSE]
    BY <1>6, <2>1 DEF ObjectType
  <2>3. t.obj = Deletes(c, o, "deleted").obj
    BY <1>3, <2>1, <2>2 DEF Deletes
  <2>4. IsRecord(c)
    BY <1>2, CanvasIsRecord
  <2> QED BY <2>3, <2>4 DEF Deletes, IsRecord
<1>8. c.in \in Seq(Objects) /\ RemoveFirst(c.in, o) = c.in
  <2>1. c.in \in Seq(Objects) /\ IsInjective(c.in)
    BY <1>2, <1>5, CanvasFields DEF Lists
  <2> QED BY <1>6, <2>1, RemovedOrder
<1> HIDE DEF o, b, w, t
<1>9. /\ t \in CanvasType /\ LetsGo(c, t, o)
  <2>1. /\ t \in CanvasType
        /\ t.order = c.order /\ t.x = c.x /\ t.inside = c.inside /\ t.downs = c.downs
        /\ t.frozen = c.frozen /\ t.bad = c.bad /\ t.pressed = c.pressed /\ t.stack = c.stack
        /\ t.in = c.in /\ t.grabbed = c.grabbed
        /\ t.obj[o].life = "deleted" /\ ~t.obj[o].in /\ t.obj[o].grabbed = c.obj[o].grabbed
        /\ t.obj[o].visible = c.obj[o].visible /\ t.obj[o].pass = c.obj[o].pass
        /\ t.obj[o].covers = c.obj[o].covers /\ t.obj[o].repeat = c.obj[o].repeat
        /\ t.obj[o].mode = c.obj[o].mode
        /\ \A p \in Objects : p # o => t.obj[p] = c.obj[p]
    <3>1. "deleted" \in Lives /\ c \in CanvasType /\ o \in Objects
      BY <1>2, <1>3 DEF Lives
    <3> QED BY <1>7, <3>1, DeletesEffect
  <2>2. \A p \in Objects : t.obj[p].grabbed = c.obj[p].grabbed
    BY <2>1
  <2>3. Counts(t) = Counts(c)
    BY <2>2 DEF Counts
  <2>4. c.grabbed = Cardinality(GrabsOf(Counts(c)))
    BY <1>5 DEF Held
  <2> QED BY <1>6, <1>8, <2>1, <2>3, <2>4 DEF LetsGo, IsAlive
<1>10. /\ Nested(t) /\ ~t.bad /\ t.stack = c.stack /\ Button(t) = b
       /\ Body(t, Still(Blank), b) /\ Paired(t, Still(Blank), b) /\ Missed(t, b)
       /\ Clean(t, Still(Blank), b)
       /\ \A p \in Objects : IsAlive(t, p) => t.obj[p] = c.obj[p]
  BY <1>1, <1>3, <1>9, LetsGoParts DEF b
<1>11. Top(t).at \in Quiet /\ t.stack # <<>>
  BY <1>2, <1>10 DEF Top
<1>12. Good(Return(t)) /\ Return(t).obj = t.obj
  BY <1>9, <1>10, <1>11, QuietEnds
<1>13. HolderKeeps(c, c')
  BY <1>4, <1>10, <1>12 DEF HolderKeeps, IsAlive
<1> QED BY <1>4, <1>12, <1>13
-----------------------------------------------------------------------------
(***************************************************************************)
(* Calls                                                                   *)
(***************************************************************************)

\* A callback that calls a function has nothing to do after it.
LEMMA CallerFacts ==
  ASSUME Good(c), MayCall
  PROVE  /\ Good(Caller) /\ SameRest(c, Caller) /\ Waiting(Caller) /\ Open(Caller)
         /\ \A o \in Objects : Kept(o) =>
              \A i \in 1 .. Len(Caller.stack) : Caller.stack[i].at = "deleted" => Caller.stack[i].cur # o
<1> DEFINE f == Top(c)
           g == [f EXCEPT !.at = "returning"]
           s == Become(c, g)
           b == Button(c)
           w == Still(Blank)
<1>0. c \in CanvasType
  BY DEF Good, Sound
<1>1. ASSUME NEW o \in Objects, Kept(o), NEW i \in 1 .. Len(c.stack), c.stack[i].at = "deleted"
      PROVE  c.stack[i].cur # o
  <2>1. DOMAIN c.stack = 1 .. Len(c.stack)
    BY <1>0, StackFacts
  <2>2. c.stack[i] \in Range(c.stack)
    BY <2>1 DEF Range
  <2> QED BY <1>1, <2>2 DEF Kept
<1>2. CASE Idle
  <2>1. Caller = c
    BY <1>2 DEF Caller
  <2>2. SameRest(c, c) /\ Waiting(c) /\ Open(c)
    <3>1. c.stack = <<>> /\ Nested(c) /\ Waiting(c)
      BY <1>2, IdleFacts
    <3>2. Open(c)
      BY <1>0, <3>1, OpenFacts
    <3> QED BY <3>1, <3>2 DEF SameRest, SameData
  <2> QED BY <1>1, <2>1, <2>2
<1>3. CASE ~Idle
  <2>1. At("callback") /\ "callback" \in Quiet
    BY <1>3 DEF MayCall, Quiet
  <2>2. /\ c \in CanvasType /\ Nested(c) /\ ~c.bad /\ c.stack # <<>> /\ f.at \in Quiet
        /\ f \in FrameType /\ IsFrame(f) /\ f.at = "callback" /\ FitsIn(c, f, Len(c.stack))
        /\ Body(c, w, b) /\ Paired(c, w, b) /\ Missed(c, b) /\ Clean(c, w, b) /\ w.at = ""
    BY <2>1, QuietAt
  <2>3. Caller = s
    BY <1>3 DEF Caller
  <2>4. /\ IsFrame(g) /\ g.at = "returning" /\ g.cur = f.cur /\ g.rest = f.rest /\ g.ins = f.ins
        /\ g.x = f.x /\ g.moved = f.moved /\ g.below = f.below /\ g.gone = f.gone
    BY <2>2 DEF IsFrame
  <2>5. Open(c) /\ \A i \in 1 .. Len(c.stack) - 1 : Above(c.stack[i], g.at)
    <3>1. Top(c).at \notin Walks \union {"inform", "del"}
      BY <2>2 DEF Walks
    <3>2. Open(c)
      BY <2>2, <3>1, OpenFacts
    <3>3. \A at : \A i \in 1 .. Len(c.stack) - 1 : Above(c.stack[i], at)
      <4>1. Top(c).at \notin Walks \union {"inform"}
        BY <3>1
      <4> HIDE DEF f, g
      <4> QED BY <2>2, <4>1, OpenFacts
    <3> QED BY <3>2, <3>3
  <2>6. Len(c.stack) = 1 => b = w
    <3>1. Top(c).at \in Quiet
      BY <2>2
    <3> QED BY <2>2, <3>1, QuietFacts
  <2>7. Len(c.stack) = 1 \/ Len(c.stack) > 1
    <3> DEFINE n == Len(c.stack)
    <3>1. n \in Nat /\ n > 0
      BY <2>2, StackFacts
    <3> HIDE DEF n
    <3>2. n = 1 \/ n > 1
      BY <3>1, OneOrMore
    <3> QED BY <3>2 DEF n
  <2>8. FitsIn(c, g, Len(c.stack))
    <3>1. "returning" \in Quiet /\ "returning" \notin Bottoms
      BY DEF Quiet, Bottoms, Buttons
    <3> HIDE DEF f, g
    <3> QED BY <2>2, <2>4, <3>1 DEF FitsIn
  <2> HIDE DEF f, g, b, w
  <2>9. g \in FrameType
    <3>1. g.at \in Walks \union Waits \union Bottoms \union Quiet
      BY <2>4 DEF Waits
    <3> QED BY <2>2, <2>4, <3>1, Places, FrameFields
  <2>10. s \in CanvasType /\ SameRest(c, s) /\ s.stack = [c.stack EXCEPT ![Len(c.stack)] = g]
    BY <2>2, <2>9, BecomeEffect
  <2> HIDE DEF s
  <2>11. Changed(c, s, g) /\ s.obj = c.obj /\ s.pressed = c.pressed /\ ~s.bad /\ Milder(c, s)
    <3>1. Changed(c, s, g)
      BY <2>2, <2>9, <2>10, StackEffect
    <3> QED BY <2>2, <2>10, <3>1 DEF SameRest, SameData, Milder, SameKind, IsAlive
  <2>12. Nested(s)
    <3>1. FitsIn(s, g, Len(s.stack))
      <4>1. Len(s.stack) = Len(c.stack)
        BY <2>11 DEF Changed
      <4> QED BY <2>2, <2>8, <2>9, <2>10, <2>11, <4>1, FitsMilder
    <3> QED BY <2>2, <2>5, <2>9, <2>10, <2>11, <3>1, NestedChanged
  <2>13. /\ s.stack # <<>> /\ Top(s) = g /\ Walk(s) = w
         /\ Len(c.stack) > 1 => Button(s) = b /\ Gone(s) = Gone(c)
         /\ Len(c.stack) = 1 => Button(s) = w
    <3>1. g.at \notin Walks \union Buttons
      BY <2>4 DEF Walks, Buttons
    <3> QED BY <2>2, <2>10, <2>11, <3>1, ChangedFacts DEF w, b
  <2>14. Button(s) = b
    BY <2>6, <2>7, <2>13
  <2>15. Missed(s, b)
    <3>1. CASE Len(c.stack) = 1
      BY <2>2, <2>6, <3>1 DEF Missed
    <3>2. CASE Len(c.stack) > 1
      BY <2>2, <2>11, <2>13, <3>2 DEF Missed, Repeating, Mode, IsAlive
    <3> QED BY <2>7, <3>1, <3>2
  <2>16. Body(s, w, b) /\ Paired(s, w, b) /\ Clean(s, w, b)
    BY <2>2, <2>10, SameRestFacts
  <2>17. Good(s)
    BY <2>10, <2>11, <2>12, <2>13, <2>14, <2>15, <2>16, SoundParts
  <2>18. Waiting(s) /\ Open(s)
    <3>1. Top(s).at = "returning" /\ Top(s).at \notin Walks \union {"inform", "del"}
      BY <2>4, <2>13 DEF Walks
    <3> QED BY <2>10, <2>12, <2>13, <3>1, OpenFacts DEF Waiting, Waits
  <2>19. ASSUME NEW o \in Objects, Kept(o), NEW i \in 1 .. Len(s.stack), s.stack[i].at = "deleted"
         PROVE  s.stack[i].cur # o
    <3> DEFINE n == Len(c.stack)
    <3>1. n \in Nat /\ n > 0 /\ Len(s.stack) = n /\ s.stack[n] = g
      BY <2>2, <2>11, StackFacts DEF Changed
    <3>2. \A j \in 1 .. n - 1 : s.stack[j] = c.stack[j]
      BY <2>11 DEF Changed
    <3>3. i # n
      BY <2>4, <2>19, <3>1
    <3>4. i \in 1 .. n - 1 /\ i \in 1 .. n
      <4> HIDE DEF n
      <4> QED BY <3>1, <3>3
    <3> QED BY <1>1, <2>19, <3>2, <3>4
  <2> QED BY <2>3, <2>10, <2>17, <2>18, <2>19
<1> QED BY <1>2, <1>3

\* A canvas is the same but for what is shown, what passes events and which
\* objects are above others.
SameButLook(s, t) ==
  /\ t.x = s.x /\ t.inside = s.inside /\ t.in = s.in /\ t.grabbed = s.grabbed
  /\ t.downs = s.downs /\ t.frozen = s.frozen /\ t.bad = s.bad
  /\ t.pressed = s.pressed /\ t.stack = s.stack
  /\ \A o \in Objects :
       /\ t.obj[o].in = s.obj[o].in /\ t.obj[o].grabbed = s.obj[o].grabbed
       /\ t.obj[o].life = s.obj[o].life /\ t.obj[o].covers = s.obj[o].covers
       /\ t.obj[o].repeat = s.obj[o].repeat /\ t.obj[o].mode = s.obj[o].mode

\* No object is shown that is being deleted.
NoneDeleted(s, o) ==
  \A i \in 1 .. Len(s.stack) : s.stack[i].at \in {"del", "deleted"} => s.stack[i].cur # o

\* An object looks another way, or is stacked elsewhere: all but Clean stays,
\* and that too where the objects at the pointer do.
LEMMA LookSound ==
  ASSUME NEW s, Sound(s), Waiting(s), NEW t \in CanvasType, SameButLook(s, t),
         \A o \in Objects : t.obj[o].visible => s.obj[o].visible \/ NoneDeleted(s, o),
         IsInjective(t.order), \A o \in Objects : IsAlive(s, o) => o \in Range(t.order),
         t.order = s.order \/ \A o \in Objects : Mode(s, o) = "norepeat" => s.obj[o].grabbed = 0
  PROVE  /\ Sound(t) /\ Waiting(t)
         /\ Good(s) /\ (Hits(t, t.order, t.x) = Hits(s, s.order, s.x) \/ s.frozen # 0 \/ s.grabbed # 0)
              => Good(t)
<1> DEFINE b == Button(s)
           w == Still(Blank)
<1>1. /\ s \in CanvasType /\ ~s.bad /\ Nested(s) /\ Missed(s, b)
      /\ Walk(s) = w /\ Body(s, w, b) /\ Paired(s, w, b) /\ w.at = ""
  BY WaitingFacts DEF Sound
<1>2. Good(s) => Clean(s, w, b)
  BY <1>1 DEF Good
<1>3. t.stack = s.stack /\ t.frozen = s.frozen /\ ~t.bad
  BY <1>1 DEF SameButLook
<1>4. \A o \in Objects : Mode(t, o) = Mode(s, o) /\ (IsAlive(t, o) <=> IsAlive(s, o))
  BY DEF SameButLook, Mode, IsAlive
<1>5. (Repeating(t) <=> Repeating(s)) /\ (Single(s) => Single(t))
  BY <1>4 DEF Repeating, Single
<1>6. Nested(t)
  <2> SUFFICES ASSUME NEW i \in 1 .. Len(t.stack)
               PROVE  Fits(t, i)
    BY DEF Nested
  <2>1. Fits(s, i) /\ i \in 1 .. Len(s.stack)
    BY <1>1, <1>3 DEF Nested
  <2> DEFINE f == s.stack[i]
  <2>2. FitsIn(s, f, i) /\ f \in FrameType
    BY <1>1, <2>1, StackFacts DEF Fits
  <2>3. t.stack[i] = f
    BY <1>3
  <2>4. f.at \in {"del", "deleted"} => ~t.obj[f.cur].visible
    <3> SUFFICES ASSUME f.at \in {"del", "deleted"}
                 PROVE  ~t.obj[f.cur].visible
      OBVIOUS
    <3>1. f.cur \in Objects /\ ~s.obj[f.cur].visible
      BY <2>2 DEF FitsIn
    <3>2. ~NoneDeleted(s, f.cur)
      BY <2>1 DEF NoneDeleted
    <3> QED BY <3>1, <3>2
  <2>5. \A o \in Range(f.rest) : t.obj[o].life # "freed"
    <3>1. f.rest \in Seq(Objects)
      BY <2>2, FrameFields
    <3>2. Range(f.rest) \subseteq Objects
      BY <3>1, RangeFacts
    <3> QED BY <2>2, <3>2 DEF FitsIn, SameButLook
  <2>7. f.at = "freeing" => t.obj[f.cur].life # "alive"
    BY <2>2 DEF FitsIn, SameButLook
  <2> HIDE DEF f
  <2>6. FitsIn(t, f, i)
    BY <1>3, <2>2, <2>4, <2>5, <2>7 DEF FitsIn
  <2> QED BY <1>3, <2>1, <2>3, <2>6 DEF Fits, f
<1> HIDE DEF b, w
<1>7. Lists(s, w) /\ Hover(s, w) /\ Held(s, w) /\ Outside(s, w) /\ Norepeat(s, w) /\ Even(s, w, b) /\ Single(s)
  BY <1>1 DEF Body
<1>8. s.in \in Seq(Objects) /\ Range(s.in) \subseteq Objects
  <2>1. s.in \in Seq(Objects)
    BY <1>1, CanvasFields
  <2> QED BY <2>1, RangeFacts
<1>9. Lists(t, w)
  <2>1. \A o \in Range(t.in) : IsAlive(t, o)
    BY <1>4, <1>7, <1>8 DEF Lists, SameButLook
  <2>2. t.in = s.in
    BY DEF SameButLook
  <2>3. w.at \notin {"leave", "postout"} \union Arriving
    BY <1>1 DEF Arriving
  <2> QED BY <1>1, <1>4, <1>7, <2>1, <2>2, <2>3 DEF Lists
<1>10. Hover(t, w)
  BY <1>1, <1>7 DEF Hover, HasPointer, Listed, SameButLook, Arriving
<1>11. Held(t, w)
  <2>1. Counts(t) = Counts(s)
    BY DEF Counts, SameButLook
  <2>2. t.in = s.in /\ t.grabbed = s.grabbed /\ \A o \in Objects : t.obj[o].grabbed = s.obj[o].grabbed
    BY DEF SameButLook
  <2> QED BY <1>1, <1>4, <1>7, <2>1, <2>2 DEF Held, Holding, Leaving
<1>12. Outside(t, w)
  BY <1>7 DEF Outside, SameButLook
<1>13. Norepeat(t, w)
  <2> SUFFICES ASSUME s.grabbed > 0, NEW n \in Range(s.in), Mode(t, n) = "norepeat"
               PROVE  KeptBy(t, s.in, n)
    BY <1>1 DEF Norepeat, Keeps, SameButLook
  <2>1. n \in Objects /\ Mode(s, n) = "norepeat"
    BY <1>4, <1>8
  <2>2. KeptBy(s, s.in, n)
    BY <1>1, <1>7, <2>1 DEF Norepeat, Keeps, Leaving
  <2>3. s.obj[n].grabbed > 0 /\ \A o \in Objects : t.obj[o].grabbed = s.obj[o].grabbed
    BY <2>2 DEF KeptBy, SameButLook
  <2>4. t.order = s.order
    <3>1. s.obj[n].grabbed # 0
      BY <2>3, IsZero
    <3> QED BY <2>1, <3>1
  <2> QED BY <2>1, <2>2, <2>3, <2>4 DEF KeptBy
<1>14. Even(t, w, b)
  <2>1. \A o \in Objects : Due(t, b, o) = Due(s, b, o) /\ t.obj[o].grabbed = s.obj[o].grabbed
    BY DEF Due, SameButLook
  <2>2. t.in = s.in /\ t.grabbed = s.grabbed
    BY DEF SameButLook
  <2> QED BY <1>4, <1>5, <1>7, <2>1, <2>2 DEF Even, Listed
<1>15. Paired(t, w, b)
  <2>1. \A o \in Objects : Owed(t, b, o) = Owed(s, b, o) /\ t.obj[o].grabbed = s.obj[o].grabbed
    BY <1>4 DEF Owed, SameButLook
  <2>2. t.pressed = s.pressed
    BY DEF SameButLook
  <2> QED BY <1>1, <1>4, <1>5, <2>1, <2>2 DEF Paired
<1>16. Walk(t) = w /\ Button(t) = b /\ Gone(t) = Gone(s) /\ Waiting(t)
  BY <1>1, <1>3 DEF Walk, Button, Gone, Top, Waiting, b
<1>17. Missed(t, b)
  <2>1. Gone(s) \subseteq Objects
    <3>1. s.stack # <<>> => Gone(s) = s.stack[1].gone /\ s.stack[1] \in FrameType
      BY <1>1, StackFacts DEF Gone
    <3>2. s.stack # <<>> => s.stack[1].gone \in SUBSET Objects
      BY <3>1, FrameFields
    <3> QED BY <3>1, <3>2 DEF Gone
  <2> QED BY <1>1, <1>4, <1>5, <1>16, <2>1 DEF Missed, SameButLook
<1>18. Body(t, w, b)
  BY <1>5, <1>7, <1>9, <1>10, <1>11, <1>12, <1>13, <1>14 DEF Body
<1>19. Sound(t) /\ (Clean(t, w, b) => Good(t))
  BY <1>3, <1>6, <1>15, <1>16, <1>17, <1>18, SoundParts
<1>20. ASSUME Good(s), Hits(t, t.order, t.x) = Hits(s, s.order, s.x) \/ s.frozen # 0 \/ s.grabbed # 0
       PROVE  Clean(t, w, b)
  <2>1. t.in = s.in /\ t.grabbed = s.grabbed /\ t.downs = s.downs /\ t.inside = s.inside
    BY DEF SameButLook
  <2> QED BY <1>1, <1>2, <1>3, <1>5, <1>20, <2>1 DEF Clean
<1> QED BY <1>16, <1>19, <1>20

-----------------------------------------------------------------------------
(***************************************************************************)
(* Calls that change what the pointer is over                              *)
(***************************************************************************)

CallOf(at, o) == [Blank EXCEPT !.at = at, !.cur = o]

\* An object's inform call or its deletion is to follow.
LEMMA QuietPush ==
  ASSUME NEW s, Sound(s), Waiting(s), NEW o \in Objects, NEW at \in {"inform", "del"},
         at = "del" => Open(s) /\ ~s.obj[o].visible
  PROVE  LET t == Push(s, CallOf(at, o))
         IN  Sound(t) /\ Waiting(t) /\ SameRest(s, t) /\ (Good(s) => Good(t))
<1> DEFINE g == CallOf(at, o)
           t == Push(s, g)
           b == Button(s)
           w == Still(Blank)
<1>1. /\ s \in CanvasType /\ ~s.bad /\ Nested(s) /\ Missed(s, b)
      /\ Walk(s) = w /\ Body(s, w, b) /\ Paired(s, w, b) /\ w.at = ""
  BY WaitingFacts DEF Sound
<1>2. Good(s) => Clean(s, w, b)
  BY <1>1 DEF Good
<1>3. /\ IsFrame(g) /\ g.at = at /\ g.cur = o /\ g.rest = <<>> /\ g.ins = <<>>
      /\ g.x \in Points /\ g.gone = {} /\ g.moved \in BOOLEAN /\ g.below \in BOOLEAN
  <2>1. IsFrame(Blank)
    BY FrameIsRecord
  <2> QED BY <2>1, BlankFields DEF CallOf, IsFrame
<1> HIDE DEF g, w, b
<1>4. g \in FrameType
  <2>1. g.at \in Walks \union Waits \union Bottoms \union Quiet
    BY <1>3 DEF Quiet
  <2>2. g.rest \in Seq(Objects) /\ g.ins \in Seq(Objects)
    BY <1>3, EmptySeq
  <2>3. g.cur \in Objects \union {NoObject} /\ g.gone \in SUBSET Objects
    BY <1>3
  <2> QED BY <1>3, <2>1, <2>2, <2>3, Places
<1>5. t \in CanvasType /\ SameRest(s, t) /\ t.stack = Append(s.stack, g)
  BY <1>1, <1>4, PushEffect
<1> HIDE DEF t
<1>6. Called(s, t, g)
  BY <1>1, <1>4, <1>5, StackEffect
<1>7. Milder(s, t) /\ ~t.bad /\ t.obj = s.obj
  BY <1>1, <1>5 DEF Milder, SameKind, SameRest, SameData, IsAlive
<1>8. Nested(t)
  <2>1. FitsIn(t, g, Len(t.stack))
    <3>1. IsInjective(g.rest) /\ Range(g.rest) = {}
      BY <1>3, NoneTwice
    <3>2. g.at \notin Bottoms /\ g.at \in Quiet
      BY <1>3 DEF Bottoms, Buttons, Quiet
    <3>3. /\ g.cur \in Objects /\ g.at # "freeing"
          /\ g.at \in {"del", "deleted"} => ~t.obj[g.cur].visible
      BY <1>3, <1>7
    <3> QED BY <3>1, <3>2, <3>3 DEF FitsIn
  <2>2. \A i \in 1 .. Len(s.stack) : Above(s.stack[i], g.at)
    <3>1. CASE at = "inform"
      BY <1>3, <3>1 DEF Above
    <3>2. CASE at = "del"
      <4>1. Open(s)
        BY <3>2
      <4> QED BY <1>1, <4>1, OpenFacts
    <3> QED BY <3>1, <3>2
  <2>3. s.stack = <<>> \/ Top(s).at \in Waits
    BY DEF Waiting
  <2> QED BY <1>1, <1>4, <1>5, <1>6, <1>7, <2>1, <2>2, <2>3, NestedCalled
<1>9. /\ t.stack # <<>> /\ Top(t) = g /\ Walk(t) = w
      /\ s.stack # <<>> => Button(t) = b /\ Gone(t) = Gone(s)
      /\ s.stack = <<>> => Button(t) = w /\ Gone(t) = {}
  <2>1. g.at \notin Walks \union Buttons
    BY <1>3 DEF Walks, Buttons
  <2> QED BY <1>1, <1>3, <1>5, <1>6, <2>1, CalledFacts DEF w, b
<1>10. Button(t) = b
  <2>1. s.stack = <<>> => b = w
    BY DEF b, w, Button
  <2> QED BY <1>9, <2>1
<1>11. Missed(t, b)
  <2>1. CASE s.stack = <<>>
    BY <1>9, <2>1 DEF Missed
  <2>2. CASE s.stack # <<>>
    <3>1. t.obj = s.obj /\ t.pressed = s.pressed
      BY <1>5 DEF SameRest, SameData
    <3> QED BY <1>1, <1>9, <2>2, <3>1 DEF Missed, Repeating, Mode, IsAlive
  <2> QED BY <2>1, <2>2
<1>12. Body(t, w, b) /\ Paired(t, w, b) /\ (Good(s) => Clean(t, w, b))
  BY <1>1, <1>2, <1>5, SameRestFacts
<1>13. Sound(t) /\ (Clean(t, w, b) => Good(t))
  BY <1>5, <1>7, <1>8, <1>9, <1>10, <1>11, <1>12, SoundParts
<1>14. Waiting(t)
  <2>1. Top(t).at \in Waits
    BY <1>3, <1>9 DEF Waits
  <2> QED BY <2>1 DEF Waiting
<1> QED BY <1>5, <1>12, <1>13, <1>14 DEF t, g

\* The move that is fed for an object at the pointer makes up for its change.
LEMMA RefeedGood ==
  ASSUME NEW s, Sound(s), Waiting(s), NEW o \in Objects, Covers(s, o, s.x) \/ Good(s)
  PROVE  Good(Refeed(s, o)) /\ Refeed(s, o).obj = s.obj
<1>1. s.x \in Points
  BY CanvasFields DEF Sound
<1>2. Good(FeedMove(s, s.x)) /\ FeedMove(s, s.x).obj = s.obj
  BY <1>1, FeedMoveGood
<1> QED BY <1>2 DEF Refeed

\* An object's inform call is to follow, and a move may be fed first.
LEMMA InformRefeedGood ==
  ASSUME NEW s, Sound(s), Waiting(s), NEW o \in Objects, NEW fed \in BOOLEAN,
         (fed /\ Covers(s, o, s.x)) \/ Good(s),
         NEW t, t = ThenInform(s, o)
  PROVE  LET u == IF fed THEN Refeed(t, o) ELSE t
         IN  Good(u) /\ u.obj = s.obj
<1>1. t = Push(s, CallOf("inform", o))
  BY DEF ThenInform, CallOf
<1>2. Sound(t) /\ Waiting(t) /\ SameRest(s, t) /\ (Good(s) => Good(t))
  <2>1. "inform" \in {"inform", "del"} /\ "inform" # "del"
    OBVIOUS
  <2> QED BY <1>1, <2>1, QuietPush
<1>3. t.obj = s.obj /\ t.x = s.x
  BY <1>2 DEF SameRest, SameData
<1>4. CASE fed
  <2>1. Covers(t, o, t.x) \/ Good(t)
    BY <1>2, <1>3 DEF Covers
  <2>2. Good(Refeed(t, o)) /\ Refeed(t, o).obj = t.obj
    BY <1>2, <2>1, RefeedGood
  <2> QED BY <1>3, <1>4, <2>2
<1>5. CASE ~fed
  BY <1>2, <1>3, <1>5
<1> QED BY <1>4, <1>5

PutLook(s, o, v, p) == [s EXCEPT !.obj[o].visible = v, !.obj[o].pass = p]

\* An object is shown, hidden or made to pass events.
LEMMA LookEffect ==
  ASSUME NEW s \in CanvasType, NEW o \in Objects, NEW v \in BOOLEAN, NEW p \in BOOLEAN
  PROVE  LET t == PutLook(s, o, v, p)
         IN  /\ t \in CanvasType /\ SameButLook(s, t) /\ t.order = s.order
             /\ t.obj[o].visible = v /\ t.obj[o].pass = p
             /\ \A q \in Objects : q # o => t.obj[q] = s.obj[q]
<1> DEFINE q == [s.obj[o] EXCEPT !.visible = v, !.pass = p]
           t == PutLook(s, o, v, p)
<1>1. IsRecord(s) /\ s.obj \in [Objects -> ObjectType] /\ s.obj[o] \in ObjectType
  BY CanvasIsRecord, CanvasFields, ObjectFields
<1>2. /\ q \in ObjectType /\ q.in = s.obj[o].in
      /\ q.visible = v /\ q.pass = p /\ q.grabbed = s.obj[o].grabbed
      /\ q.life = s.obj[o].life /\ q.covers = s.obj[o].covers /\ q.repeat = s.obj[o].repeat
      /\ q.mode = s.obj[o].mode
  BY <1>1 DEF ObjectType
<1>3. /\ IsRecord(t) /\ t.obj = [s.obj EXCEPT ![o] = q]
      /\ t.order = s.order /\ t.x = s.x /\ t.inside = s.inside /\ t.in = s.in /\ t.nogrep = s.nogrep
      /\ t.downs = s.downs /\ t.frozen = s.frozen /\ t.bad = s.bad /\ t.pressed = s.pressed
      /\ t.stack = s.stack /\ t.grabbed = s.grabbed
  BY <1>1 DEF IsRecord, PutLook
<1> HIDE DEF q, t
<1>4. t.obj \in [Objects -> ObjectType] /\ t.obj[o] = q /\ \A r \in Objects : r # o => t.obj[r] = s.obj[r]
  BY <1>1, <1>2, <1>3
<1>5. t \in CanvasType
  BY <1>3, <1>4, CanvasFields, CanvasRecord
<1>6. SameButLook(s, t)
  <2> SUFFICES ASSUME NEW r \in Objects
               PROVE  /\ t.obj[r].in = s.obj[r].in /\ t.obj[r].grabbed = s.obj[r].grabbed
                      /\ t.obj[r].life = s.obj[r].life /\ t.obj[r].covers = s.obj[r].covers
                      /\ t.obj[r].repeat = s.obj[r].repeat /\ t.obj[r].mode = s.obj[r].mode
    BY <1>3 DEF SameButLook
  <2>1. CASE r = o
    BY <1>2, <1>4, <2>1
  <2>2. CASE r # o
    BY <1>4, <2>2
  <2> QED BY <2>1, <2>2
<1> QED BY <1>2, <1>3, <1>4, <1>5, <1>6 DEF t

\* Nothing but the objects is different.
LookElse(s, t) ==
  /\ t.order = s.order /\ t.x = s.x /\ t.inside = s.inside /\ t.in = s.in
  /\ t.grabbed = s.grabbed /\ t.nogrep = s.nogrep /\ t.downs = s.downs
  /\ t.frozen = s.frozen /\ t.bad = s.bad /\ t.pressed = s.pressed /\ t.stack = s.stack

\* Showing, hiding and passing events change how one object looks.
LEMMA LookAlone ==
  ASSUME NEW s \in CanvasType, NEW o \in Objects, NEW v \in BOOLEAN
  PROVE  /\ [s EXCEPT !.obj[o].visible = v] = PutLook(s, o, v, s.obj[o].pass)
         /\ [s EXCEPT !.obj[o].pass = ~@] = PutLook(s, o, s.obj[o].visible, ~s.obj[o].pass)
<1> DEFINE r == s.obj[o]
<1>1. r \in ObjectType
  BY ObjectFields
<1>2. [r EXCEPT !.visible = v] = [r EXCEPT !.visible = v, !.pass = r.pass]
  BY <1>1 DEF ObjectType
<1>3. [r EXCEPT !.pass = ~@] = [r EXCEPT !.visible = r.visible, !.pass = ~r.pass]
  BY <1>1 DEF ObjectType
<1>4. IsRecord(s) /\ s.obj \in [Objects -> ObjectType]
  BY CanvasIsRecord, CanvasFields
<1>5. [s EXCEPT !.obj[o].visible = v] = PutLook(s, o, v, r.pass)
  <2> DEFINE q == [r EXCEPT !.visible = v, !.pass = r.pass]
             a == [s EXCEPT !.obj[o].visible = v]
             b == PutLook(s, o, v, r.pass)
  <2>1. IsRecord(a) /\ a.obj = [s.obj EXCEPT ![o] = q] /\ LookElse(s, a)
    BY <1>2, <1>4 DEF IsRecord, LookElse
  <2>2. IsRecord(b) /\ b.obj = [s.obj EXCEPT ![o] = q] /\ LookElse(s, b)
    BY <1>4 DEF IsRecord, LookElse, PutLook
  <2> HIDE DEF q, a, b
  <2>3. a = b
    BY <2>1, <2>2 DEF IsRecord, LookElse
  <2> QED BY <2>3 DEF a, b
<1>6. [s EXCEPT !.obj[o].pass = ~@] = PutLook(s, o, r.visible, ~r.pass)
  <2> DEFINE q == [r EXCEPT !.visible = r.visible, !.pass = ~r.pass]
             a == [s EXCEPT !.obj[o].pass = ~@]
             b == PutLook(s, o, r.visible, ~r.pass)
  <2>1. IsRecord(a) /\ a.obj = [s.obj EXCEPT ![o] = q] /\ LookElse(s, a)
    BY <1>3, <1>4 DEF IsRecord, LookElse
  <2>2. IsRecord(b) /\ b.obj = [s.obj EXCEPT ![o] = q] /\ LookElse(s, b)
    BY <1>4 DEF IsRecord, LookElse, PutLook
  <2> HIDE DEF q, a, b
  <2>3. a = b
    BY <2>1, <2>2 DEF IsRecord, LookElse
  <2> QED BY <2>3 DEF a, b
<1> QED BY <1>5, <1>6

\* The canvas is as it should be, unless the object is at the pointer.
LEMMA LookGood ==
  ASSUME NEW s, Good(s), Waiting(s), NEW o \in Objects, NEW v \in BOOLEAN, NEW p \in BOOLEAN,
         v => s.obj[o].visible \/ NoneDeleted(s, o),
         NEW t, t = PutLook(s, o, v, p)
  PROVE  /\ Sound(t) /\ Waiting(t) /\ SameButLook(s, t)
         /\ t.obj[o].visible = v /\ t.obj[o].pass = p
         /\ Covers(t, o, t.x) \/ Good(t)
         /\ s.frozen # 0 \/ s.grabbed # 0 \/ (p /\ s.obj[o].pass) => Good(t)
<1>1. s \in CanvasType /\ Sound(s) /\ IsInjective(s.order) /\ \A q \in Objects : IsAlive(s, q) => q \in Range(s.order)
  BY DEF Good, Sound, Body, Lists
<1>2. /\ t \in CanvasType /\ SameButLook(s, t) /\ t.order = s.order
      /\ t.obj[o].visible = v /\ t.obj[o].pass = p
      /\ \A q \in Objects : q # o => t.obj[q] = s.obj[q]
  BY <1>1, LookEffect
<1>3. \A q \in Objects : t.obj[q].visible => s.obj[q].visible \/ NoneDeleted(s, q)
  BY <1>2
<1>4. /\ Sound(t) /\ Waiting(t)
      /\ Hits(t, t.order, t.x) = Hits(s, s.order, s.x) \/ s.frozen # 0 \/ s.grabbed # 0 => Good(t)
  <2>1. IsInjective(t.order) /\ (\A q \in Objects : IsAlive(s, q) => q \in Range(t.order))
    BY <1>1, <1>2
  <2> QED BY <1>1, <1>2, <1>3, <2>1, LookSound
<1>5. ASSUME ~Covers(t, o, t.x) \/ (p /\ s.obj[o].pass)
      PROVE  Hits(t, t.order, t.x) = Hits(s, s.order, s.x)
  <2>1. t.x = s.x /\ \A q \in Objects : t.obj[q].repeat = s.obj[q].repeat
    BY <1>2 DEF SameButLook
  <2>2. o \notin Hit(t, s.x) /\ o \notin Hit(s, s.x)
    BY <1>2, <1>5, <2>1 DEF Hit, Covers, SameButLook
  <2>3. \A q \in Objects : q # o => (q \in Hit(t, s.x) <=> q \in Hit(s, s.x))
    BY <1>2 DEF Hit, Covers
  <2>4. Hit(t, s.x) \subseteq Objects /\ Hit(s, s.x) \subseteq Objects
    BY DEF Hit
  <2>5. Hit(t, s.x) = Hit(s, s.x)
    BY <2>2, <2>3, <2>4
  <2>6. \A l : Hits(t, l, s.x) = Hits(s, l, s.x)
    BY <2>1, <2>5, HitsLook
  <2> QED BY <1>2, <2>1, <2>6
<1> QED BY <1>2, <1>4, <1>5

\* An object is shown.
LEMMA ShowGood ==
  ASSUME Assumed, Good(c), NEW o \in Objects, Show(o)
  PROVE  Good(c') /\ HolderKeeps(c, c')
<1> DEFINE r == Caller
           s == [r EXCEPT !.obj[o].visible = TRUE]
           t == ThenInform(s, o)
           fed == t.frozen = 0 /\ ~t.obj[o].pass
           u == IF fed THEN Refeed(t, o) ELSE t
<1>1. MayCall /\ Kept(o) /\ c' = u
  BY DEF Show
<1>2. /\ Good(r) /\ SameRest(c, r) /\ Waiting(r) /\ NoneDeleted(r, o)
  BY <1>1, CallerFacts DEF NoneDeleted, Open
<1>3. r \in CanvasType /\ r.obj[o].pass \in BOOLEAN
  BY <1>2, ObjectFields DEF Good, Sound
<1> HIDE DEF r
<1>4. s = PutLook(r, o, TRUE, r.obj[o].pass)
  BY <1>3, LookAlone
<1> HIDE DEF s
<1>5. /\ Sound(s) /\ Waiting(s) /\ SameButLook(r, s) /\ s.obj[o].pass = r.obj[o].pass
      /\ Covers(s, o, s.x) \/ Good(s)
      /\ r.frozen # 0 \/ r.obj[o].pass => Good(s)
  <2> DEFINE v == TRUE
             p == r.obj[o].pass
  <2>1. v \in BOOLEAN /\ p \in BOOLEAN /\ NoneDeleted(r, o) /\ s = PutLook(r, o, v, p)
    BY <1>2, <1>3, <1>4
  <2> HIDE DEF v, p
  <2>2. /\ Sound(s) /\ Waiting(s) /\ SameButLook(r, s) /\ s.obj[o].pass = p
        /\ Covers(s, o, s.x) \/ Good(s)
        /\ r.frozen # 0 \/ r.grabbed # 0 \/ (p /\ r.obj[o].pass) => Good(s)
    BY <1>2, <2>1, LookGood
  <2> QED BY <2>2 DEF p
<1>6. t.obj = s.obj /\ t.frozen = s.frozen
  <2>1. s \in CanvasType
    BY <1>5 DEF Sound
  <2>2. IsRecord(s)
    BY <2>1, CanvasIsRecord
  <2> QED BY <2>2 DEF ThenInform, Push, IsRecord
<1> HIDE DEF t
<1>7. (fed /\ Covers(s, o, s.x)) \/ Good(s)
  BY <1>5, <1>6 DEF SameButLook
<1>8. Good(u) /\ u.obj = s.obj
  <2>1. fed \in BOOLEAN
    OBVIOUS
  <2> HIDE DEF fed
  <2> QED BY <1>5, <1>7, <2>1, InformRefeedGood DEF t
<1>9. HolderKeeps(c, c')
  <2>1. \A p \in Objects : c'.obj[p].in = c.obj[p].in
    BY <1>1, <1>2, <1>5, <1>8 DEF SameButLook, SameRest, SameData
  <2> QED BY <2>1, SameHolders
<1> QED BY <1>1, <1>8, <1>9

Conceal(s, o) == [s EXCEPT !.obj[o].visible = FALSE]

\* An object is no longer shown.
LEMMA HideLook ==
  ASSUME NEW s, Good(s), Waiting(s), NEW o \in Objects, NEW t, t = Conceal(s, o)
  PROVE  /\ Sound(t) /\ Waiting(t) /\ SameButLook(s, t) /\ ~t.obj[o].visible
         /\ Covers(t, o, t.x) \/ Good(t)
         /\ t.frozen # 0 \/ t.obj[o].pass \/ t.obj[o].grabbed # 0 => Good(t)
<1> DEFINE v == FALSE
           p == s.obj[o].pass
<1>1. s \in CanvasType
  BY DEF Good, Sound
<1>2. v \in BOOLEAN /\ p \in BOOLEAN /\ t = PutLook(s, o, v, p) /\ ~v
  BY <1>1, LookAlone, ObjectFields DEF Conceal
<1> HIDE DEF v, p
<1>3. /\ Sound(t) /\ Waiting(t) /\ SameButLook(s, t) /\ t.obj[o].visible = v /\ t.obj[o].pass = p
      /\ Covers(t, o, t.x) \/ Good(t)
      /\ s.frozen # 0 \/ s.grabbed # 0 \/ (p /\ s.obj[o].pass) => Good(t)
  <2>1. v => s.obj[o].visible \/ NoneDeleted(s, o)
    BY <1>2
  <2>2. v \in BOOLEAN /\ p \in BOOLEAN /\ t = PutLook(s, o, v, p)
    BY <1>2
  <2> QED BY <2>1, <2>2, LookGood
<1>4. t.frozen = s.frozen /\ t.obj[o].grabbed = s.obj[o].grabbed
  BY <1>3 DEF SameButLook
<1>5. s.grabbed = 0 => s.obj[o].grabbed = 0
  <2> DEFINE w == Walk(s)
  <2>1. Body(s, w, Button(s)) /\ w.at = ""
    BY <1>1, WaitingFacts DEF Good, Sound
  <2>2. Held(s, w) /\ ~Leaving(w)
    BY <2>1 DEF Body, Leaving
  <2> HIDE DEF w
  <2> QED BY <1>1, <2>2, NoneGrabbed
<1> QED BY <1>2, <1>3, <1>4, <1>5 DEF p

\* It is told that it is hidden, and a move is fed unless the object holds the
\* pointer.
LEMMA HiddenGood ==
  ASSUME NEW s, NEW o \in Objects, s.obj[o].visible, NEW t, t = Conceal(s, o),
         Sound(t), Waiting(t), Covers(t, o, t.x) \/ Good(t),
         t.frozen # 0 \/ t.obj[o].pass \/ t.obj[o].grabbed # 0 => Good(t)
  PROVE  Good(Hidden(s, o)) /\ Hidden(s, o).obj = t.obj
<1> DEFINE a == ThenInform(t, o)
           fed == a.frozen = 0 /\ ~a.obj[o].pass /\ a.obj[o].grabbed = 0
           u == IF fed THEN Refeed(a, o) ELSE a
<1>1. Hidden(s, o) = u
  BY DEF Hidden, Conceal
<1>2. a.obj = t.obj /\ a.frozen = t.frozen
  <2>1. IsRecord(t)
    BY CanvasIsRecord DEF Sound
  <2> QED BY <2>1 DEF ThenInform, Push, IsRecord
<1> HIDE DEF a
<1>3. (fed /\ Covers(t, o, t.x)) \/ Good(t)
  BY <1>2
<1>4. Good(u) /\ u.obj = t.obj
  <2>1. fed \in BOOLEAN /\ a = ThenInform(t, o) /\ Sound(t) /\ Waiting(t)
    BY DEF a
  <2> HIDE DEF fed
  <2>2. (fed /\ Covers(t, o, t.x)) \/ Good(t)
    BY <1>3
  <2> QED BY <2>1, <2>2, InformRefeedGood
<1> QED BY <1>1, <1>4

\* An object is hidden.
LEMMA HideGood ==
  ASSUME Assumed, Good(c), NEW o \in Objects, Hide(o)
  PROVE  Good(c') /\ HolderKeeps(c, c')
<1> DEFINE r == Caller
           t == Conceal(r, o)
<1>1. MayCall /\ c' = Hidden(r, o) /\ c.obj[o].visible
  BY DEF Hide
<1>2. /\ Good(r) /\ SameRest(c, r) /\ Waiting(r)
  BY <1>1, CallerFacts
<1>3. r.obj[o].visible
  BY <1>1, <1>2 DEF SameRest, SameData
<1> HIDE DEF r
<1>4. /\ Sound(t) /\ Waiting(t) /\ SameButLook(r, t)
      /\ Covers(t, o, t.x) \/ Good(t)
      /\ t.frozen # 0 \/ t.obj[o].pass \/ t.obj[o].grabbed # 0 => Good(t)
  BY <1>2, HideLook
<1>5. Good(c') /\ c'.obj = t.obj
  <2>1. t = Conceal(r, o)
    OBVIOUS
  <2> HIDE DEF t
  <2> QED BY <1>1, <1>3, <1>4, <2>1, HiddenGood
<1>6. HolderKeeps(c, c')
  <2>1. \A p \in Objects : c'.obj[p].in = c.obj[p].in
    BY <1>2, <1>4, <1>5 DEF SameButLook, SameRest, SameData
  <2> QED BY <2>1, SameHolders
<1> QED BY <1>5, <1>6

\* The deletion of an object begins.
LEMMA DelGood ==
  ASSUME Assumed, Good(c), NEW o \in Objects, Del(o)
  PROVE  Good(c') /\ HolderKeeps(c, c')
<1> DEFINE r == Caller
           g == CallOf("del", o)
           s == Push(r, g)
<1>1. MayCall /\ c' = Hidden(s, o)
  BY DEF Del, CallOf
<1>2. /\ Good(r) /\ SameRest(c, r) /\ Waiting(r) /\ Open(r)
  BY <1>1, CallerFacts
<1>3. r \in CanvasType /\ IsRecord(r)
  BY <1>2, CanvasIsRecord DEF Good, Sound
<1> HIDE DEF r
<1>4. s.obj = r.obj
  BY <1>3 DEF Push, IsRecord
<1>5. CASE ~r.obj[o].visible
  <2>1. c' = s
    BY <1>1, <1>4, <1>5 DEF Hidden
  <2>2. Sound(s) /\ SameRest(r, s) /\ (Good(r) => Good(s))
    <3>1. "del" \in {"inform", "del"} /\ Sound(r)
      BY <1>2 DEF Good
    <3> QED BY <1>2, <1>5, <3>1, QuietPush
  <2>3. \A p \in Objects : c'.obj[p].in = c.obj[p].in
    BY <1>2, <2>1, <2>2 DEF SameRest, SameData
  <2> QED BY <1>2, <2>1, <2>2, <2>3, SameHolders
<1>6. CASE r.obj[o].visible
  <2> DEFINE a == Conceal(r, o)
             t == Conceal(s, o)
  <2>1. /\ Sound(a) /\ Waiting(a) /\ SameButLook(r, a) /\ ~a.obj[o].visible
        /\ Covers(a, o, a.x) \/ Good(a)
        /\ a.frozen # 0 \/ a.obj[o].pass \/ a.obj[o].grabbed # 0 => Good(a)
    BY <1>2, HideLook
  <2>2. t = Push(a, g)
    BY <1>3 DEF Push, IsRecord, Conceal
  <2> HIDE DEF a
  <2>3. Sound(t) /\ Waiting(t) /\ SameRest(a, t) /\ (Good(a) => Good(t))
    <3>1. "del" \in {"inform", "del"}
      OBVIOUS
    <3>2. Open(a)
      BY <1>2, <2>1 DEF Open, SameButLook
    <3>3. /\ Sound(Push(a, g)) /\ Waiting(Push(a, g)) /\ SameRest(a, Push(a, g))
          /\ (Good(a) => Good(Push(a, g)))
      BY <2>1, <3>1, <3>2, QuietPush
    <3> QED BY <2>2, <3>3
  <2>4. t = Conceal(s, o) /\ s.obj[o].visible
    BY <1>4, <1>6
  <2> HIDE DEF s, t
  <2>5. t.obj = a.obj /\ t.x = a.x /\ t.frozen = a.frozen
    BY <2>3 DEF SameRest, SameData
  <2>6. /\ Covers(t, o, t.x) \/ Good(t)
        /\ t.frozen # 0 \/ t.obj[o].pass \/ t.obj[o].grabbed # 0 => Good(t)
    BY <2>1, <2>3, <2>5 DEF Covers
  <2>7. Good(c') /\ c'.obj = t.obj
    BY <1>1, <2>3, <2>4, <2>6, HiddenGood
  <2>8. \A p \in Objects : c'.obj[p].in = c.obj[p].in
    BY <1>2, <2>1, <2>5, <2>7 DEF SameButLook, SameRest, SameData
  <2> QED BY <2>7, <2>8, SameHolders
<1> QED BY <1>5, <1>6

\* An object passes events, or does not any more.
LEMMA PassEventsGood ==
  ASSUME Assumed, Good(c), NEW o \in Objects, PassEvents(o)
  PROVE  Good(c') /\ HolderKeeps(c, c')
<1> DEFINE r == Caller
           v == r.obj[o].visible
           p == ~r.obj[o].pass
           t == [r EXCEPT !.obj[o].pass = ~@]
<1>1. MayCall /\ c' = Refeed(t, o)
  BY DEF PassEvents
<1>2. /\ Good(r) /\ SameRest(c, r) /\ Waiting(r)
  BY <1>1, CallerFacts
<1>3. r \in CanvasType
  BY <1>2 DEF Good, Sound
<1> HIDE DEF r
<1>4. v \in BOOLEAN /\ p \in BOOLEAN /\ t = PutLook(r, o, v, p) /\ (v => r.obj[o].visible)
  <2>1. v \in BOOLEAN /\ r.obj[o].pass \in BOOLEAN
    BY <1>3, ObjectFields
  <2>2. [r EXCEPT !.obj[o].pass = ~@] = PutLook(r, o, r.obj[o].visible, ~r.obj[o].pass)
    <3>1. TRUE \in BOOLEAN
      OBVIOUS
    <3> QED BY <1>3, <3>1, LookAlone
  <2> QED BY <2>1, <2>2
<1> HIDE DEF v, p, t
<1>5. /\ Sound(t) /\ Waiting(t) /\ SameButLook(r, t)
      /\ Covers(t, o, t.x) \/ Good(t)
  BY <1>2, <1>4, LookGood
<1>6. Good(c') /\ c'.obj = t.obj
  BY <1>1, <1>5, RefeedGood
<1>7. HolderKeeps(c, c')
  <2>1. \A q \in Objects : c'.obj[q].in = c.obj[q].in
    BY <1>2, <1>5, <1>6 DEF SameButLook, SameRest, SameData
  <2> QED BY <2>1, SameHolders
<1> QED BY <1>6, <1>7

Restack(s, l) == [s EXCEPT !.order = l]

\* Objects are restacked: nothing else changes.
LEMMA OrderEffect ==
  ASSUME NEW s \in CanvasType, NEW l \in Seq(Objects), NEW t, t = Restack(s, l)
  PROVE  t \in CanvasType /\ SameButLook(s, t) /\ t.order = l /\ t.obj = s.obj
<1>1. IsRecord(s)
  BY CanvasIsRecord
<1>2. /\ IsRecord(t) /\ t.obj = s.obj /\ t.nogrep = s.nogrep
      /\ t.order = l /\ t.x = s.x /\ t.inside = s.inside /\ t.in = s.in
      /\ t.downs = s.downs /\ t.frozen = s.frozen /\ t.bad = s.bad /\ t.pressed = s.pressed
      /\ t.stack = s.stack /\ t.grabbed = s.grabbed
  BY <1>1 DEF IsRecord, Restack
<1>3. t \in CanvasType
  BY <1>2, CanvasFields, CanvasRecord
<1> QED BY <1>2, <1>3 DEF SameButLook

Raised(l, o) == <<o>> \o RemoveFirst(l, o)

\* An object is put above all others.
LEMMA RaisedOrder ==
  ASSUME NEW l \in Seq(Objects), IsInjective(l), NEW o \in Objects,
         NEW m, m = Raised(l, o)
  PROVE  /\ m \in Seq(Objects) /\ IsInjective(m) /\ Range(m) = Range(l) \union {o}
         /\ \A s, x : o \notin Hit(s, x) => Hits(s, m, x) = Hits(s, l, x)
<1> DEFINE r == RemoveFirst(l, o)
           h == <<o>>
<1>1. r \in Seq(Objects) /\ IsInjective(r) /\ Range(r) = Range(l) \ {o}
  BY RemovedOrder
<1>2. h \in Seq(Objects) /\ IsInjective(h) /\ Range(h) = {o}
  BY DEF IsInjective, Range
<1>3. m = h \o r
  BY DEF Raised
<1>4. ASSUME NEW s, NEW x, o \notin Hit(s, x)
      PROVE  Hits(s, m, x) = Hits(s, l, x)
  <2>1. Hits(s, r, x) = Hits(s, l, x)
    BY <1>4, HitsRemoved
  <2>2. Hits(s, <<o>> \o r, x) = Hits(s, r, x)
    <3> HIDE DEF r
    <3> QED BY <1>1, <1>4, HitsInFront
  <2> QED BY <1>3, <2>1, <2>2
<1> HIDE DEF h, r
<1>5. m \in Seq(Objects) /\ IsInjective(m) /\ Range(m) = Range(h) \union Range(r)
  <2>1. Range(h) \intersect Range(r) = {}
    BY <1>1, <1>2
  <2>2. /\ h \o r \in Seq(Objects) /\ IsInjective(h \o r)
        /\ Range(h \o r) = Range(h) \union Range(r)
    BY <1>1, <1>2, <2>1, JoinOrder
  <2> QED BY <1>3, <2>2
<1> QED BY <1>1, <1>2, <1>4, <1>5

\* The inform calls of an object change nothing but what is noted as gone.
LEMMA InformGood ==
  ASSUME NEW s, Sound(s), Waiting(s), NEW o \in Objects, NEW t, t = Inform(s, o)
  PROVE  Sound(t) /\ Waiting(t) /\ SameRest(s, t) /\ (Good(s) => Good(t))
<1>1. s \in CanvasType
  BY DEF Sound
<1>2. t \in CanvasType /\ SameRest(s, t) /\ Alike(s, t) /\ Gone(t) \subseteq Gone(s)
  BY <1>1, InformEffect
<1>3. Quieter(s, t)
  <2>1. \A p \in Objects : s.pressed[p] \in Nat
    BY <1>1, CanvasFields
  <2>2. \A p \in Objects : t.pressed[p] <= s.pressed[p]
    BY <1>2, <2>1 DEF SameRest
  <2> QED BY <1>2, <2>2 DEF Quieter, SameRest
<1>4. Sound(t) /\ (Good(s) => Good(t))
  BY <1>3, QuieterSound
<1>5. Waiting(t)
  <2>1. (s.stack # <<>> <=> t.stack # <<>>) /\ (s.stack # <<>> => Top(t).at = Top(s).at)
    BY <1>1, <1>2, AlikeFacts
  <2> QED BY <2>1 DEF Waiting
<1> QED BY <1>2, <1>4, <1>5

\* An object is raised.
LEMMA RaiseGood ==
  ASSUME Assumed, Good(c), NEW o \in Objects, Raise(o)
  PROVE  Good(c') /\ HolderKeeps(c, c')
<1> DEFINE r == Caller
           m == Raised(r.order, o)
           t == Restack(r, m)
           s == Inform(t, o)
           fed == s.order # c.order /\ s.frozen = 0 /\ ~s.obj[o].pass /\ s.obj[o].visible
<1>1. /\ Good(r) /\ SameRest(c, r) /\ Waiting(r)
  BY CallerFacts DEF Raise
<1>2. r \in CanvasType /\ IsRecord(r) /\ Sound(r)
  BY <1>1, CanvasIsRecord DEF Good, Sound
<1>3. c' = IF fed THEN Refeed(s, o) ELSE s
  <2>1. [r EXCEPT !.order = <<o>> \o RemoveFirst(@, o)] = t
    BY <1>2 DEF IsRecord, Restack, Raised
  <2>2. [Caller EXCEPT !.order = <<o>> \o RemoveFirst(@, o)] = t
    BY <2>1
  <2> HIDE DEF t
  <2> QED BY <2>2 DEF Raise
<1>4. \A p \in Objects : Mode(r, p) = "norepeat" => r.obj[p].grabbed = 0
  <2>1. KeptOrder /\ r.obj = c.obj
    BY <1>1 DEF Raise, SameRest, SameData
  <2> HIDE DEF r
  <2> QED BY <2>1 DEF KeptOrder, Mode
<1>5. r.order = c.order
  BY <1>1 DEF SameRest, SameData
<1> HIDE DEF r
<1>6. /\ IsInjective(r.order) /\ r.order \in Seq(Objects)
      /\ \A p \in Objects : IsAlive(r, p) => p \in Range(r.order)
  BY <1>2, CanvasFields DEF Sound, Body, Lists
<1>7. /\ m \in Seq(Objects) /\ IsInjective(m) /\ Range(m) = Range(r.order) \union {o}
      /\ \A u, x : o \notin Hit(u, x) => Hits(u, m, x) = Hits(u, r.order, x)
  <2> DEFINE l == r.order
  <2>1. l \in Seq(Objects) /\ IsInjective(l) /\ m = Raised(l, o)
    BY <1>6
  <2> HIDE DEF l, m
  <2>2. /\ m \in Seq(Objects) /\ IsInjective(m) /\ Range(m) = Range(l) \union {o}
        /\ \A u, x : o \notin Hit(u, x) => Hits(u, m, x) = Hits(u, l, x)
    BY <2>1, RaisedOrder
  <2> QED BY <2>2 DEF l
<1> HIDE DEF m
<1>8. t \in CanvasType /\ SameButLook(r, t) /\ t.order = m /\ t.obj = r.obj
  BY <1>2, <1>7, OrderEffect
<1> HIDE DEF t
<1>9. /\ Sound(t) /\ Waiting(t)
      /\ Hits(t, t.order, t.x) = Hits(r, r.order, r.x) \/ r.frozen # 0 => Good(t)
  <2>1. \A p \in Objects : t.obj[p].visible => r.obj[p].visible \/ NoneDeleted(r, p)
    BY <1>8
  <2>2. IsInjective(t.order) /\ \A p \in Objects : IsAlive(r, p) => p \in Range(t.order)
    BY <1>6, <1>7, <1>8
  <2> QED BY <1>1, <1>2, <1>4, <1>8, <2>1, <2>2, LookSound
<1>10. ASSUME m = r.order \/ o \notin Hit(t, t.x)
       PROVE  Good(t)
  <2>1. Hits(t, m, t.x) = Hits(t, r.order, t.x)
    BY <1>7, <1>10
  <2>2. Hits(t, r.order, t.x) = Hits(r, r.order, t.x)
    BY <1>8, HitsSame
  <2>3. t.x = r.x
    BY <1>8 DEF SameButLook
  <2> QED BY <1>8, <1>9, <2>1, <2>2, <2>3
<1>11. Sound(s) /\ Waiting(s) /\ SameRest(t, s) /\ (Good(t) => Good(s))
  BY <1>9, InformGood
<1> HIDE DEF s
<1>12. /\ s.obj = t.obj /\ s.order = m /\ s.frozen = r.frozen /\ s.x = t.x
  BY <1>8, <1>11 DEF SameRest, SameData, SameButLook
<1>13. (fed /\ Covers(s, o, s.x)) \/ Good(s)
  <2>1. CASE fed
    <3>1. ~Covers(s, o, s.x) => o \notin Hit(t, t.x)
      BY <1>12 DEF Covers, Hit
    <3> QED BY <1>10, <1>11, <2>1, <3>1
  <2>2. CASE ~fed
    <3>1. m = r.order \/ r.frozen # 0 \/ o \notin Hit(t, t.x)
      BY <1>5, <1>12, <2>2 DEF Hit
    <3> QED BY <1>9, <1>10, <1>11, <3>1
  <2> QED BY <2>1, <2>2
<1>14. Good(c') /\ c'.obj = s.obj
  <2>1. CASE fed
    <3>1. Good(Refeed(s, o)) /\ Refeed(s, o).obj = s.obj
      BY <1>11, <1>13, RefeedGood
    <3> QED BY <1>3, <2>1, <3>1
  <2>2. CASE ~fed
    BY <1>3, <1>13, <2>2
  <2> QED BY <2>1, <2>2
<1>15. HolderKeeps(c, c')
  <2>1. \A p \in Objects : c'.obj[p].in = c.obj[p].in
    BY <1>1, <1>8, <1>12, <1>14 DEF SameRest, SameData
  <2> QED BY <2>1, SameHolders
<1> QED BY <1>14, <1>15

-----------------------------------------------------------------------------
(***************************************************************************)
(* Objects that are freed, and events that are frozen                      *)
(***************************************************************************)

Frees(s, o, l) == [s EXCEPT !.obj[o].life = "freed", !.order = l]

\* An object is freed and off the list of objects.
Freed(s, t, o) ==
  /\ t.x = s.x /\ t.inside = s.inside /\ t.in = s.in /\ t.grabbed = s.grabbed
  /\ t.downs = s.downs /\ t.frozen = s.frozen /\ t.bad = s.bad /\ t.pressed = s.pressed
  /\ t.stack = s.stack /\ t.order = RemoveFirst(s.order, o)
  /\ t.obj[o].life = "freed" /\ t.obj[o].in = s.obj[o].in /\ t.obj[o].grabbed = s.obj[o].grabbed
  /\ t.obj[o].repeat = s.obj[o].repeat /\ t.obj[o].mode = s.obj[o].mode
  /\ \A p \in Objects : p # o => t.obj[p] = s.obj[p]

\* What Free writes frees one object.
LEMMA FreesEffect ==
  ASSUME NEW s \in CanvasType, NEW o \in Objects,
         NEW l \in Seq(Objects), l = RemoveFirst(s.order, o), NEW t, t = Frees(s, o, l)
  PROVE  t \in CanvasType /\ Freed(s, t, o)
<1> DEFINE q == [s.obj[o] EXCEPT !.life = "freed"]
<1>1. IsRecord(s) /\ s.obj \in [Objects -> ObjectType] /\ s.obj[o] \in ObjectType
  BY CanvasIsRecord, CanvasFields, ObjectFields
<1>2. /\ q \in ObjectType /\ q.life = "freed" /\ q.in = s.obj[o].in
      /\ q.grabbed = s.obj[o].grabbed /\ q.repeat = s.obj[o].repeat /\ q.mode = s.obj[o].mode
  BY <1>1 DEF ObjectType
<1>3. /\ IsRecord(t) /\ t.obj = [s.obj EXCEPT ![o] = q]
      /\ t.order = l /\ t.x = s.x /\ t.inside = s.inside /\ t.in = s.in /\ t.nogrep = s.nogrep
      /\ t.downs = s.downs /\ t.frozen = s.frozen /\ t.bad = s.bad /\ t.pressed = s.pressed
      /\ t.stack = s.stack /\ t.grabbed = s.grabbed
  BY <1>1 DEF IsRecord, Frees
<1> HIDE DEF q
<1>4. t.obj \in [Objects -> ObjectType] /\ t.obj[o] = q /\ \A p \in Objects : p # o => t.obj[p] = s.obj[p]
  BY <1>1, <1>2, <1>3
<1>5. t \in CanvasType
  BY <1>3, <1>4, CanvasFields, CanvasRecord
<1> QED BY <1>2, <1>3, <1>4, <1>5 DEF Freed

\* A deleted object has no part in what the pointer does.
LEMMA FreesBody ==
  ASSUME NEW s \in CanvasType, NEW o \in Objects, s.obj[o].life = "deleted",
         NEW w, NEW b, Off(w), Body(s, w, b), Paired(s, w, b), Clean(s, w, b),
         NEW t \in CanvasType, Freed(s, t, o)
  PROVE  Body(t, w, b) /\ Paired(t, w, b) /\ Clean(t, w, b)
<1>1. /\ Lists(s, w) /\ Hover(s, w) /\ Held(s, w) /\ Outside(s, w) /\ Norepeat(s, w) /\ Even(s, w, b)
      /\ Single(s) /\ ~Leaving(w) /\ w.at = "" /\ w.at \notin {"leave", "postout"} \union Arriving
  BY DEF Body, Leaving, Off, Arriving
<1> DEFINE l == t.order
<1>2. /\ t.inside = s.inside /\ t.in = s.in /\ t.grabbed = s.grabbed
      /\ t.downs = s.downs /\ t.frozen = s.frozen /\ t.pressed = s.pressed
  BY DEF Freed
<1>3. ~IsAlive(s, o) /\ ~IsAlive(t, o)
  BY DEF IsAlive, Freed
<1>4. /\ \A p \in Objects : /\ Mode(t, p) = Mode(s, p) /\ (IsAlive(t, p) <=> IsAlive(s, p))
                            /\ t.obj[p].in = s.obj[p].in /\ t.obj[p].grabbed = s.obj[p].grabbed
                            /\ t.obj[p].repeat = s.obj[p].repeat
  <2> SUFFICES ASSUME NEW p \in Objects
               PROVE  /\ Mode(t, p) = Mode(s, p) /\ (IsAlive(t, p) <=> IsAlive(s, p))
                      /\ t.obj[p].in = s.obj[p].in /\ t.obj[p].grabbed = s.obj[p].grabbed
                      /\ t.obj[p].repeat = s.obj[p].repeat
    OBVIOUS
  <2>1. CASE p = o
    BY <1>3, <2>1 DEF Mode, Freed
  <2>2. CASE p # o
    BY <2>2 DEF Mode, IsAlive, Freed
  <2> QED BY <2>1, <2>2
<1>5. (Repeating(t) <=> Repeating(s)) /\ Single(t)
  BY <1>1, <1>4 DEF Repeating, Single
<1>6. /\ s.in \in Seq(Objects) /\ Range(s.in) \subseteq Objects
      /\ s.order \in Seq(Objects) /\ IsInjective(s.order) /\ o \notin Range(s.in)
  <2>1. s.in \in Seq(Objects) /\ s.order \in Seq(Objects)
    BY CanvasFields
  <2>2. Range(s.in) \subseteq Objects
    BY <2>1, RangeFacts
  <2> QED BY <1>1, <1>3, <2>1, <2>2 DEF Lists
<1>7. /\ IsInjective(l) /\ Range(l) = Range(s.order) \ {o}
      /\ \A p, q : p # o /\ q # o /\ Before(s.order, p, q) => Before(l, p, q)
  BY <1>6, RemovedOrder DEF Freed
<1>8. Lists(t, w)
  <2>1. \A p \in Range(t.in) : IsAlive(t, p)
    BY <1>1, <1>2, <1>4, <1>6 DEF Lists
  <2>2. \A p \in Objects : IsAlive(t, p) => p \in Range(t.order)
    BY <1>1, <1>2, <1>3, <1>4, <1>7 DEF Lists
  <2>3. IsInjective(t.in) /\ IsInjective(t.order)
    BY <1>1, <1>2, <1>7 DEF Lists
  <2> QED BY <1>1, <2>1, <2>2, <2>3 DEF Lists
<1>9. Hover(t, w)
  BY <1>1, <1>2, <1>4 DEF Hover, HasPointer, Listed
<1>10. Held(t, w)
  <2>1. Counts(t) = Counts(s)
    BY <1>4 DEF Counts
  <2> QED BY <1>1, <1>2, <1>4, <2>1 DEF Held, Holding
<1>11. Outside(t, w)
  BY <1>1, <1>2 DEF Outside
<1>12. Norepeat(t, w)
  <2> SUFFICES ASSUME s.grabbed > 0, NEW n \in Range(s.in), Mode(t, n) = "norepeat"
               PROVE  KeptBy(t, s.in, n)
    BY <1>1, <1>2 DEF Norepeat, Keeps
  <2>1. n \in Objects /\ Mode(s, n) = "norepeat" /\ n # o
    BY <1>4, <1>6
  <2>2. KeptBy(s, s.in, n)
    BY <1>1, <2>1 DEF Norepeat, Keeps
  <2>3. ASSUME NEW p \in Objects, Before(s.in, p, n)
        PROVE  Before(t.order, p, n)
    <3>1. p \in Range(s.in)
      BY <1>6, <2>3, BeforeFacts
    <3>2. p # o
      BY <1>6, <3>1
    <3> QED BY <1>2, <1>7, <2>1, <2>2, <2>3, <3>2 DEF KeptBy
  <2> QED BY <1>4, <2>1, <2>2, <2>3 DEF KeptBy
<1>13. Even(t, w, b)
  <2>1. \A p \in Objects : Due(t, b, p) = Due(s, b, p)
    BY <1>2 DEF Due
  <2> QED BY <1>1, <1>2, <1>4, <1>5, <2>1 DEF Even, Listed
<1>14. Paired(t, w, b)
  <2>1. \A p \in Objects : Owed(t, b, p) = Owed(s, b, p)
    BY <1>4 DEF Owed
  <2> QED BY <1>1, <1>2, <1>4, <1>5, <2>1 DEF Paired
<1>15. Clean(t, w, b)
  <2>1. o \notin Hit(s, s.x) /\ o \notin Hit(t, s.x)
    BY <1>3 DEF Hit, IsAlive
  <2>2. Hit(t, s.x) = Hit(s, s.x)
    <3>1. \A p \in Objects : p # o => (p \in Hit(t, s.x) <=> p \in Hit(s, s.x))
      BY DEF Hit, Covers, Freed
    <3>2. Hit(t, s.x) \subseteq Objects /\ Hit(s, s.x) \subseteq Objects
      BY DEF Hit
    <3> QED BY <2>1, <3>1, <3>2
  <2>3. Hits(t, l, s.x) = Hits(s, l, s.x)
    BY <1>4, <2>2, HitsLook
  <2>4. Hits(s, l, s.x) = Hits(s, s.order, s.x)
    BY <1>6, <2>1, HitsRemoved DEF Freed
  <2>5. t.x = s.x /\ Hits(t, t.order, t.x) = Hits(s, s.order, s.x)
    BY <2>3, <2>4 DEF Freed
  <2> QED BY <1>1, <1>2, <1>5, <2>5 DEF Clean
<1> QED BY <1>5, <1>8, <1>9, <1>10, <1>11, <1>12, <1>13, <1>14, <1>15 DEF Body

\* A deleted object is freed.
LEMMA FreeGood ==
  ASSUME Assumed, Good(c), NEW o \in Objects, Free(o)
  PROVE  Good(c') /\ HolderKeeps(c, c')
<1> DEFINE l == RemoveFirst(c.order, o)
           t == Frees(c, o, l)
           w == Still(Blank)
<1>1. Idle /\ c.obj[o].life = "deleted"
  BY DEF Free
<1>2. /\ c \in CanvasType /\ Nested(c) /\ ~c.bad /\ c.stack = <<>> /\ Len(c.stack) = 0
      /\ Walk(c) = w /\ Button(c) = w /\ Off(w)
      /\ Body(c, w, w) /\ Paired(c, w, w) /\ Clean(c, w, w)
  BY <1>1, IdleFacts DEF Off
<1>3. c' = t
  <2>1. IsRecord(c)
    BY <1>2, CanvasIsRecord
  <2> QED BY <2>1 DEF Free, Frees, IsRecord
<1>4. l \in Seq(Objects)
  <2>1. c.order \in Seq(Objects) /\ IsInjective(c.order)
    BY <1>2, CanvasFields DEF Body, Lists
  <2> QED BY <2>1, RemovedOrder
<1>6. l = RemoveFirst(c.order, o) /\ t = Frees(c, o, l)
  OBVIOUS
<1> HIDE DEF w, l, t
<1>5. t \in CanvasType /\ Freed(c, t, o)
  BY <1>2, <1>4, <1>6, FreesEffect
<1>7. Body(t, w, w) /\ Paired(t, w, w) /\ Clean(t, w, w)
  BY <1>1, <1>2, <1>5, FreesBody
<1>8. /\ t \in CanvasType /\ t.bad = c.bad /\ t.stack = c.stack
      /\ t.obj[o].in = c.obj[o].in /\ \A p \in Objects : p # o => t.obj[p] = c.obj[p]
  BY <1>5 DEF Freed
<1>9. Nested(t) /\ Walk(t) = w /\ Button(t) = w /\ Missed(t, w)
  <2>1. Nested(t)
    BY <1>2, <1>8 DEF Nested
  <2>2. Walk(t) = w /\ Button(t) = w
    BY <1>2, <1>8 DEF Walk, Button, w
  <2> QED BY <1>2, <2>1, <2>2 DEF Missed, Off
<1>10. Good(t)
  BY <1>2, <1>7, <1>8, <1>9, SoundParts
<1>11. HolderKeeps(c, c')
  <2>1. \A p \in Objects : c'.obj[p].in = c.obj[p].in
    BY <1>3, <1>8
  <2> QED BY <2>1, SameHolders
<1> QED BY <1>3, <1>10, <1>11

Freezes(s, n) == [s EXCEPT !.frozen = n]

\* Whether events are frozen matters to what a feed does only.
LEMMA FreezesSound ==
  ASSUME Good(c), Idle, NEW n \in {0, 1}, NEW t, t = Freezes(c, n)
  PROVE  /\ Sound(t) /\ Waiting(t) /\ t.obj = c.obj /\ t.x = c.x
         /\ n = 1 => Good(t)
<1> DEFINE w == Still(Blank)
<1>1. /\ c \in CanvasType /\ Nested(c) /\ ~c.bad /\ c.stack = <<>> /\ Len(c.stack) = 0
      /\ Walk(c) = w /\ Button(c) = w /\ Off(w)
      /\ Body(c, w, w) /\ Paired(c, w, w)
  BY IdleFacts DEF Off
<1>2. IsRecord(c)
  BY <1>1, CanvasIsRecord
<1>3. /\ IsRecord(t) /\ t.obj = c.obj /\ t.order = c.order /\ t.x = c.x /\ t.inside = c.inside
      /\ t.in = c.in /\ t.grabbed = c.grabbed /\ t.nogrep = c.nogrep /\ t.downs = c.downs
      /\ t.frozen = n /\ t.bad = c.bad /\ t.pressed = c.pressed /\ t.stack = c.stack
  BY <1>2 DEF IsRecord, Freezes
<1>4. t \in CanvasType
  BY <1>1, <1>3, CanvasFields, CanvasRecord
<1> HIDE DEF w
<1>5. Nested(t) /\ Walk(t) = w /\ Button(t) = w /\ Missed(t, w) /\ Waiting(t)
  <2>1. Nested(t)
    BY <1>1, <1>3 DEF Nested
  <2>2. Walk(t) = w /\ Button(t) = w /\ Waiting(t)
    BY <1>1, <1>3 DEF Walk, Button, Waiting, w
  <2> QED BY <1>1, <2>1, <2>2 DEF Missed, Off
<1>6. \A o \in Objects : Mode(t, o) = Mode(c, o) /\ (IsAlive(t, o) <=> IsAlive(c, o))
  BY <1>3 DEF Mode, IsAlive
<1>7. (Repeating(t) <=> Repeating(c)) /\ (Single(c) => Single(t)) /\ Counts(t) = Counts(c)
  BY <1>3, <1>6 DEF Repeating, Single, Counts
<1>8. Body(t, w, w)
  <2>1. /\ Lists(c, w) /\ Hover(c, w) /\ Held(c, w) /\ Outside(c, w) /\ Norepeat(c, w) /\ Even(c, w, w)
        /\ Single(c)
    BY <1>1 DEF Body
  <2>2. Lists(t, w)
    BY <1>1, <1>3, <2>1 DEF Lists, IsAlive, Arriving, Off
  <2>3. Hover(t, w) /\ Outside(t, w)
    BY <1>3, <2>1 DEF Hover, HasPointer, Listed, Outside
  <2>4. Held(t, w)
    BY <1>1, <1>3, <1>6, <1>7, <2>1 DEF Held, Holding, Off, Leaving
  <2>5. Norepeat(t, w)
    BY <1>1, <1>3, <2>1 DEF Norepeat, Keeps, KeptBy, Mode, Off
  <2>6. Even(t, w, w)
    <3>1. \A o \in Objects : Due(t, w, o) = Due(c, w, o)
      BY <1>3 DEF Due
    <3> QED BY <1>3, <1>6, <1>7, <2>1, <3>1 DEF Even, Listed
  <2> QED BY <1>7, <2>1, <2>2, <2>3, <2>4, <2>5, <2>6 DEF Body
<1>9. Paired(t, w, w)
  <2>1. \A o \in Objects : Owed(t, w, o) = Owed(c, w, o)
    BY <1>6 DEF Owed
  <2> QED BY <1>1, <1>3, <1>6, <1>7, <2>1 DEF Paired, Off
<1>10. Sound(t) /\ (Clean(t, w, w) => Good(t))
  BY <1>1, <1>3, <1>4, <1>5, <1>8, <1>9, SoundParts
<1>11. n = 1 => Clean(t, w, w)
  <2>1. n = 1 => ~(t.frozen = 0)
    BY <1>3
  <2> QED BY <2>1 DEF Clean
<1> QED BY <1>3, <1>5, <1>10, <1>11

\* Events are frozen.
LEMMA FreezeGood ==
  ASSUME Assumed, Good(c), Freeze
  PROVE  Good(c') /\ HolderKeeps(c, c')
<1>1. Idle /\ c' = Freezes(c, 1) /\ 1 \in {0, 1}
  BY DEF Freeze, Freezes
<1>2. Good(c') /\ c'.obj = c.obj
  BY <1>1, FreezesSound
<1> QED BY <1>2, SameHolders

\* Events are thawed: a move tells what has changed.
LEMMA ThawGood ==
  ASSUME Assumed, Good(c), Thaw
  PROVE  Good(c') /\ HolderKeeps(c, c')
<1> DEFINE t == Freezes(c, 0)
<1>1. Idle /\ c' = FeedMove(t, c.x) /\ 0 \in {0, 1}
  BY DEF Thaw, Freezes
<1>2. Sound(t) /\ Waiting(t) /\ t.obj = c.obj
  BY <1>1, FreezesSound
<1>3. c.x \in Points
  BY CanvasFields DEF Good, Sound
<1> HIDE DEF t
<1>4. Good(c') /\ c'.obj = t.obj
  BY <1>1, <1>2, <1>3, FeedMoveGood
<1> QED BY <1>2, <1>4, SameHolders

-----------------------------------------------------------------------------
(***************************************************************************)
(* The invariant                                                           *)
(***************************************************************************)

\* The objects are made one after the other.
LEMMA AllInOrder ==
  /\ SetToSeq(Objects) \in Seq(Objects) /\ IsInjective(SetToSeq(Objects))
  /\ Range(SetToSeq(Objects)) = Objects
<1> DEFINE n == Cardinality(Objects)
           l == SetToSeq(Objects)
<1>1. IsFiniteSet(Objects)
  BY EventsAssumption
<1>2. n \in Nat /\ ExistsBijection(1 .. n, Objects)
  BY <1>1, FS_CardinalityType
<1>3. \E f \in [1 .. n -> Objects] : IsInjective(f)
  BY <1>2 DEF ExistsBijection, Bijection, Injection
<1>4. l \in [1 .. n -> Objects] /\ IsInjective(l)
  <2>1. l = CHOOSE f \in [1 .. n -> Objects] : IsInjective(f)
    BY DEF SetToSeq
  <2> QED BY <1>3, <2>1, Zenon
<1>5. Cardinality(1 .. n) = n
  <2>1. n = 0 \/ 1 <= n
    <3> HIDE DEF n
    <3> QED BY <1>2
  <2> HIDE DEF n
  <2> QED BY <1>2, <2>1, FS_Interval
<1> HIDE DEF l
<1>6. l \in Surjection(1 .. n, Objects)
  <2>1. l \in Injection(1 .. n, Objects)
    BY <1>4 DEF Injection
  <2>2. Cardinality(1 .. n) = Cardinality(Objects) <=> l \in Surjection(1 .. n, Objects)
    BY <1>1, <2>1, FS_Injection
  <2> QED BY <1>5, <2>2
<1>7. l \in Seq(Objects)
  BY <1>2, <1>4
<1>8. Range(l) = Objects
  BY <1>4, <1>6 DEF Range, Surjection
<1> QED BY <1>4, <1>7, <1>8 DEF l

\* What is so of a new object.
LEMMA FreshFacts ==
  ASSUME NEW k \in ObjectKinds
  PROVE  /\ Fresh(k) \in ObjectType /\ ~Fresh(k).in /\ Fresh(k).grabbed = 0
         /\ Fresh(k).life = "alive" /\ Fresh(k).mode = k.mode
BY DEF ObjectKinds, Fresh, ObjectType

\* No function runs, the pointer is outside, and no object is shown.
LEMMA InitGood ==
  ASSUME Assumed, Init
  PROVE  Good(c)
<1>1. PICK kind \in Kinds :
        c = [obj |-> [o \in Objects |-> Fresh(kind[o])], order |-> SetToSeq(Objects), x |-> Blank.x,
             inside |-> FALSE, in |-> <<>>, grabbed |-> 0, nogrep |-> 0, downs |-> 0,
             frozen |-> 0, stack |-> <<>>, pressed |-> [o \in Objects |-> 0], bad |-> FALSE]
  BY DEF Init
<1>2. \A o \in Objects : kind[o] \in ObjectKinds
  BY <1>1, EventsAssumption
<1>3. /\ IsRecord(c) /\ c.obj = [o \in Objects |-> Fresh(kind[o])] /\ c.order = SetToSeq(Objects)
      /\ c.x = Blank.x /\ c.inside = FALSE /\ c.in = <<>> /\ c.grabbed = 0 /\ c.nogrep = 0
      /\ c.downs = 0 /\ c.frozen = 0 /\ c.stack = <<>> /\ c.pressed = [o \in Objects |-> 0]
      /\ c.bad = FALSE
  BY <1>1 DEF IsRecord
<1>4. \A o \in Objects : c.obj[o] = Fresh(kind[o])
  BY <1>3
<1>5. \A o \in Objects : /\ c.obj[o] \in ObjectType /\ ~c.obj[o].in /\ c.obj[o].grabbed = 0
                         /\ c.obj[o].life = "alive" /\ c.obj[o].mode = kind[o].mode
  <2> SUFFICES ASSUME NEW o \in Objects
               PROVE  /\ c.obj[o] \in ObjectType /\ ~c.obj[o].in /\ c.obj[o].grabbed = 0
                      /\ c.obj[o].life = "alive" /\ c.obj[o].mode = kind[o].mode
    OBVIOUS
  <2> DEFINE k == kind[o]
             f == Fresh(k)
  <2>1. k \in ObjectKinds
    BY <1>2
  <2>2. c.obj[o] = f
    BY <1>4
  <2> HIDE DEF k
  <2>3. f \in ObjectType /\ ~f.in /\ f.grabbed = 0 /\ f.life = "alive" /\ f.mode = k.mode
    BY <2>1, FreshFacts
  <2> HIDE DEF f
  <2> QED BY <2>2, <2>3 DEF k
<1>6. /\ c.order \in Seq(Objects) /\ IsInjective(c.order) /\ Range(c.order) = Objects
  BY <1>3, AllInOrder
<1>7. c \in CanvasType
  <2>1. c.obj \in [Objects -> ObjectType]
    BY <1>3, <1>5
  <2>2. c.in \in Seq(Objects) /\ c.stack \in Seq(FrameType)
    BY <1>3
  <2>3. c.x \in Points
    BY <1>3, BlankFields
  <2>4. c.pressed \in [Objects -> Nat]
    BY <1>3
  <2>5. c.inside \in BOOLEAN /\ c.bad \in BOOLEAN
    BY <1>3
  <2>6. c.grabbed \in Nat /\ c.nogrep \in Nat /\ c.downs \in Nat /\ c.frozen \in {0, 1}
    BY <1>3
  <2>7. IsRecord(c) /\ c.order \in Seq(Objects)
    BY <1>3, <1>6
  <2> QED BY <2>1, <2>2, <2>3, <2>4, <2>5, <2>6, <2>7, CanvasRecord
<1> DEFINE w == Still(Blank)
<1>8. Walk(c) = w /\ Button(c) = w /\ Off(w)
  <2>1. Walk(c) = w /\ Button(c) = w
    BY <1>3 DEF Walk, Button
  <2>2. Off(w)
    BY BlankFields, StillFields DEF Off
  <2> QED BY <2>1, <2>2
<1> HIDE DEF w
<1>9. Range(c.in) = {} /\ IsInjective(c.in)
  BY <1>3, NoneTwice
<1>10. Nested(c)
  <2>1. Len(c.stack) = 0
    BY <1>3
  <2> QED BY <2>1 DEF Nested
<1>11. Lists(c, w)
  BY <1>6, <1>8, <1>9 DEF Lists, Off, Arriving
<1>12. Hover(c, w)
  BY <1>5, <1>8, <1>9 DEF Hover, HasPointer, Listed, Off, Arriving
<1>13. Held(c, w)
  <2>1. c.grabbed = Cardinality(GrabsOf(Counts(c)))
    <3> DEFINE n == Counts(c)
    <3>1. n \in [Objects -> Nat] /\ \A o \in Objects : n[o] = 0
      BY <1>5 DEF Counts
    <3> HIDE DEF n
    <3>2. Cardinality(GrabsOf(n)) = 0
      BY <3>1, GrabsBound
    <3> QED BY <1>3, <3>2 DEF n
  <2>2. \A o \in Objects : ~(c.obj[o].grabbed > 0)
    BY <1>5, IsZero
  <2> QED BY <1>5, <1>8, <2>1, <2>2 DEF Held, Off
<1>14. Outside(c, w)
  BY <1>3, <1>8 DEF Outside, Off, Leaving
<1>15. ~(c.grabbed > 0)
  BY <1>3, IsZero
<1>16. Norepeat(c, w)
  BY <1>15 DEF Norepeat
<1>17. Even(c, w, w)
  <2>1. \A o \in Objects : ~(c.obj[o].grabbed > 0)
    BY <1>5, IsZero
  <2> QED BY <1>15, <2>1 DEF Even
<1>18. Single(c)
  BY <1>1, <1>5 DEF Single, Mode, Assumed, OneKeepsButtons
<1>19. Paired(c, w, w)
  <2>1. \A o \in Objects : Owed(c, w, o) = 0
    BY <1>8 DEF Owed, Off
  <2>2. \A o \in Objects : c.pressed[o] = 0
    BY <1>3
  <2>3. \A o \in Objects : c.pressed[o] + Owed(c, w, o) <= c.obj[o].grabbed
    BY <1>5, <2>1, <2>2, NoneMore
  <2> QED BY <1>8, <2>3 DEF Paired, Off
<1>20. Missed(c, w) /\ Clean(c, w, w)
  BY <1>3, <1>8 DEF Missed, Clean, Off
<1>21. Body(c, w, w)
  BY <1>11, <1>12, <1>13, <1>14, <1>16, <1>17, <1>18 DEF Body
<1>22. ~c.bad
  BY <1>3
<1> QED BY <1>7, <1>8, <1>10, <1>19, <1>20, <1>21, <1>22, SoundParts

\* Every step keeps Good, and an object that holds the pointer keeps it.
LEMMA NextGood ==
  ASSUME Assumed, Good(c), [Next]_vars
  PROVE  Good(c') /\ HolderKeeps(c, c')
<1>1. CASE UNCHANGED vars
  <2>1. c' = c
    BY <1>1 DEF vars
  <2> QED BY <2>1, SameHolders
<1>2. CASE Feeds
  BY <1>2, MouseMoveGood, MouseInGood, MouseOutGood, MouseDownGood, MouseUpGood DEF Feeds
<1>3. CASE Steps
  <2>1. CASE Drag \/ Dragged \/ DragDone \/ DragOut \/ (Done("dragout") /\ c' = Return(c))
    BY <2>1, DragGood, DraggedGood, DragDoneGood, DragOutGood, DragOutDoneGood
  <2>2. CASE Leave \/ LeaveDone \/ EnterDone \/ InDone
    BY <2>2, LeaveGood, LeaveDoneGood, EnterDoneGood, InDoneGood
  <2>3. CASE \E place \in {"enter", "in", "postin"} : Enter(place)
    BY <2>3, EnterGood
  <2>4. CASE Out \/ Outed \/ OutDone
    BY <2>4, OutGood, OutedGood, OutDoneGood
  <2>5. CASE Down \/ DownDone \/ Up \/ Upped \/ UpDone
    BY <2>5, DownGood, DownDoneGood, UpGood, UppedGood, UpDoneGood
  <2>6. CASE PostOut \/ PostOutDone \/ PostInDone
    BY <2>6, PostOutGood, PostOutDoneGood, PostInDoneGood
  <2>7. CASE Informed \/ DelTells \/ LetGo \/ Deleted \/ CallbackReturns
    BY <2>7, InformedGood, DelTellsGood, LetGoGood, DeletedGood, CallbackReturnsGood
  <2> QED BY <1>3, <2>1, <2>2, <2>3, <2>4, <2>5, <2>6, <2>7 DEF Steps
<1>4. CASE Calls
  <2>1. PICK o \in Objects : Show(o) \/ Hide(o) \/ PassEvents(o) \/ Raise(o) \/ Del(o) \/ Free(o)
    BY <1>4 DEF Calls
  <2> QED BY <2>1, ShowGood, HideGood, PassEventsGood, RaiseGood, DelGood, FreeGood
<1>5. CASE Freeze \/ Thaw
  BY <1>5, FreezeGood, ThawGood
<1> QED BY <1>1, <1>2, <1>3, <1>4, <1>5 DEF Next

IInv == Good(c)

\* Good is an invariant.
LEMMA Invariance ==
  ASSUME HoverCallbacksCallNothing, ButtonsNotFrozen, OneKeepsButtons
  PROVE  Spec => []IInv
<1>0. Assumed
  BY DEF Assumed
<1>1. Init => IInv
  BY <1>0, InitGood DEF IInv
<1>2. IInv /\ [Next]_vars => IInv'
  BY <1>0, NextGood DEF IInv
<1> QED BY <1>1, <1>2, PTL DEF Spec

-----------------------------------------------------------------------------
(***************************************************************************)
(* The properties                                                          *)
(***************************************************************************)

\* What a program finds between two calls.
LEMMA RestFacts ==
  ASSUME IInv, Rest
  PROVE  /\ c \in CanvasType /\ ~c.bad
         /\ Body(c, Still(Blank), Still(Blank)) /\ Paired(c, Still(Blank), Still(Blank))
         /\ Clean(c, Still(Blank), Still(Blank))
         /\ Off(Still(Blank)) /\ ~Leaving(Still(Blank))
<1>1. Good(c) /\ ~c.bad
  BY DEF IInv, Good, Sound
<1>2. Idle
  BY <1>1 DEF Idle, Rest
<1>3. Off(Still(Blank))
  BY BlankFields, StillFields DEF Off
<1> QED BY <1>1, <1>2, <1>3, IdleFacts

\* Where callbacks of in, out and move call no evas functions, buttons are not fed
\* while events are frozen and one object at most keeps button events to itself:
\* every field of the canvas has its type, no count of grabs or buttons becomes
\* negative, and no object is twice in the list of the pointer or in the layer,
\* whatever calls the callbacks of down, up, del and free make.
THEOREM TypesSound ==
  ASSUME HoverCallbacksCallNothing, ButtonsNotFrozen, OneKeepsButtons
  PROVE  Spec => []TypeOK
<1>1. IInv => TypeOK
  BY DEF IInv, Good, Sound, Body, Lists, TypeOK
<1> QED BY <1>1, Invariance, PTL

\* Under the same assumptions, no function that walks a list of objects meets one
\* that was freed, and the list of the pointer has no deleted object between two
\* calls: callbacks of down, up, del and free may delete what they like. Where a
\* callback of in, out or move does so, the list keeps an object that is freed
\* (evas_events.c:856): the first assumption is what makes this true.
THEOREM NeverUsedAfterFree ==
  ASSUME HoverCallbacksCallNothing, ButtonsNotFrozen, OneKeepsButtons
  PROVE  Spec => []NoUseAfterFree
<1>1. ASSUME IInv PROVE NoUseAfterFree
  <2>1. ~c.bad
    BY <1>1 DEF IInv, Good, Sound
  <2>2. ASSUME Rest PROVE \A o \in Range(c.in) : c.obj[o].life = "alive"
    BY <1>1, <2>2, RestFacts DEF Body, Lists, IsAlive
  <2> QED BY <2>1, <2>2 DEF NoUseAfterFree
<1> QED BY <1>1, Invariance, PTL

\* Under the same assumptions, the pointer counts the grabs of the objects, an
\* object that grabbed it has a grab for every button that is down, and who heard
\* of a button going down is told the rest. A release that is fed while events
\* are frozen leaves a grab behind (evas_events.c:462).
THEOREM PressesArePaired ==
  ASSUME HoverCallbacksCallNothing, ButtonsNotFrozen, OneKeepsButtons
  PROVE  Spec => []PressesPaired
<1>1. ASSUME IInv PROVE PressesPaired
  <2>1. c \in CanvasType /\ Body(c, Walk(c), Button(c))
    BY <1>1 DEF IInv, Good, Sound
  <2>2. ASSUME \A f \in Range(c.stack) : f.at \notin {"out", "outed"}
        PROVE  c.grabbed = Cardinality(Grabs)
    <3>1. ~Leaving(Walk(c))
      <4>1. CASE c.stack = <<>> \/ Top(c).at \notin Walks
        BY <2>1, <4>1, WalkFields DEF Leaving
      <4>2. CASE c.stack # <<>> /\ Top(c).at \in Walks
        <5>1. Top(c) \in Range(c.stack)
          <6>1. c.stack \in Seq(FrameType)
            BY <2>1, CanvasFields
          <6>2. Len(c.stack) \in 1 .. Len(c.stack) /\ Top(c) = c.stack[Len(c.stack)]
            BY <4>2, <6>1 DEF Top, Last
          <6> QED BY <6>1, <6>2, RangeFacts
        <5> QED BY <2>1, <2>2, <4>2, <5>1, WalkFields DEF Leaving
      <4> QED BY <4>1, <4>2
    <3>2. Grabs = GrabsOf(Counts(c))
      BY DEF Grabs, GrabsOf, Counts
    <3> QED BY <2>1, <3>1, <3>2 DEF Body, Held
  <2>3. ASSUME AllRepeat, Rest, NEW o \in Objects
        PROVE  /\ c.obj[o].grabbed \in {0, c.downs}
               /\ c.downs = 0 /\ Alive(o) => c.pressed[o] = 0
    <3> DEFINE w == Still(Blank)
               n == c.obj[o].grabbed
               m == c.downs
    <3>1. Repeating(c) /\ Body(c, w, w) /\ Paired(c, w, w) /\ Off(w) /\ ~Leaving(w)
      BY <1>1, <2>3, RestFacts DEF AllRepeat, Repeating
    <3>2. n \in Nat /\ m \in Nat /\ c.pressed[o] \in Nat
      <4>1. n \in Nat
        BY <2>1, <2>3, ObjectFields
      <4>2. m \in Nat
        BY <2>1, CanvasFields
      <4>3. c.pressed \in [Objects -> Nat]
        BY <2>1, CanvasFields
      <4> HIDE DEF n, m
      <4> QED BY <2>3, <4>1, <4>2, <4>3
    <3>3. Due(c, w, o) = m /\ Owed(c, w, o) = 0
      <4>1. Due(c, w, o) = m + 0 /\ Owed(c, w, o) = 0
        BY <3>1 DEF Due, Owed, Off
      <4>2. \A x \in Nat : x + 0 = x
        OBVIOUS
      <4> HIDE DEF m, w
      <4> QED BY <3>2, <4>1, <4>2
    <3>4. n > 0 => n = m
      BY <3>1, <3>3 DEF Body, Even
    <3>5. Alive(o) => c.pressed[o] <= n
      <4>1. ASSUME Alive(o) PROVE c.pressed[o] + Owed(c, w, o) <= n
        BY <3>1, <4>1 DEF Paired, Alive, IsAlive
      <4> HIDE DEF w, n
      <4>2. \A x \in Nat : \A y : y = 0 => x + y = x
        OBVIOUS
      <4> QED BY <3>2, <3>3, <4>1, <4>2
    <3> HIDE DEF n, m
    <3>6. n \in {0, m} /\ (m = 0 => n = 0)
      BY <3>2, <3>4
    <3>7. m = 0 /\ Alive(o) => c.pressed[o] = 0
      BY <3>2, <3>5, <3>6
    <3> QED BY <3>6, <3>7 DEF n, m
  <2> QED BY <2>2, <2>3 DEF PressesPaired
<1> QED BY <1>1, Invariance, PTL

\* Under the same assumptions, with no button down the list of the pointer has the
\* objects at its position, and these and no other were told "in", whatever was
\* shown, hidden, raised or deleted by callbacks of down, up, del and free or
\* while events were frozen. Without either of the first two assumptions it is
\* wrong: TLC refutes it with "in" in Busy, and with "up" in FrozenFeeds.
THEOREM HoverIsExact ==
  ASSUME HoverCallbacksCallNothing, ButtonsNotFrozen, OneKeepsButtons
  PROVE  Spec => []HoverExact
<1>1. ASSUME IInv, AllRepeat, Rest, c.frozen = 0, c.downs = 0
      PROVE  /\ c.in = IF c.inside THEN EventList(c, c.x) ELSE <<>>
             /\ \A o \in Objects : c.obj[o].in <=> Contains(c.in, o)
  <2> DEFINE w == Still(Blank)
  <2>1. /\ c \in CanvasType /\ Body(c, w, w) /\ Clean(c, w, w) /\ Off(w) /\ ~Leaving(w)
        /\ Repeating(c) /\ c.in \in Seq(Objects)
    BY <1>1, RestFacts, CanvasFields DEF AllRepeat, Repeating
  <2> HIDE DEF w
  <2>2. c.grabbed = 0
    <3>1. \A o \in Objects : c.obj[o].grabbed = 0
      <4> SUFFICES ASSUME NEW o \in Objects PROVE c.obj[o].grabbed = 0
        OBVIOUS
      <4>1. c.obj[o].grabbed \in Nat
        BY <2>1, ObjectFields
      <4>2. c.obj[o].grabbed > 0 => c.obj[o].grabbed = Due(c, w, o)
        BY <2>1 DEF Body, Even
      <4>3. Due(c, w, o) = 0 + 0
        BY <1>1, <2>1 DEF Due, Off
      <4> QED BY <4>1, <4>2, <4>3
    <3>2. Counts(c) \in [Objects -> Nat] /\ \A o \in Objects : Counts(c)[o] = 0
      <4>1. \A o \in Objects : c.obj[o].grabbed \in Nat
        BY <3>1
      <4> QED BY <3>1, <4>1 DEF Counts
    <3>3. Cardinality(GrabsOf(Counts(c))) = 0
      BY <3>2, GrabsBound
    <3> QED BY <2>1, <3>3 DEF Body, Held
  <2>3. c.in = IF c.inside THEN EventList(c, c.x) ELSE <<>>
    <3>1. CASE c.inside
      <4>1. c.in = Hits(c, c.order, c.x)
        BY <1>1, <2>1, <2>2, <3>1 DEF Clean, Off
      <4>2. ~(c.frozen > 0)
        BY <1>1, IsZero
      <4> QED BY <3>1, <4>1, <4>2 DEF EventList
    <3>2. CASE ~c.inside
      BY <2>1, <3>2 DEF Body, Outside
    <3> QED BY <3>1, <3>2
  <2>4. \A o \in Objects : c.obj[o].in <=> o \in Range(c.in)
    BY <2>1 DEF Body, Hover, HasPointer, Listed, Off, Arriving
  <2>5. \A o \in Objects : o \in Range(c.in) <=> Contains(c.in, o)
    BY <2>1, RangeFacts DEF Contains
  <2> QED BY <2>3, <2>4, <2>5
<1>2. IInv => HoverExact
  BY <1>1 DEF HoverExact
<1> QED BY <1>2, Invariance, PTL

\* Under the same assumptions, an object that has grabbed the pointer is told
\* "out" by no step but one of a feed of mouse_out.
THEOREM HoldersKeepPointer ==
  ASSUME HoverCallbacksCallNothing, ButtonsNotFrozen, OneKeepsButtons
  PROVE  Spec => HolderKeepsPointer
<1>0. Assumed
  BY DEF Assumed
<1> DEFINE Only ==
      \A o \in Objects :
        c.obj[o].in /\ ~c'.obj[o].in /\ c'.obj[o].life = "alive" /\ ~At("out") =>
          c.obj[o].grabbed = 0
<1>1. Init => IInv
  BY <1>0, InitGood DEF IInv
<1>2. IInv /\ [Next]_vars => IInv'
  BY <1>0, NextGood DEF IInv
<1>3. ASSUME IInv, [Next]_vars PROVE Only
  <2>1. c \in CanvasType /\ HolderKeeps(c, c')
    BY <1>0, <1>3, NextGood DEF IInv, Good, Sound
  <2>2. Walk(c).at = "out" => At("out")
    <3>1. CASE c.stack = <<>> \/ Top(c).at \notin Walks
      BY <2>1, <3>1, WalkFields
    <3>2. CASE c.stack # <<>> /\ Top(c).at \in Walks
      BY <2>1, <3>2, WalkFields DEF At
    <3> QED BY <3>1, <3>2
  <2> QED BY <2>1, <2>2 DEF HolderKeeps, IsAlive
<1>4. IInv /\ [Next]_vars => [Only]_vars
  BY <1>3
<1> HIDE DEF Only
<1>5. Spec => [][Only]_vars
  BY <1>1, <1>2, <1>4, PTL DEF Spec
<1> QED BY <1>5 DEF HolderKeepsPointer, Only
=============================================================================
