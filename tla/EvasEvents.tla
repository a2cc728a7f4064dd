----------------------------- MODULE EvasEvents -----------------------------
(***************************************************************************)
(* The pointer of a canvas (evas_events.c): which objects it is in, which  *)
(* of them have grabbed it, and the in, out, down, up and move events that *)
(* follow from it. Objects are shown, hidden, raised, deleted and made to  *)
(* pass events while events are on their way, from the callbacks too; most *)
(* of these calls feed a move of their own in the middle of the feed that  *)
(* called them, over the same list.                                        *)
(*                                                                         *)
(* The canvas has one layer of rectangles without clippers, maps and smart *)
(* parents; an object covers a set of the points the pointer may be at.    *)
(* Every function that walks a list of objects is a frame of `stack', and  *)
(* one step takes one object of its list.                                  *)
(***************************************************************************)
EXTENDS Integers, FiniteSets, SequencesExt

CONSTANTS
  Objects,      \* the objects of the canvas
  NoObject,     \* NULL
  Points,       \* the points the pointer may be at
  Kinds,        \* bound: what the objects may be, functions of Objects
  Busy,         \* the events whose callbacks call evas functions
  FrozenFeeds,  \* the feeds that programs make while events are frozen
  MaxDowns,     \* bound: buttons that are down at once
  MaxGrabs,     \* bound: grabs there may be when a button goes down
  MaxNest       \* bound: callbacks that call evas functions within one another

Modes  == {"autograb", "nograb", "norepeat"}
Events == {"in", "out", "down", "up", "move", "del", "free"}

\* What an object is for good: the points it covers, repeat_events, pointer_mode.
ObjectKinds == [covers : SUBSET Points, repeat : BOOLEAN, mode : Modes]

ASSUME EventsAssumption ==
  /\ IsFiniteSet(Objects) /\ NoObject \notin Objects /\ Points # {}
  /\ Kinds \subseteq [Objects -> ObjectKinds]
  /\ Busy \subseteq Events
  /\ FrozenFeeds \subseteq {"in", "out", "down", "up", "move"}
  /\ MaxDowns \in Nat /\ MaxGrabs \in Nat /\ MaxNest \in Nat

VARIABLE c  \* the canvas: its objects, its pointer and the functions that run

vars == <<c>>

Covers(s, o, x) == x \in s.obj[o].covers
Repeats(s, o)   == s.obj[o].repeat
Mode(s, o)      == s.obj[o].mode

\* A function that walks a list: what is left of the list (`rest', a copy), the
\* object it is at, and the new list or the objects that have left; the point
\* it was given and whether the pointer moved to it; `gone' are the objects
\* that were told "out" by an event newer than the one it reports.
Blank == [at |-> "", rest |-> <<>>, cur |-> NoObject, ins |-> <<>>,
          x |-> CHOOSE p \in Points : TRUE, moved |-> FALSE, below |-> FALSE, gone |-> {}]

Top(s)         == Last(s.stack)
Push(s, f)     == [s EXCEPT !.stack = Append(@, f)]
Become(s, f)   == [s EXCEPT !.stack[Len(s.stack)] = f]
Return(s)      == [s EXCEPT !.stack = Front(@)]
Frame(at, l)   == [Blank EXCEPT !.at = at, !.rest = l]

\* The frame at the top goes on behind the head of its list.
Advance(s) == Become(s, [Top(s) EXCEPT !.rest = Tail(@)])

-----------------------------------------------------------------------------
\* What is taken of a list of objects, the topmost first: those that an event
\* reaches. It ends at the first of them that does not repeat events.
Take(t, o) ==
  IF t.end \/ o \notin t.hit THEN t
  ELSE [t EXCEPT !.list = Append(@, o), !.end = o \notin t.through]

Taken == INSTANCE ListLoops WITH Step <- Take

\* An object that is going, which has let go of the pointer, is hidden.
Hit(s, x) ==
  {o \in Objects : s.obj[o].visible /\ s.obj[o].life = "alive" /\ ~s.obj[o].pass /\ Covers(s, o, x)}

Hits(s, l, x) ==
  Taken!Loop([hit |-> Hit(s, x), through |-> {o \in Objects : Repeats(s, o)},
              list |-> <<>>, end |-> FALSE], l).list

\* How many callbacks run.
Callbacks(s) == Cardinality({i \in DOMAIN s.stack : s.stack[i].at \in {"callback", "returning"}})

\* evas_event_objects_event_list
EventList(s, x) == IF s.frozen > 0 THEN <<>> ELSE Hits(s, s.order, x)

\* The functions that run take note of an event: of an object that goes out, but
\* for the function that says so.
Notes(s, o, type) ==
  [i \in DOMAIN s.stack |->
     [s.stack[i] EXCEPT !.gone = IF type = "out" /\ i < Len(s.stack) THEN @ \union {o} ELSE @ \ {o}]]

\* The buttons an object heard going down and not up; only objects that grab the
\* pointer are promised the rest.
Hears(s, o, type) ==
  CASE Mode(s, o) # "autograb" -> 0
    [] Mode(s, o) = "autograb" /\ type = "down" -> s.pressed[o] + 1
    [] Mode(s, o) = "autograb" /\ type = "up" -> IF s.pressed[o] = 0 THEN 0 ELSE s.pressed[o] - 1
    [] Mode(s, o) = "autograb" /\ type = "out" /\ Top(s).at = "outed" -> 0
    [] OTHER -> s.pressed[o]

\* delete_me
Marked(s, o) == s.obj[o].life \in {"deleted", "freed"}

\* evas_object_event_callback_call: an object that was told "out" by a newer
\* event hears no more of the button and move events that are under way. The
\* callback is a frame of its own if it may call evas functions.
Tell(s, o, type) ==
  LET told == [s EXCEPT !.stack = Notes(s, o, type), !.pressed[o] = Hears(s, o, type)]
  IN  IF Marked(s, o) \/ (o \in Top(s).gone /\ type \in {"down", "up", "move"}) THEN s
      ELSE IF type \in Busy /\ Callbacks(s) < MaxNest
           THEN Push(told, [Blank EXCEPT !.at = "callback", !.cur = o])
      ELSE told

\* The mouse events, none of which is told while events are frozen.
TellMouse(s, o, type) == IF s.frozen > 0 THEN s ELSE Tell(s, o, type)

GoesOut(s, o) ==
  IF s.obj[o].in THEN TellMouse([s EXCEPT !.obj[o].in = FALSE], o, "out") ELSE s

ComesIn(s, o) ==
  IF ~Contains(s.in, o) /\ ~s.obj[o].in
  THEN TellMouse([s EXCEPT !.obj[o].in = TRUE], o, "in") ELSE s

\* evas_event_feed_mouse_move: to the objects that hold the pointer while it is
\* grabbed, else to those it was in and those it is in now.
FeedMove(s, x) ==
  LET at    == [s EXCEPT !.x = x]
      frame == [Frame("drag", s.in) EXCEPT !.x = x, !.moved = s.x # x]
  IN  IF s.frozen > 0 THEN s
      ELSE IF ~s.inside /\ s.grabbed = 0 THEN at
      ELSE IF s.grabbed > 0 THEN Push(at, frame)
      ELSE Push(at, [frame EXCEPT !.at = "leave", !.ins = EventList(at, x)])

-----------------------------------------------------------------------------
\* What a frame does with the head of its list. A freed object is never read.

At(place) == c.stack # <<>> /\ Top(c).at = place
Head_     == Head(Top(c).rest)
More(place) == At(place) /\ Top(c).rest # <<>>
Done(place) == At(place) /\ Top(c).rest = <<>>

\* An object that a list still names after it was freed is used.
Reading(o, s) == IF c.obj[o].life = "freed" THEN [c EXCEPT !.bad = TRUE] ELSE s

\* evas_event_feed_mouse_move, pointer grabbed
Drag ==
  /\ More("drag")
  /\ LET o == Head_
         s == Become(c, [Top(c) EXCEPT !.at = "dragged", !.cur = o, !.rest = Tail(@)])
         stays == c.frozen = 0 /\ (c.obj[o].visible \/ c.obj[o].grabbed > 0) /\ ~c.obj[o].pass
     IN  c' = Reading(o, IF ~stays THEN Become(s, [Top(s) EXCEPT !.ins = Append(@, o)])
                         ELSE IF Top(c).moved THEN Tell(s, o, "move") ELSE s)

Place(l, o) == SelectInSeq(l, LAMBDA x : x = o)

\* Behind an object that keeps button events to itself the list is made anew,
\* whether the pointer is grabbed or not.
Dragged ==
  /\ At("dragged")
  /\ LET f     == Top(c)
         o     == f.cur
         i     == Place(c.in, o)
         upto  == IF i = 0 THEN c.in ELSE SubSeq(c.in, 1, i)
         under == SubSeq(c.order, Place(c.order, o) + 1, Len(c.order))
     IN  c' = IF Mode(c, o) = "norepeat" /\ c.nogrep > 0
              THEN Become(c, [f EXCEPT !.at = "leave", !.below = TRUE, !.gone = {},
                                       !.rest = SubSeq(c.in, Len(upto) + 1, Len(c.in)),
                                       !.ins = upto \o Hits(c, under, c.x)])
              ELSE Become(c, [f EXCEPT !.at = "drag"])

DragDone ==
  /\ Done("drag")
  /\ c' = Become(c, [Top(c) EXCEPT !.at = "dragout", !.rest = Top(c).ins, !.gone = {}])

\* Mutant: an object that no longer takes events is left although it holds the
\* pointer.
DragOutHolders ==
  /\ More("dragout")
  /\ c' = Reading(Head_, GoesOut([Advance(c) EXCEPT !.in = RemoveFirst(@, Head_)], Head_))

DragOut ==
  /\ More("dragout")
  /\ LET o == Head_
         s == Advance(c)
     IN  c' = Reading(o, IF c.obj[o].grabbed # 0 THEN s
                         ELSE GoesOut([s EXCEPT !.in = RemoveFirst(@, o)], o))

\* evas_event_feed_mouse_move, pointer not grabbed
Leave ==
  /\ More("leave")
  /\ LET f == Top(c)
         o == Head_
         s == Advance(c)
         stays == /\ c.frozen = 0 /\ Covers(c, o, f.x) /\ Contains(f.ins, o)
                  /\ c.obj[o].visible \/ c.obj[o].grabbed > 0
                  /\ ~c.obj[o].pass
     IN  c' = Reading(o, IF ~stays THEN GoesOut(s, o)
                         ELSE IF f.moved THEN Tell(s, o, "move") ELSE s)

LeaveDone ==
  /\ Done("leave")
  /\ c' = Become(c, [Top(c) EXCEPT !.at = "enter", !.rest = Top(c).ins, !.gone = {}])

Enter(place) ==
  /\ More(place)
  /\ c' = Reading(Head_, ComesIn(Advance(c), Head_))

SetIn(s, l) == [s EXCEPT !.in = l]

EnterDone ==
  /\ Done("enter")
  /\ c' = Return(IF c.grabbed = 0 \/ Top(c).below THEN SetIn(c, Top(c).ins) ELSE c)

-----------------------------------------------------------------------------
\* Feeds, from the main loop

Idle == c.stack = <<>> /\ ~c.bad
Feed(type) == Idle /\ (c.frozen > 0 => type \in FrozenFeeds)

MouseMove(x) == Feed("move") /\ c' = FeedMove(c, x)

\* evas_event_feed_mouse_in
MouseIn ==
  /\ Feed("in") /\ ~c.inside
  /\ LET s == [c EXCEPT !.inside = TRUE]
         l == EventList(s, s.x)
     IN  c' = IF s.frozen > 0 \/ s.grabbed # 0 THEN s
              ELSE Push(s, [Frame("in", l) EXCEPT !.ins = l])

InDone ==
  /\ Done("in")
  /\ LET s == SetIn(c, Top(c).ins)
     IN  c' = FeedMove(Return(s), c.x)

\* evas_event_feed_mouse_out
MouseOut ==
  /\ Feed("out") /\ c.inside
  /\ LET s == [c EXCEPT !.inside = FALSE]
     IN  c' = IF s.frozen > 0 THEN s ELSE Push(s, Frame("out", s.in))

Out ==
  /\ More("out")
  /\ LET o == Head_
         s == Become(c, [Top(c) EXCEPT !.at = "outed", !.cur = o, !.rest = Tail(@)])
     IN  c' = Reading(o, IF c.obj[o].in THEN GoesOut(s, o) ELSE Advance(c))

Outed ==
  /\ At("outed")
  /\ c' = Become([c EXCEPT !.obj[Top(c).cur].grabbed = 0], [Top(c) EXCEPT !.at = "out"])

OutDone ==
  /\ Done("out")
  /\ c' = Return([c EXCEPT !.in = <<>>, !.grabbed = 0])

\* The objects of a list that a button event reaches: those behind one that
\* does not repeat it do not hear of it.
UpToNorepeat(s, l) ==
  LET i == SelectInSeq(l, LAMBDA o : Mode(s, o) = "norepeat")
  IN  IF i = 0 THEN l ELSE SubSeq(l, 1, i)

\* The window system feeds a move before it presses a button: what the pointer
\* is in is not what was deleted since.
Moved == c.grabbed = 0 => c.in = EventList(c, c.x)

\* evas_event_feed_mouse_down: the list is kept while the pointer is grabbed; a
\* new one makes up for the buttons that went down before. The window system
\* has the pointer enter the canvas before it presses a button.
MouseDown ==
  /\ Feed("down") /\ c.inside /\ Moved /\ c.downs < MaxDowns
  /\ c.grabbed <= MaxGrabs /\ c.nogrep < MaxDowns
  /\ LET new   == c.grabbed = 0
         s     == [c EXCEPT !.downs = @ + 1, !.in = IF new THEN EventList(c, c.x) ELSE @]
         times == IF new THEN s.downs ELSE 1
         grab  == {o \in Range(UpToNorepeat(s, s.in)) : Mode(s, o) # "nograb"}
     IN  c' = IF c.frozen > 0 THEN [c EXCEPT !.downs = @ + 1]
              ELSE Push([s EXCEPT
                           !.obj = [o \in Objects |->
                                      [c.obj[o] EXCEPT !.grabbed = @ + (IF o \in grab THEN times ELSE 0)]],
                           !.grabbed = @ + times * Cardinality(grab),
                           !.nogrep = @ + Cardinality({o \in grab : Mode(s, o) = "norepeat"})],
                        Frame("down", s.in))

Down ==
  /\ More("down")
  /\ LET o    == Head_
         rest == IF Mode(c, o) = "norepeat" /\ c.obj[o].life = "alive" THEN <<>> ELSE Tail(Top(c).rest)
         s    == Become(c, [Top(c) EXCEPT !.rest = rest])
     IN  c' = Reading(o, TellMouse(s, o, "down"))

DownDone == Done("down") /\ c' = Return(c)

\* evas_event_feed_mouse_up
MouseUp ==
  /\ Feed("up") /\ c.downs > 0
  /\ LET s == [c EXCEPT !.downs = @ - 1]
     IN  c' = IF c.frozen > 0 THEN s ELSE Push(s, Frame("up", s.in))

Ungrab(s, o, n) == [s EXCEPT !.obj[o].grabbed = @ - n, !.grabbed = @ - n]

\* Mutant: an object hears of a release over it only.
UpInside ==
  /\ More("up")
  /\ LET o == Head_
         s == Become(c, [Top(c) EXCEPT !.at = "upped", !.cur = o, !.rest = Tail(@)])
         t == IF Mode(c, o) = "autograb" /\ c.obj[o].grabbed > 0 THEN Ungrab(s, o, 1) ELSE s
     IN  c' = Reading(o, IF Covers(c, o, c.x) THEN TellMouse(t, o, "up") ELSE t)

\* Mutant: an object gives a grab back although it has none.
UpUngrabs ==
  /\ More("up")
  /\ LET o == Head_
         s == Become(c, [Top(c) EXCEPT !.at = "upped", !.cur = o, !.rest = Tail(@)])
     IN  c' = Reading(o, TellMouse(IF Mode(c, o) = "autograb" THEN Ungrab(s, o, 1) ELSE s, o, "up"))

Up ==
  /\ More("up")
  /\ LET o == Head_
         s == Become(c, [Top(c) EXCEPT !.at = "upped", !.cur = o, !.rest = Tail(@)])
     IN  c' = Reading(o, TellMouse(IF Mode(c, o) = "autograb" /\ c.obj[o].grabbed > 0
                                   THEN Ungrab(s, o, 1) ELSE s, o, "up"))

\* The grabs of an object that keeps button events to itself are not given back.
Upped ==
  /\ At("upped")
  /\ LET f    == Top(c)
         last == Mode(c, f.cur) = "norepeat"
     IN  c' = Become([c EXCEPT !.nogrep = IF last /\ @ > 0 THEN @ - 1 ELSE @],
                     [f EXCEPT !.at = "up", !.rest = IF last THEN <<>> ELSE @])

\* Mutant: when the last grab ends, nobody looks what the pointer is over now.
UpDoneForgets == Done("up") /\ c' = Return(c)

\* _post_up_handle: once nothing holds the pointer, what it left and what it
\* came to in the meantime is told.
UpDone ==
  /\ Done("up")
  /\ c' = IF c.grabbed # 0 THEN Return(c)
          ELSE Become(c, [Frame("postout", c.in) EXCEPT !.ins = EventList(c, c.x)])

PostOut ==
  /\ More("postout")
  /\ LET o == Head_
         s == Advance(c)
     IN  c' = Reading(o, IF ~Contains(Top(c).ins, o) \/ ~c.inside THEN GoesOut(s, o) ELSE s)

PostOutDone ==
  /\ Done("postout")
  /\ LET f == Top(c)
     IN  c' = IF c.inside THEN Become(c, [f EXCEPT !.at = "postin", !.rest = f.ins, !.gone = {}])
              ELSE Return(IF c.grabbed = 0 THEN SetIn(c, <<>>) ELSE c)

PostInDone ==
  /\ Done("postin")
  /\ LET s == Return(IF c.grabbed = 0 THEN SetIn(c, Top(c).ins) ELSE c)
     IN  c' = IF c.inside THEN FeedMove(s, c.x) ELSE s

-----------------------------------------------------------------------------
\* Calls, from the main loop or from a callback; a callback makes one of them.

MayCall == ~c.bad /\ (Idle \/ At("callback"))

\* The state in which a call starts: the callback has nothing to do after it.
Caller == IF Idle THEN c ELSE Become(c, [Top(c) EXCEPT !.at = "returning"])

CallbackReturns == (At("callback") \/ At("returning")) /\ c' = Return(c)

\* evas_object_inform_call_*: another event for the object, which nobody hears.
Inform(s, o) ==
  IF Marked(s, o) THEN s
  ELSE [s EXCEPT !.stack = [i \in DOMAIN s.stack |-> [s.stack[i] EXCEPT !.gone = @ \ {o}]]]

Informed == At("inform") /\ c' = Return(Inform(c, Top(c).cur))

\* A move is fed for an object at the pointer.
Refeed(s, o) == IF Covers(s, o, s.x) THEN FeedMove(s, s.x) ELSE s

Alive(o)  == c.obj[o].life = "alive"
Usable(o) == ~Marked(c, o)
\* Callbacks do not show an object again that is just being deleted.
Kept(o) == Alive(o) /\ \A f \in Range(c.stack) : f.at = "deleted" => f.cur # o
ThenInform(s, o) == Push(s, [Blank EXCEPT !.at = "inform", !.cur = o])

Show(o) ==
  /\ MayCall /\ Kept(o) /\ ~c.obj[o].visible
  /\ LET s == ThenInform([Caller EXCEPT !.obj[o].visible = TRUE], o)
     IN  c' = IF s.frozen = 0 /\ ~s.obj[o].pass THEN Refeed(s, o) ELSE s

\* evas_object_hide: an object that has grabbed the pointer keeps it.
Hidden(s, o) ==
  IF ~s.obj[o].visible THEN s
  ELSE LET t == ThenInform([s EXCEPT !.obj[o].visible = FALSE], o)
       IN  IF t.frozen = 0 /\ ~t.obj[o].pass /\ t.obj[o].grabbed = 0 THEN Refeed(t, o) ELSE t

Hide(o) == MayCall /\ Alive(o) /\ c.obj[o].visible /\ c' = Hidden(Caller, o)

\* evas_object_pass_events_set
PassEvents(o) ==
  /\ MayCall /\ Usable(o)
  /\ c' = Refeed([Caller EXCEPT !.obj[o].pass = ~@], o)

\* Programs do not restack objects while one that keeps button events to itself
\* has grabbed the pointer: the list would have an object twice.
KeptOrder == \A o \in Objects : Mode(c, o) = "norepeat" => c.obj[o].grabbed = 0

\* evas_object_raise
Raise(o) ==
  /\ MayCall /\ Usable(o) /\ KeptOrder
  /\ LET s == Inform([Caller EXCEPT !.order = <<o>> \o RemoveFirst(@, o)], o)
     IN  c' = IF s.order # c.order /\ s.frozen = 0 /\ ~s.obj[o].pass /\ s.obj[o].visible
              THEN Refeed(s, o) ELSE s

\* evas_object_del: hidden first, then its callback is called, then it lets go
\* of the pointer; delete_me is set behind the callback that says it is freed.
Del(o) ==
  /\ MayCall /\ Usable(o)
  /\ c' = Hidden(Push(Caller, [Blank EXCEPT !.at = "del", !.cur = o]), o)

DelTells ==
  /\ At("del")
  /\ c' = Tell(Become(c, [Top(c) EXCEPT !.at = "deleted"]), Top(c).cur, "del")

\* The object at the top has let go of the pointer.
Parted(s, o) ==
  LET life == IF Marked(s, o) THEN s.obj[o].life ELSE "going"
      t == [Ungrab(s, o, s.obj[o].grabbed) EXCEPT !.obj[o].life = life, !.obj[o].in = FALSE]
  IN  Tell(Become(t, [Top(t) EXCEPT !.at = "freeing"]), o, "free")

\* Mutant: only an object the pointer is in is taken off the list.
LetGoStaysListed == At("deleted") /\ c' = Parted(c, Top(c).cur)

LetGo ==
  /\ At("deleted")
  /\ LET o == Top(c).cur
     IN  c' = Parted([c EXCEPT !.in = IF c.obj[o].in \/ c.obj[o].grabbed > 0 THEN RemoveFirst(@, o)
                                    ELSE @], o)

Deleted == At("freeing") /\ c' = Return([c EXCEPT !.obj[Top(c).cur].life = "deleted"])

\* A deleted object is freed by the renders that follow.
Free(o) ==
  /\ Idle /\ c.obj[o].life = "deleted"
  /\ c' = [c EXCEPT !.obj[o].life = "freed", !.order = RemoveFirst(@, o)]

Freeze == Idle /\ c.frozen = 0 /\ c' = [c EXCEPT !.frozen = 1]

\* evas_event_thaw and evas_event_thaw_eval, one after the other
Thaw == Idle /\ c.frozen > 0 /\ c' = FeedMove([c EXCEPT !.frozen = 0], c.x)

-----------------------------------------------------------------------------
\* A new object is what its kind says for good.
Fresh(k) == [visible |-> FALSE, pass |-> FALSE, in |-> FALSE, grabbed |-> 0, life |-> "alive",
             covers |-> k.covers, repeat |-> k.repeat, mode |-> k.mode]

Init ==
  \E kind \in Kinds :
    c = [obj |-> [o \in Objects |-> Fresh(kind[o])], order |-> SetToSeq(Objects), x |-> Blank.x,
         inside |-> FALSE, in |-> <<>>, grabbed |-> 0, nogrep |-> 0, downs |-> 0,
         frozen |-> 0, stack |-> <<>>, pressed |-> [o \in Objects |-> 0], bad |-> FALSE]

Feeds ==
  \/ \E x \in Points : MouseMove(x)
  \/ MouseIn \/ MouseOut \/ MouseDown \/ MouseUp

Steps ==
  \/ Drag \/ Dragged \/ DragDone \/ DragOut
  \/ Leave \/ LeaveDone \/ \E place \in {"enter", "in", "postin"} : Enter(place)
  \/ EnterDone \/ InDone \/ Out \/ Outed \/ OutDone
  \/ Down \/ DownDone \/ Up \/ Upped \/ UpDone
  \/ PostOut \/ PostOutDone \/ PostInDone
  \/ Informed \/ DelTells \/ LetGo \/ Deleted \/ CallbackReturns
  \/ (Done("dragout") /\ c' = Return(c))

Calls ==
  \E o \in Objects : Show(o) \/ Hide(o) \/ PassEvents(o) \/ Raise(o) \/ Del(o) \/ Free(o)

Next == Feeds \/ Steps \/ Calls \/ Freeze \/ Thaw

Spec == Init /\ [][Next]_vars

-----------------------------------------------------------------------------
\* Properties

FrameType ==
  [at : {"drag", "dragged", "dragout", "leave", "enter", "in", "out", "outed", "down", "up", "upped",
         "postout", "postin", "callback", "returning", "inform", "del", "deleted", "freeing"},
   rest : Seq(Objects), cur : Objects \union {NoObject}, ins : Seq(Objects), x : Points,
   moved : BOOLEAN, below : BOOLEAN, gone : SUBSET Objects]

ObjectType ==
  [visible : BOOLEAN, pass : BOOLEAN, in : BOOLEAN, grabbed : Nat,
   life : {"alive", "going", "deleted", "freed"},
   covers : SUBSET Points, repeat : BOOLEAN, mode : Modes]

CanvasType ==
  [obj : [Objects -> ObjectType], order : Seq(Objects), x : Points, inside : BOOLEAN,
   in : Seq(Objects), grabbed : Nat, nogrep : Nat, downs : Nat, frozen : {0, 1},
   stack : Seq(FrameType), pressed : [Objects -> Nat], bad : BOOLEAN]

\* Every field has its type; no count becomes negative, which evas_events.c
\* logs as a bug, and no object is twice in the list of the pointer.
TypeOK == c \in CanvasType /\ IsInjective(c.in) /\ IsInjective(c.order)

\* Between two calls of the program.
Rest == c.stack = <<>>

\* No freed object is looked at, and the pointer is in no deleted one between
\* two calls, so that rendering may free it. True of programs whose callbacks of
\* in, out and move call nothing (Busy).
NoUseAfterFree ==
  /\ ~c.bad
  /\ Rest => \A o \in Range(c.in) : c.obj[o].life = "alive"

\* No object keeps button events to itself.
AllRepeat == \A o \in Objects : Mode(c, o) # "norepeat"

\* With no button down the pointer is in the objects its position reaches, each
\* of which was told "in" and no other, whatever was shown, hidden, raised or
\* deleted while events were frozen or in callbacks: in those of down, up, del and
\* free. Callbacks of in that do so break it (Busy with "in"), and so do releases
\* that are fed while events are frozen (FrozenFeeds with "up").
HoverExact ==
  AllRepeat /\ Rest /\ c.frozen = 0 /\ c.downs = 0 =>
    /\ c.in = IF c.inside THEN EventList(c, c.x) ELSE <<>>
    /\ \A o \in Objects : c.obj[o].in <=> Contains(c.in, o)

\* The grabs of the objects, numbered.
Grabs == UNION {{o} \X (1 .. c.obj[o].grabbed) : o \in Objects}

\* What goes down comes up. The pointer counts the grabs of the objects, but for
\* those that a feed of mouse_out is just ending. Where no object keeps button
\* events to itself, an object that grabbed the pointer holds it until all
\* buttons are up: it has a grab for every button that is down, those that were
\* down before, too; and an object that was told of a button going down is told
\* that it went up, or that the pointer is gone.
PressesPaired ==
  /\ (\A f \in Range(c.stack) : f.at \notin {"out", "outed"}) => c.grabbed = Cardinality(Grabs)
  /\ AllRepeat /\ Rest =>
       \A o \in Objects : /\ c.obj[o].grabbed \in {0, c.downs}
                          /\ c.downs = 0 /\ Alive(o) => c.pressed[o] = 0

\* "No mouse out events will be reported if the mouse pointer is implicitly
\* grabbed to an object" (Evas.h), unless it leaves the canvas.
HolderKeepsPointer ==
  [][\A o \in Objects :
       c.obj[o].in /\ ~c'.obj[o].in /\ c'.obj[o].life = "alive" /\ ~At("out") =>
         c.obj[o].grabbed = 0]_vars
=============================================================================
