----------------------------- MODULE EvasRender -----------------------------
(***************************************************************************)
(* How a canvas comes to its picture: objects clip one another             *)
(* (evas_clip.c) and cache what their clippers leave of them               *)
(* (evas_inline.x), every change of an object is noted                     *)
(* (evas_object_main.c), and evas_render (evas_render.c) works out of the  *)
(* notes, of lists it keeps from the render before and of what an object   *)
(* was then (`prev') which parts of the output it must draw again.         *)
(*                                                                         *)
(* The objects are rectangles in one layer, without maps, proxies, masks   *)
(* and smart parents. A rectangle is the set of the cells it covers.       *)
(***************************************************************************)
EXTENDS Integers, FiniteSets, SequencesExt

CONSTANTS
  Objects,      \* the rectangles of the canvas
  NoObject,     \* NULL
  Cells,        \* the cells rectangles may cover
  Output,       \* the cells of the output
  Exposed,      \* bound: the damages programs report
  Programs      \* bound: the kinds of programs, records of what a program does

\* What a kind of program does: the objects it has, those whose alpha is below
\* 255, the areas it gives them, its calls between two renders, whether it raises
\* objects, flushes the canvas before it renders (evas_render_idle_flush), freezes
\* events, hides clippers or takes them off the output, clips to objects that were
\* drawn, and renders while events are frozen.
ProgramKinds ==
  [objects : SUBSET Objects, translucent : SUBSET Objects, areas : SUBSET SUBSET Cells,
   calls : Nat, raises : BOOLEAN, flushes : BOOLEAN, freezes : BOOLEAN, hidesClips : BOOLEAN,
   clipsDrawn : BOOLEAN, rendersFrozen : BOOLEAN]

ASSUME RenderAssumption ==
  /\ NoObject \notin Objects
  /\ IsFiniteSet(Cells)
  /\ Output \subseteq Cells
  /\ Exposed \subseteq SUBSET Output
  /\ \A p \in Programs : p \in ProgramKinds /\ p.objects # {}

VARIABLES
  program, \* the kind of program that runs
  scene,   \* what programs set, and the caches, flags and lists kept of it
  screen,  \* what is drawn in each cell of the output, the topmost last
  calls    \* the calls of the program since the last render

vars == <<program, scene, screen, calls>>

Clipees(s, o) == {x \in Objects : s.clipper[x] = o}

\* An object as render_post copies it to `prev'.
Snapshot(s, o) ==
  [visible |-> s.visible[o], area |-> s.area[o], clipper |-> s.clipper[o],
   cache |-> s.cache[o], haveClipees |-> Clipees(s, o) # {}]

(***************************************************************************)
(* evas_inline.x                                                           *)
(***************************************************************************)
\* Mutant: the cache of the clipper is taken as it is, dirty or not.
FreshFromStale(s) ==
  [o \in Objects |->
     LET k == s.clipper[o]
     IN  [area |-> IF k = NoObject THEN s.area[o] ELSE s.area[o] \cap s.cache[k].area,
          visible |-> s.visible[o] /\ s.area[o] # {} /\ (k # NoObject => s.cache[k].visible),
          opaque |-> o \notin program.translucent]]

\* The clip caches of the objects as evas_object_clip_recalc works them out,
\* from the cache of the clipper unless that is dirty, too.
Fresh(s) ==
  LET own(o) == [area |-> s.area[o], visible |-> s.visible[o],
                 opaque |-> o \notin program.translucent]
      cut(own_, by) == [area |-> own_.area \cap by.area,
                        visible |-> own_.visible /\ by.visible,
                        opaque |-> own_.opaque /\ by.opaque]
      clip[o \in Objects] ==
        LET k == s.clipper[o]
            c == IF k = NoObject THEN own(o)
                 ELSE cut(own(o), IF k \in s.dirty THEN clip[k] ELSE s.cache[k])
        IN  [c EXCEPT !.visible = @ /\ c.area # {}]
  IN  clip

DirtyAbove(s, o) ==
  LET up[x \in Objects] ==
        IF s.clipper[x] \in s.dirty THEN {x} \cup up[s.clipper[x]] ELSE {x}
  IN  up[o]

DirtyBelow(s, o) ==
  LET down[x \in Objects] ==
        IF x \in s.dirty THEN {x} \cup UNION {down[y] : y \in Clipees(s, x)} ELSE {}
  IN  down[o]

Recached(s, S) ==
  IF s.frozen THEN s
  ELSE LET f == Fresh(s)
       IN  [s EXCEPT !.cache = [x \in Objects |-> IF x \in S THEN f[x] ELSE s.cache[x]],
                     !.dirty = @ \ S]

ClipRecalc(s, o) ==
  LET k == s.clipper[o]
  IN  IF o \notin s.dirty /\ k # NoObject /\ k \notin s.dirty THEN s
      ELSE Recached(s, DirtyAbove(s, o))

RecalcClippees(s, o) ==
  IF o \in s.dirty THEN Recached(s, DirtyAbove(s, o) \cup DirtyBelow(s, o)) ELSE s

IsVisible(s, o) == s.visible[o] /\ s.cache[o].visible
WasVisible(s, o) == s.prev[o].visible /\ s.prev[o].cache.visible
IsOpaque(s, o) == s.cache[o].opaque
OnOutput(cache) == cache.area \cap Output # {}

IsActive(s, o) ==
  /\ IsVisible(s, o) \/ WasVisible(s, o)
  /\ OnOutput(s.cache[o]) \/ OnOutput(s.prev[o].cache)

(***************************************************************************)
(* evas_clip.c and evas_object_main.c                                      *)
(***************************************************************************)
ClipDirty(s, o) ==
  LET down[x \in Objects] ==
        IF x \in s.dirty THEN {} ELSE {x} \cup UNION {down[y] : y \in Clipees(s, x)}
  IN  [s EXCEPT !.dirty = @ \cup down[o]]

\* Mutant: what the object clips is not marked with it.
ChangeAlone(s, o) ==
  IF o \in s.changed THEN [s EXCEPT !.canvasChanged = TRUE]
  ELSE [s EXCEPT !.canvasChanged = TRUE, !.changed = @ \cup {o}, !.pending = @ \cup {o}]

\* evas_object_change: what the object clips changes with it, unless the
\* object was marked as changed before.
Change(s, o) ==
  LET down[x \in Objects] ==
        IF x \in s.changed THEN {} ELSE {x} \cup UNION {down[y] : y \in Clipees(s, x)}
      marked == {x \in down[o] : s.deleteMe[x] < 2}
  IN  [s EXCEPT !.canvasChanged = TRUE,
                !.changed = @ \cup marked, !.pending = @ \cup marked]

Damage(s, cells) ==
  [s EXCEPT !.damages = @ \cup cells, !.canvasChanged = TRUE]

Invalidate(s) ==
  [s EXCEPT !.active = <<>>, !.render = <<>>, !.restackList = <<>>,
            !.deleteList = <<>>, !.invalidate = TRUE]

Unclip(s, o) ==
  LET k == s.clipper[o]
      u == [s EXCEPT !.clipper[o] = NoObject]
      d == IF Clipees(u, k) = {} /\ s.visible[k] THEN Damage(u, s.area[k]) ELSE u
  IN  Change(Change(d, k), o)

\* What follows every change of what an object covers.
Refresh(s, o) == RecalcClippees(ClipDirty(Change(s, o), o), o)

ClipUnset(s, o) ==
  IF s.clipper[o] = NoObject THEN s
  ELSE LET u == Unclip(s, o) IN RecalcClippees(ClipDirty(u, o), o)

ClipSet(s, o, k) ==
  LET u == IF s.clipper[o] = NoObject THEN s ELSE Unclip(s, o)
      b == IF Clipees(u, k) = {} /\ u.visible[k]
             THEN Damage([u EXCEPT !.changed = @ \cup {k}], u.area[k])
             ELSE u
  IN  Refresh(Change([b EXCEPT !.clipper[o] = k], k), o)

\* evas_object_hide
Hide(s, o) == IF s.visible[o] THEN Refresh([s EXCEPT !.visible[o] = FALSE], o) ELSE s

\* evas_object_del
Delete(s, o) ==
  LET u == ClipUnset(FoldSet(LAMBDA x, r : ClipUnset(r, x), Hide(s, o), Clipees(s, o)), o)
  IN  Change([u EXCEPT !.deleteMe[o] = 1], o)

\* evas_object_raise: raising an object that clips others changes no picture.
Raise(s, o) ==
  LET r == [s EXCEPT !.stack = Append(SelectSeq(@, LAMBDA x : x # o), o)]
  IN  IF Last(s.stack) = o THEN s
      ELSE IF Clipees(s, o) # {} THEN r
      ELSE Change([Invalidate(r) EXCEPT !.restack = @ \cup {o}], o)

\* evas_event_thaw: what is dirty is cached again.
Thaw(s) == FoldLeft(ClipRecalc, [s EXCEPT !.frozen = FALSE], s.stack)

(***************************************************************************)
(* evas_render.c.  evas_call_smarts_calculate freezes and thaws events, so *)
(* that no cache is dirty after it unless the program freezes them, too.   *)
(***************************************************************************)
Calculated(s) == IF s.frozen THEN s ELSE Thaw(s)

HadNoClipees(s, o) == WasVisible(s, o) /\ ~s.prev[o].haveClipees

PendingOk(s, o) ==
  LET active == IsActive(s, o)
      listed == o \in s.renderPre \/ o \in s.rectDel
      drawn  == Clipees(s, o) = {} /\ (IsVisible(s, o) \/ HadNoClipees(s, o))
  IN  \/ ~active /\ o \notin s.isActive /\ ~listed
      \/ /\ (o \in s.isActive) = active
         /\ IF o \in s.changed
              THEN active /\ drawn /\ listed = (o \notin s.restack)
              ELSE /\ Clipees(s, o) = {} /\ s.deleteMe[o] = 0
                   /\ IsOpaque(s, o) /\ IsVisible(s, o) /\ o \in s.rectDel

CheckPending(s) ==
  IF ~s.invalidate /\ \E o \in s.pending : ~PendingOk(s, o) THEN Invalidate(s) ELSE s

Process(s, o) ==
  LET active  == IsActive(s, o)
      deleted == s.deleteMe[o] # 0
      draws   == /\ Clipees(s, o) = {}
                 /\ IF o \in s.changed
                      THEN active /\ (IsVisible(s, o) \/ HadNoClipees(s, o))
                      ELSE ~deleted /\ IsVisible(s, o)
      again   == draws /\ o \in s.changed /\ o \in s.restack
      whole   == draws /\ o \notin s.changed /\ IsOpaque(s, o)
      If(b, list) == IF b THEN Append(list, o) ELSE list
      In(b, set)  == IF b THEN set \cup {o} ELSE set \ {o}
  IN  [s EXCEPT !.deleteList = If(s.deleteMe[o] = 2, @),
                !.deleteMe[o] = IF @ = 1 THEN 2 ELSE @,
                !.cleanThem = @ \/ deleted,
                !.isActive = In(active, @),
                !.active = If(active \/ deleted, @),
                !.restackList = If(again, @),
                !.render = If(draws /\ ~again, @),
                !.rectDel = In(whole, @),
                !.renderPre = In(draws /\ ~again /\ ~whole, @),
                !.restack = IF active THEN @ ELSE @ \ {o}]

Phase1(s) ==
  IF s.invalidate \/ s.render = <<>> THEN FoldLeft(Process, s, s.stack) ELSE s

\* evas_object_render_pre_clipper_change
ClipperChange(s, o) ==
  LET k == s.clipper[o]
      p == s.prev[o].clipper
  IN  CASE k = p -> {}
        [] k # p /\ k # NoObject /\ p # NoObject ->
             SymDiff(s.cache[k].area, s.prev[p].cache.area)
        [] k # p /\ p = NoObject -> SymDiff(s.area[o], s.cache[k].area)
        [] k # p /\ k = NoObject -> SymDiff(s.prev[o].area, s.prev[p].cache.area)

Both(s, o) == s.cache[o].area \cup s.prev[o].cache.area

\* What evas_object_rectangle_render_pre finds changed.
Changes(s, o) ==
  CASE IsVisible(s, o) /\ ~WasVisible(s, o) -> s.cache[o].area
    [] ~IsVisible(s, o) /\ WasVisible(s, o) -> s.prev[o].cache.area
    [] ~IsVisible(s, o) /\ ~WasVisible(s, o) -> {}
    [] IsVisible(s, o) /\ WasVisible(s, o) ->
         ClipperChange(s, o) \cup
           IF o \in s.restack /\ Clipees(s, o) = {} THEN Both(s, o)
           ELSE SymDiff(s.area[o], s.prev[o].area)

Clippers(s, o) ==
  LET up[x \in Objects] ==
        IF s.clipper[x] = NoObject THEN {} ELSE {s.clipper[x]} \cup up[s.clipper[x]]
  IN  up[o]

\* evas_object_render_pre_effect_updates
EffectUpdates(s, o) ==
  LET rects == Changes(s, o)
      above == IF IsVisible(s, o) THEN UNION {s.clipChanges[k] : k \in Clippers(s, o)} ELSE {}
  IN  IF Clipees(s, o) # {} THEN [s EXCEPT !.clipChanges[o] = rects]
      ELSE [s EXCEPT !.redraw = @ \cup ((rects \cup above) \cap Both(s, o))]

RenderPre(s, o) ==
  LET pre[x \in Objects] ==
        IF x \in s.preRenderDone THEN s
        ELSE LET k == s.clipper[x]
                 t == IF k = NoObject THEN s ELSE pre[k]
             IN  EffectUpdates([t EXCEPT !.preRenderDone = @ \cup {x}], x)
  IN  pre[o]

ClipCacheDel(s, o) ==
  LET k == s.clipper[o]
  IN  [s EXCEPT !.redraw = @ \ IF k = NoObject THEN s.cache[o].area
                               ELSE s.cache[o].area \cap s.cache[k].area]

Direct(s) ==
  LET one(r, o) ==
        IF o \in r.changed THEN RenderPre(r, o)
        ELSE IF o \in r.rectDel \/ (IsOpaque(r, o) /\ IsVisible(r, o)) THEN ClipCacheDel(r, o)
        ELSE r
  IN  FoldLeft(one, s, s.render)

Restacks(s) ==
  LET one(r, o) == [RenderPre(r, o) EXCEPT !.redraw = @ \cup Both(r, o)]
  IN  [FoldLeft(one, s, s.restackList) EXCEPT !.restackList = <<>>]

Exposes(s) == [s EXCEPT !.redraw = (@ \cup s.damages) \cap Output, !.damages = {}]

\* What phase 6 draws in a cell: an opaque object cuts out what is below it.
Drawn(s, cell) ==
  LET inCell == SelectSeq(s.active, LAMBDA o :
                  /\ cell \in s.cache[o].area /\ s.cache[o].visible
                  /\ Clipees(s, o) = {} /\ s.visible[o] /\ s.deleteMe[o] = 0)
      covers == {i \in DOMAIN inCell : IsOpaque(s, inCell[i])}
      lowest == IF covers = {} THEN 1 ELSE Max(covers)
  IN  SelectSeq(SubSeq(inCell, lowest, Len(inCell)), LAMBDA o : cell \in s.area[o])

Post(s) ==
  LET done == {o \in Range(s.active) : o \in s.changed \/ s.cleanThem}
  IN  [s EXCEPT !.prev = [o \in Objects |-> IF o \in done THEN Snapshot(s, o) ELSE s.prev[o]],
                !.clipChanges = [o \in Objects |-> IF o \in done THEN {} ELSE s.clipChanges[o]],
                !.restack = @ \ done,
                !.changed = @ \ done,
                !.preRenderDone = @ \ Range(s.active)]

\* pending_change, and the flag of the objects of the render list.
PendingChange(s) ==
  LET kept  == {o \in s.pending : s.deleteMe[o] = 0}
      reset == kept \cap s.preRenderDone
  IN  [s EXCEPT !.changed = @ \ reset,
                !.pending = (kept \ reset) \cap s.changed,
                !.preRenderDone = (@ \ reset) \ Range(s.render)]

\* Mutant: a freed object stays in the list of its layer.
FreeDeletedListed(s) ==
  [s EXCEPT !.deleteMe = [o \in Objects |-> IF o \in Range(s.deleteList) THEN 3 ELSE s.deleteMe[o]],
            !.deleteList = <<>>]

FreeDeleted(s) ==
  LET freed == Range(s.deleteList)
  IN  [s EXCEPT !.deleteMe = [o \in Objects |-> IF o \in freed THEN 3 ELSE s.deleteMe[o]],
                !.stack = SelectSeq(@, LAMBDA o : o \notin freed),
                !.deleteList = <<>>]

RenderEnd(s) ==
  LET e == [s EXCEPT !.canvasChanged = FALSE, !.invalidate = s.cleanThem,
                     !.cleanThem = FALSE, !.redraw = {}]
  IN  IF s.cleanThem THEN [e EXCEPT !.active = <<>>, !.render = <<>>] ELSE e

(***************************************************************************)
(* The program                                                             *)
(***************************************************************************)
Init ==
  /\ program \in Programs
  /\ \E order \in SetToSeqs(program.objects) :
       LET all(v) == [o \in Objects |-> v]
           own(o) == [area |-> {}, visible |-> FALSE, opaque |-> o \notin program.translucent]
       IN  scene =
             [visible |-> all(FALSE), area |-> all({}), clipper |-> all(NoObject),
              stack |-> order, deleteMe |-> [o \in Objects |-> IF o \in program.objects THEN 0 ELSE 3],
              cache |-> [o \in Objects |-> own(o)], dirty |-> {},
              prev |-> [o \in Objects |-> [visible |-> FALSE, area |-> {}, clipper |-> NoObject,
                                           cache |-> own(o), haveClipees |-> FALSE]],
              changed |-> {}, pending |-> {}, restack |-> {}, isActive |-> {},
              renderPre |-> {}, rectDel |-> {}, preRenderDone |-> {},
              clipChanges |-> all({}), damages |-> {}, redraw |-> {},
              active |-> <<>>, render |-> <<>>, restackList |-> <<>>, deleteList |-> <<>>,
              invalidate |-> FALSE, cleanThem |-> FALSE, canvasChanged |-> FALSE,
              frozen |-> FALSE]
  /\ screen = [cell \in Output |-> <<>>]
  /\ calls = 0

Live(o) == scene.deleteMe[o] = 0

\* The clipper leaves something of the output to what it clips.
ClipsOnOutput(s, k) ==
  \E cell \in Output : \A x \in {k} \cup Clippers(s, k) : s.visible[x] /\ cell \in s.area[x]

Call(s) ==
  /\ calls < program.calls
  /\ ~program.hidesClips => \A k \in Objects : Clipees(s, k) # {} => ClipsOnOutput(s, k)
  /\ calls' = calls + 1
  /\ scene' = s
  /\ UNCHANGED <<program, screen>>

Show(o) ==
  /\ Live(o) /\ ~scene.visible[o]
  /\ Call(Refresh([scene EXCEPT !.visible[o] = TRUE], o))

HideObject(o) == Live(o) /\ scene.visible[o] /\ Call(Hide(scene, o))

\* evas_object_move and evas_object_resize
Place(o) ==
  \E a \in program.areas \ {scene.area[o]} :
    Live(o) /\ Call(Refresh([scene EXCEPT !.area[o] = a], o))

\* A program makes no circle of clippers.
SetClip(o, k) ==
  /\ Live(o) /\ Live(k) /\ scene.clipper[o] # k
  /\ o # k /\ o \notin Clippers(scene, k)
  /\ ~program.clipsDrawn /\ Clipees(scene, k) = {} =>
       ~HadNoClipees(scene, k) /\ (k \in scene.changed \/ ~scene.visible[k])
  /\ Call(ClipSet(scene, o, k))

UnsetClip(o) == Live(o) /\ scene.clipper[o] # NoObject /\ Call(ClipUnset(scene, o))

RaiseObject(o) == program.raises /\ Live(o) /\ Last(scene.stack) # o /\ Call(Raise(scene, o))

Del(o) == Live(o) /\ Call(Delete(scene, o))

Expose(cells) == Call(Damage(scene, cells))

Freeze ==
  /\ program.freezes /\ ~scene.frozen
  /\ scene' = [scene EXCEPT !.frozen = TRUE]
  /\ UNCHANGED <<program, screen, calls>>

ThawEvents ==
  /\ scene.frozen
  /\ scene' = Thaw(scene)
  /\ UNCHANGED <<program, screen, calls>>

\* evas_render_idle_flush
IdleFlush ==
  /\ ~scene.invalidate
  /\ scene' = Invalidate(scene)
  /\ UNCHANGED <<program, screen, calls>>

Render ==
  /\ scene.canvasChanged
  /\ program.flushes => scene.invalidate
  /\ ~program.rendersFrozen => ~scene.frozen
  /\ LET s == Exposes(Restacks(Direct(Phase1(CheckPending(Calculated(scene))))))
     IN  /\ screen' = [c \in Output |-> IF c \in s.redraw THEN Drawn(s, c) ELSE screen[c]]
         /\ scene' = RenderEnd(FreeDeleted(PendingChange(Post(s))))
  /\ calls' = 0
  /\ UNCHANGED program

Next ==
  \/ \E o \in Objects :
       \/ Show(o) \/ HideObject(o) \/ Place(o) \/ UnsetClip(o) \/ RaiseObject(o) \/ Del(o)
       \/ \E k \in Objects : SetClip(o, k)
  \/ \E cells \in Exposed : Expose(cells)
  \/ Freeze \/ ThawEvents \/ IdleFlush \/ Render

Spec == Init /\ [][Next]_vars

(***************************************************************************)
(* What holds                                                              *)
(***************************************************************************)
\* The types; the list of the layer holds each object once and no freed one.
TypeOK ==
  /\ program \in Programs
  /\ scene.visible \in [Objects -> BOOLEAN]
  /\ scene.area \in [Objects -> SUBSET Cells]
  /\ scene.clipper \in [Objects -> Objects \cup {NoObject}]
  /\ scene.deleteMe \in [Objects -> 0 .. 3]
  /\ Len(scene.stack) = Cardinality(Range(scene.stack))
  /\ Range(scene.stack) = {o \in Objects : scene.deleteMe[o] # 3}
  /\ UNION {scene.dirty, scene.changed, scene.pending, scene.restack} \subseteq Objects
  /\ screen \in [Output -> Seq(Objects)]
  /\ calls \in 0 .. program.calls

\* What a canvas that drew everything anew would show.
Picture(s, cell) ==
  LET chain(o)   == {o} \cup Clippers(s, o)
      shown      == SelectSeq(s.stack, LAMBDA o :
                      /\ Clipees(s, o) = {}
                      /\ \A k \in chain(o) : s.visible[k] /\ cell \in s.area[k])
      covers     == {i \in DOMAIN shown : chain(shown[i]) \cap program.translucent = {}}
  IN  SubSeq(shown, IF covers = {} THEN 1 ELSE Max(covers), Len(shown))

\* evas_render brings the output up to date: when nothing has changed since,
\* each cell shows what it would show had everything been drawn anew, though
\* only the parts the notes and the lists of earlier renders point at were.
RenderedIsCurrent ==
  ~scene.canvasChanged => \A c \in Output : screen[c] = Picture(scene, c)

\* What a dirty object clips is dirty too: evas_object_clip_dirty stops at an
\* object that is dirty already and relies on it. And a clip cache that is not
\* dirty is the intersection with all the clippers, although it is worked out
\* from the cache of the nearest one.
CleanIsExact ==
  /\ \A o \in Objects : scene.clipper[o] \in scene.dirty => o \in scene.dirty
  /\ \A o \in program.objects \ scene.dirty :
       scene.clipper[o] # NoObject =>
         scene.cache[o].area =
           {c \in scene.area[o] : \A k \in Clippers(scene, o) : c \in scene.area[k]}

\* The lists that outlive a render and the notes of changes hold no object that
\* was freed (evas_object_free takes an object off none of them), and none that
\* is drawn twice over in one render.
ListsSound ==
  /\ \A o \in UNION {Range(scene.active), Range(scene.render), scene.pending,
                     Range(scene.deleteList)} :
       scene.deleteMe[o] # 3
  /\ Len(scene.active) = Cardinality(Range(scene.active))

\* An object whose mark stops evas_object_change is among the pending objects,
\* so that a render looks at it; and the mark that keeps an object from being
\* prepared twice in one render does not outlive the render, not even that of a
\* clipper which no list holds.
MarksSound ==
  /\ \A o \in scene.changed : scene.deleteMe[o] = 0 => o \in scene.pending
  /\ scene.preRenderDone = {}

\* All that a render leaves for the next: the clip caches, the lists of objects
\* and the marks on them.
KeptStateSound == CleanIsExact /\ ListsSound /\ MarksSound
=============================================================================
