------------------------------ MODULE EvasTiler ------------------------------
(***************************************************************************)
(* What has to be drawn anew (lib/engines/common/evas_tiler.c): a list of  *)
(* rectangles, to which a render adds what changed and from which it       *)
(* deletes what is obscured, and which it asks at the end for the          *)
(* rectangles to draw. The list is kept short: rectangles that nearly fill *)
(* their bounding box become that box, others are split where they         *)
(* overlap. The calls are those of evas_render through the buffer engine   *)
(* (modules/engines/buffer/evas_engine.c), which with two buffers also     *)
(* draws what the frame before drew into the other one.                    *)
(*                                                                         *)
(* An iteration of a loop over the list is an action. A pointer into the   *)
(* list is an index, NULL is 0.                                            *)
(***************************************************************************)
EXTENDS Integers, SequencesExt

CONSTANTS
  Width, Height,   \* outbuf_w, outbuf_h
  Environments     \* what varies: see EnvironmentType

\* error: FUZZ * FUZZ, the area drawn in vain that is accepted. maxReg: MAXREG.
\* buffered: the application gave a function that switches two buffers. inputs:
\* what is added and deleted; calls: how often in a frame.
EnvironmentType(e) ==
  /\ e.error \in Nat /\ e.maxReg \in Nat /\ e.buffered \in BOOLEAN /\ e.calls \in Nat
  /\ e.inputs \subseteq [x : Int, y : Int, w : Int, h : Int]

ASSUME SizeAssumption == Width \in Nat \ {0} /\ Height \in Nat \ {0}
ASSUME EnvironmentAssumption == \A e \in Environments : EnvironmentType(e)

VARIABLES
  rects,        \* tb->rects
  prevAdd,      \* tb->prev_add, the last rectangle added
  prevDel,      \* tb->prev_del, the last one deleted
  needMerge,    \* tb->need_merge
  mode,         \* the loop that runs
  cur,          \* the rectangle it adds or deletes: `r', `del_r'
  at,           \* where it is in the list: cur_node
  oldLast,      \* the last rectangle that was in the list before: old_last
  dirty,        \* the rectangles still to add: `dirty', `modified', `to_merge'
  pc,           \* where the render is
  previous,     \* re->previous_rects
  todo,         \* those of them still to be added
  firstFrame,   \* re->ob->first_frame
  changed,      \* e->output.changed
  calls,        \* how many calls this frame has made
  back, shown,  \* the buffer that is drawn next, the one drawn last
  wanted,       \* the pixels added and not deleted since
  stale,        \* the pixels of each buffer that do not show the canvas
  env           \* one of Environments

tilebuf == <<rects, prevAdd, prevDel, needMerge>>
loop    == <<mode, cur, at, oldLast, dirty>>
frame   == <<pc, previous, todo, firstFrame, changed, calls, back, shown, stale, env>>
vars    == <<tilebuf, loop, frame, wanted>>

-----------------------------------------------------------------------------
\* Rectangles

Lower(a, b)  == IF a < b THEN a ELSE b
Higher(a, b) == IF a < b THEN b ELSE a

\* rect_init
Rect(x, y, w, h) ==
  [left |-> x, top |-> y, right |-> x + w, bottom |-> y + h,
   width |-> w, height |-> h, area |-> w * h]

Nothing == Rect(0, 0, 0, 0)

\* _calc_intra_rect_area: not positive when they do not overlap.
IntraWidth(a, b)  == Lower(a.right, b.right) - Higher(a.left, b.left)
IntraHeight(a, b) == Lower(a.bottom, b.bottom) - Higher(a.top, b.top)
Overlap(a, b)     == IntraWidth(a, b) > 0 /\ IntraHeight(a, b) > 0
IntraArea(a, b)   == IF Overlap(a, b) THEN IntraWidth(a, b) * IntraHeight(a, b) ELSE 0

\* a is inside b.
Inside(a, b) == IntraWidth(a, b) = a.width /\ IntraHeight(a, b) = a.height

\* _calc_outer_rect_area
Outer(a, b) ==
  LET l == Lower(a.left, b.left)
      t == Lower(a.top, b.top)
  IN  Rect(l, t, Higher(a.right, b.right) - l, Higher(a.bottom, b.bottom) - t)

When(p, r) == IF p THEN <<r>> ELSE <<>>

\* The parts of b above and below a, and what is left of b between them. Only
\* the top and the height of b are brought up to date.
Caps(a, b) ==
  When(a.top > b.top, Rect(b.left, b.top, b.width, a.top - b.top))
    \o When(b.bottom > a.bottom, Rect(b.left, a.bottom, b.width, b.bottom - a.bottom))
MidTop(a, b)    == Higher(a.top, b.top)
MidHeight(a, b) == b.height - Higher(a.top - b.top, 0) - Higher(b.bottom - a.bottom, 0)

\* The parts of what is left to the left and to the right of a.
Flanks(a, b) ==
  When(a.left > b.left, Rect(b.left, MidTop(a, b), a.left - b.left, MidHeight(a, b)))
    \o When(b.right > a.right, Rect(a.right, MidTop(a, b), b.right - a.right, MidHeight(a, b)))

\* Mutant of SplitStrict: the right part is forgotten.
SplitStrictLeftOnly(a, b) ==
  Caps(a, b) \o When(a.left > b.left, Rect(b.left, MidTop(a, b), a.left - b.left, MidHeight(a, b)))

\* _split_strict: b without a.
SplitStrict(a, b) == Caps(a, b) \o Flanks(a, b)

\* RECTS_CLIP_TO_RECT(x, y, w, h, 0, 0, tb->outbuf_w, tb->outbuf_h)
Clip(r) ==
  LET l == Higher(r.x, 0)
      t == Higher(r.y, 0)
      w == Lower(r.x + r.w, Width) - l
      h == Lower(r.y + r.h, Height) - t
  IN  IF r.w > 0 /\ r.h > 0 /\ w > 0 /\ h > 0
      THEN [x |-> l, y |-> t, w |-> w, h |-> h]
      ELSE [x |-> r.x, y |-> r.y, w |-> 0, h |-> 0]

Empty(r) == r.w <= 0 \/ r.h <= 0

\* A rectangle as the calls give it.
Whole      == [x |-> 0, y |-> 0, w |-> Width, h |-> Height]
Unset      == [x |-> 0, y |-> 0, w |-> 0, h |-> 0]
AsRect(r)  == Rect(r.x, r.y, r.w, r.h)
AsInput(r) == [x |-> r.left, y |-> r.top, w |-> r.width, h |-> r.height]

\* The pixels of a rectangle, and of a set of them.
Pixels     == (0 .. Width - 1) \X (0 .. Height - 1)
In(p, r)   == /\ r.left <= p[1] /\ p[1] < r.left + r.width
              /\ r.top <= p[2] /\ p[2] < r.top + r.height
Cells(r)   == {p \in Pixels : In(p, r)}
Covered(S) == {p \in Pixels : \E r \in S : In(p, r)}
CoveredIn(s) == Covered({AsRect(r) : r \in Range(s)})

-----------------------------------------------------------------------------
Init ==
  /\ rects = <<>> /\ prevAdd = Unset /\ prevDel = Unset /\ needMerge = FALSE
  /\ mode = "idle" /\ cur = Nothing /\ at = 0 /\ oldLast = 0 /\ dirty = <<>>
  /\ pc = "render" /\ previous = <<>> /\ todo = <<>> /\ firstFrame = TRUE
  /\ changed = TRUE /\ calls = 0 /\ back = 1 /\ shown = 2
  /\ wanted = {} /\ stale = [b \in {1, 2} |-> {}]
  /\ env \in Environments

Idle == mode = "idle"

EndCall == mode' = "idle" /\ cur' = Nothing /\ at' = 0 /\ oldLast' = 0 /\ dirty' = <<>>

-----------------------------------------------------------------------------
\* evas_common_tilebuf_add_redraw

\* "Optimize a common case -> adding the exact same rect 2x in a row".
AddStart(r) ==
  LET c == Clip(r)
  IN  /\ wanted' = wanted \union Cells(AsRect(c))
      /\ \/ /\ Empty(c) \/ c = prevAdd
            /\ UNCHANGED <<tilebuf, loop>>
         \/ /\ ~Empty(c) /\ c # prevAdd
            /\ prevAdd' = c /\ prevDel' = [prevDel EXCEPT !.w = 0, !.h = 0]
            /\ UNCHANGED needMerge
            /\ IF rects = <<>>
               THEN rects' = <<AsRect(c)>> /\ UNCHANGED loop
               ELSE /\ mode' = "next" /\ dirty' = <<AsRect(c)>> /\ oldLast' = Len(rects)
                    /\ UNCHANGED <<rects, cur, at>>

\* rect_list_add_split_fuzzy: the next dirty rectangle, ...
TakeDirty ==
  /\ mode = "next" /\ dirty # <<>>
  /\ mode' = "scan" /\ cur' = Head(dirty) /\ dirty' = Tail(dirty) /\ at' = 1
  /\ UNCHANGED <<tilebuf, oldLast, frame, wanted>>

\* ... is compared with those of the list, ...
Scans == mode = "scan" /\ at \in DOMAIN rects

\* (no more of it has to be added)
DropCur == mode' = "next" /\ cur' = Nothing /\ at' = 0

\* (cur_node leaves the list, and old_last steps back if it is cur_node)
Unlink ==
  /\ rects' = RemoveAt(rects, at)
  /\ oldLast' = IF at <= oldLast THEN oldLast - 1 ELSE oldLast

ScanInside ==
  /\ Scans /\ Inside(cur, rects[at])
  /\ DropCur
  /\ UNCHANGED <<tilebuf, oldLast, dirty, frame, wanted>>

ScanSwallows ==
  /\ Scans /\ ~Inside(cur, rects[at]) /\ Inside(rects[at], cur)
  /\ Unlink
  /\ UNCHANGED <<prevAdd, prevDel, needMerge, mode, cur, at, dirty, frame, wanted>>

\* The pixels that the bounding box has too many.
Excess(a, b) == Outer(a, b).area - (b.area + a.area - IntraArea(a, b))
Apart        == Scans /\ ~Inside(cur, rects[at]) /\ ~Inside(rects[at], cur)

ScanMerges ==
  /\ Apart /\ Excess(cur, rects[at]) <= env.error
  /\ Unlink
  /\ dirty' = Append(dirty, Outer(cur, rects[at]))
  /\ DropCur
  /\ UNCHANGED <<prevAdd, prevDel, needMerge, frame, wanted>>

\* They overlap so little that it does not matter.
ScanPasses ==
  /\ Apart /\ Excess(cur, rects[at]) > env.error
  /\ IntraArea(cur, rects[at]) <= env.error
  /\ at' = at + 1
  /\ UNCHANGED <<tilebuf, mode, cur, oldLast, dirty, frame, wanted>>

Splits == /\ Apart /\ Excess(cur, rects[at]) > env.error
          /\ IntraArea(cur, rects[at]) > env.error

\* _split_fuzzy: SPLIT_FUZZY_ACTION_MERGE, _SPLIT or _NONE.
Beside(a, b) == a.left > b.left \/ b.right > a.right
Widens       == Beside(rects[at], cur) /\ rects[at].height = MidHeight(rects[at], cur)

\* Mutant of Widened: the box begins where the rectangle of the list did.
WidenedRightOnly(a, b) ==
  [a EXCEPT !.width = Outer(b, a).width, !.right = Outer(b, a).right,
            !.area = Outer(b, a).width * MidHeight(a, b)]

\* What is left of b is as high as a: a becomes as wide as both.
Widened(a, b) ==
  [a EXCEPT !.left = Outer(b, a).left, !.width = Outer(b, a).width,
            !.right = Outer(b, a).right, !.area = Outer(b, a).width * MidHeight(a, b)]

SplitWidens ==
  /\ Splits /\ Widens
  /\ Unlink
  /\ dirty' = Append(dirty \o Caps(rects[at], cur), Widened(rects[at], cur))
  /\ DropCur
  /\ UNCHANGED <<prevAdd, prevDel, needMerge, frame, wanted>>

\* "This rect check was totally useless, should never happen".
SplitInto ==
  /\ Splits /\ ~Widens
  /\ LET parts == SplitStrict(rects[at], cur)
     IN  /\ dirty' = dirty \o parts
         /\ mode' = IF parts = <<>> THEN "abort" ELSE "next"
  /\ cur' = Nothing /\ at' = 0
  /\ UNCHANGED <<tilebuf, oldLast, frame, wanted>>

\* ... and appended if none of them took it.
ScanKeeps ==
  /\ mode = "scan" /\ at > Len(rects)
  /\ rects' = Append(rects, cur)
  /\ DropCur
  /\ UNCHANGED <<prevAdd, prevDel, needMerge, oldLast, dirty, frame, wanted>>

\* rect_list_add_split_fuzzy_and_merge: what is behind old_last is merged with
\* what is before it.
SplitEnds ==
  /\ mode = "next" /\ dirty = <<>>
  /\ \/ /\ oldLast # 0 /\ oldLast < Len(rects)
        /\ rects' = SubSeq(rects, 1, oldLast)
        /\ dirty' = SubSeq(rects, oldLast + 1, Len(rects))
        /\ mode' = "merge" /\ oldLast' = 0
        /\ UNCHANGED <<cur, at>>
     \/ /\ oldLast = 0 \/ oldLast >= Len(rects)
        /\ EndCall
        /\ UNCHANGED rects
  /\ UNCHANGED <<prevAdd, prevDel, needMerge, frame, wanted>>

\* The bounding box has few pixels too many, even if they overlap.
Fits(r, i) == Outer(r, rects[i]).area - (r.area + rects[i].area) <= env.error

\* Mutant of MergeInto: the rectangle of the list stays there.
MergeIntoKeeps ==
  /\ mode = "merge" /\ dirty # <<>>
  /\ \E i \in DOMAIN rects :
       /\ Fits(Head(dirty), i) /\ \A j \in 1 .. (i - 1) : ~Fits(Head(dirty), j)
       /\ dirty' = Append(Tail(dirty), Outer(Head(dirty), rects[i]))
  /\ UNCHANGED <<tilebuf, mode, cur, at, oldLast, frame, wanted>>

\* rect_list_merge_rects: the first dirty rectangle and the first of the list
\* that nearly fill their bounding box become a dirty rectangle.
MergeInto ==
  /\ mode = "merge" /\ dirty # <<>>
  /\ \E i \in DOMAIN rects :
       /\ Fits(Head(dirty), i) /\ \A j \in 1 .. (i - 1) : ~Fits(Head(dirty), j)
       /\ rects' = RemoveAt(rects, i)
       /\ dirty' = Append(Tail(dirty), Outer(Head(dirty), rects[i]))
  /\ UNCHANGED <<prevAdd, prevDel, needMerge, mode, cur, at, oldLast, frame, wanted>>

MergeKeeps ==
  /\ mode = "merge" /\ dirty # <<>>
  /\ \A i \in DOMAIN rects : ~Fits(Head(dirty), i)
  /\ rects' = Append(rects, Head(dirty)) /\ dirty' = Tail(dirty)
  /\ UNCHANGED <<prevAdd, prevDel, needMerge, mode, cur, at, oldLast, frame, wanted>>

MergeEnds ==
  /\ mode = "merge" /\ dirty = <<>>
  /\ EndCall
  /\ UNCHANGED <<tilebuf, frame, wanted>>

-----------------------------------------------------------------------------
\* evas_common_tilebuf_del_redraw

DelStart(r) ==
  LET c == Clip(r)
  IN  /\ wanted' = wanted \ Cells(AsRect(c))
      /\ \/ /\ rects = <<>> \/ Empty(c) \/ c = prevDel
            /\ UNCHANGED <<tilebuf, loop>>
         \/ /\ rects # <<>> /\ ~Empty(c) /\ c # prevDel
            /\ prevDel' = c /\ prevAdd' = [prevAdd EXCEPT !.w = 0, !.h = 0]
            /\ mode' = "delete" /\ cur' = AsRect(c) /\ at' = 1
            /\ UNCHANGED <<rects, needMerge, oldLast, dirty>>

Deletes == mode = "delete" /\ at \in DOMAIN rects

\* rect_list_del_split_strict
DelPasses ==
  /\ Deletes /\ ~Overlap(cur, rects[at])
  /\ at' = at + 1
  /\ UNCHANGED <<tilebuf, mode, cur, oldLast, dirty, frame, wanted>>

DelRemoves ==
  /\ Deletes /\ Overlap(cur, rects[at]) /\ Inside(rects[at], cur)
  /\ rects' = RemoveAt(rects, at)
  /\ UNCHANGED <<prevAdd, prevDel, needMerge, loop, frame, wanted>>

DelSplits ==
  /\ Deletes /\ Overlap(cur, rects[at]) /\ ~Inside(rects[at], cur)
  /\ rects' = RemoveAt(rects, at)
  /\ dirty' = dirty \o SplitStrict(cur, rects[at])
  /\ UNCHANGED <<prevAdd, prevDel, needMerge, mode, cur, at, oldLast, frame, wanted>>

DelEnds ==
  /\ mode = "delete" /\ at > Len(rects)
  /\ rects' = rects \o dirty /\ needMerge' = TRUE
  /\ EndCall
  /\ UNCHANGED <<prevAdd, prevDel, frame, wanted>>

Loop ==
  \/ TakeDirty \/ ScanInside \/ ScanSwallows \/ ScanMerges \/ ScanPasses
  \/ SplitWidens \/ SplitInto \/ ScanKeeps \/ SplitEnds
  \/ MergeInto \/ MergeKeeps \/ MergeEnds
  \/ DelPasses \/ DelRemoves \/ DelSplits \/ DelEnds

-----------------------------------------------------------------------------
\* A render

FrameCall == pc = "render" /\ Idle /\ calls < env.calls /\ calls' = calls + 1

Add(r) ==
  /\ FrameCall /\ AddStart(r)
  /\ UNCHANGED <<pc, previous, todo, firstFrame, changed, back, shown, stale, env>>

Del(r) ==
  /\ FrameCall /\ DelStart(r)
  /\ UNCHANGED <<pc, previous, todo, firstFrame, changed, back, shown, stale, env>>

\* The output has a new size, or is drawn for the first time: eng_output_resize
\* makes a new tile buffer, and all of the output is added to it.
Resize ==
  /\ pc = "render" /\ Idle /\ (changed \/ calls < env.calls)
  /\ calls' = calls + 1
  /\ rects' = <<AsRect(Whole)>> /\ prevAdd' = Whole /\ prevDel' = Unset /\ needMerge' = FALSE
  /\ firstFrame' = TRUE /\ changed' = FALSE
  /\ wanted' = Pixels /\ stale' = [b \in {1, 2} |-> {}]
  /\ UNCHANGED <<loop, pc, previous, todo, back, shown, env>>

\* evas_common_tilebuf_get_render_rects, up to its loops over the list
GetStart ==
  /\ UNCHANGED <<prevAdd, prevDel>>
  /\ \/ /\ needMerge
        /\ mode' = "merge" /\ dirty' = rects /\ rects' = <<>> /\ needMerge' = FALSE
        /\ UNCHANGED <<cur, at, oldLast>>
     \/ /\ ~needMerge
        /\ UNCHANGED <<rects, needMerge, loop>>

\* Its result: with too many rectangles only their bounding box. Those that are
\* empty once they are clipped would be left out; none is (TypeOK).
BoundingBox(S) ==
  LET l == Min({r.left : r \in S})
      t == Min({r.top : r \in S})
  IN  [x |-> l, y |-> t, w |-> Max({r.left + r.width : r \in S}) - l,
       h |-> Max({r.top + r.height : r \in S}) - t]

RenderRects ==
  IF Len(rects) - 1 > env.maxReg THEN <<BoundingBox(Range(rects))>>
  ELSE [i \in DOMAIN rects |-> Clip(AsInput(rects[i]))]

\* eng_output_redraws_next_update_get. From here on the pixels that are wanted
\* are those that the buffers lack.
NextUpdate ==
  /\ pc = "render" /\ Idle /\ ~changed
  /\ GetStart
  /\ pc' = "got"
  /\ stale' = [b \in {1, 2} |-> IF env.buffered \/ b = back THEN stale[b] \union wanted
                                ELSE stale[b]]
  /\ UNCHANGED <<previous, todo, firstFrame, changed, calls, back, shown, env, wanted>>

\* Mutant of HandleBuffers: the rectangles of this frame are not remembered.
HandleBuffersForgets ==
  /\ pc = "got" /\ Idle /\ env.buffered
  /\ pc' = "previous"
  /\ todo' = (IF firstFrame /\ previous = <<>> THEN <<Whole>> ELSE <<>>) \o previous
  /\ firstFrame' = (firstFrame /\ previous # <<>>)
  /\ previous' = <<>>
  /\ UNCHANGED <<tilebuf, loop, changed, calls, back, shown, stale, env, wanted>>

\* "Handle double buffering": what the previous frame drew is to be drawn again,
\* and what this frame draws is remembered for the next.
HandleBuffers ==
  /\ pc = "got" /\ Idle /\ env.buffered
  /\ pc' = "previous"
  /\ todo' = (IF firstFrame /\ previous = <<>> THEN <<Whole>> ELSE <<>>) \o previous
  /\ firstFrame' = (firstFrame /\ previous # <<>>)
  /\ previous' = RenderRects
  /\ UNCHANGED <<tilebuf, loop, changed, calls, back, shown, stale, env, wanted>>

AddPrevious ==
  /\ pc = "previous" /\ Idle /\ todo # <<>>
  /\ AddStart(Head(todo)) /\ todo' = Tail(todo)
  /\ UNCHANGED <<pc, previous, firstFrame, changed, calls, back, shown, stale, env>>

\* With two buffers the list is read again, and nothing has been deleted since it
\* was merged. Every rectangle is drawn and pushed, the output is flushed if there was one,
\* which switches buffers, and evas_common_tilebuf_clear is called.
Draw ==
  /\ pc = (IF env.buffered THEN "previous" ELSE "got") /\ Idle
  /\ todo = <<>> /\ ~needMerge
  /\ LET drawn == RenderRects
     IN  /\ stale' = [stale EXCEPT ![back] = @ \ CoveredIn(drawn)]
         /\ shown' = IF drawn = <<>> THEN shown ELSE back
         /\ back' = IF drawn = <<>> \/ ~env.buffered THEN back ELSE 3 - back
  /\ rects' = <<>> /\ prevAdd' = Unset /\ prevDel' = Unset /\ needMerge' = FALSE
  /\ pc' = "render" /\ calls' = 0 /\ wanted' = {}
  /\ UNCHANGED <<loop, previous, todo, firstFrame, changed, env>>

Next ==
  \/ Loop
  \/ \E r \in env.inputs : Add(r) \/ Del(r)
  \/ Resize \/ NextUpdate \/ HandleBuffers \/ AddPrevious \/ Draw

SafeSpec == Init /\ [][Next]_vars

\* A loop that runs goes on: it is one thread in one function.
Spec == SafeSpec /\ WF_vars(Loop)

-----------------------------------------------------------------------------
\* Properties

\* The rectangles whose seven fields agree, within the output.
Sound ==
  {r \in [left : Int, top : Int, right : Int, bottom : Int, width : Int, height : Int, area : Int] :
     /\ r = Rect(r.left, r.top, r.width, r.height)
     /\ 0 <= r.left /\ 0 < r.width /\ r.right <= Width
     /\ 0 <= r.top /\ 0 < r.height /\ r.bottom <= Height}

Input == [x : Int, y : Int, w : Int, h : Int]

\* Every variable has its type; the fields of every rectangle in the lists agree,
\* although some are brought up to date one by one, and none reaches beyond the
\* output; no call comes to the `abort' in a case that "should never happen".
TypeOK ==
  /\ rects \in Seq(Sound) /\ dirty \in Seq(Sound) /\ cur \in Sound \union {Nothing}
  /\ \A r \in {prevAdd, prevDel} : r \in Input /\ (Empty(r) \/ AsRect(r) \in Sound)
  /\ needMerge \in BOOLEAN /\ at \in Nat /\ oldLast \in 0 .. Len(rects)
  /\ mode \in {"idle", "next", "scan", "merge", "delete"}
  /\ pc \in {"render", "got", "previous"}
  /\ previous \in Seq(Input) /\ todo \in Seq(Input)
  /\ firstFrame \in BOOLEAN /\ changed \in BOOLEAN /\ calls \in Nat
  /\ back \in {1, 2} /\ shown \in {1, 2}
  /\ wanted \subseteq Pixels /\ stale \in [{1, 2} -> SUBSET Pixels]
  /\ env \in Environments

\* The rectangles in the list or still to be put there.
Boxes == Range(rects) \union Range(dirty) \union (IF mode = "scan" THEN {cur} ELSE {})

\* No pixel is lost that was added and not deleted since, ...
NothingLost == wanted \subseteq Covered(Boxes)

\* ... and what was deleted last is gone until something is added, so that the
\* same rectangle need not be deleted twice in a row, nor added twice.
Repeatable ==
  Idle =>
    /\ ~Empty(prevAdd) => Cells(AsRect(prevAdd)) \subseteq Covered(Range(rects))
    /\ ~Empty(prevDel) /\ pc = "render" => Cells(AsRect(prevDel)) \cap Covered(Range(rects)) = {}

RedrawsExact == NothingLost /\ Repeatable

\* The buffer drawn last shows the canvas, whichever of the two it is.
ShownIsCurrent == pc = "render" => stale[shown] = {}

\* Splitting, merging and deleting come to an end.
CallsEnd == ~Idle ~> Idle
=============================================================================
