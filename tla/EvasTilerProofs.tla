-------------------------- MODULE EvasTilerProofs --------------------------
(***************************************************************************)
(* Proofs about EvasTiler: for any size of the output, any rectangles, any *)
(* FUZZ and MAXREG, no pixel that has to be drawn anew is lost while the   *)
(* list of rectangles is split, merged and cut, and with two buffers the   *)
(* one that is shown is complete.                                          *)
(*                                                                         *)
(* A loop over the list is seen half-way by the invariant: ListOK says     *)
(* what its variables are, AddInv and DelInv what it has already done.     *)
(***************************************************************************)
EXTENDS EvasTiler, ListLemmas

-----------------------------------------------------------------------------
(***************************************************************************)
(* The geometry of rectangles: which pixels the bounding box, the parts of *)
(* a split, a widened and a clipped rectangle have.                        *)
(***************************************************************************)

\* Pixels

\* A pixel has two natural coordinates.
LEMMA PixelFacts ==
  ASSUME NEW p \in Pixels
  PROVE  /\ p[1] \in 0 .. Width - 1 /\ p[2] \in 0 .. Height - 1
         /\ p[1] \in Int /\ p[2] \in Int
BY SizeAssumption DEF Pixels

\* What a sound rectangle is.
LEMMA SoundFacts ==
  ASSUME NEW r \in Sound
  PROVE  /\ r.left \in Int /\ r.top \in Int /\ r.right \in Int /\ r.bottom \in Int
         /\ r.width \in Int /\ r.height \in Int /\ r.area \in Int
         /\ r.right = r.left + r.width /\ r.bottom = r.top + r.height
         /\ 0 <= r.left /\ 0 < r.width /\ r.right <= Width
         /\ 0 <= r.top /\ 0 < r.height /\ r.bottom <= Height
BY DEF Sound, Rect

\* A rectangle within the output is sound when rect_init has made it.
LEMMA RectSound ==
  ASSUME NEW x \in Int, NEW y \in Int, NEW w \in Int, NEW h \in Int,
         0 <= x, 0 < w, x + w <= Width, 0 <= y, 0 < h, y + h <= Height
  PROVE  Rect(x, y, w, h) \in Sound
<1>1. w * h \in Int
  OBVIOUS
<1>2. Rect(x, y, w, h) \in [left : Int, top : Int, right : Int, bottom : Int, width : Int, height : Int, area : Int]
  BY <1>1 DEF Rect
<1>3. LET r == Rect(x, y, w, h)
      IN  /\ r = Rect(r.left, r.top, r.width, r.height)
          /\ r.left = x /\ r.top = y /\ r.width = w /\ r.height = h
          /\ r.right = x + w /\ r.bottom = y + h
  BY DEF Rect
<1> QED BY <1>2, <1>3 DEF Sound

\* The pixels of a new rectangle.
LEMMA RectIn ==
  ASSUME NEW p, NEW x, NEW y, NEW w, NEW h
  PROVE  In(p, Rect(x, y, w, h)) <=> x <= p[1] /\ p[1] < x + w /\ y <= p[2] /\ p[2] < y + h
BY DEF In, Rect

\* Covering is monotonic, and a union of the pixels of each.
LEMMA CoveredFacts ==
  ASSUME NEW S, NEW T
  PROVE  /\ S \subseteq T => Covered(S) \subseteq Covered(T)
         /\ \A r \in S : Cells(r) \subseteq Covered(S)
         /\ (\A r \in S : Cells(r) \subseteq Covered(T)) => Covered(S) \subseteq Covered(T)
         /\ Covered(S \union T) = Covered(S) \union Covered(T)
         /\ Covered(S) \subseteq Pixels
         /\ Covered({}) = {}
BY DEF Covered, Cells

-----------------------------------------------------------------------------
\* Rectangles

\* The bounding box is within the output, and covers both.
LEMMA OuterFacts ==
  ASSUME NEW a \in Sound, NEW b \in Sound
  PROVE  /\ Outer(a, b) \in Sound
         /\ Cells(a) \subseteq Cells(Outer(a, b)) /\ Cells(b) \subseteq Cells(Outer(a, b))
<1> DEFINE l == Lower(a.left, b.left)
           t == Lower(a.top, b.top)
           w == Higher(a.right, b.right) - l
           h == Higher(a.bottom, b.bottom) - t
<1>1. /\ l \in Int /\ t \in Int /\ w \in Int /\ h \in Int
      /\ 0 <= l /\ 0 < w /\ l + w <= Width /\ 0 <= t /\ 0 < h /\ t + h <= Height
      /\ l <= a.left /\ a.left + a.width <= l + w /\ l <= b.left /\ b.left + b.width <= l + w
      /\ t <= a.top /\ a.top + a.height <= t + h /\ t <= b.top /\ b.top + b.height <= t + h
  BY SoundFacts, SizeAssumption DEF Lower, Higher
<1>2. Outer(a, b) = Rect(l, t, w, h)
  BY DEF Outer
<1> HIDE DEF l, t, w, h
<1>3. Outer(a, b) \in Sound
  BY <1>1, <1>2, RectSound
<1>4. ASSUME NEW p \in Pixels, In(p, a) \/ In(p, b)
      PROVE  In(p, Rect(l, t, w, h))
  <2>1. l <= p[1] /\ p[1] < l + w /\ t <= p[2] /\ p[2] < t + h
    BY <1>1, <1>4, PixelFacts, SoundFacts DEF In
  <2> QED BY <2>1, RectIn
<1> QED BY <1>2, <1>3, <1>4 DEF Cells

\* The test for "inside" is right.
LEMMA InsideFacts ==
  ASSUME NEW a \in Sound, NEW b \in Sound, Inside(a, b)
  PROVE  Cells(a) \subseteq Cells(b)
<1>1. /\ b.left <= a.left /\ a.left + a.width <= b.left + b.width
      /\ b.top <= a.top /\ a.top + a.height <= b.top + b.height
  BY SoundFacts DEF Inside, IntraWidth, IntraHeight, Lower, Higher
<1>2. ASSUME NEW p \in Pixels, In(p, a)
      PROVE  In(p, b)
  BY <1>1, <1>2, PixelFacts, SoundFacts DEF In
<1> QED BY <1>2 DEF Cells

\* What `When' puts into a list.
LEMMA WhenFacts ==
  ASSUME NEW q \in BOOLEAN, NEW S, NEW r, q => r \in S
  PROVE  /\ When(q, r) \in Seq(S)
         /\ Range(When(q, r)) = IF q THEN {r} ELSE {}
         /\ q => When(q, r) # <<>>
<1>1. CASE q
  <2>1. When(q, r) = <<r>> /\ <<r>> \in Seq(S) /\ <<r>> # <<>>
    BY <1>1 DEF When
  <2>2. DOMAIN <<r>> = {1} /\ <<r>>[1] = r
    OBVIOUS
  <2>3. Range(<<r>>) = {r}
    BY <2>2 DEF Range
  <2> QED BY <1>1, <2>1, <2>3
<1>2. CASE ~q
  <2>1. When(q, r) = <<>> /\ <<>> \in Seq(S) /\ DOMAIN <<>> = {}
    BY <1>2 DEF When
  <2>2. Range(<<>>) = {}
    BY <2>1 DEF Range
  <2> QED BY <1>2, <2>1, <2>2
<1> QED BY <1>1, <1>2

-----------------------------------------------------------------------------
\* Splitting

\* A part that is made only if it is needed.
LEMMA PartCovers ==
  ASSUME NEW q \in BOOLEAN, NEW r, q => r \in Sound
  PROVE  /\ When(q, r) \in Seq(Sound)
         /\ Covered(Range(When(q, r))) = IF q THEN Cells(r) ELSE {}
<1>1. When(q, r) \in Seq(Sound) /\ Range(When(q, r)) = IF q THEN {r} ELSE {}
  BY WhenFacts
<1>2. Covered({r}) = Cells(r) /\ Covered({}) = {}
  BY DEF Covered, Cells
<1> QED BY <1>1, <1>2

\* Two parts.
LEMMA PartsCover ==
  ASSUME NEW s \in Seq(Sound), NEW t \in Seq(Sound)
  PROVE  /\ s \o t \in Seq(Sound)
         /\ Covered(Range(s \o t)) = Covered(Range(s)) \union Covered(Range(t))
BY JoinFacts, CoveredFacts

\* The middle of b is where it overlaps a.
LEMMA MidFacts ==
  ASSUME NEW a \in Sound, NEW b \in Sound, Overlap(a, b)
  PROVE  /\ MidTop(a, b) \in Int /\ MidHeight(a, b) \in Int
         /\ 0 <= MidTop(a, b) /\ 0 < MidHeight(a, b)
         /\ MidTop(a, b) = Higher(a.top, b.top)
         /\ MidTop(a, b) + MidHeight(a, b) = Lower(a.bottom, b.bottom)
         /\ MidTop(a, b) + MidHeight(a, b) <= Height
         /\ a.left < b.right /\ b.left < a.right /\ a.top < b.bottom /\ b.top < a.bottom
<1>1. IntraWidth(a, b) > 0 /\ IntraHeight(a, b) > 0
  BY DEF Overlap
<1>2. a.left < b.right /\ b.left < a.right /\ a.top < b.bottom /\ b.top < a.bottom
  BY <1>1, SoundFacts DEF IntraWidth, IntraHeight, Lower, Higher
<1> QED BY <1>2, SoundFacts DEF MidTop, MidHeight, Lower, Higher

\* A part of a sound rectangle.
LEMMA PieceFacts ==
  ASSUME NEW b \in Sound, NEW x \in Int, NEW y \in Int, NEW w \in Int, NEW h \in Int,
         b.left <= x, 0 < w, x + w <= b.right, b.top <= y, 0 < h, y + h <= b.bottom
  PROVE  Rect(x, y, w, h) \in Sound
<1>1. 0 <= x /\ x + w <= Width /\ 0 <= y /\ y + h <= Height
  BY SoundFacts, SizeAssumption
<1> QED BY <1>1, RectSound

\* The pixels of a sound rectangle.
LEMMA SoundCells ==
  ASSUME NEW r \in Sound
  PROVE  Cells(r) = {p \in Pixels : /\ r.left <= p[1] /\ p[1] < r.right
                                    /\ r.top <= p[2] /\ p[2] < r.bottom}
BY SoundFacts DEF Cells, In

\* The parts above and below are those pixels of b.
LEMMA CapsFacts ==
  ASSUME NEW a \in Sound, NEW b \in Sound, Overlap(a, b)
  PROVE  /\ Caps(a, b) \in Seq(Sound)
         /\ Covered(Range(Caps(a, b))) = {p \in Cells(b) : p[2] < a.top \/ a.bottom <= p[2]}
<1> DEFINE Up == {p \in Cells(b) : p[2] < a.top}
           Down == {p \in Cells(b) : a.bottom <= p[2]}
           u == a.top > b.top
           d == b.bottom > a.bottom
           m == a.top - b.top
           n == b.bottom - a.bottom
           up == Rect(b.left, b.top, b.width, m)
           down == Rect(b.left, a.bottom, b.width, n)
<1>1. /\ b.left \in Int /\ b.top \in Int /\ b.width \in Int /\ a.bottom \in Int
      /\ m \in Int /\ n \in Int
      /\ b.left <= b.left /\ 0 < b.width /\ b.left + b.width <= b.right
      /\ b.top <= b.top
      /\ u => 0 < m /\ b.top + m <= b.bottom
      /\ d => b.top <= a.bottom /\ 0 < n /\ a.bottom + n <= b.bottom
  BY SoundFacts, MidFacts
<1>2. ASSUME NEW p \in Pixels
      PROVE  /\ p \in Cells(b) <=> /\ b.left <= p[1] /\ p[1] < b.left + b.width
                                   /\ b.top <= p[2] /\ p[2] < b.bottom
             /\ p[2] < b.top + m <=> p[2] < a.top
             /\ p[2] < a.bottom + n <=> p[2] < b.bottom
             /\ (p[2] < a.top => p[2] < b.bottom) /\ (a.bottom <= p[2] => b.top <= p[2])
  <2>1. p \in Cells(b) <=> b.left <= p[1] /\ p[1] < b.right /\ b.top <= p[2] /\ p[2] < b.bottom
    BY SoundCells
  <2>2. b.right = b.left + b.width
    BY SoundFacts
  <2>3. /\ p[2] < b.top + m <=> p[2] < a.top
        /\ p[2] < a.bottom + n <=> p[2] < b.bottom
        /\ (p[2] < a.top => p[2] < b.bottom) /\ (a.bottom <= p[2] => b.top <= p[2])
    BY SoundFacts, MidFacts, PixelFacts
  <2> QED BY <2>1, <2>2, <2>3
<1>3. Cells(b) \subseteq Pixels
  BY DEF Cells
<1>4. (~u => Up = {}) /\ (~d => Down = {})
  BY <1>2, <1>3, SoundFacts, PixelFacts
<1>5. u \in BOOLEAN /\ d \in BOOLEAN
  OBVIOUS
<1>6. Caps(a, b) = When(u, up) \o When(d, down)
  BY DEF Caps
<1>7. Up \union Down = {p \in Cells(b) : p[2] < a.top \/ a.bottom <= p[2]}
  OBVIOUS
<1> HIDE DEF u, d, m, n
<1>8. ASSUME u
      PROVE  up \in Sound /\ Cells(up) = Up
  <2>1. up \in Sound
    BY <1>1, <1>8, PieceFacts
  <2>2. \A p \in Pixels : p \in Cells(up) <=> /\ b.left <= p[1] /\ p[1] < b.left + b.width
                                              /\ b.top <= p[2] /\ p[2] < b.top + m
    BY RectIn DEF Cells
  <2>3. \A p \in Pixels : p \in Cells(up) <=> p \in Up
    BY <2>2, <1>2, <1>3
  <2>4. Cells(up) \subseteq Pixels /\ Up \subseteq Pixels
    BY <1>3 DEF Cells
  <2> QED BY <2>1, <2>3, <2>4
<1>9. ASSUME d
      PROVE  down \in Sound /\ Cells(down) = Down
  <2>1. down \in Sound
    BY <1>1, <1>9, PieceFacts
  <2>2. \A p \in Pixels : p \in Cells(down) <=> /\ b.left <= p[1] /\ p[1] < b.left + b.width
                                                /\ a.bottom <= p[2] /\ p[2] < a.bottom + n
    BY RectIn DEF Cells
  <2>3. \A p \in Pixels : p \in Cells(down) <=> p \in Down
    BY <2>2, <1>2, <1>3
  <2>4. Cells(down) \subseteq Pixels /\ Down \subseteq Pixels
    BY <1>3 DEF Cells
  <2> QED BY <2>1, <2>3, <2>4
<1> HIDE DEF up, down, Up, Down
<1>10. When(u, up) \in Seq(Sound) /\ Covered(Range(When(u, up))) = Up
  BY <1>8, <1>4, <1>5, PartCovers
<1>11. When(d, down) \in Seq(Sound) /\ Covered(Range(When(d, down))) = Down
  BY <1>9, <1>4, <1>5, PartCovers
<1> QED BY <1>6, <1>7, <1>10, <1>11, PartsCover

\* The parts to the left and to the right are the others that are not in a.
LEMMA FlanksFacts ==
  ASSUME NEW a \in Sound, NEW b \in Sound, Overlap(a, b)
  PROVE  /\ Flanks(a, b) \in Seq(Sound)
         /\ Covered(Range(Flanks(a, b))) =
              {p \in Cells(b) : /\ a.top <= p[2] /\ p[2] < a.bottom
                                /\ p[1] < a.left \/ a.right <= p[1]}
<1> DEFINE t == MidTop(a, b)
           h == MidHeight(a, b)
           Beyond == {p \in Cells(b) : a.top <= p[2] /\ p[2] < a.bottom}
           Before == {p \in Beyond : p[1] < a.left}
           After == {p \in Beyond : a.right <= p[1]}
           u == a.left > b.left
           d == b.right > a.right
           m == a.left - b.left
           n == b.right - a.right
           before == Rect(b.left, t, m, h)
           after == Rect(a.right, t, n, h)
<1>1. /\ t \in Int /\ h \in Int /\ 0 < h
      /\ t = Higher(a.top, b.top) /\ t + h = Lower(a.bottom, b.bottom)
  BY MidFacts
<1>2. b.top <= t /\ t + h <= b.bottom
  BY <1>1, SoundFacts DEF Lower, Higher
<1>3. ASSUME NEW p \in Pixels
      PROVE  /\ t <= p[2] /\ p[2] < t + h <=> /\ a.top <= p[2] /\ p[2] < a.bottom
                                              /\ b.top <= p[2] /\ p[2] < b.bottom
             /\ p \in Cells(b) <=> /\ b.left <= p[1] /\ p[1] < b.right
                                   /\ b.top <= p[2] /\ p[2] < b.bottom
             /\ p[1] < b.left + m <=> p[1] < a.left
             /\ p[1] < a.right + n <=> p[1] < b.right
             /\ (p[1] < a.left => p[1] < b.right) /\ (a.right <= p[1] => b.left <= p[1])
  <2>1. p \in Cells(b) <=> b.left <= p[1] /\ p[1] < b.right /\ b.top <= p[2] /\ p[2] < b.bottom
    BY SoundCells
  <2>2. t <= p[2] /\ p[2] < t + h <=> /\ a.top <= p[2] /\ p[2] < a.bottom
                                      /\ b.top <= p[2] /\ p[2] < b.bottom
    BY <1>1, SoundFacts, PixelFacts DEF Lower, Higher
  <2>3. /\ p[1] < b.left + m <=> p[1] < a.left
        /\ p[1] < a.right + n <=> p[1] < b.right
        /\ (p[1] < a.left => p[1] < b.right) /\ (a.right <= p[1] => b.left <= p[1])
    BY SoundFacts, MidFacts, PixelFacts
  <2> QED BY <2>1, <2>2, <2>3
<1>4. /\ b.left \in Int /\ a.right \in Int /\ m \in Int /\ n \in Int
      /\ b.left <= b.left
      /\ u => 0 < m /\ b.left + m <= b.right
      /\ d => b.left <= a.right /\ 0 < n /\ a.right + n <= b.right
  BY SoundFacts, MidFacts
<1>5. Cells(b) \subseteq Pixels
  BY DEF Cells
<1>6. Flanks(a, b) = When(u, before) \o When(d, after)
  BY DEF Flanks
<1>7. (~u => Before = {}) /\ (~d => After = {})
  BY <1>3, <1>5, SoundFacts, PixelFacts
<1>8. u \in BOOLEAN /\ d \in BOOLEAN
  OBVIOUS
<1>9. Before \union After =
        {p \in Cells(b) : /\ a.top <= p[2] /\ p[2] < a.bottom
                          /\ p[1] < a.left \/ a.right <= p[1]}
  OBVIOUS
<1> HIDE DEF t, h, u, d, m, n
<1>10. ASSUME u
       PROVE  before \in Sound /\ Cells(before) = Before
  <2>1. before \in Sound
    BY <1>1, <1>2, <1>4, <1>10, PieceFacts
  <2>2. \A p \in Pixels : p \in Cells(before) <=> /\ b.left <= p[1] /\ p[1] < b.left + m
                                                  /\ t <= p[2] /\ p[2] < t + h
    BY RectIn DEF Cells
  <2>3. \A p \in Pixels : p \in Cells(before) <=> p \in Before
    BY <2>2, <1>3, <1>5
  <2>4. Cells(before) \subseteq Pixels /\ Before \subseteq Pixels
    BY <1>5 DEF Cells
  <2> QED BY <2>1, <2>3, <2>4
<1>11. ASSUME d
       PROVE  after \in Sound /\ Cells(after) = After
  <2>1. after \in Sound
    BY <1>1, <1>2, <1>4, <1>11, PieceFacts
  <2>2. \A p \in Pixels : p \in Cells(after) <=> /\ a.right <= p[1] /\ p[1] < a.right + n
                                                 /\ t <= p[2] /\ p[2] < t + h
    BY RectIn DEF Cells
  <2>3. \A p \in Pixels : p \in Cells(after) <=> p \in After
    BY <2>2, <1>3, <1>5
  <2>4. Cells(after) \subseteq Pixels /\ After \subseteq Pixels
    BY <1>5 DEF Cells
  <2> QED BY <2>1, <2>3, <2>4
<1> HIDE DEF before, after, Before, After, Beyond
<1>12. When(u, before) \in Seq(Sound) /\ Covered(Range(When(u, before))) = Before
  BY <1>10, <1>7, <1>8, PartCovers
<1>13. When(d, after) \in Seq(Sound) /\ Covered(Range(When(d, after))) = After
  BY <1>11, <1>7, <1>8, PartCovers
<1> QED BY <1>6, <1>9, <1>12, <1>13, PartsCover

\* Splitting gives exactly the pixels of b that are not in a, and something if b
\* is not inside a.
LEMMA SplitFacts ==
  ASSUME NEW a \in Sound, NEW b \in Sound, Overlap(a, b)
  PROVE  /\ SplitStrict(a, b) \in Seq(Sound)
         /\ Covered(Range(SplitStrict(a, b))) = Cells(b) \ Cells(a)
         /\ ~Inside(b, a) => SplitStrict(a, b) # <<>>
<1>1. /\ SplitStrict(a, b) \in Seq(Sound)
      /\ Covered(Range(SplitStrict(a, b))) =
           Covered(Range(Caps(a, b))) \union Covered(Range(Flanks(a, b)))
  BY CapsFacts, FlanksFacts, PartsCover DEF SplitStrict
<1>2. ASSUME NEW p \in Cells(b)
      PROVE  p \in Cells(a) <=> ~ \/ p[2] < a.top \/ a.bottom <= p[2]
                                  \/ /\ a.top <= p[2] /\ p[2] < a.bottom
                                     /\ p[1] < a.left \/ a.right <= p[1]
  <2>1. p \in Pixels
    BY DEF Cells
  <2>2. p \in Cells(a) <=> a.left <= p[1] /\ p[1] < a.right /\ a.top <= p[2] /\ p[2] < a.bottom
    BY <2>1, SoundCells
  <2>3. p[1] \in Int /\ p[2] \in Int
    BY <2>1, PixelFacts
  <2> QED BY <2>2, <2>3, SoundFacts
<1>3. Covered(Range(SplitStrict(a, b))) = Cells(b) \ Cells(a)
  BY <1>1, <1>2, CapsFacts, FlanksFacts
<1>4. ASSUME ~Inside(b, a)
      PROVE  Cells(b) \ Cells(a) # {}
  <2>1. \/ b.left < a.left \/ a.right < b.right \/ b.top < a.top \/ a.bottom < b.bottom
    BY <1>4, SoundFacts DEF Inside, IntraWidth, IntraHeight, Lower, Higher
  <2> DEFINE x == IF b.left < a.left THEN b.left ELSE b.right - 1
             y == IF b.top < a.top THEN b.top ELSE b.bottom - 1
  <2>2. /\ x \in 0 .. Width - 1 /\ y \in 0 .. Height - 1 /\ x \in Int /\ y \in Int
        /\ b.left <= x /\ x < b.right /\ b.top <= y /\ y < b.bottom
        /\ \/ x < a.left \/ a.right <= x \/ y < a.top \/ a.bottom <= y
    BY <2>1, SoundFacts, SizeAssumption
  <2> HIDE DEF x, y
  <2>3. <<x, y>> \in Pixels /\ <<x, y>>[1] = x /\ <<x, y>>[2] = y
    BY <2>2 DEF Pixels
  <2>4. <<x, y>> \in Cells(b)
    BY <2>2, <2>3, SoundCells
  <2>5. <<x, y>> \in Cells(a) => a.left <= x /\ x < a.right /\ a.top <= y /\ y < a.bottom
    BY <2>3, SoundCells
  <2> QED BY <2>2, <2>4, <2>5, SoundFacts
<1>5. SplitStrict(a, b) = <<>> => Covered(Range(SplitStrict(a, b))) = {}
  <2>1. Range(<<>>) = {} /\ Covered({}) = {}
    BY CoveredFacts DEF Range
  <2> QED BY <2>1
<1> QED BY <1>1, <1>3, <1>4, <1>5

\* Widening a covers a and what is left of b between the parts above and below.
LEMMA WidenFacts ==
  ASSUME NEW a \in Sound, NEW b \in Sound, Overlap(a, b), a.height = MidHeight(a, b)
  PROVE  /\ Widened(a, b) \in Sound
         /\ Cells(a) \subseteq Cells(Widened(a, b))
         /\ Cells(b) \subseteq Covered(Range(Caps(a, b))) \union Cells(Widened(a, b))
<1> DEFINE l == Lower(b.left, a.left)
           w == Higher(b.right, a.right) - l
           r == Rect(l, a.top, w, a.height)
<1>1. /\ l \in Int /\ w \in Int /\ 0 <= l /\ 0 < w /\ l + w <= Width
      /\ l <= a.left /\ a.right <= l + w /\ l <= b.left /\ b.right <= l + w
  BY SoundFacts, SizeAssumption DEF Lower, Higher
<1>2. Outer(b, a).left = l /\ Outer(b, a).width = w /\ Outer(b, a).right = l + w
  BY DEF Outer, Rect
<1>3. a = Rect(a.left, a.top, a.width, a.height) /\ a.bottom = a.top + a.height
  BY SoundFacts DEF Sound
<1> HIDE DEF l, w
<1>4. Widened(a, b) = r
  <2>1. Widened(a, b) = [a EXCEPT !.left = l, !.width = w, !.right = l + w, !.area = w * a.height]
    BY <1>2 DEF Widened
  <2> DEFINE R == [left : Int, top : Int, right : Int, bottom : Int, width : Int, height : Int, area : Int]
             q == [a EXCEPT !.left = l, !.width = w, !.right = l + w, !.area = w * a.height]
  <2>2. a \in R /\ w * a.height \in Int /\ l + w \in Int
    BY <1>1, SoundFacts DEF Sound
  <2>3. /\ q.left = l /\ q.width = w /\ q.right = l + w /\ q.area = w * a.height
        /\ q.top = a.top /\ q.height = a.height /\ q.bottom = a.top + a.height
    BY <2>2, <1>3
  <2>4. q \in R
    BY <2>2, <1>1
  <2>5. r \in R
    BY <1>1, <2>2, SoundFacts DEF Rect
  <2>6. /\ r.left = l /\ r.width = w /\ r.right = l + w /\ r.area = w * a.height
        /\ r.top = a.top /\ r.height = a.height /\ r.bottom = a.top + a.height
    BY DEF Rect
  <2> HIDE DEF q, r
  <2>7. q = r
    BY <2>3, <2>4, <2>5, <2>6
  <2> QED BY <2>1, <2>7 DEF q
<1>5. /\ a.top \in Int /\ a.height \in Int /\ 0 <= a.top /\ 0 < a.height
      /\ a.top + a.height <= Height
  BY SoundFacts
<1>6. r \in Sound
  BY <1>1, <1>5, RectSound
<1>7. \A p \in Pixels : p \in Cells(r) <=> l <= p[1] /\ p[1] < l + w /\ a.top <= p[2] /\ p[2] < a.bottom
  BY <1>3, RectIn DEF Cells
<1>8. Cells(a) \subseteq Cells(r)
  <2>1. SUFFICES ASSUME NEW p \in Pixels, p \in Cells(a)
                 PROVE  p \in Cells(r)
    BY DEF Cells
  <2>2. a.left <= p[1] /\ p[1] < a.right /\ a.top <= p[2] /\ p[2] < a.bottom
    BY <2>1, SoundCells
  <2>3. l <= p[1] /\ p[1] < l + w
    BY <1>1, <2>2, SoundFacts, PixelFacts
  <2> QED BY <1>7, <2>2, <2>3
<1>9. ASSUME NEW p \in Pixels, p \in Cells(b)
      PROVE  p \in Cells(r) \/ p \in Covered(Range(Caps(a, b)))
  <2>1. b.left <= p[1] /\ p[1] < b.right
    BY <1>9, SoundCells
  <2>2. l <= p[1] /\ p[1] < l + w
    BY <1>1, <2>1, SoundFacts, PixelFacts
  <2>3. p[2] < a.top \/ a.bottom <= p[2] \/ (a.top <= p[2] /\ p[2] < a.bottom)
    BY SoundFacts, PixelFacts
  <2> QED BY <1>7, <1>9, <2>2, <2>3, CapsFacts
<1>10. Cells(b) \subseteq Pixels
  BY DEF Cells
<1> QED BY <1>4, <1>6, <1>8, <1>9, <1>10

\* Clipping keeps the pixels; its result is empty or a sound rectangle.
LEMMA ClipFacts ==
  ASSUME NEW r \in Input
  PROVE  /\ Clip(r) \in Input
         /\ Empty(Clip(r)) \/ AsRect(Clip(r)) \in Sound
         /\ Cells(AsRect(Clip(r))) = Cells(AsRect(r))
         /\ Empty(Clip(r)) => Cells(AsRect(r)) = {}
<1> DEFINE l == Higher(r.x, 0)
           t == Higher(r.y, 0)
           w == Lower(r.x + r.w, Width) - l
           h == Lower(r.y + r.h, Height) - t
           p == r.w > 0 /\ r.h > 0 /\ w > 0 /\ h > 0
<1>1. r.x \in Int /\ r.y \in Int /\ r.w \in Int /\ r.h \in Int
  BY DEF Input
<1>2. l \in Int /\ t \in Int /\ w \in Int /\ h \in Int /\ 0 <= l /\ 0 <= t /\ l + w <= Width /\ t + h <= Height
  BY <1>1, SizeAssumption DEF Lower, Higher
<1>3. \A c \in Pixels : In(c, AsRect(r)) <=> /\ r.x <= c[1] /\ c[1] < r.x + r.w
                                           /\ r.y <= c[2] /\ c[2] < r.y + r.h
  BY RectIn DEF AsRect
<1>4. \A c \in Pixels : In(c, AsRect(r)) => /\ l <= c[1] /\ c[1] < l + w /\ w > 0 /\ r.w > 0
                                           /\ t <= c[2] /\ c[2] < t + h /\ h > 0 /\ r.h > 0
  BY <1>1, <1>3, SizeAssumption, PixelFacts DEF Lower, Higher
<1>5. \A c \in Pixels : l <= c[1] /\ c[1] < l + w /\ t <= c[2] /\ c[2] < t + h => In(c, AsRect(r))
  BY <1>1, <1>3, SizeAssumption, PixelFacts DEF Lower, Higher
<1>6. Clip(r) = IF p THEN [x |-> l, y |-> t, w |-> w, h |-> h]
                ELSE [x |-> r.x, y |-> r.y, w |-> 0, h |-> 0]
  BY DEF Clip
<1> HIDE DEF l, t, w, h
<1>7. CASE p
  <2>1. Clip(r) \in Input /\ AsRect(Clip(r)) = Rect(l, t, w, h) /\ ~Empty(Clip(r))
    BY <1>2, <1>6, <1>7 DEF Input, AsRect, Empty
  <2>2. AsRect(Clip(r)) \in Sound
    BY <2>1, <1>2, <1>7, RectSound
  <2>3. Cells(AsRect(Clip(r))) = Cells(AsRect(r))
    BY <2>1, <1>4, <1>5, RectIn DEF Cells
  <2> QED BY <2>1, <2>2, <2>3
<1>8. CASE ~p
  <2>1. Clip(r) \in Input /\ AsRect(Clip(r)) = Rect(r.x, r.y, 0, 0) /\ Empty(Clip(r))
    BY <1>1, <1>6, <1>8 DEF Input, AsRect, Empty
  <2>2. Cells(AsRect(r)) = {}
    BY <1>4, <1>8 DEF Cells
  <2>3. Cells(Rect(r.x, r.y, 0, 0)) = {}
    BY <1>1, RectIn, PixelFacts DEF Cells
  <2> QED BY <2>1, <2>2, <2>3
<1> QED BY <1>7, <1>8

-----------------------------------------------------------------------------
\* The rectangles that are drawn

\* The bounding box is within the output and covers every rectangle.
LEMMA BoxFacts ==
  ASSUME NEW S \in SUBSET Sound, S # {}
  PROVE  /\ BoundingBox(S) \in Input
         /\ Covered(S) \subseteq Cells(AsRect(BoundingBox(S)))
<1> DEFINE L == {r.left : r \in S}
           T == {r.top : r \in S}
           R == {r.left + r.width : r \in S}
           B == {r.top + r.height : r \in S}
<1>1. ASSUME NEW r \in S
      PROVE  /\ r.left \in Nat /\ r.top \in Nat
             /\ r.left + r.width \in Nat /\ r.left + r.width <= Width
             /\ r.top + r.height \in Nat /\ r.top + r.height <= Height
  BY SoundFacts
<1>2. /\ L \in SUBSET Nat /\ T \in SUBSET Nat /\ R \in SUBSET Nat /\ B \in SUBSET Nat
      /\ L # {} /\ T # {} /\ R # {} /\ B # {}
      /\ \A y \in R : y <= Width
      /\ \A y \in B : y <= Height
  BY <1>1
<1>3. Width \in Nat /\ Height \in Nat
  BY SizeAssumption
<1>4. \A r \in S : r.left \in L /\ r.top \in T /\ r.left + r.width \in R /\ r.top + r.height \in B
  OBVIOUS
<1>5. BoundingBox(S) = [x |-> Min(L), y |-> Min(T), w |-> Max(R) - Min(L), h |-> Max(B) - Min(T)]
  BY DEF BoundingBox
<1> HIDE DEF L, T, R, B
<1>6. Min(L) \in Nat /\ \A y \in L : Min(L) <= y
  BY <1>2, MinFacts
<1>7. Min(T) \in Nat /\ \A y \in T : Min(T) <= y
  BY <1>2, MinFacts
<1>8. Max(R) \in Nat /\ \A y \in R : y <= Max(R)
  BY <1>2, <1>3, MaxFacts
<1>9. Max(B) \in Nat /\ \A y \in B : y <= Max(B)
  BY <1>2, <1>3, MaxFacts
<1>10. BoundingBox(S) \in Input
  BY <1>5, <1>6, <1>7, <1>8, <1>9 DEF Input
<1>11. ASSUME NEW p \in Pixels, NEW r \in S, In(p, r)
       PROVE  p \in Cells(AsRect(BoundingBox(S)))
  <2>1. /\ Min(L) <= r.left /\ Min(T) <= r.top
        /\ r.left + r.width <= Max(R) /\ r.top + r.height <= Max(B)
    BY <1>4, <1>6, <1>7, <1>8, <1>9
  <2>2. r.left <= p[1] /\ p[1] < r.left + r.width /\ r.top <= p[2] /\ p[2] < r.top + r.height
    BY <1>11 DEF In
  <2>3. /\ Min(L) <= p[1] /\ p[1] < Min(L) + (Max(R) - Min(L))
        /\ Min(T) <= p[2] /\ p[2] < Min(T) + (Max(B) - Min(T))
    BY <2>1, <2>2, <1>1, <1>6, <1>7, <1>8, <1>9, PixelFacts
  <2> QED BY <2>3, <1>5, RectIn DEF Cells, AsRect
<1> QED BY <1>10, <1>11 DEF Covered

\* A sound rectangle is given to the engine as it is.
LEMMA GivenFacts ==
  ASSUME NEW r \in Sound
  PROVE  Clip(AsInput(r)) \in Input /\ Cells(AsRect(Clip(AsInput(r)))) = Cells(r)
<1>1. AsInput(r) \in Input
  BY SoundFacts DEF AsInput, Input
<1>2. AsRect(AsInput(r)) = r
  BY DEF AsRect, AsInput, Sound
<1> QED BY <1>1, <1>2, ClipFacts

\* What evas_common_tilebuf_get_render_rects returns covers the list, whatever
\* MAXREG is, and is empty only if the list is.
LEMMA RendersAll ==
  ASSUME rects \in Seq(Sound), env \in Environments
  PROVE  /\ RenderRects \in Seq(Input)
         /\ Covered(Range(rects)) \subseteq CoveredIn(RenderRects)
         /\ RenderRects = <<>> => rects = <<>>
<1>1. env.maxReg \in Nat /\ Len(rects) \in Nat /\ DOMAIN rects = 1 .. Len(rects)
  BY EnvironmentAssumption DEF EnvironmentType
<1>2. CASE Len(rects) - 1 > env.maxReg
  <2> DEFINE box == BoundingBox(Range(rects))
  <2>1. RenderRects = <<box>>
    BY <1>2 DEF RenderRects
  <2>2. Range(rects) \in SUBSET Sound /\ Range(rects) # {}
    <3>1. 1 \in 1 .. Len(rects)
      BY <1>1, <1>2
    <3> QED BY <3>1, RangeFacts
  <2>3. box \in Input /\ Covered(Range(rects)) \subseteq Cells(AsRect(box))
    BY <2>2, BoxFacts
  <2> HIDE DEF box
  <2>4. <<box>> \in Seq(Input) /\ <<box>> # <<>> /\ DOMAIN <<box>> = {1} /\ <<box>>[1] = box
    BY <2>3
  <2>5. box \in Range(<<box>>)
    BY <2>4 DEF Range
  <2>6. Cells(AsRect(box)) \subseteq CoveredIn(<<box>>)
    BY <2>5, CoveredFacts DEF CoveredIn
  <2> QED BY <2>1, <2>3, <2>4, <2>6
<1>3. CASE ~(Len(rects) - 1 > env.maxReg)
  <2> DEFINE s == [i \in 1 .. Len(rects) |-> Clip(AsInput(rects[i]))]
  <2>1. RenderRects = s
    BY <1>1, <1>3 DEF RenderRects
  <2>2. \A i \in 1 .. Len(rects) : s[i] \in Input /\ Cells(AsRect(s[i])) = Cells(rects[i])
    BY GivenFacts, RangeFacts
  <2>3. s \in [1 .. Len(rects) -> Input]
    BY <2>2
  <2>4. s \in Seq(Input)
    BY <1>1, <2>3, SeqDef
  <2>5. DOMAIN s = 1 .. Len(rects)
    OBVIOUS
  <2> HIDE DEF s
  <2>6. \A i \in 1 .. Len(rects) : s[i] \in Range(s)
    BY <2>5 DEF Range
  <2>7. Covered(Range(rects)) \subseteq CoveredIn(s)
    <3>1. SUFFICES ASSUME NEW p \in Pixels, NEW r \in Range(rects), In(p, r)
                   PROVE  p \in CoveredIn(s)
      BY DEF Covered
    <3>2. PICK i \in 1 .. Len(rects) : r = rects[i]
      BY RangeFacts
    <3>3. p \in Cells(AsRect(s[i]))
      BY <3>1, <3>2, <2>2 DEF Cells
    <3> QED BY <3>3, <2>6 DEF CoveredIn, Covered, Cells
  <2>8. s = <<>> => rects = <<>>
    <3>1. s = <<>> => DOMAIN s = {}
      OBVIOUS
    <3>2. Len(rects) # 0 => 1 \in DOMAIN s
      BY <2>5, <1>1
    <3> QED BY <3>1, <3>2
  <2> QED BY <2>1, <2>4, <2>7, <2>8
<1> QED BY <1>2, <1>3

-----------------------------------------------------------------------------
\* The inductive invariant

\* The lists and the pointers into them.
ListOK ==
  /\ rects \in Seq(Sound) /\ dirty \in Seq(Sound) /\ cur \in Sound \union {Nothing}
  /\ at \in Nat /\ oldLast \in 0 .. Len(rects)
  /\ mode \in {"idle", "next", "scan", "merge", "delete"}
  /\ mode \in {"scan", "delete"} => cur \in Sound /\ at > 0
  /\ mode \notin {"next", "scan"} => oldLast = 0
  /\ Idle => dirty = <<>>

\* The last rectangle added, the last one deleted, and the render.
FrameOK ==
  /\ \A r \in {prevAdd, prevDel} : r \in Input /\ (Empty(r) \/ AsRect(r) \in Sound)
  /\ needMerge \in BOOLEAN
  /\ pc \in {"render", "got", "previous"}
  /\ previous \in Seq(Input) /\ todo \in Seq(Input)
  /\ firstFrame \in BOOLEAN /\ changed \in BOOLEAN /\ calls \in Nat
  /\ back \in {1, 2} /\ shown \in {1, 2}
  /\ wanted \subseteq Pixels /\ stale \in [{1, 2} -> SUBSET Pixels]
  /\ env \in Environments
  /\ pc # "previous" => todo = <<>>
  /\ pc = "previous" => env.buffered
  /\ IF env.buffered THEN shown = 3 - back ELSE back = 1

\* What was added last is covered at any time.
AddInv == ~Empty(prevAdd) => Cells(AsRect(prevAdd)) \subseteq Covered(Boxes)

\* What is deleted is not wanted, and is already gone from the rectangles that
\* the loop has passed and from those that it has split.
DelInv ==
  /\ mode = "delete" =>
       /\ pc = "render" /\ Empty(prevAdd) /\ ~Empty(prevDel) /\ cur = AsRect(prevDel)
       /\ Cells(cur) \cap wanted = {}
       /\ Cells(cur) \cap Covered(Range(dirty)) = {}
       /\ \A i \in 1 .. Len(rects) : i < at => Cells(cur) \cap Cells(rects[i]) = {}
  /\ mode \in {"next", "scan", "merge"} /\ pc = "render" => Empty(prevDel)
  /\ Idle /\ pc = "render" /\ ~Empty(prevDel) =>
       Cells(AsRect(prevDel)) \cap Covered(Range(rects)) = {}

\* What the buffers lack. With two, the one drawn next lacks what the frame before
\* drew, and the other one nothing until the pixels of this frame are known.
StaleInv ==
  /\ env.buffered =>
       /\ pc = "render" => stale[3 - back] = {} /\ stale[back] \subseteq CoveredIn(previous)
       /\ pc = "got" => /\ stale[3 - back] \subseteq wanted
                        /\ stale[back] \subseteq wanted \union CoveredIn(previous)
       /\ pc = "previous" => /\ stale[3 - back] \subseteq CoveredIn(previous) \cap Covered(Boxes)
                             /\ stale[back] \subseteq Covered(Boxes) \union CoveredIn(todo)
  /\ ~env.buffered =>
       /\ stale[2] = {}
       /\ pc = "render" => stale[1] = {}
       /\ pc = "got" => stale[1] \subseteq wanted

\* The inductive invariant.
IInv == ListOK /\ FrameOK /\ NothingLost /\ AddInv /\ DelInv /\ StaleInv

-----------------------------------------------------------------------------
\* The loop that adds

\* A set of rectangles may be replaced by one that covers the one or two it lacks.
LEMMA Replaced ==
  ASSUME NEW S, NEW T, NEW r, S \subseteq T \union {r}, Cells(r) \subseteq Covered(T)
  PROVE  Covered(S) \subseteq Covered(T)
BY DEF Covered, Cells

\* The same when two rectangles are missing.
LEMMA BothReplaced ==
  ASSUME NEW S, NEW T, NEW q, NEW r, S \subseteq T \union {q, r},
         Cells(q) \subseteq Covered(T), Cells(r) \subseteq Covered(T)
  PROVE  Covered(S) \subseteq Covered(T)
BY DEF Covered, Cells

\* Every pixel of a rectangle of a set is covered by the set.
LEMMA OneCovers ==
  ASSUME NEW T, NEW r \in T
  PROVE  Cells(r) \subseteq Covered(T)
BY DEF Covered, Cells

\* What is known when the loop compares two rectangles.
LEMMA ScanFacts ==
  ASSUME ListOK, Scans
  PROVE  /\ mode = "scan" /\ cur \in Sound /\ at \in 1 .. Len(rects) /\ rects[at] \in Sound
         /\ Len(rects) \in Nat /\ rects[at] \in Range(rects)
         /\ Boxes = Range(rects) \union Range(dirty) \union {cur}
<1>1. rects \in Seq(Sound) /\ mode = "scan" /\ cur \in Sound /\ at \in DOMAIN rects
  BY DEF ListOK, Scans
<1>2. at \in 1 .. Len(rects) /\ Len(rects) \in Nat
  BY <1>1
<1> QED BY <1>1, <1>2, RangeFacts DEF Boxes

\* Unlinking the current rectangle.
LEMMA UnlinkFacts ==
  ASSUME ListOK, Scans, Unlink
  PROVE  /\ rects' \in Seq(Sound) /\ oldLast' \in 0 .. Len(rects')
         /\ Range(rects) = Range(rects') \union {rects[at]}
<1>1. /\ rects \in Seq(Sound) /\ oldLast \in 0 .. Len(rects)
      /\ at \in 1 .. Len(rects) /\ Len(rects) \in Nat
  BY ScanFacts DEF ListOK
<1>2. rects' = RemoveAt(rects, at) /\ oldLast' = IF at <= oldLast THEN oldLast - 1 ELSE oldLast
  BY DEF Unlink
<1>3. /\ rects' \in Seq(Sound) /\ Len(rects') = Len(rects) - 1
      /\ Range(rects) = Range(rects') \union {rects[at]}
  BY <1>1, <1>2, RemoveFacts
<1> QED BY <1>1, <1>2, <1>3

\* What the loop that adds promises of each of its steps.
Keeps == ListOK' /\ Covered(Boxes) \subseteq Covered(Boxes')

\* Taking the next part: it moves from the parts to cur.
LEMMA TakeDirtyMoves ==
  ASSUME ListOK, TakeDirty
  PROVE  Keeps
<1>1. /\ mode = "next" /\ mode' = "scan" /\ cur' = Head(dirty) /\ dirty' = Tail(dirty)
      /\ at' = 1
      /\ rects' = rects /\ oldLast' = oldLast /\ dirty # <<>>
  BY DEF TakeDirty, tilebuf
<1>2. Head(dirty) \in Sound /\ Tail(dirty) \in Seq(Sound)
      /\ Range(dirty) = Range(Tail(dirty)) \union {Head(dirty)}
  BY <1>1, HeadFacts DEF ListOK
<1>3. ListOK'
  BY <1>1, <1>2 DEF ListOK, Idle
<1>4. Boxes' = Boxes
  BY <1>1, <1>2 DEF Boxes
<1> QED BY <1>3, <1>4 DEF Keeps

\* A part that lies inside a rectangle of the list is dropped.
LEMMA ScanInsideMoves ==
  ASSUME ListOK, ScanInside
  PROVE  Keeps
<1>1. /\ Scans /\ Inside(cur, rects[at]) /\ mode' = "next" /\ cur' = Nothing /\ at' = 0
      /\ rects' = rects /\ oldLast' = oldLast /\ dirty' = dirty
  BY DEF ScanInside, DropCur, tilebuf
<1>2. ListOK'
  BY <1>1 DEF ListOK, Idle
<1>3. Boxes' = Range(rects) \union Range(dirty)
  BY <1>1 DEF Boxes
<1>4. Cells(cur) \subseteq Covered(Boxes')
  <2>1. Cells(cur) \subseteq Cells(rects[at]) /\ rects[at] \in Boxes'
    BY <1>1, <1>3, ScanFacts, InsideFacts
  <2> QED BY <2>1, OneCovers
<1>5. Boxes \subseteq Boxes' \union {cur}
  BY <1>1, <1>3, ScanFacts
<1>6. Covered(Boxes) \subseteq Covered(Boxes')
  BY <1>4, <1>5, Replaced
<1> QED BY <1>2, <1>6 DEF Keeps

\* A rectangle inside the part is unlinked; the part still covers it.
LEMMA ScanSwallowsMoves ==
  ASSUME ListOK, ScanSwallows
  PROVE  Keeps
<1>1. /\ Scans /\ Inside(rects[at], cur) /\ Unlink
      /\ mode' = mode /\ cur' = cur /\ at' = at /\ dirty' = dirty
  BY DEF ScanSwallows
<1>2. ListOK'
  BY <1>1, UnlinkFacts, ScanFacts DEF ListOK, Idle
<1>3. Boxes' = Range(rects') \union Range(dirty) \union {cur}
  BY <1>1, ScanFacts DEF Boxes
<1>4. Cells(rects[at]) \subseteq Covered(Boxes')
  <2>1. Cells(rects[at]) \subseteq Cells(cur) /\ cur \in Boxes'
    BY <1>1, <1>3, ScanFacts, InsideFacts
  <2> QED BY <2>1, OneCovers
<1>5. Boxes \subseteq Boxes' \union {rects[at]}
  BY <1>1, <1>3, ScanFacts, UnlinkFacts
<1>6. Covered(Boxes) \subseteq Covered(Boxes')
  BY <1>4, <1>5, Replaced
<1> QED BY <1>2, <1>6 DEF Keeps

\* The rectangle around both covers both.
LEMMA ScanMergesMoves ==
  ASSUME ListOK, ScanMerges
  PROVE  Keeps
<1> DEFINE o == Outer(cur, rects[at])
<1>1. /\ Scans /\ Unlink /\ dirty' = Append(dirty, o)
      /\ mode' = "next" /\ cur' = Nothing /\ at' = 0
  BY DEF ScanMerges, Apart, DropCur
<1>2. o \in Sound /\ Cells(cur) \subseteq Cells(o) /\ Cells(rects[at]) \subseteq Cells(o)
  BY <1>1, ScanFacts, OuterFacts
<1> HIDE DEF o
<1>3. dirty' \in Seq(Sound) /\ Range(dirty') = Range(dirty) \union {o}
  BY <1>1, <1>2, AppendFacts DEF ListOK
<1>4. ListOK'
  BY <1>1, <1>3, UnlinkFacts DEF ListOK, Idle
<1>5. Boxes' = Range(rects') \union Range(dirty) \union {o}
  BY <1>1, <1>3 DEF Boxes
<1>6. Cells(cur) \subseteq Covered(Boxes') /\ Cells(rects[at]) \subseteq Covered(Boxes')
  <2>1. Cells(o) \subseteq Covered(Boxes')
    BY <1>5, OneCovers
  <2> QED BY <1>2, <2>1
<1>7. Boxes \subseteq Boxes' \union {cur, rects[at]}
  BY <1>1, <1>5, ScanFacts, UnlinkFacts
<1>8. Covered(Boxes) \subseteq Covered(Boxes')
  BY <1>6, <1>7, BothReplaced
<1> QED BY <1>4, <1>8 DEF Keeps

\* Passing a rectangle moves only the pointer.
LEMMA ScanPassesMoves ==
  ASSUME ListOK, ScanPasses
  PROVE  Keeps
<1>1. /\ Scans /\ at' = at + 1 /\ rects' = rects /\ mode' = mode /\ cur' = cur
      /\ oldLast' = oldLast /\ dirty' = dirty
  BY DEF ScanPasses, Apart, tilebuf
<1>2. ListOK'
  BY <1>1, ScanFacts DEF ListOK, Idle
<1>3. Boxes' = Boxes
  BY <1>1 DEF Boxes
<1> QED BY <1>2, <1>3 DEF Keeps

\* It does not matter which of two rectangles overlaps the other.
LEMMA OverlapBoth ==
  ASSUME NEW a \in Sound, NEW b \in Sound, Overlap(a, b)
  PROVE  Overlap(b, a)
BY SoundFacts DEF Overlap, IntraWidth, IntraHeight, Lower, Higher

\* Rectangles are split only if they overlap.
LEMMA SplitsOverlap ==
  ASSUME ListOK, Splits, env \in Environments
  PROVE  Overlap(rects[at], cur)
<1>1. Scans /\ IntraArea(cur, rects[at]) > env.error /\ env.error \in Nat
  BY EnvironmentAssumption DEF Splits, Apart, EnvironmentType
<1>2. Overlap(cur, rects[at])
  BY <1>1 DEF IntraArea
<1> QED BY <1>1, <1>2, ScanFacts, OverlapBoth

\* A rectangle that is widened, and the parts above and below, cover both.
LEMMA SplitWidensMoves ==
  ASSUME ListOK, SplitWidens, env \in Environments
  PROVE  Keeps
<1> DEFINE a == rects[at]
           w == Widened(a, cur)
           c == Caps(a, cur)
<1>1. /\ Scans /\ Splits /\ Widens /\ Unlink /\ dirty' = Append(dirty \o c, w)
      /\ mode' = "next" /\ cur' = Nothing /\ at' = 0
  BY DEF SplitWidens, Splits, Apart, DropCur
<1>2. /\ w \in Sound /\ c \in Seq(Sound)
      /\ Cells(a) \subseteq Cells(w) /\ Cells(cur) \subseteq Covered(Range(c)) \union Cells(w)
  BY <1>1, ScanFacts, SplitsOverlap, WidenFacts, CapsFacts DEF Widens
<1> HIDE DEF w, c
<1>3. dirty' \in Seq(Sound) /\ Range(dirty') = Range(dirty) \union Range(c) \union {w}
  <2> DEFINE t == dirty \o c
  <2>1. t \in Seq(Sound) /\ Range(t) = Range(dirty) \union Range(c)
    BY <1>2, JoinFacts DEF ListOK
  <2>2. dirty' = Append(t, w)
    BY <1>1
  <2> HIDE DEF t
  <2>3. Append(t, w) \in Seq(Sound) /\ Range(Append(t, w)) = Range(t) \union {w}
    BY <1>2, <2>1, AppendFacts
  <2> QED BY <2>1, <2>2, <2>3
<1>4. ListOK'
  BY <1>1, <1>3, UnlinkFacts DEF ListOK, Idle
<1>5. Boxes' = Range(rects') \union Range(dirty) \union Range(c) \union {w}
  BY <1>1, <1>3 DEF Boxes
<1>6. Cells(cur) \subseteq Covered(Boxes') /\ Cells(a) \subseteq Covered(Boxes')
  <2>1. Cells(w) \subseteq Covered(Boxes')
    BY <1>5, OneCovers
  <2>2. Covered(Range(c)) \subseteq Covered(Boxes')
    BY <1>5, CoveredFacts
  <2> QED BY <1>2, <2>1, <2>2
<1>7. Boxes \subseteq Boxes' \union {cur, a}
  BY <1>1, <1>5, ScanFacts, UnlinkFacts
<1>8. Covered(Boxes) \subseteq Covered(Boxes')
  BY <1>6, <1>7, BothReplaced
<1> QED BY <1>4, <1>8 DEF Keeps

\* The split that was "totally useless" never happens.
LEMMA SplitIntoMoves ==
  ASSUME ListOK, SplitInto, env \in Environments
  PROVE  Keeps /\ mode' = "next"
<1> DEFINE a == rects[at]
           s == SplitStrict(a, cur)
<1>1. /\ Scans /\ Splits /\ ~Inside(cur, a) /\ dirty' = dirty \o s
      /\ mode' = (IF s = <<>> THEN "abort" ELSE "next")
      /\ cur' = Nothing /\ at' = 0 /\ rects' = rects /\ oldLast' = oldLast
  BY DEF SplitInto, Splits, Apart, tilebuf
<1>2. /\ s \in Seq(Sound) /\ s # <<>>
      /\ Covered(Range(s)) = Cells(cur) \ Cells(a)
  BY <1>1, ScanFacts, SplitsOverlap, SplitFacts
<1> HIDE DEF s
<1>3. dirty' \in Seq(Sound) /\ Range(dirty') = Range(dirty) \union Range(s)
  BY <1>1, <1>2, JoinFacts DEF ListOK
<1>4. mode' = "next"
  BY <1>1, <1>2
<1>5. ListOK'
  BY <1>1, <1>3, <1>4 DEF ListOK, Idle
<1>6. Boxes' = Range(rects) \union Range(dirty) \union Range(s)
  BY <1>1, <1>3, <1>4 DEF Boxes
<1>7. Cells(cur) \subseteq Covered(Boxes')
  <2>1. Cells(a) \subseteq Covered(Boxes')
    BY <1>1, <1>6, ScanFacts, OneCovers
  <2>2. Covered(Range(s)) \subseteq Covered(Boxes')
    BY <1>6, CoveredFacts
  <2> QED BY <1>2, <2>1, <2>2
<1>8. Boxes \subseteq Boxes' \union {cur}
  BY <1>1, <1>6, ScanFacts
<1>9. Covered(Boxes) \subseteq Covered(Boxes')
  BY <1>7, <1>8, Replaced
<1> QED BY <1>4, <1>5, <1>9 DEF Keeps

\* A part that no rectangle took joins the list.
LEMMA ScanKeepsMoves ==
  ASSUME ListOK, ScanKeeps
  PROVE  Keeps
<1>1. /\ mode = "scan" /\ rects' = Append(rects, cur) /\ mode' = "next"
      /\ cur' = Nothing /\ at' = 0
      /\ oldLast' = oldLast /\ dirty' = dirty
  BY DEF ScanKeeps, DropCur
<1>2. rects \in Seq(Sound) /\ cur \in Sound /\ Len(rects) \in Nat
  BY <1>1 DEF ListOK
<1>3. /\ rects' \in Seq(Sound) /\ Range(rects') = Range(rects) \union {cur}
      /\ Len(rects') = Len(rects) + 1
  BY <1>1, <1>2, AppendFacts
<1>4. ListOK'
  BY <1>1, <1>2, <1>3 DEF ListOK, Idle
<1>5. Boxes' = Boxes
  BY <1>1, <1>3 DEF Boxes
<1> QED BY <1>4, <1>5 DEF Keeps

\* What is behind old_last becomes what has to be merged.
LEMMA SplitEndsMoves ==
  ASSUME ListOK, SplitEnds
  PROVE  Keeps
<1>1. mode = "next" /\ dirty = <<>> /\ rects \in Seq(Sound) /\ oldLast \in 0 .. Len(rects) /\ Len(rects) \in Nat
  BY DEF SplitEnds, ListOK
<1>2. Range(<<>>) = {}
  BY DEF Range
<1>3. CASE /\ oldLast # 0 /\ rects' = SubSeq(rects, 1, oldLast)
           /\ dirty' = SubSeq(rects, oldLast + 1, Len(rects))
           /\ mode' = "merge" /\ oldLast' = 0 /\ cur' = cur /\ at' = at
  <2>1. /\ rects' \in Seq(Sound) /\ dirty' \in Seq(Sound) /\ Len(rects') = oldLast
        /\ Range(rects) = Range(rects') \union Range(dirty')
    BY <1>1, <1>3, CutFacts
  <2>2. ListOK'
    BY <1>1, <1>3, <2>1 DEF ListOK, Idle
  <2>3. Boxes' = Boxes
    BY <1>1, <1>2, <1>3, <2>1 DEF Boxes
  <2> QED BY <2>2, <2>3 DEF Keeps
<1>4. CASE EndCall /\ rects' = rects
  <2>1. mode' = "idle" /\ cur' = Nothing /\ at' = 0 /\ oldLast' = 0 /\ dirty' = <<>>
    BY <1>4 DEF EndCall
  <2>2. ListOK'
    BY <1>1, <1>4, <2>1 DEF ListOK, Idle
  <2>3. Boxes' = Boxes
    BY <1>1, <1>4, <2>1 DEF Boxes
  <2> QED BY <2>2, <2>3 DEF Keeps
<1> QED BY <1>3, <1>4 DEF SplitEnds

\* Merging replaces two rectangles by the one around both.
LEMMA MergeIntoMoves ==
  ASSUME ListOK, MergeInto
  PROVE  Keeps
<1> DEFINE h == Head(dirty)
<1>1. PICK i \in DOMAIN rects : /\ rects' = RemoveAt(rects, i)
                                /\ dirty' = Append(Tail(dirty), Outer(h, rects[i]))
  BY DEF MergeInto
<1>2. /\ mode = "merge" /\ dirty # <<>> /\ mode' = mode /\ cur' = cur /\ at' = at
      /\ oldLast' = oldLast
      /\ rects \in Seq(Sound) /\ dirty \in Seq(Sound) /\ oldLast = 0 /\ Len(rects) \in Nat
  BY DEF MergeInto, ListOK
<1>3. i \in 1 .. Len(rects)
  BY <1>2
<1>4. h \in Sound /\ Tail(dirty) \in Seq(Sound) /\ Range(dirty) = Range(Tail(dirty)) \union {h}
  BY <1>2, HeadFacts
<1> HIDE DEF h
<1>5. /\ rects[i] \in Sound /\ rects' \in Seq(Sound) /\ Len(rects') = Len(rects) - 1
      /\ Range(rects) = Range(rects') \union {rects[i]}
  <2>1. /\ rects[i] \in Sound /\ RemoveAt(rects, i) \in Seq(Sound)
        /\ Len(RemoveAt(rects, i)) = Len(rects) - 1
        /\ Range(rects) = Range(RemoveAt(rects, i)) \union {rects[i]}
    BY <1>2, <1>3, RemoveFacts
  <2> QED BY <1>1, <2>1
<1> DEFINE o == Outer(h, rects[i])
<1>6. o \in Sound /\ Cells(h) \subseteq Cells(o) /\ Cells(rects[i]) \subseteq Cells(o)
  BY <1>4, <1>5, OuterFacts
<1> HIDE DEF o
<1>7. dirty' \in Seq(Sound) /\ Range(dirty') = Range(Tail(dirty)) \union {o}
  <2> DEFINE t == Tail(dirty)
  <2>1. dirty' = Append(t, o)
    BY <1>1 DEF o
  <2>2. t \in Seq(Sound)
    BY <1>4
  <2> HIDE DEF t
  <2>3. Append(t, o) \in Seq(Sound) /\ Range(Append(t, o)) = Range(t) \union {o}
    BY <1>6, <2>2, AppendFacts
  <2> QED BY <2>1, <2>3 DEF t
<1>8. ListOK'
  BY <1>2, <1>3, <1>5, <1>7 DEF ListOK, Idle
<1>9. Boxes' = Range(rects') \union Range(Tail(dirty)) \union {o}
  BY <1>2, <1>7 DEF Boxes
<1>10. Cells(h) \subseteq Covered(Boxes') /\ Cells(rects[i]) \subseteq Covered(Boxes')
  <2>1. Cells(o) \subseteq Covered(Boxes')
    BY <1>9, OneCovers
  <2> QED BY <1>6, <2>1
<1>11. Boxes \subseteq Boxes' \union {h, rects[i]}
  BY <1>2, <1>4, <1>5, <1>9 DEF Boxes
<1>12. Covered(Boxes) \subseteq Covered(Boxes')
  BY <1>10, <1>11, BothReplaced
<1> QED BY <1>8, <1>12 DEF Keeps

\* A rectangle that merges with no other joins the list.
LEMMA MergeKeepsMoves ==
  ASSUME ListOK, MergeKeeps
  PROVE  Keeps
<1>1. /\ mode = "merge" /\ dirty # <<>> /\ rects' = Append(rects, Head(dirty))
      /\ dirty' = Tail(dirty)
      /\ mode' = mode /\ cur' = cur /\ at' = at /\ oldLast' = oldLast
      /\ rects \in Seq(Sound) /\ dirty \in Seq(Sound) /\ oldLast = 0 /\ Len(rects) \in Nat
  BY DEF MergeKeeps, ListOK
<1>2. /\ Head(dirty) \in Sound /\ Tail(dirty) \in Seq(Sound)
      /\ Range(dirty) = Range(Tail(dirty)) \union {Head(dirty)}
  BY <1>1, HeadFacts
<1>3. /\ rects' \in Seq(Sound) /\ Range(rects') = Range(rects) \union {Head(dirty)}
      /\ Len(rects') = Len(rects) + 1
  BY <1>1, <1>2, AppendFacts
<1>4. ListOK'
  BY <1>1, <1>2, <1>3 DEF ListOK, Idle
<1>5. Boxes' = Boxes
  BY <1>1, <1>2, <1>3 DEF Boxes
<1> QED BY <1>4, <1>5 DEF Keeps

\* With nothing left to merge the call returns.
LEMMA MergeEndsMoves ==
  ASSUME ListOK, MergeEnds
  PROVE  Keeps
<1>1. /\ mode = "merge" /\ dirty = <<>> /\ rects' = rects
      /\ mode' = "idle" /\ cur' = Nothing /\ at' = 0 /\ oldLast' = 0 /\ dirty' = <<>>
      /\ rects \in Seq(Sound) /\ Len(rects) \in Nat
  BY DEF MergeEnds, EndCall, tilebuf, ListOK
<1>2. ListOK'
  BY <1>1 DEF ListOK, Idle
<1>3. Boxes' = Boxes
  BY <1>1 DEF Boxes
<1> QED BY <1>2, <1>3 DEF Keeps

\* The steps of the loop that adds.
AddLoop ==
  \/ TakeDirty \/ ScanInside \/ ScanSwallows \/ ScanMerges \/ ScanPasses
  \/ SplitWidens \/ SplitInto \/ ScanKeeps \/ SplitEnds
  \/ MergeInto \/ MergeKeeps \/ MergeEnds

\* No step of the loop that adds loses a pixel, nor is it ever a deletion.
LEMMA AddLoopKeeps ==
  ASSUME ListOK, env \in Environments, AddLoop
  PROVE  /\ Keeps
         /\ mode \in {"next", "scan", "merge"} /\ mode' \in {"next", "scan", "merge", "idle"}
         /\ prevAdd' = prevAdd /\ prevDel' = prevDel /\ needMerge' = needMerge
         /\ UNCHANGED <<frame, wanted>>
<1>1. CASE TakeDirty
  BY <1>1, TakeDirtyMoves DEF TakeDirty, tilebuf
<1>2. CASE ScanInside
  BY <1>2, ScanInsideMoves DEF ScanInside, Scans, DropCur, tilebuf
<1>3. CASE ScanSwallows
  BY <1>3, ScanSwallowsMoves DEF ScanSwallows, Scans
<1>4. CASE ScanMerges
  BY <1>4, ScanMergesMoves DEF ScanMerges, Apart, Scans, DropCur
<1>5. CASE ScanPasses
  BY <1>5, ScanPassesMoves DEF ScanPasses, Apart, Scans, tilebuf
<1>6. CASE SplitWidens
  BY <1>6, SplitWidensMoves DEF SplitWidens, Splits, Apart, Scans, DropCur
<1>7. CASE SplitInto
  BY <1>7, SplitIntoMoves DEF SplitInto, Splits, Apart, Scans, tilebuf
<1>8. CASE ScanKeeps
  BY <1>8, ScanKeepsMoves DEF ScanKeeps, DropCur
<1>9. CASE SplitEnds
  BY <1>9, SplitEndsMoves DEF SplitEnds, EndCall
<1>10. CASE MergeInto
  BY <1>10, MergeIntoMoves DEF MergeInto
<1>11. CASE MergeKeeps
  BY <1>11, MergeKeepsMoves DEF MergeKeeps
<1>12. CASE MergeEnds
  BY <1>12, MergeEndsMoves DEF MergeEnds, EndCall, tilebuf
<1> QED BY <1>1, <1>2, <1>3, <1>4, <1>5, <1>6, <1>7, <1>8, <1>9, <1>10, <1>11, <1>12 DEF AddLoop

\* So it preserves the invariant, in whichever phase of a render it runs.
LEMMA AddLoopInv ==
  ASSUME IInv, AddLoop
  PROVE  IInv'
<1>1. ListOK /\ FrameOK /\ NothingLost /\ AddInv /\ DelInv /\ StaleInv /\ env \in Environments
  BY DEF IInv, FrameOK
<1>2. /\ ListOK' /\ Covered(Boxes) \subseteq Covered(Boxes')
      /\ mode \in {"next", "scan", "merge"} /\ mode' \in {"next", "scan", "merge", "idle"}
  BY <1>1, AddLoopKeeps DEF Keeps
<1>3. /\ prevAdd' = prevAdd /\ prevDel' = prevDel /\ needMerge' = needMerge /\ wanted' = wanted
      /\ pc' = pc /\ previous' = previous /\ todo' = todo /\ firstFrame' = firstFrame
      /\ changed' = changed /\ calls' = calls /\ back' = back /\ shown' = shown
      /\ stale' = stale
      /\ env' = env
  BY <1>1, AddLoopKeeps DEF frame
<1>4. FrameOK'
  BY <1>1, <1>3 DEF FrameOK
<1>5. NothingLost' /\ AddInv'
  BY <1>1, <1>2, <1>3 DEF NothingLost, AddInv
<1>6. DelInv'
  BY <1>1, <1>2, <1>3 DEF DelInv, Idle
<1>7. StaleInv'
  BY <1>1, <1>2, <1>3 DEF StaleInv
<1> QED BY <1>2, <1>4, <1>5, <1>6, <1>7 DEF IInv

-----------------------------------------------------------------------------
\* The loop that deletes

\* Rectangles that do not overlap have no pixel in common.
LEMMA ApartFacts ==
  ASSUME NEW a \in Sound, NEW b \in Sound, ~Overlap(a, b)
  PROVE  Cells(a) \cap Cells(b) = {}
<1>1. SUFFICES ASSUME NEW p \in Pixels, p \in Cells(a), p \in Cells(b)
               PROVE  FALSE
  BY DEF Cells
<1>2. /\ a.left <= p[1] /\ p[1] < a.right /\ a.top <= p[2] /\ p[2] < a.bottom
      /\ b.left <= p[1] /\ p[1] < b.right /\ b.top <= p[2] /\ p[2] < b.bottom
  BY <1>1, SoundCells
<1>3. IntraWidth(a, b) > 0 /\ IntraHeight(a, b) > 0
  BY <1>2, SoundFacts, PixelFacts DEF IntraWidth, IntraHeight, Lower, Higher
<1> QED BY <1>3 DEF Overlap

\* What is known when the loop compares the deleted rectangle with another one.
LEMMA DelFacts ==
  ASSUME IInv, mode = "delete"
  PROVE  /\ cur \in Sound /\ at \in Nat /\ at > 0 /\ Len(rects) \in Nat
         /\ rects \in Seq(Sound) /\ dirty \in Seq(Sound) /\ oldLast = 0
         /\ pc = "render" /\ Empty(prevAdd) /\ ~Empty(prevDel) /\ cur = AsRect(prevDel)
         /\ Cells(cur) \cap wanted = {} /\ Cells(cur) \cap Covered(Range(dirty)) = {}
         /\ \A i \in 1 .. Len(rects) : i < at => Cells(cur) \cap Cells(rects[i]) = {}
         /\ wanted \subseteq Covered(Boxes) /\ Boxes = Range(rects) \union Range(dirty)
<1>1. ListOK /\ DelInv /\ NothingLost
  BY DEF IInv
<1>2. /\ cur \in Sound /\ at \in Nat /\ at > 0 /\ Len(rects) \in Nat
      /\ rects \in Seq(Sound) /\ dirty \in Seq(Sound) /\ oldLast = 0
  BY <1>1 DEF ListOK
<1>3. /\ pc = "render" /\ Empty(prevAdd) /\ ~Empty(prevDel) /\ cur = AsRect(prevDel)
      /\ Cells(cur) \cap wanted = {} /\ Cells(cur) \cap Covered(Range(dirty)) = {}
      /\ \A i \in 1 .. Len(rects) : i < at => Cells(cur) \cap Cells(rects[i]) = {}
  BY <1>1 DEF DelInv
<1>4. wanted \subseteq Covered(Boxes) /\ Boxes = Range(rects) \union Range(dirty)
  BY <1>1 DEF NothingLost, Boxes
<1> QED BY <1>2, <1>3, <1>4

\* A step that does not end the loop: what remains to be shown of it.
LEMMA DelStep ==
  ASSUME IInv, mode = "delete", mode' = "delete",
         UNCHANGED <<prevAdd, prevDel, needMerge, cur, oldLast, frame, wanted>>,
         rects' \in Seq(Sound), dirty' \in Seq(Sound), at' \in Nat, at' > 0,
         Covered(Boxes) \subseteq Covered(Boxes') \union Cells(cur),
         Cells(cur) \cap Covered(Range(dirty')) = {},
         \A i \in 1 .. Len(rects') : i < at' => Cells(cur) \cap Cells(rects'[i]) = {}
  PROVE  IInv'
<1>1. ListOK /\ FrameOK /\ StaleInv
  BY DEF IInv
<1>2. /\ prevAdd' = prevAdd /\ prevDel' = prevDel /\ needMerge' = needMerge /\ wanted' = wanted
      /\ cur' = cur /\ oldLast' = oldLast
      /\ pc' = pc /\ previous' = previous /\ todo' = todo /\ firstFrame' = firstFrame
      /\ changed' = changed /\ calls' = calls /\ back' = back /\ shown' = shown
      /\ stale' = stale
      /\ env' = env
  BY DEF frame
<1>3. ListOK'
  <2>1. Len(rects') \in Nat
    OBVIOUS
  <2> QED BY <2>1, <1>1, <1>2, DelFacts DEF ListOK, Idle
<1>4. FrameOK'
  BY <1>1, <1>2 DEF FrameOK
<1>5. NothingLost'
  BY <1>2, DelFacts DEF NothingLost
<1>6. AddInv'
  BY <1>2, DelFacts DEF AddInv
<1>7. DelInv'
  BY <1>2, DelFacts DEF DelInv, Idle
<1>8. StaleInv'
  BY <1>1, <1>2, DelFacts DEF StaleInv
<1> QED BY <1>3, <1>4, <1>5, <1>6, <1>7, <1>8 DEF IInv

\* The loop that deletes passes a rectangle that does not overlap.
LEMMA DelPassesInv ==
  ASSUME IInv, DelPasses
  PROVE  IInv'
<1>1. /\ mode = "delete" /\ at \in DOMAIN rects /\ ~Overlap(cur, rects[at]) /\ at' = at + 1
      /\ rects' = rects /\ dirty' = dirty /\ mode' = mode
      /\ UNCHANGED <<prevAdd, prevDel, needMerge, cur, oldLast, frame, wanted>>
  BY DEF DelPasses, Deletes, tilebuf
<1>2. at \in 1 .. Len(rects) /\ rects[at] \in Sound
  BY <1>1, DelFacts
<1>3. Cells(cur) \cap Cells(rects[at]) = {}
  BY <1>1, <1>2, DelFacts, ApartFacts
<1>4. Boxes' = Boxes
  BY <1>1 DEF Boxes
<1>5. at' \in Nat /\ at' > 0 /\ \A i \in 1 .. Len(rects) : i < at' => i < at \/ i = at
  BY <1>1, DelFacts
<1>6. \A i \in 1 .. Len(rects') : i < at' => Cells(cur) \cap Cells(rects'[i]) = {}
  BY <1>1, <1>3, <1>5, DelFacts
<1> QED BY <1>1, <1>4, <1>5, <1>6, DelFacts, DelStep

\* The rectangle is unlinked; those before it stay where they are.
LEMMA DelUnlinks ==
  ASSUME IInv, Deletes, rects' = RemoveAt(rects, at)
  PROVE  /\ at \in 1 .. Len(rects) /\ rects[at] \in Sound /\ rects' \in Seq(Sound)
         /\ Range(rects) = Range(rects') \union {rects[at]}
         /\ \A i \in 1 .. Len(rects') : i < at => Cells(cur) \cap Cells(rects'[i]) = {}
<1>1. mode = "delete" /\ at \in DOMAIN rects
  BY DEF Deletes
<1>2. at \in 1 .. Len(rects)
  BY <1>1, DelFacts
<1>3. /\ rects[at] \in Sound /\ rects' \in Seq(Sound) /\ Len(rects') = Len(rects) - 1
      /\ Range(rects) = Range(rects') \union {rects[at]}
      /\ \A j \in 1 .. at - 1 : rects'[j] = rects[j]
  BY <1>1, <1>2, DelFacts, RemoveFacts
<1>4. ASSUME NEW i \in 1 .. Len(rects'), i < at
      PROVE  Cells(cur) \cap Cells(rects'[i]) = {}
  <2>1. i \in 1 .. at - 1 /\ i \in 1 .. Len(rects)
    BY <1>1, <1>3, <1>4, DelFacts
  <2> QED BY <1>1, <1>3, <1>4, <2>1, DelFacts
<1> QED BY <1>2, <1>3, <1>4

\* It removes a rectangle that lies inside.
LEMMA DelRemovesInv ==
  ASSUME IInv, DelRemoves
  PROVE  IInv'
<1>1. /\ mode = "delete" /\ Deletes /\ Inside(rects[at], cur) /\ rects' = RemoveAt(rects, at)
      /\ dirty' = dirty /\ mode' = mode /\ at' = at
      /\ UNCHANGED <<prevAdd, prevDel, needMerge, cur, oldLast, frame, wanted>>
  BY DEF DelRemoves, Deletes, loop
<1>2. Cells(rects[at]) \subseteq Cells(cur)
  BY <1>1, DelFacts, DelUnlinks, InsideFacts
<1>3. Boxes' = Range(rects') \union Range(dirty)
  BY <1>1 DEF Boxes
<1>4. Covered(Boxes) \subseteq Covered(Boxes') \union Cells(cur)
  <2>1. Boxes = Boxes' \union {rects[at]}
    BY <1>1, <1>3, DelFacts, DelUnlinks
  <2>2. Covered(Boxes) = Covered(Boxes') \union Covered({rects[at]})
    BY <2>1, CoveredFacts
  <2>3. Covered({rects[at]}) = Cells(rects[at])
    BY DEF Covered, Cells
  <2> QED BY <1>2, <2>2, <2>3
<1> QED BY <1>1, <1>4, DelFacts, DelUnlinks, DelStep

\* It splits one that overlaps: the parts share no pixel with what is deleted.
LEMMA DelSplitsInv ==
  ASSUME IInv, DelSplits
  PROVE  IInv'
<1> DEFINE b == rects[at]
           s == SplitStrict(cur, b)
<1>1. /\ mode = "delete" /\ Deletes /\ Overlap(cur, b) /\ rects' = RemoveAt(rects, at)
      /\ dirty' = dirty \o s /\ mode' = mode /\ at' = at
      /\ UNCHANGED <<prevAdd, prevDel, needMerge, cur, oldLast, frame, wanted>>
  BY DEF DelSplits, Deletes
<1>2. s \in Seq(Sound) /\ Covered(Range(s)) = Cells(b) \ Cells(cur)
  BY <1>1, DelFacts, DelUnlinks, SplitFacts
<1> HIDE DEF s
<1>3. dirty' \in Seq(Sound) /\ Range(dirty') = Range(dirty) \union Range(s)
  BY <1>1, <1>2, DelFacts, JoinFacts
<1>4. Covered(Range(dirty')) = Covered(Range(dirty)) \union Covered(Range(s))
  BY <1>3, CoveredFacts
<1>5. Cells(cur) \cap Covered(Range(dirty')) = {}
  BY <1>1, <1>2, <1>4, DelFacts
<1>6. Covered(Boxes) \subseteq Covered(Boxes') \union Cells(cur)
  <2>1. Boxes' = Range(rects') \union Range(dirty) \union Range(s)
    BY <1>1, <1>3 DEF Boxes
  <2>2. Boxes \subseteq Range(rects') \union Range(dirty) \union {b}
    BY <1>1, DelFacts, DelUnlinks
  <2>3. /\ Covered(Range(rects')) \subseteq Covered(Boxes')
        /\ Covered(Range(dirty)) \subseteq Covered(Boxes')
        /\ Covered(Range(s)) \subseteq Covered(Boxes')
    BY <2>1, CoveredFacts
  <2>4. Covered(Boxes) \subseteq Covered(Range(rects')) \union Covered(Range(dirty)) \union Cells(b)
    BY <2>2 DEF Covered, Cells
  <2> QED BY <1>2, <2>3, <2>4
<1> QED BY <1>1, <1>3, <1>5, <1>6, DelFacts, DelUnlinks, DelStep

\* At its end the parts join the list.
LEMMA DelEndsInv ==
  ASSUME IInv, DelEnds
  PROVE  IInv'
<1>1. /\ mode = "delete" /\ at > Len(rects) /\ rects' = rects \o dirty /\ needMerge' = TRUE
      /\ mode' = "idle" /\ cur' = Nothing /\ at' = 0 /\ oldLast' = 0 /\ dirty' = <<>>
      /\ prevAdd' = prevAdd /\ prevDel' = prevDel /\ wanted' = wanted
      /\ pc' = pc /\ previous' = previous /\ todo' = todo /\ firstFrame' = firstFrame
      /\ changed' = changed /\ calls' = calls /\ back' = back /\ shown' = shown
      /\ stale' = stale
      /\ env' = env
  BY DEF DelEnds, EndCall, frame
<1>2. ListOK /\ FrameOK /\ StaleInv
  BY DEF IInv
<1>3. rects' \in Seq(Sound) /\ Range(rects') = Range(rects) \union Range(dirty)
  BY <1>1, DelFacts, JoinFacts
<1>4. Boxes' = Boxes
  <2>1. Range(<<>>) = {}
    BY DEF Range
  <2> QED BY <1>1, <1>3, <2>1, DelFacts DEF Boxes
<1>5. ListOK'
  <2>1. Len(rects') \in Nat
    BY <1>3
  <2> QED BY <1>1, <1>3, <2>1 DEF ListOK, Idle
<1>6. FrameOK'
  BY <1>1, <1>2 DEF FrameOK
<1>7. NothingLost' /\ AddInv'
  BY <1>1, <1>4, DelFacts DEF NothingLost, AddInv
<1>8. DelInv'
  <2>1. Cells(cur) \cap Covered(Range(rects)) = {}
    <3>1. ASSUME NEW p \in Cells(cur), NEW r \in Range(rects)
          PROVE  ~In(p, r)
      <4>1. PICK i \in 1 .. Len(rects) : r = rects[i]
        BY <1>1, DelFacts, RangeFacts
      <4>2. i < at
        BY <1>1, DelFacts
      <4> QED BY <1>1, <4>1, <4>2, DelFacts DEF Cells
    <3> QED BY <3>1 DEF Covered
  <2>2. Covered(Range(rects')) = Covered(Range(rects)) \union Covered(Range(dirty))
    BY <1>3, CoveredFacts
  <2>3. Cells(AsRect(prevDel)) \cap Covered(Range(rects')) = {}
    BY <1>1, <2>1, <2>2, DelFacts
  <2> QED BY <1>1, <2>3 DEF DelInv, Idle
<1>9. StaleInv'
  BY <1>1, <1>2, DelFacts DEF StaleInv
<1> QED BY <1>5, <1>6, <1>7, <1>8, <1>9 DEF IInv

-----------------------------------------------------------------------------
\* The calls

\* Clearing the width and the height of the rectangle kept leaves it empty.
LEMMA Cleared ==
  ASSUME NEW r \in Input
  PROVE  [r EXCEPT !.w = 0, !.h = 0] \in Input /\ Empty([r EXCEPT !.w = 0, !.h = 0])
<1> DEFINE z == 0
           q == [r EXCEPT !.w = z, !.h = z]
<1>1. z \in Int /\ z <= 0
  OBVIOUS
<1> HIDE DEF z
<1>2. q \in Input /\ q.w = z
  BY <1>1 DEF Input
<1>3. Empty(q)
  BY <1>1, <1>2 DEF Empty
<1> QED BY <1>2, <1>3 DEF z

\* When no loop runs the boxes are the list.
LEMMA IdleFacts ==
  ASSUME ListOK, Idle
  PROVE  /\ Boxes = Range(rects) /\ dirty = <<>> /\ oldLast = 0 /\ mode = "idle"
         /\ rects \in Seq(Sound) /\ Len(rects) \in Nat
<1>1. Range(<<>>) = {}
  BY DEF Range
<1> QED BY <1>1 DEF ListOK, Idle, Boxes

\* The beginning of a call that adds, by a render or for the frame before: what
\* is added is covered, and so is what was. Nothing counts as deleted unless
\* nothing was done.
LEMMA AddStartFacts ==
  ASSUME IInv, Idle, NEW r \in Input, AddStart(r)
  PROVE  /\ ListOK' /\ AddInv' /\ NothingLost'
         /\ wanted' \subseteq Pixels /\ needMerge' = needMerge
         /\ \A q \in {prevAdd', prevDel'} : q \in Input /\ (Empty(q) \/ AsRect(q) \in Sound)
         /\ Covered(Boxes) \union Cells(AsRect(r)) \subseteq Covered(Boxes')
         /\ mode' \in {"idle", "next"}
         /\ Empty(prevDel') \/ (UNCHANGED tilebuf /\ UNCHANGED loop)
<1> DEFINE c == Clip(r)
           b == AsRect(c)
<1>1. ListOK /\ FrameOK /\ NothingLost /\ AddInv
  BY DEF IInv
<1>2. /\ c \in Input
      /\ Empty(c) \/ b \in Sound
      /\ Cells(b) = Cells(AsRect(r)) /\ (Empty(c) => Cells(b) = {})
  BY ClipFacts
<1>3. /\ c \in Input
      /\ prevAdd \in Input /\ prevDel \in Input
      /\ Empty(prevAdd) \/ AsRect(prevAdd) \in Sound
      /\ Empty(prevDel) \/ AsRect(prevDel) \in Sound
      /\ wanted \subseteq Pixels
  BY <1>1, ClipFacts DEF FrameOK
<1>4. wanted' = wanted \union Cells(b)
  BY DEF AddStart
<1>5. Cells(b) \subseteq Pixels
  BY DEF Cells
<1>6. /\ Boxes = Range(rects) /\ dirty = <<>> /\ oldLast = 0 /\ mode = "idle"
      /\ rects \in Seq(Sound) /\ Len(rects) \in Nat
  BY <1>1, IdleFacts
<1>7. wanted \subseteq Covered(Boxes)
  BY <1>1 DEF NothingLost
<1>8. CASE (Empty(c) \/ c = prevAdd) /\ UNCHANGED <<tilebuf, loop>>
  <2>1. /\ rects' = rects /\ prevAdd' = prevAdd /\ prevDel' = prevDel /\ needMerge' = needMerge
        /\ mode' = mode /\ cur' = cur /\ at' = at /\ oldLast' = oldLast /\ dirty' = dirty
    BY <1>8 DEF tilebuf, loop
  <2>2. Boxes' = Boxes
    BY <2>1 DEF Boxes
  <2>3. Cells(b) \subseteq Covered(Boxes)
    <3>1. CASE Empty(c)
      BY <3>1, <1>2
    <3>2. CASE ~Empty(c)
      BY <3>2, <1>1, <1>8 DEF AddInv
    <3> QED BY <3>1, <3>2
  <2>4. ListOK'
    BY <1>1, <2>1 DEF ListOK, Idle
  <2>5. AddInv'
    BY <1>1, <2>1, <2>2 DEF AddInv
  <2>6. NothingLost'
    BY <1>4, <1>7, <2>2, <2>3 DEF NothingLost
  <2> QED BY <1>2, <1>3, <1>4, <1>5, <1>6, <1>8, <2>1, <2>2, <2>3, <2>4, <2>5, <2>6
<1>9. CASE /\ ~Empty(c) /\ c # prevAdd
           /\ prevAdd' = c /\ prevDel' = [prevDel EXCEPT !.w = 0, !.h = 0]
           /\ needMerge' = needMerge
           /\ IF rects = <<>>
              THEN rects' = <<b>> /\ UNCHANGED loop
              ELSE /\ mode' = "next" /\ dirty' = <<b>> /\ oldLast' = Len(rects)
                   /\ rects' = rects /\ cur' = cur /\ at' = at
  <2>1. b \in Sound
    BY <1>2, <1>9
  <2> HIDE DEF b
  <2>2. <<b>> \in Seq(Sound) /\ Range(<<b>>) = {b} /\ Len(<<b>>) = 1
    <3>1. <<b>> \in Seq(Sound) /\ DOMAIN <<b>> = {1} /\ <<b>>[1] = b /\ Len(<<b>>) = 1
      BY <2>1
    <3> QED BY <3>1 DEF Range
  <2>3. prevDel' \in Input /\ Empty(prevDel')
    BY <1>3, <1>9, Cleared
  <2>4. Range(<<>>) = {}
    BY DEF Range
  <2>5. /\ ListOK' /\ Boxes' = Boxes \union {b} /\ mode' \in {"idle", "next"}
    <3>1. CASE rects = <<>>
      <4>1. /\ rects' = <<b>> /\ mode' = mode /\ cur' = cur /\ at' = at /\ oldLast' = oldLast
            /\ dirty' = dirty
        BY <3>1, <1>9 DEF loop
      <4>2. ListOK'
        BY <4>1, <1>1, <1>6, <2>2 DEF ListOK, Idle
      <4>3. Boxes' = {b}
        BY <4>1, <1>6, <2>2, <2>4 DEF Boxes
      <4> QED BY <3>1, <4>1, <4>2, <4>3, <1>6, <2>4
    <3>2. CASE rects # <<>>
      <4>1. ListOK'
        <5>1. /\ rects' = rects /\ dirty' = <<b>> /\ cur' = cur /\ at' = at
              /\ oldLast' = Len(rects)
              /\ mode' = "next"
          BY <3>2, <1>9
        <5>2. oldLast' \in 0 .. Len(rects')
          BY <5>1, <1>6
        <5> QED BY <5>1, <5>2, <1>1, <2>2 DEF ListOK, Idle
      <4>2. Boxes' = Range(rects) \union {b}
        BY <3>2, <1>9, <2>2 DEF Boxes
      <4> QED BY <3>2, <4>1, <4>2, <1>6, <1>9
    <3> QED BY <3>1, <3>2
  <2>6. Covered(Boxes') = Covered(Boxes) \union Cells(b)
    BY <2>5 DEF Covered, Cells
  <2>7. AddInv'
    BY <1>9, <2>6 DEF AddInv, b
  <2>8. NothingLost'
    BY <1>4, <1>7, <2>6 DEF NothingLost
  <2>9. prevAdd' \in Input /\ AsRect(prevAdd') \in Sound
    BY <1>3, <1>9, <2>1 DEF b
  <2> QED BY <1>2, <1>3, <1>4, <1>5, <1>9, <2>3, <2>5, <2>6, <2>7, <2>8, <2>9
<1> QED BY <1>8, <1>9 DEF AddStart

\* evas_common_tilebuf_add_redraw, from render_pre or from the application.
LEMMA AddInvariant ==
  ASSUME IInv, NEW r \in env.inputs, Add(r)
  PROVE  IInv'
<1>1. ListOK /\ FrameOK /\ DelInv /\ StaleInv /\ env \in Environments
  BY DEF IInv, FrameOK
<1>2. r \in Input
  BY <1>1, EnvironmentAssumption DEF EnvironmentType, Input
<1>3. /\ AddStart(r) /\ Idle /\ pc = "render" /\ calls' = calls + 1
      /\ pc' = pc /\ previous' = previous /\ todo' = todo /\ firstFrame' = firstFrame
      /\ changed' = changed /\ back' = back /\ shown' = shown /\ stale' = stale /\ env' = env
  BY DEF Add, FrameCall
<1>4. /\ ListOK' /\ AddInv' /\ NothingLost'
      /\ wanted' \subseteq Pixels /\ needMerge' = needMerge
      /\ \A q \in {prevAdd', prevDel'} : q \in Input /\ (Empty(q) \/ AsRect(q) \in Sound)
      /\ mode' \in {"idle", "next"}
      /\ Empty(prevDel') \/ (UNCHANGED tilebuf /\ UNCHANGED loop)
  BY <1>2, <1>3, AddStartFacts
<1>5. FrameOK'
  BY <1>1, <1>3, <1>4 DEF FrameOK
<1>6. DelInv'
  BY <1>1, <1>3, <1>4 DEF DelInv, Idle, tilebuf, loop
<1>7. StaleInv'
  BY <1>1, <1>3 DEF StaleInv
<1> QED BY <1>4, <1>5, <1>6, <1>7 DEF IInv

\* evas_common_tilebuf_del_redraw: what is deleted is no longer wanted.
LEMMA DelInvariant ==
  ASSUME IInv, NEW r \in env.inputs, Del(r)
  PROVE  IInv'
<1> DEFINE c == Clip(r)
           b == AsRect(c)
<1>1. ListOK /\ FrameOK /\ NothingLost /\ AddInv /\ DelInv /\ StaleInv /\ env \in Environments
  BY DEF IInv, FrameOK
<1>2. r \in Input
  BY <1>1, EnvironmentAssumption DEF EnvironmentType, Input
<1>3. c \in Input /\ (Empty(c) \/ b \in Sound)
  BY <1>2, ClipFacts
<1>4. /\ DelStart(r) /\ Idle /\ pc = "render" /\ calls' = calls + 1
      /\ wanted' = wanted \ Cells(b)
      /\ pc' = pc /\ previous' = previous /\ todo' = todo /\ firstFrame' = firstFrame
      /\ changed' = changed /\ back' = back /\ shown' = shown /\ stale' = stale /\ env' = env
  BY DEF Del, FrameCall, DelStart
<1>5. /\ Boxes = Range(rects) /\ dirty = <<>> /\ oldLast = 0 /\ mode = "idle"
      /\ rects \in Seq(Sound) /\ Len(rects) \in Nat
  BY <1>1, <1>4, IdleFacts
<1>6. StaleInv'
  BY <1>1, <1>4 DEF StaleInv
<1>7. CASE UNCHANGED <<tilebuf, loop>>
  <2>1. /\ rects' = rects /\ prevAdd' = prevAdd /\ prevDel' = prevDel /\ needMerge' = needMerge
        /\ mode' = mode /\ cur' = cur /\ at' = at /\ oldLast' = oldLast /\ dirty' = dirty
    BY <1>7 DEF tilebuf, loop
  <2>2. Boxes' = Boxes
    BY <2>1 DEF Boxes
  <2>3. ListOK'
    BY <1>1, <2>1 DEF ListOK, Idle
  <2>4. FrameOK'
    BY <1>1, <1>4, <2>1 DEF FrameOK
  <2>5. NothingLost' /\ AddInv'
    BY <1>1, <1>4, <2>1, <2>2 DEF NothingLost, AddInv
  <2>6. DelInv'
    BY <1>1, <1>4, <1>5, <2>1 DEF DelInv, Idle
  <2> QED BY <1>6, <2>3, <2>4, <2>5, <2>6 DEF IInv
<1>8. CASE /\ rects # <<>> /\ ~Empty(c)
           /\ prevDel' = c /\ prevAdd' = [prevAdd EXCEPT !.w = 0, !.h = 0]
           /\ mode' = "delete" /\ cur' = b /\ at' = 1
           /\ UNCHANGED <<rects, needMerge, oldLast, dirty>>
  <2>1. b \in Sound
    BY <1>3, <1>8
  <2>2. prevAdd \in Input /\ prevAdd' \in Input /\ Empty(prevAdd')
    BY <1>1, <1>8, Cleared DEF FrameOK
  <2>3. ListOK'
    BY <1>5, <1>8, <2>1 DEF ListOK, Idle
  <2>4. FrameOK'
    BY <1>1, <1>3, <1>4, <1>8, <2>1, <2>2 DEF FrameOK
  <2>5. Boxes' = Boxes
    BY <1>5, <1>8 DEF Boxes
  <2>6. NothingLost' /\ AddInv'
    BY <1>1, <1>4, <2>2, <2>5 DEF NothingLost, AddInv
  <2>7. DelInv'
    <3>1. Covered(Range(dirty')) = {}
      BY <1>5, <1>8 DEF Range, Covered
    <3>2. \A i \in 1 .. Len(rects') : ~(i < at')
      BY <1>8
    <3> QED BY <1>4, <1>8, <2>2, <3>1, <3>2 DEF DelInv, Idle
  <2> QED BY <1>6, <2>3, <2>4, <2>6, <2>7 DEF IInv
<1> QED BY <1>4, <1>7, <1>8 DEF DelStart

-----------------------------------------------------------------------------
\* The render

\* What a list of rectangles as the engine sees them covers.
LEMMA CoveredInFacts ==
  ASSUME NEW s \in Seq(Input), NEW t \in Seq(Input)
  PROVE  /\ CoveredIn(s \o t) = CoveredIn(s) \union CoveredIn(t)
         /\ s # <<>> => CoveredIn(s) = Cells(AsRect(Head(s))) \union CoveredIn(Tail(s))
         /\ CoveredIn(<<>>) = {}
<1>1. CoveredIn(s \o t) = CoveredIn(s) \union CoveredIn(t)
  BY JoinFacts DEF CoveredIn, Covered
<1>2. s # <<>> => CoveredIn(s) = Cells(AsRect(Head(s))) \union CoveredIn(Tail(s))
  BY HeadFacts DEF CoveredIn, Covered, Cells
<1>3. Range(<<>>) = {}
  BY DEF Range
<1>4. CoveredIn(<<>>) = {}
  BY <1>3 DEF CoveredIn, Covered
<1> QED BY <1>1, <1>2, <1>4

\* All of the output.
LEMMA WholeFacts ==
  /\ Whole \in Input /\ ~Empty(Whole) /\ AsRect(Whole) \in Sound
  /\ Cells(AsRect(Whole)) = Pixels
  /\ Unset \in Input /\ Empty(Unset)
<1>1. Whole \in Input /\ ~Empty(Whole) /\ Unset \in Input /\ Empty(Unset)
  BY SizeAssumption DEF Whole, Unset, Input, Empty
<1>2. AsRect(Whole) = Rect(0, 0, Width, Height)
  BY DEF AsRect, Whole
<1>3. Rect(0, 0, Width, Height) \in Sound
  BY SizeAssumption, RectSound
<1>4. \A p \in Pixels : In(p, Rect(0, 0, Width, Height))
  BY SizeAssumption, RectIn, PixelFacts
<1> QED BY <1>1, <1>2, <1>3, <1>4 DEF Cells

\* A list of one rectangle.
LEMMA OneFacts ==
  ASSUME NEW S, NEW r \in S
  PROVE  <<r>> \in Seq(S) /\ Range(<<r>>) = {r} /\ Len(<<r>>) = 1 /\ <<r>> # <<>>
<1>1. <<r>> \in Seq(S) /\ DOMAIN <<r>> = {1} /\ <<r>>[1] = r /\ Len(<<r>>) = 1
  OBVIOUS
<1> QED BY <1>1 DEF Range

\* A resize drops the list and asks for the whole output.
LEMMA ResizeInvariant ==
  ASSUME IInv, Resize
  PROVE  IInv'
<1>1. ListOK /\ FrameOK
  BY DEF IInv
<1>2. /\ pc = "render" /\ Idle /\ calls' = calls + 1
      /\ rects' = <<AsRect(Whole)>> /\ prevAdd' = Whole /\ prevDel' = Unset
      /\ needMerge' = FALSE
      /\ firstFrame' = TRUE /\ changed' = FALSE
      /\ wanted' = Pixels /\ stale' = [b \in {1, 2} |-> {}]
      /\ mode' = mode /\ cur' = cur /\ at' = at /\ oldLast' = oldLast /\ dirty' = dirty
      /\ pc' = pc /\ previous' = previous /\ todo' = todo /\ back' = back /\ shown' = shown
      /\ env' = env
  BY DEF Resize, loop
<1>3. dirty = <<>> /\ oldLast = 0 /\ mode = "idle"
  BY <1>1, <1>2, IdleFacts
<1>4. /\ rects' \in Seq(Sound) /\ Range(rects') = {AsRect(Whole)} /\ Len(rects') = 1
  BY <1>2, WholeFacts, OneFacts
<1>5. ListOK'
  BY <1>1, <1>2, <1>3, <1>4 DEF ListOK, Idle
<1>6. FrameOK'
  <2>1. \A q \in {prevAdd', prevDel'} : q \in Input /\ (Empty(q) \/ AsRect(q) \in Sound)
    BY <1>2, WholeFacts
  <2>2. stale' \in [{1, 2} -> SUBSET Pixels]
    BY <1>2
  <2>3. calls' \in Nat
    BY <1>1, <1>2 DEF FrameOK
  <2> QED BY <1>1, <1>2, <2>1, <2>2, <2>3 DEF FrameOK
<1>7. Covered(Boxes') = Pixels
  <2>1. Boxes' = {AsRect(Whole)}
    BY <1>2, <1>3, <1>4 DEF Boxes, Range
  <2>2. Covered({AsRect(Whole)}) = Cells(AsRect(Whole))
    BY DEF Covered, Cells
  <2> QED BY <2>1, <2>2, WholeFacts
<1>8. NothingLost' /\ AddInv'
  BY <1>2, <1>7, WholeFacts DEF NothingLost, AddInv
<1>9. DelInv'
  BY <1>2, <1>3, WholeFacts DEF DelInv, Idle
<1>10. StaleInv'
  <2>1. \A b \in {1, 2} : stale'[b] = {}
    BY <1>2
  <2>2. back \in {1, 2} /\ 3 - back \in {1, 2}
    BY <1>1 DEF FrameOK
  <2> QED BY <1>2, <2>1, <2>2 DEF StaleInv
<1> QED BY <1>5, <1>6, <1>8, <1>9, <1>10 DEF IInv

\* The first redraw the render asks for: the list is what it draws.
LEMMA NextUpdateInvariant ==
  ASSUME IInv, NextUpdate
  PROVE  IInv'
<1>1. ListOK /\ FrameOK /\ NothingLost /\ AddInv /\ StaleInv
  BY DEF IInv
<1>2. /\ pc = "render" /\ Idle /\ GetStart /\ pc' = "got"
      /\ stale' = [b \in {1, 2} |-> IF env.buffered \/ b = back THEN stale[b] \union wanted
                                    ELSE stale[b]]
      /\ prevAdd' = prevAdd /\ prevDel' = prevDel
      /\ previous' = previous /\ todo' = todo /\ firstFrame' = firstFrame /\ changed' = changed
      /\ calls' = calls /\ back' = back /\ shown' = shown /\ env' = env /\ wanted' = wanted
  BY DEF NextUpdate, GetStart
<1>3. /\ Boxes = Range(rects) /\ dirty = <<>> /\ oldLast = 0 /\ mode = "idle"
      /\ rects \in Seq(Sound) /\ Len(rects) \in Nat
  BY <1>1, <1>2, IdleFacts
<1>4. ListOK' /\ Boxes' = Boxes /\ needMerge' \in BOOLEAN /\ mode' \in {"idle", "merge"}
  <2>1. CASE /\ mode' = "merge" /\ dirty' = rects /\ rects' = <<>> /\ needMerge' = FALSE
             /\ UNCHANGED <<cur, at, oldLast>>
    <3>1. Range(<<>>) = {} /\ <<>> \in Seq(Sound) /\ Len(<<>>) = 0
      BY DEF Range
    <3>2. ListOK'
      BY <1>1, <1>3, <2>1, <3>1 DEF ListOK, Idle
    <3> QED BY <1>3, <2>1, <3>1, <3>2 DEF Boxes
  <2>2. CASE UNCHANGED <<rects, needMerge, loop>>
    <3>1. /\ rects' = rects /\ needMerge' = needMerge /\ mode' = mode /\ cur' = cur /\ at' = at
          /\ oldLast' = oldLast /\ dirty' = dirty
      BY <2>2 DEF loop
    <3>2. ListOK'
      BY <1>1, <3>1 DEF ListOK, Idle
    <3> QED BY <1>1, <1>3, <3>1, <3>2 DEF Boxes, FrameOK
  <2> QED BY <1>2, <2>1, <2>2 DEF GetStart
<1>5. stale' \in [{1, 2} -> SUBSET Pixels]
  BY <1>1, <1>2 DEF FrameOK
<1>6. FrameOK'
  BY <1>1, <1>2, <1>4, <1>5 DEF FrameOK
<1>7. NothingLost' /\ AddInv'
  BY <1>1, <1>2, <1>4 DEF NothingLost, AddInv
<1>8. DelInv'
  BY <1>2, <1>4 DEF DelInv, Idle
<1>9. StaleInv'
  <2>1. back \in {1, 2} /\ 3 - back \in {1, 2} /\ (~env.buffered => back = 1)
    BY <1>1 DEF FrameOK
  <2>2. CASE env.buffered
    <3>1. stale'[back] = stale[back] \union wanted /\ stale'[3 - back] = stale[3 - back] \union wanted
      BY <1>2, <2>1, <2>2
    <3>2. stale[3 - back] = {} /\ stale[back] \subseteq CoveredIn(previous)
      BY <1>1, <1>2, <2>2 DEF StaleInv
    <3> QED BY <1>2, <2>2, <3>1, <3>2 DEF StaleInv
  <2>3. CASE ~env.buffered
    <3>1. stale'[1] = stale[1] \union wanted /\ stale'[2] = stale[2]
      BY <1>2, <2>1, <2>3
    <3>2. stale[1] = {} /\ stale[2] = {}
      BY <1>1, <1>2, <2>3 DEF StaleInv
    <3> QED BY <1>2, <2>3, <3>1, <3>2 DEF StaleInv
  <2> QED BY <2>2, <2>3
<1> QED BY <1>4, <1>6, <1>7, <1>8, <1>9 DEF IInv

\* With two buffers the frame is kept for the next one.
LEMMA HandleBuffersInvariant ==
  ASSUME IInv, HandleBuffers
  PROVE  IInv'
<1> DEFINE first == IF firstFrame /\ previous = <<>> THEN <<Whole>> ELSE <<>>
<1>1. ListOK /\ FrameOK /\ NothingLost /\ AddInv /\ StaleInv
  BY DEF IInv
<1>2. /\ pc = "got" /\ Idle /\ env.buffered /\ pc' = "previous"
      /\ todo' = first \o previous /\ firstFrame' = (firstFrame /\ previous # <<>>)
      /\ previous' = RenderRects
      /\ rects' = rects /\ prevAdd' = prevAdd /\ prevDel' = prevDel /\ needMerge' = needMerge
      /\ mode' = mode /\ cur' = cur /\ at' = at /\ oldLast' = oldLast /\ dirty' = dirty
      /\ changed' = changed /\ calls' = calls /\ back' = back /\ shown' = shown
      /\ stale' = stale
      /\ env' = env /\ wanted' = wanted
  BY DEF HandleBuffers, tilebuf, loop
<1>3. /\ Boxes = Range(rects) /\ rects \in Seq(Sound) /\ mode = "idle"
  BY <1>1, <1>2, IdleFacts
<1>4. /\ RenderRects \in Seq(Input) /\ Covered(Range(rects)) \subseteq CoveredIn(RenderRects)
  BY <1>1, <1>3, RendersAll DEF FrameOK
<1>5. first \in Seq(Input) /\ previous \in Seq(Input)
  <2>1. <<Whole>> \in Seq(Input) /\ <<>> \in Seq(Input)
    BY WholeFacts, OneFacts
  <2> QED BY <2>1, <1>1 DEF FrameOK
<1> HIDE DEF first
<1>6. todo' \in Seq(Input) /\ CoveredIn(todo') = CoveredIn(first) \union CoveredIn(previous)
  BY <1>2, <1>5, JoinFacts, CoveredInFacts
<1>7. Boxes' = Boxes
  BY <1>2 DEF Boxes
<1>8. ListOK'
  BY <1>1, <1>2 DEF ListOK, Idle
<1>9. FrameOK'
  <2>1. firstFrame' \in BOOLEAN
    BY <1>2
  <2> QED BY <1>1, <1>2, <1>4, <1>6, <2>1 DEF FrameOK
<1>10. NothingLost' /\ AddInv'
  BY <1>1, <1>2, <1>7 DEF NothingLost, AddInv
<1>11. DelInv'
  BY <1>2, <1>3 DEF DelInv, Idle
<1>12. StaleInv'
  <2>1. /\ stale[3 - back] \subseteq wanted
        /\ stale[back] \subseteq wanted \union CoveredIn(previous)
    BY <1>1, <1>2 DEF StaleInv
  <2>2. wanted \subseteq Covered(Boxes)
    BY <1>1 DEF NothingLost
  <2> QED BY <1>2, <1>3, <1>4, <1>6, <1>7, <2>1, <2>2 DEF StaleInv
<1> QED BY <1>8, <1>9, <1>10, <1>11, <1>12 DEF IInv

\* ... and that of the frame before is added.
LEMMA AddPreviousInvariant ==
  ASSUME IInv, AddPrevious
  PROVE  IInv'
<1>1. ListOK /\ FrameOK /\ DelInv /\ StaleInv
  BY DEF IInv
<1>2. /\ AddStart(Head(todo)) /\ Idle /\ pc = "previous" /\ todo # <<>> /\ todo' = Tail(todo)
      /\ calls' = calls /\ pc' = pc /\ previous' = previous /\ firstFrame' = firstFrame
      /\ changed' = changed /\ back' = back /\ shown' = shown /\ stale' = stale /\ env' = env
  BY DEF AddPrevious
<1>3. todo \in Seq(Input) /\ env.buffered
  BY <1>1, <1>2 DEF FrameOK
<1>4. /\ Head(todo) \in Input /\ Tail(todo) \in Seq(Input)
      /\ CoveredIn(todo) = Cells(AsRect(Head(todo))) \union CoveredIn(Tail(todo))
  BY <1>2, <1>3, HeadFacts, CoveredInFacts
<1>5. /\ ListOK' /\ AddInv' /\ NothingLost'
      /\ wanted' \subseteq Pixels /\ needMerge' = needMerge
      /\ \A q \in {prevAdd', prevDel'} : q \in Input /\ (Empty(q) \/ AsRect(q) \in Sound)
      /\ mode' \in {"idle", "next"}
      /\ Covered(Boxes) \union Cells(AsRect(Head(todo))) \subseteq Covered(Boxes')
  BY <1>2, <1>4, AddStartFacts
<1>6. FrameOK'
  BY <1>1, <1>2, <1>3, <1>4, <1>5 DEF FrameOK
<1>7. DelInv'
  BY <1>2, <1>5 DEF DelInv, Idle
<1>8. StaleInv'
  <2>1. /\ stale[3 - back] \subseteq CoveredIn(previous) \cap Covered(Boxes)
        /\ stale[back] \subseteq Covered(Boxes) \union CoveredIn(todo)
    BY <1>1, <1>2, <1>3 DEF StaleInv
  <2> QED BY <1>2, <1>3, <1>4, <1>5, <2>1 DEF StaleInv
<1> QED BY <1>5, <1>6, <1>7, <1>8 DEF IInv

\* Drawing what is in the list makes the buffer current.
LEMMA DrawInvariant ==
  ASSUME IInv, Draw
  PROVE  IInv'
<1> DEFINE drawn == RenderRects
<1>1. ListOK /\ FrameOK /\ NothingLost /\ StaleInv
  BY DEF IInv
<1>2. /\ pc = (IF env.buffered THEN "previous" ELSE "got") /\ Idle /\ todo = <<>>
      /\ stale' = [stale EXCEPT ![back] = @ \ CoveredIn(drawn)]
      /\ shown' = (IF drawn = <<>> THEN shown ELSE back)
      /\ back' = (IF drawn = <<>> \/ ~env.buffered THEN back ELSE 3 - back)
      /\ rects' = <<>> /\ prevAdd' = Unset /\ prevDel' = Unset /\ needMerge' = FALSE
      /\ pc' = "render" /\ calls' = 0 /\ wanted' = {}
      /\ mode' = mode /\ cur' = cur /\ at' = at /\ oldLast' = oldLast /\ dirty' = dirty
      /\ previous' = previous /\ todo' = todo /\ firstFrame' = firstFrame /\ changed' = changed
      /\ env' = env
  BY DEF Draw, loop
<1>3. /\ Boxes = Range(rects) /\ dirty = <<>> /\ oldLast = 0 /\ mode = "idle"
      /\ rects \in Seq(Sound)
  BY <1>1, <1>2, IdleFacts
<1>4. /\ Covered(Boxes) \subseteq CoveredIn(drawn) /\ (drawn = <<>> => Covered(Boxes) = {})
  <2>1. Range(<<>>) = {} /\ Covered({}) = {}
    BY CoveredFacts DEF Range
  <2> QED BY <2>1, <1>1, <1>3, RendersAll DEF FrameOK
<1> HIDE DEF drawn
<1>5. /\ back \in {1, 2} /\ shown \in {1, 2} /\ 3 - back \in {1, 2} /\ back # 3 - back
      /\ (env.buffered => shown = 3 - back) /\ (~env.buffered => back = 1)
      /\ stale \in [{1, 2} -> SUBSET Pixels]
  BY <1>1 DEF FrameOK
<1>6. stale'[back] = stale[back] \ CoveredIn(drawn) /\ stale'[3 - back] = stale[3 - back]
  BY <1>2, <1>5
<1>7. stale'[back] = {}
  <2>1. CASE env.buffered
    <3>1. stale[back] \subseteq Covered(Boxes) \union CoveredIn(<<>>)
      BY <1>1, <1>2, <2>1 DEF StaleInv
    <3>2. CoveredIn(<<>>) = {}
      BY <1>1, CoveredInFacts DEF FrameOK
    <3> QED BY <1>4, <1>6, <3>1, <3>2
  <2>2. CASE ~env.buffered
    <3>1. stale[back] \subseteq wanted /\ wanted \subseteq Covered(Boxes)
      BY <1>1, <1>2, <1>5, <2>2 DEF StaleInv, NothingLost
    <3> QED BY <1>4, <1>6, <3>1
  <2> QED BY <2>1, <2>2
<1>8. ListOK'
  <2>1. <<>> \in Seq(Sound) /\ Len(<<>>) = 0
    OBVIOUS
  <2> QED BY <1>1, <1>2, <1>3, <2>1 DEF ListOK, Idle
<1>9. FrameOK'
  <2>1. stale' \in [{1, 2} -> SUBSET Pixels]
    BY <1>2, <1>5
  <2>2. /\ back' \in {1, 2} /\ shown' \in {1, 2}
        /\ IF env.buffered THEN shown' = 3 - back' ELSE back' = 1
    BY <1>2, <1>5
  <2> QED BY <1>1, <1>2, <2>1, <2>2, WholeFacts DEF FrameOK
<1>10. NothingLost' /\ AddInv'
  BY <1>2, WholeFacts DEF NothingLost, AddInv
<1>11. DelInv'
  BY <1>2, <1>3, WholeFacts DEF DelInv, Idle
<1>12. StaleInv'
  <2>1. CASE env.buffered
    <3>1. stale[3 - back] \subseteq CoveredIn(previous) \cap Covered(Boxes)
      BY <1>1, <1>2, <2>1 DEF StaleInv
    <3>2. CASE drawn = <<>>
      <4>1. back' = back /\ stale[3 - back] = {}
        BY <1>2, <1>4, <3>1, <3>2
      <4> QED BY <1>2, <1>6, <1>7, <2>1, <4>1 DEF StaleInv
    <3>3. CASE drawn # <<>>
      <4>1. back' = 3 - back /\ 3 - back' = back
        BY <1>2, <1>5, <2>1, <3>3
      <4> QED BY <1>2, <1>6, <1>7, <2>1, <3>1, <4>1 DEF StaleInv
    <3> QED BY <3>2, <3>3
  <2>2. CASE ~env.buffered
    <3>1. back = 1 /\ 3 - back = 2 /\ stale[2] = {}
      BY <1>1, <1>5, <2>2 DEF StaleInv
    <3> QED BY <1>2, <1>6, <1>7, <2>2, <3>1 DEF StaleInv
  <2> QED BY <2>1, <2>2
<1> QED BY <1>8, <1>9, <1>10, <1>11, <1>12 DEF IInv

-----------------------------------------------------------------------------
\* The theorems

\* The invariant holds in the initial states.
LEMMA InitInv == Init => IInv
<1>1. SUFFICES ASSUME Init
               PROVE  IInv
  OBVIOUS
<1>2. /\ rects = <<>> /\ prevAdd = Unset /\ prevDel = Unset /\ needMerge = FALSE
      /\ mode = "idle" /\ cur = Nothing /\ at = 0 /\ oldLast = 0 /\ dirty = <<>>
      /\ pc = "render" /\ previous = <<>> /\ todo = <<>> /\ firstFrame = TRUE
      /\ changed = TRUE /\ calls = 0 /\ back = 1 /\ shown = 2
      /\ wanted = {} /\ stale = [b \in {1, 2} |-> {}] /\ env \in Environments
  BY <1>1 DEF Init
<1>3. /\ <<>> \in Seq(Sound) /\ <<>> \in Seq(Input) /\ Len(<<>>) = 0
  OBVIOUS
<1>4. ListOK
  BY <1>2, <1>3 DEF ListOK, Idle
<1>5. FrameOK
  <2>1. stale \in [{1, 2} -> SUBSET Pixels]
    BY <1>2
  <2>2. \A q \in {prevAdd, prevDel} : q \in Input /\ (Empty(q) \/ AsRect(q) \in Sound)
    BY <1>2, WholeFacts
  <2>3. /\ needMerge \in BOOLEAN /\ pc = "render" /\ firstFrame \in BOOLEAN
        /\ changed \in BOOLEAN
        /\ env \in Environments
    BY <1>2
  <2>4. calls \in Nat
    BY <1>1 DEF Init
  <2>5. back = 1 /\ shown = 2 /\ 3 - back = shown
    BY <1>1 DEF Init
  <2>6. previous \in Seq(Input) /\ todo \in Seq(Input) /\ todo = <<>> /\ wanted \subseteq Pixels
    BY <1>2, <1>3
  <2> QED BY <2>1, <2>2, <2>3, <2>4, <2>5, <2>6 DEF FrameOK
<1>6. NothingLost /\ AddInv
  BY <1>2, WholeFacts DEF NothingLost, AddInv
<1>7. DelInv
  BY <1>2, WholeFacts DEF DelInv, Idle
<1>8. StaleInv
  BY <1>2 DEF StaleInv
<1> QED BY <1>4, <1>5, <1>6, <1>7, <1>8 DEF IInv

\* Every step preserves it.
LEMMA NextInv == IInv /\ [Next]_vars => IInv'
<1>1. SUFFICES ASSUME IInv, [Next]_vars
               PROVE  IInv'
  OBVIOUS
<1>2. CASE AddLoop
  BY <1>1, <1>2, AddLoopInv
<1>3. CASE DelPasses \/ DelRemoves \/ DelSplits \/ DelEnds
  BY <1>1, <1>3, DelPassesInv, DelRemovesInv, DelSplitsInv, DelEndsInv
<1>4. ASSUME NEW r \in env.inputs, Add(r) \/ Del(r)
      PROVE  IInv'
  BY <1>1, <1>4, AddInvariant, DelInvariant
<1>5. CASE Resize \/ NextUpdate \/ HandleBuffers \/ AddPrevious \/ Draw
  BY <1>1, <1>5, ResizeInvariant, NextUpdateInvariant, HandleBuffersInvariant,
     AddPreviousInvariant, DrawInvariant
<1>6. CASE UNCHANGED vars
  <2>1. /\ UNCHANGED <<rects, prevAdd, prevDel, needMerge, mode, cur, at, oldLast, dirty>>
        /\ UNCHANGED <<pc, previous, todo, firstFrame, changed, calls, back, shown, stale, env, wanted>>
    BY <1>6 DEF vars, tilebuf, loop, frame
  <2>2. Boxes' = Boxes
    BY <2>1 DEF Boxes
  <2>3. ListOK' /\ FrameOK'
    BY <1>1, <2>1 DEF IInv, ListOK, FrameOK, Idle
  <2>4. NothingLost' /\ AddInv' /\ StaleInv'
    BY <1>1, <2>1, <2>2 DEF IInv, NothingLost, AddInv, StaleInv
  <2>5. DelInv'
    BY <1>1, <2>1 DEF IInv, DelInv, Idle
  <2> QED BY <2>3, <2>4, <2>5 DEF IInv
<1> QED BY <1>1, <1>2, <1>3, <1>4, <1>5, <1>6 DEF Next, Loop, AddLoop

\* So it holds in every reachable state.
LEMMA Invariant == SafeSpec => []IInv
BY InitInv, NextInv, PTL DEF SafeSpec

\* The fields of every rectangle agree and none reaches beyond the output, for any
\* rectangles that are added and deleted; in particular the `abort' of
\* rect_list_add_split_fuzzy ("should never happen", evas_tiler.c) is not reached.
THEOREM TypeCorrect == SafeSpec => []TypeOK
<1>1. IInv => TypeOK
  BY DEF IInv, TypeOK, ListOK, FrameOK
<1> QED BY <1>1, Invariant, PTL

\* No pixel that was added and not deleted since is lost while rectangles are split,
\* merged and cut, and a rectangle that is added or deleted twice in a row is done
\* with after the first time (evas_common_tilebuf_add_redraw and _del_redraw).
THEOREM NoPixelLost == SafeSpec => []RedrawsExact
<1>1. IInv => RedrawsExact
  <2>1. SUFFICES ASSUME IInv
                 PROVE  NothingLost /\ Repeatable
    BY DEF RedrawsExact
  <2>2. ListOK /\ NothingLost /\ AddInv /\ DelInv
    BY <2>1 DEF IInv
  <2>3. Idle => Boxes = Range(rects)
    BY <2>2, IdleFacts
  <2> QED BY <2>2, <2>3 DEF AddInv, DelInv, Repeatable
<1> QED BY <1>1, Invariant, PTL

\* The buffer drawn last shows the canvas: with two buffers what the frame before
\* drew into the other one is drawn again (eng_output_redraws_next_update_get of
\* the buffer engine), even when MAXREG replaces the rectangles by their box.
THEOREM BufferCurrent == SafeSpec => []ShownIsCurrent
<1>1. IInv => ShownIsCurrent
  <2>1. SUFFICES ASSUME IInv, pc = "render"
                 PROVE  stale[shown] = {}
    BY DEF ShownIsCurrent
  <2>2. FrameOK /\ StaleInv
    BY <2>1 DEF IInv
  <2>3. CASE env.buffered
    BY <2>1, <2>2, <2>3 DEF FrameOK, StaleInv
  <2>4. CASE ~env.buffered
    BY <2>1, <2>2, <2>4 DEF FrameOK, StaleInv
  <2> QED BY <2>3, <2>4
<1> QED BY <1>1, Invariant, PTL
=============================================================================
