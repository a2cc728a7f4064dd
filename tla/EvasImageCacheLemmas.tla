----------------------- MODULE EvasImageCacheLemmas -----------------------
(***************************************************************************)
(* Lemmas about the operators of EvasImageCache: what type their results   *)
(* have, what the functions on the lists do to an entry, the lists and the *)
(* usage, and what it means that a cache is in order. Core and Good say it *)
(* of a cache as the image objects see it between two calls: the invariant *)
(* in EvasImageCacheProofs is built from them. The contracts follow: what  *)
(* each function of evas_cache_image.c does to a cache that is in order.   *)
(***************************************************************************)
EXTENDS EvasImageCache, ListLemmas, FiniteSetTheorems

\* The entries of a cache have the type of an Image_Entry.
LEMMA EntryTyped ==
  ASSUME NEW s \in CacheType, NEW e \in Entries
  PROVE  s.ent[e] \in EntryType
BY DEF CacheType

\* A free block has the type of an Image_Entry.
LEMMA BlankTyped == Blank \in EntryType
<1>1. 0 \in Nat /\ <<>> \in Seq(Objects)
  OBVIOUS
<1> QED BY <1>1 DEF Blank, EntryType

\* One entry is written, or one other field of the cache: the types are kept.
LEMMA OneWritten ==
  ASSUME NEW s \in CacheType, NEW e \in Entries
  PROVE  /\ \A r \in EntryType : [s EXCEPT !.ent[e] = r] \in CacheType
         /\ \A p \in Phases : [s EXCEPT !.phase[e] = p] \in CacheType
         /\ \A S \in SUBSET Entries : [s EXCEPT !.flagged = S] \in CacheType
         /\ \A S \in SUBSET Entries : [s EXCEPT !.preload = S] \in CacheType
         /\ \A l \in Nat : [s EXCEPT !.limit = l] \in CacheType
         /\ \A b \in BOOLEAN : [s EXCEPT !.bad = b] \in CacheType
         /\ \A i \in [e : Entries \union {None}, cb : BOOLEAN, settle : BOOLEAN] :
              [s EXCEPT !.inform = i] \in CacheType
BY DEF CacheType

\* A field of an entry is written: its type is kept.
LEMMA FieldWritten ==
  ASSUME NEW r \in EntryType, NEW b \in BOOLEAN
  PROVE  /\ [r EXCEPT !.loaded = b] \in EntryType
         /\ [r EXCEPT !.data = b] \in EntryType
         /\ [r EXCEPT !.data = TRUE, !.loaded = b] \in EntryType
         /\ [r EXCEPT !.deleteMe = b] \in EntryType
         /\ [r EXCEPT !.unloadCancel = b] \in EntryType
         /\ [r EXCEPT !.unloadCancel = FALSE, !.data = FALSE, !.loaded = FALSE, !.done = FALSE]
              \in EntryType
         /\ [r EXCEPT !.data = FALSE, !.loaded = FALSE, !.done = FALSE] \in EntryType
         /\ \A l \in Seq(Objects) : [r EXCEPT !.targets = l] \in EntryType
BY DEF EntryType

\* What the thread does to an image it was told to throw away, as one assignment.
LEMMA UnloadWritten ==
  ASSUME NEW s \in CacheType, NEW e \in Entries
  PROVE  [s EXCEPT !.phase[e] = "checked", !.ent[e].unloadCancel = FALSE,
                   !.ent[e].data = FALSE, !.ent[e].loaded = FALSE, !.ent[e].done = FALSE]
           = [s EXCEPT !.phase[e] = "checked",
                       !.ent[e] = [s.ent[e] EXCEPT !.unloadCancel = FALSE, !.data = FALSE,
                                                   !.loaded = FALSE, !.done = FALSE]]
<1> DEFINE r == [s.ent[e] EXCEPT !.unloadCancel = FALSE, !.data = FALSE, !.loaded = FALSE,
                                 !.done = FALSE]
           ent == [s.ent EXCEPT ![e].unloadCancel = FALSE, ![e].data = FALSE,
                                ![e].loaded = FALSE, ![e].done = FALSE]
<1>1. ent = [s.ent EXCEPT ![e] = r]
  BY DEF CacheType
<1>2. [s EXCEPT !.phase[e] = "checked", !.ent[e].unloadCancel = FALSE,
                !.ent[e].data = FALSE, !.ent[e].loaded = FALSE, !.ent[e].done = FALSE]
        = [s EXCEPT !.phase[e] = "checked", !.ent = ent]
  BY DEF CacheType
<1> HIDE DEF r, ent
<1>3. [s EXCEPT !.phase[e] = "checked", !.ent = ent]
        = [s EXCEPT !.phase[e] = "checked", !.ent[e] = r]
  BY <1>1 DEF CacheType
<1> QED BY <1>2, <1>3 DEF r

\* _evas_cache_image_dirty_del keeps the types.
LEMMA DirtyDelTyped ==
  ASSUME NEW s \in CacheType, NEW e \in Entries
  PROVE  DirtyDel(s, e) \in CacheType
<1>1. [s.ent[e] EXCEPT !.dirty = FALSE] \in EntryType
  BY EntryTyped, ZenonT(40) DEF EntryType
<1> QED BY <1>1 DEF CacheType, DirtyDel

\* _evas_cache_image_activ_del keeps the types.
LEMMA ActivDelTyped ==
  ASSUME NEW s \in CacheType, NEW e \in Entries
  PROVE  ActivDel(s, e) \in CacheType
<1>1. [s.ent[e] EXCEPT !.activ = FALSE] \in EntryType
  BY EntryTyped, ZenonT(40) DEF EntryType
<1> QED BY <1>1 DEF CacheType, ActivDel

\* _evas_cache_image_lru_del keeps the types.
LEMMA LruDelTyped ==
  ASSUME NEW s \in CacheType, NEW e \in Entries
  PROVE  LruDel(s, e) \in CacheType
<1>1. [s.ent[e] EXCEPT !.lru = FALSE] \in EntryType
  BY EntryTyped, ZenonT(40) DEF EntryType
<1>2. s.usage - MemSize(s, e) \in Int
  BY DEF CacheType, MemSize
<1>3. RemoveFirst(s.lru, e) \in Seq(Entries)
  BY RemoveFirstFacts DEF CacheType
<1> QED BY <1>1, <1>2, <1>3 DEF CacheType, LruDel

\* _evas_cache_image_dirty_add keeps the types.
LEMMA DirtyAddTyped ==
  ASSUME NEW s \in CacheType, NEW e \in Entries
  PROVE  DirtyAdd(s, e) \in CacheType
<1> DEFINE t == LruDel(ActivDel(s, e), e)
<1>1. t \in CacheType
  BY ActivDelTyped, LruDelTyped
<1> HIDE DEF t
<1>2. [t.ent[e] EXCEPT !.dirty = TRUE, !.key = None] \in EntryType
  BY <1>1, EntryTyped, ZenonT(40) DEF EntryType
<1>3. [t EXCEPT !.ent[e].dirty = TRUE, !.dirty = @ \union {e}, !.ent[e].key = None] \in CacheType
  BY <1>1, <1>2 DEF CacheType
<1> QED BY <1>3 DEF DirtyAdd, t

\* _evas_cache_image_activ_add keeps the types.
LEMMA ActivAddTyped ==
  ASSUME NEW s \in CacheType, NEW e \in Entries
  PROVE  ActivAdd(s, e) \in CacheType
<1> DEFINE t == LruDel(DirtyDel(s, e), e)
<1>1. t \in CacheType
  BY DirtyDelTyped, LruDelTyped
<1> HIDE DEF t
<1>2. [t.ent[e] EXCEPT !.activ = TRUE] \in EntryType
  BY <1>1, EntryTyped, ZenonT(40) DEF EntryType
<1>3. [t EXCEPT !.ent[e].activ = TRUE, !.activ = @ \union {e}] \in CacheType
  BY <1>1, <1>2 DEF CacheType
<1> QED BY <1>1, <1>3 DEF ActivAdd, t

\* _evas_cache_image_lru_add keeps the types.
LEMMA LruAddTyped ==
  ASSUME NEW s \in CacheType, NEW e \in Entries
  PROVE  LruAdd(s, e) \in CacheType
<1> DEFINE t == ActivDel(DirtyDel(s, e), e)
<1>1. t \in CacheType
  BY DirtyDelTyped, ActivDelTyped
<1> HIDE DEF t
<1>2. [t.ent[e] EXCEPT !.lru = TRUE] \in EntryType
  BY <1>1, EntryTyped, ZenonT(40) DEF EntryType
<1>3. t.usage + MemSize(t, e) \in Int
  BY <1>1 DEF CacheType, MemSize
<1>4. <<e>> \o t.lru \in Seq(Entries)
  BY <1>1 DEF CacheType
<1>5. [t EXCEPT !.ent[e].lru = TRUE, !.inactiv = @ \union {e},
                !.lru = <<e>> \o @, !.usage = @ + MemSize(t, e)] \in CacheType
  BY <1>1, <1>2, <1>3, <1>4 DEF CacheType
<1> QED BY <1>1, <1>5 DEF LruAdd, t

\* The end of _evas_cache_image_entry_delete keeps the types.
LEMMA DestroyTyped ==
  ASSUME NEW s \in CacheType, NEW e \in Entries
  PROVE  Destroy(s, e) \in CacheType
<1> DEFINE t == LruDel(ActivDel(DirtyDel(s, e), e), e)
<1>1. t \in CacheType
  BY DirtyDelTyped, ActivDelTyped, LruDelTyped
<1> HIDE DEF t
<1>2. [t EXCEPT !.ent[e] = Blank] \in CacheType
  BY <1>1, BlankTyped DEF CacheType
<1> QED BY <1>2 DEF Destroy, t

\* What evas_cache_image_flush leaves on the lru list is a part of it, and either
\* nothing or as much as fits the limit.
LEMMA StayFacts ==
  ASSUME NEW s \in CacheType
  PROVE  /\ Stay(s) \in 0 .. Len(s.lru)
         /\ \/ Stay(s) = 0
            \/ ~OverLimit([s EXCEPT !.usage = @ - Usage(s, Range(Behind(s.lru, Stay(s))))])
<1> DEFINE fits(n) == ~OverLimit([s EXCEPT !.usage = @ - Usage(s, Range(Behind(s.lru, n)))])
           S == {n \in 0 .. Len(s.lru) : n = 0 \/ fits(n)}
<1>1. Len(s.lru) \in Nat
  BY DEF CacheType
<1> HIDE DEF fits
<1>2. S \in SUBSET Nat /\ 0 \in S /\ \A y \in S : y <= Len(s.lru)
  BY <1>1
<1>3. Max(S) \in S
  BY <1>1, <1>2, MaxFacts
<1>4. Stay(s) = Max(S)
  BY DEF Stay, fits
<1> QED BY <1>3, <1>4 DEF fits

\* The lru list is cut into what stays and what is deleted.
LEMMA BehindTyped ==
  ASSUME NEW s \in CacheType, NEW n \in 0 .. Len(s.lru)
  PROVE  /\ SubSeq(s.lru, 1, n) \in Seq(Entries)
         /\ Range(Behind(s.lru, n)) \subseteq Entries
         /\ Range(s.lru) = Range(SubSeq(s.lru, 1, n)) \union Range(Behind(s.lru, n))
<1>1. s.lru \in Seq(Entries)
  BY DEF CacheType
<1>2. /\ SubSeq(s.lru, 1, n) \in Seq(Entries)
      /\ SubSeq(s.lru, n + 1, Len(s.lru)) \in Seq(Entries)
      /\ Len(SubSeq(s.lru, 1, n)) = n
      /\ Range(s.lru) = Range(SubSeq(s.lru, 1, n)) \union Range(SubSeq(s.lru, n + 1, Len(s.lru)))
  BY <1>1, CutFacts
<1>3. Range(SubSeq(s.lru, n + 1, Len(s.lru))) \subseteq Entries
  BY <1>2, RangeFacts
<1> QED BY <1>2, <1>3 DEF Behind

\* The memory of a set of images is a natural number.
LEMMA UsageTyped ==
  ASSUME NEW s \in CacheType, NEW S \in SUBSET Entries
  PROVE  /\ IsFiniteSet(S) /\ IsFiniteSet({e \in S : s.ent[e].data})
         /\ Usage(s, S) \in Nat
<1>1. IsFiniteSet(S) /\ IsFiniteSet({e \in S : s.ent[e].data})
  <2>1. IsFiniteSet(S)
    BY CacheAssumption, FS_Subset
  <2>2. {e \in S : s.ent[e].data} \in SUBSET S
    OBVIOUS
  <2> QED BY <2>1, <2>2, FS_Subset
<1>2. Cardinality(S) \in Nat /\ Cardinality({e \in S : s.ent[e].data}) \in Nat
  BY <1>1, FS_CardinalityType
<1> QED BY <1>1, <1>2 DEF Usage

\* evas_cache_image_flush keeps the types.
LEMMA FlushTyped ==
  ASSUME NEW s \in CacheType
  PROVE  Flush(s) \in CacheType
<1> DEFINE n == Stay(s)
           S == Range(Behind(s.lru, n))
           t == Evict(s, S)
<1>1. n \in 0 .. Len(s.lru)
  BY StayFacts
<1>2. SubSeq(s.lru, 1, n) \in Seq(Entries) /\ S \in SUBSET Entries
  BY <1>1, BehindTyped
<1>3. Flush(s) = [t EXCEPT !.lru = SubSeq(@, 1, n)]
  BY DEF Flush
<1> HIDE DEF n, S
<1>4. [e \in Entries |-> IF e \in S THEN Blank ELSE s.ent[e]] \in [Entries -> EntryType]
  BY BlankTyped DEF CacheType
<1>5. s.usage - Usage(s, S) \in Int
  <2>1. Usage(s, S) \in Nat /\ s.usage \in Int
    BY <1>2, UsageTyped DEF CacheType
  <2> QED BY <2>1
<1>6. (s.bad \/ \E e \in S : HasJob(s, e)) \in BOOLEAN
  BY DEF CacheType
<1>7. t \in CacheType /\ t.lru = s.lru
  BY <1>2, <1>4, <1>5, <1>6 DEF CacheType, Evict
<1> HIDE DEF t
<1>8. [t EXCEPT !.lru = SubSeq(@, 1, n)] \in CacheType
  BY <1>2, <1>7 DEF CacheType
<1> QED BY <1>3, <1>8

\* The end of _evas_cache_image_async_cancel keeps the types.
LEMMA SettleTyped ==
  ASSUME NEW s \in CacheType, NEW e \in Entries
  PROVE  Settle(s, e) \in CacheType
BY LruAddTyped, FlushTyped DEF Settle

\* The use of a block, freed or not, keeps the types.
LEMMA TouchTyped ==
  ASSUME NEW s \in CacheType, NEW e
  PROVE  Touch(s, e) \in CacheType
<1>1. (s.bad \/ ~s.ent[e].alive) \in BOOLEAN
  BY DEF CacheType
<1> QED BY <1>1 DEF Touch, CacheType

\* _evas_cache_image_async_end keeps the types.
LEMMA AsyncEndTyped ==
  ASSUME NEW s \in CacheType, NEW e \in Entries, NEW settle \in BOOLEAN
  PROVE  AsyncEnd(s, e, settle) \in CacheType
<1> DEFINE t == [s EXCEPT !.preload = @ \ {e}, !.pend = @ \ {e},
                          !.ent[e].done = s.ent[e].loaded]
<1>1. [s.ent[e] EXCEPT !.done = s.ent[e].loaded] \in EntryType
  BY EntryTyped DEF EntryType
<1>2. t \in CacheType
  BY <1>1 DEF CacheType
<1> HIDE DEF t
<1>3. [t EXCEPT !.inform = [e |-> e, cb |-> FALSE, settle |-> settle]] \in CacheType
  BY <1>2 DEF CacheType
<1> QED BY <1>2, <1>3, SettleTyped DEF AsyncEnd, t

\* _evas_cache_image_async_cancel keeps the types.
LEMMA AsyncCancelTyped ==
  ASSUME NEW s \in CacheType, NEW e \in Entries
  PROVE  AsyncCancel(s, e) \in CacheType
<1> DEFINE t == [s EXCEPT !.pend = @ \ {e}]
           u == [t EXCEPT !.ent[e].deleteMe = FALSE]
<1>1. t \in CacheType
  BY DEF CacheType
<1> HIDE DEF t
<1>2. [t.ent[e] EXCEPT !.deleteMe = FALSE] \in EntryType
  BY <1>1, EntryTyped, ZenonT(40) DEF EntryType
<1>3. u \in CacheType
  BY <1>1, <1>2 DEF CacheType
<1> HIDE DEF u
<1> QED BY <1>1, <1>3, DestroyTyped, SettleTyped, AsyncEndTyped DEF AsyncCancel, t, u

\* evas_preload_thread_cancel of the job of an image keeps the types.
LEMMA ThreadCancelTyped ==
  ASSUME NEW s \in CacheType, NEW e \in Entries
  PROVE  ThreadCancel(s, e) \in CacheType
<1>1. [s EXCEPT !.phase[e] = "idle"] \in CacheType
  BY DEF CacheType, Phases
<1>2. [s EXCEPT !.flagged = @ \union {e}] \in CacheType
  BY DEF CacheType
<1> QED BY <1>1, <1>2, AsyncCancelTyped DEF ThreadCancel

\* The cancellation in preload_remove and in load_data keeps the types.
LEMMA CancelJobTyped ==
  ASSUME NEW s \in CacheType, NEW e \in Entries
  PROVE  CancelJob(s, e) \in CacheType
<1>1. [s.ent[e] EXCEPT !.pending = TRUE] \in EntryType
  BY EntryTyped, ZenonT(40) DEF EntryType
<1>2. [s EXCEPT !.preload = @ \ {e}, !.pend = @ \union {e}, !.ent[e].pending = TRUE] \in CacheType
  BY <1>1 DEF CacheType
<1> QED BY <1>2, ThreadCancelTyped DEF CancelJob

\* _evas_cache_image_entry_preload_remove keeps the types, for one target and
\* for all of them.
LEMMA PreloadRemoveTyped ==
  ASSUME NEW s \in CacheType, NEW e \in Entries, NEW o \in Objects \union {None}
  PROVE  PreloadRemove(s, e, o) \in CacheType
<1> DEFINE l == IF o = None THEN <<>> ELSE RemoveFirst(s.ent[e].targets, o)
           t == [s EXCEPT !.ent[e].targets = IF o = None THEN <<>> ELSE RemoveFirst(@, o)]
<1>1. s.ent[e].targets \in Seq(Objects)
  BY EntryTyped DEF EntryType
<1>2. l \in Seq(Objects)
  <2>1. CASE o = None
    BY <2>1
  <2>2. CASE o # None
    BY <2>2, <1>1, RemoveFirstFacts
  <2> QED BY <2>1, <2>2
<1>3. t = [s EXCEPT !.ent[e].targets = l]
  BY DEF CacheType
<1> HIDE DEF l
<1>4. [s.ent[e] EXCEPT !.targets = l] \in EntryType
  BY <1>2, EntryTyped DEF EntryType
<1>5. t \in CacheType
  BY <1>3, <1>4, ZenonT(40) DEF CacheType
<1> HIDE DEF t
<1> QED BY <1>5, TouchTyped, CancelJobTyped DEF PreloadRemove, t

\* _evas_cache_image_entry_delete keeps the types.
LEMMA EntryDeleteTyped ==
  ASSUME NEW s \in CacheType, NEW e \in Entries
  PROVE  EntryDelete(s, e) \in CacheType
<1>1. [s.ent[e] EXCEPT !.deleteMe = TRUE] \in EntryType
  BY EntryTyped, ZenonT(40) DEF EntryType
<1>2. [s EXCEPT !.ent[e].deleteMe = TRUE] \in CacheType
  BY <1>1 DEF CacheType
<1> QED BY <1>2, PreloadRemoveTyped, DestroyTyped DEF EntryDelete

\* _evas_cache_image_entry_preload_add keeps the types.
LEMMA PreloadAddTyped ==
  ASSUME NEW s \in CacheType, NEW e \in Entries, NEW o \in Objects
  PROVE  PreloadAdd(s, e, o) \in CacheType
<1> DEFINE t == [s EXCEPT !.ent[e].targets = Append(@, o)]
           u == [t EXCEPT !.preload = @ \union {e}, !.ent[e].pending = FALSE, !.phase[e] = "queued"]
<1>1. s.ent[e].targets \in Seq(Objects)
  BY EntryTyped DEF EntryType
<1>2. [s.ent[e] EXCEPT !.targets = Append(@, o)] \in EntryType
  <2>1. Append(s.ent[e].targets, o) \in Seq(Objects)
    BY <1>1
  <2> DEFINE l == Append(s.ent[e].targets, o)
  <2> HIDE DEF l
  <2>2. [s.ent[e] EXCEPT !.targets = l] \in EntryType
    BY <2>1, EntryTyped, ZenonT(40) DEF EntryType, l
  <2> QED BY <2>2 DEF l
<1>3. t \in CacheType
  BY <1>2 DEF CacheType
<1> HIDE DEF t
<1>4. [t.ent[e] EXCEPT !.pending = FALSE] \in EntryType
  BY <1>3, EntryTyped, ZenonT(40) DEF EntryType
<1>5. u \in CacheType
  BY <1>3, <1>4 DEF CacheType, Phases
<1> QED BY <1>3, <1>5 DEF PreloadAdd, t

\* evas_cache_image_drop keeps the types.
LEMMA DropTyped ==
  ASSUME NEW s \in CacheType, NEW e \in Entries
  PROVE  Drop(s, e) \in CacheType
<1> DEFINE n == IF s.ent[e].refs = 0 THEN 0 ELSE s.ent[e].refs - 1
           t == [s EXCEPT !.ent[e].refs = IF @ = 0 THEN 0 ELSE @ - 1]
<1>1. n \in Nat
  <2>1. s.ent[e].refs \in Nat
    BY EntryTyped DEF EntryType
  <2> QED BY <2>1
<1>2. t = [s EXCEPT !.ent[e].refs = n]
  BY DEF CacheType
<1> HIDE DEF n
<1>3. [s.ent[e] EXCEPT !.refs = n] \in EntryType
  BY <1>1, EntryTyped DEF EntryType
<1>4. t \in CacheType
  BY <1>2, <1>3, ZenonT(40) DEF CacheType
<1> HIDE DEF t
<1> QED BY <1>4, TouchTyped, PreloadRemoveTyped, EntryDeleteTyped, LruAddTyped, FlushTyped DEF Drop, t

\* _evas_cache_image_entry_new for a file keeps the types.
LEMMA EntryNewTyped ==
  ASSUME NEW s \in CacheType, NEW e \in Entries, NEW k \in Keys, disk[k] \in Stamps \union {None}
  PROVE  EntryNew(s, e, k) \in CacheType
<1> DEFINE r == [Blank EXCEPT !.alive = TRUE, !.key = k, !.file = TRUE,
                              !.stamp = disk[k], !.activ = TRUE]
<1>1. r \in EntryType
  BY BlankTyped DEF EntryType
<1> HIDE DEF r
<1>2. [s EXCEPT !.ent[e] = r, !.activ = @ \union {e}] \in CacheType
  BY <1>1 DEF CacheType
<1> QED BY <1>2 DEF EntryNew, r

\* evas_cache_image_copied_data keeps the types.
LEMMA EntryCopiedTyped ==
  ASSUME NEW s \in CacheType, NEW e \in Entries
  PROVE  EntryCopied(s, e) \in CacheType
<1> DEFINE r == [Blank EXCEPT !.alive = TRUE, !.data = TRUE, !.dirty = TRUE, !.refs = 1]
<1>1. r \in EntryType
  BY BlankTyped DEF EntryType
<1> HIDE DEF r
<1>2. [s EXCEPT !.ent[e] = r, !.dirty = @ \union {e}] \in CacheType
  BY <1>1 DEF CacheType
<1> QED BY <1>2 DEF EntryCopied, r

\* eina_hash_find returns an entry of the hash that has the key, and NULL only
\* if there is none.
LEMMA FindFacts ==
  ASSUME NEW s \in CacheType, NEW S \in SUBSET Entries, NEW k
  PROVE  /\ Find(s, S, k) = None \/ Find(s, S, k) \in S
         /\ Find(s, S, k) # None => s.ent[Find(s, S, k)].key = k
         /\ Find(s, S, k) = None => \A e \in S : s.ent[e].key # k
<1>1. None \notin S
  BY CacheAssumption
<1>2. CASE \E e \in S : s.ent[e].key = k
  <2>1. Find(s, S, k) = CHOOSE e \in S : s.ent[e].key = k
    BY <1>2 DEF Find
  <2>2. Find(s, S, k) \in S /\ s.ent[Find(s, S, k)].key = k
    BY <1>2, <2>1
  <2> QED BY <2>2, <1>1
<1>3. CASE ~ \E e \in S : s.ent[e].key = k
  <2>1. Find(s, S, k) = None
    BY <1>3 DEF Find
  <2> QED BY <2>1, <1>3
<1> QED BY <1>2, <1>3

\* Another reference keeps the types.
LEMMA RefTyped ==
  ASSUME NEW s \in CacheType, NEW e \in Entries
  PROVE  [s EXCEPT !.ent[e].refs = @ + 1] \in CacheType
<1> DEFINE n == s.ent[e].refs + 1
<1>1. n \in Nat
  <2>1. s.ent[e].refs \in Nat
    BY EntryTyped DEF EntryType
  <2> QED BY <2>1
<1>2. [s EXCEPT !.ent[e].refs = @ + 1] = [s EXCEPT !.ent[e].refs = n]
  BY DEF CacheType
<1> HIDE DEF n
<1>3. [s.ent[e] EXCEPT !.refs = n] \in EntryType
  BY <1>1, EntryTyped DEF EntryType
<1> QED BY <1>2, <1>3 DEF CacheType

\* Whatever evas_cache_image_request finds, makes or fails to make, the cache
\* keeps its types, and the result is an entry or NULL.
LEMMA RequestsTyped ==
  ASSUME NEW s \in CacheType, NEW k \in Keys, disk[k] \in Stamps \union {None},
         NEW r \in Requests(s, k)
  PROVE  r[1] \in CacheType /\ r[2] \in Entries \union {None}
<1> DEFINE a  == Find(s, s.activ, k)
           s1 == IF a = None THEN s ELSE DirtyAdd(s, a)
           b  == Find(s1, s1.inactiv, k)
           s2 == IF b = None THEN s1 ELSE EntryDelete(DirtyAdd(s1, b), b)
           Ref(t, e) == <<[t EXCEPT !.ent[e].refs = @ + 1], e>>
<1>1. s.activ \in SUBSET Entries
  BY DEF CacheType
<1>2. a = None \/ a \in Entries
  BY <1>1, FindFacts
<1> HIDE DEF a
<1>3. s1 \in CacheType
  BY <1>2, DirtyAddTyped
<1> HIDE DEF s1
<1>4. s1.inactiv \in SUBSET Entries
  BY <1>3 DEF CacheType
<1>5. b = None \/ b \in Entries
  BY <1>3, <1>4, FindFacts
<1> HIDE DEF b
<1>6. s2 \in CacheType
  BY <1>3, <1>5, DirtyAddTyped, EntryDeleteTyped
<1> HIDE DEF s2
<1>7. ASSUME NEW t \in CacheType, NEW e \in Entries, r = Ref(t, e)
      PROVE  r[1] \in CacheType /\ r[2] \in Entries \union {None}
  BY <1>7, RefTyped
<1>8. CASE Fresh(s, a, k) /\ r = Ref(s, a)
  BY <1>2, <1>7, <1>8 DEF Fresh
<1>9. CASE Fresh(s1, b, k) /\ r = Ref(ActivAdd(LruDel(s1, b), b), b)
  <2>1. b \in Entries
    BY <1>5, <1>9 DEF Fresh
  <2>2. ActivAdd(LruDel(s1, b), b) \in CacheType
    BY <2>1, <1>3, LruDelTyped, ActivAddTyped
  <2> QED BY <2>1, <2>2, <1>7, <1>9
<1>10. CASE \E e \in FreeBlocks(s2) : disk[k] # None /\ r = Ref(EntryNew(s2, e, k), e)
  <2>1. PICK e \in FreeBlocks(s2) : r = Ref(EntryNew(s2, e, k), e)
    BY <1>10
  <2>2. e \in Entries
    BY DEF FreeBlocks
  <2>3. EntryNew(s2, e, k) \in CacheType
    BY <2>2, <1>6, EntryNewTyped
  <2> QED BY <2>1, <2>2, <2>3, <1>7
<1>11. CASE r = <<s2, None>>
  BY <1>6, <1>11
<1>12. \/ Fresh(s, a, k) /\ r = Ref(s, a)
       \/ Fresh(s1, b, k) /\ r = Ref(ActivAdd(LruDel(s1, b), b), b)
       \/ \E e \in FreeBlocks(s2) : disk[k] # None /\ r = Ref(EntryNew(s2, e, k), e)
       \/ r = <<s2, None>>
  BY DEF Requests, a, s1, b, s2
<1> QED BY <1>8, <1>9, <1>10, <1>11, <1>12

-----------------------------------------------------------------------------
\* What the operators on the lists do

\* Nothing but the lists has changed, and nothing of the entries but e.
SameRest(s, t) ==
  /\ t.preload = s.preload /\ t.pend = s.pend /\ t.phase = s.phase /\ t.flagged = s.flagged
  /\ t.limit = s.limit /\ t.may = s.may /\ t.bad = s.bad /\ t.inform = s.inform
Others(s, t, e) == \A d \in Entries \ {e} : t.ent[d] = s.ent[d]

\* The flags of an entry say on which list it is.
Flagged(s, e) ==
  /\ s.ent[e].activ <=> e \in s.activ
  /\ s.ent[e].lru   <=> e \in s.inactiv
  /\ s.ent[e].dirty <=> e \in s.dirty
  /\ s.ent[e].activ \/ s.ent[e].lru => s.ent[e].key # None

\* The fields of an entry that have nothing to do with the lists.
Fields(s, t, e) ==
  LET r == s.ent[e]
      q == t.ent[e]
  IN  /\ q.alive = r.alive /\ q.file = r.file /\ q.stamp = r.stamp /\ q.refs = r.refs
      /\ q.loaded = r.loaded /\ q.data = r.data /\ q.done = r.done /\ q.pending = r.pending
      /\ q.deleteMe = r.deleteMe /\ q.unloadCancel = r.unloadCancel /\ q.targets = r.targets

\* _evas_cache_image_dirty_del takes an entry off the dirty list, and its flag,
\* and changes nothing else.
LEMMA DirtyDelEffect ==
  ASSUME NEW s \in CacheType, NEW e \in Entries, Flagged(s, e)
  PROVE  LET t == DirtyDel(s, e)
         IN  /\ t \in CacheType /\ SameRest(s, t) /\ Others(s, t, e) /\ Fields(s, t, e)
             /\ Flagged(t, e)
             /\ t.ent[e].key = s.ent[e].key /\ t.ent[e].activ = s.ent[e].activ
             /\ t.ent[e].lru = s.ent[e].lru
             /\ t.activ = s.activ /\ t.inactiv = s.inactiv /\ t.dirty = s.dirty \ {e}
             /\ t.lru = s.lru /\ t.usage = s.usage
<1>1. DirtyDel(s, e) \in CacheType
  BY DirtyDelTyped
<1>2. CASE s.ent[e].dirty
  <2> DEFINE t == [s EXCEPT !.ent[e].dirty = FALSE, !.dirty = @ \ {e}]
  <2>1. DirtyDel(s, e) = t
    BY <1>2 DEF DirtyDel
  <2>2. /\ SameRest(s, t) /\ Others(s, t, e) /\ t.ent[e] = [s.ent[e] EXCEPT !.dirty = FALSE]
        /\ t.activ = s.activ /\ t.inactiv = s.inactiv /\ t.dirty = s.dirty \ {e}
        /\ t.lru = s.lru /\ t.usage = s.usage
    BY DEF CacheType, SameRest, Others
  <2> HIDE DEF t
  <2>3. /\ Fields(s, t, e) /\ t.ent[e].key = s.ent[e].key /\ t.ent[e].activ = s.ent[e].activ
        /\ t.ent[e].lru = s.ent[e].lru /\ t.ent[e].dirty = FALSE
    BY <2>2, EntryTyped DEF EntryType, Fields
  <2> QED BY <1>1, <2>1, <2>2, <2>3 DEF Flagged
<1>3. CASE ~s.ent[e].dirty
  BY <1>1, <1>3 DEF DirtyDel, SameRest, Others, Fields, Flagged
<1> QED BY <1>2, <1>3

\* _evas_cache_image_activ_del takes an entry out of the hash activ, and changes
\* nothing else: an entry that is there has a key.
LEMMA ActivDelEffect ==
  ASSUME NEW s \in CacheType, NEW e \in Entries, Flagged(s, e)
  PROVE  LET t == ActivDel(s, e)
         IN  /\ t \in CacheType /\ SameRest(s, t) /\ Others(s, t, e) /\ Fields(s, t, e)
             /\ Flagged(t, e)
             /\ t.ent[e].key = s.ent[e].key /\ t.ent[e].lru = s.ent[e].lru
             /\ t.ent[e].dirty = s.ent[e].dirty
             /\ t.activ = s.activ \ {e} /\ t.inactiv = s.inactiv /\ t.dirty = s.dirty
             /\ t.lru = s.lru /\ t.usage = s.usage
<1>1. ActivDel(s, e) \in CacheType
  BY ActivDelTyped
<1>2. CASE s.ent[e].activ
  <2> DEFINE t == [s EXCEPT !.ent[e].activ = FALSE, !.activ = @ \ {e}]
  <2>1. ActivDel(s, e) = t
    BY <1>2 DEF ActivDel, Flagged
  <2>2. /\ SameRest(s, t) /\ Others(s, t, e) /\ t.ent[e] = [s.ent[e] EXCEPT !.activ = FALSE]
        /\ t.activ = s.activ \ {e} /\ t.inactiv = s.inactiv /\ t.dirty = s.dirty
        /\ t.lru = s.lru /\ t.usage = s.usage
    BY DEF CacheType, SameRest, Others
  <2> HIDE DEF t
  <2>3. /\ Fields(s, t, e) /\ t.ent[e].key = s.ent[e].key /\ t.ent[e].activ = FALSE
        /\ t.ent[e].lru = s.ent[e].lru /\ t.ent[e].dirty = s.ent[e].dirty
    BY <2>2, EntryTyped DEF EntryType, Fields
  <2> QED BY <1>1, <2>1, <2>2, <2>3 DEF Flagged
<1>3. CASE ~s.ent[e].activ
  BY <1>1, <1>3 DEF ActivDel, SameRest, Others, Fields, Flagged
<1> QED BY <1>2, <1>3

\* _evas_cache_image_lru_del takes an entry off the lru list, out of the hash
\* inactiv and off the usage, and changes nothing else.
LEMMA LruDelEffect ==
  ASSUME NEW s \in CacheType, NEW e \in Entries, Flagged(s, e)
  PROVE  LET t == LruDel(s, e)
         IN  /\ t \in CacheType /\ SameRest(s, t) /\ Others(s, t, e) /\ Fields(s, t, e)
             /\ Flagged(t, e)
             /\ t.ent[e].key = s.ent[e].key /\ t.ent[e].activ = s.ent[e].activ
             /\ t.ent[e].dirty = s.ent[e].dirty
             /\ t.activ = s.activ /\ t.inactiv = s.inactiv \ {e} /\ t.dirty = s.dirty
             /\ t.lru = IF e \in s.inactiv THEN RemoveFirst(s.lru, e) ELSE s.lru
             /\ t.usage = IF e \in s.inactiv THEN s.usage - MemSize(s, e) ELSE s.usage
<1>1. LruDel(s, e) \in CacheType
  BY LruDelTyped
<1>2. CASE s.ent[e].lru
  <2> DEFINE t == [s EXCEPT !.ent[e].lru = FALSE, !.inactiv = @ \ {e}, !.lru = RemoveFirst(@, e),
                            !.usage = @ - MemSize(s, e)]
  <2>1. LruDel(s, e) = t
    BY <1>2 DEF LruDel, Flagged
  <2>2. /\ SameRest(s, t) /\ Others(s, t, e) /\ t.ent[e] = [s.ent[e] EXCEPT !.lru = FALSE]
        /\ t.activ = s.activ /\ t.inactiv = s.inactiv \ {e} /\ t.dirty = s.dirty
        /\ t.lru = RemoveFirst(s.lru, e) /\ t.usage = s.usage - MemSize(s, e)
    BY DEF CacheType, SameRest, Others
  <2> HIDE DEF t
  <2>3. /\ Fields(s, t, e) /\ t.ent[e].key = s.ent[e].key /\ t.ent[e].activ = s.ent[e].activ
        /\ t.ent[e].lru = FALSE /\ t.ent[e].dirty = s.ent[e].dirty
    BY <2>2, EntryTyped DEF EntryType, Fields
  <2> QED BY <1>1, <1>2, <2>1, <2>2, <2>3 DEF Flagged
<1>3. CASE ~s.ent[e].lru
  BY <1>1, <1>3 DEF LruDel, SameRest, Others, Fields, Flagged
<1> QED BY <1>2, <1>3

\* _evas_cache_image_lru_add moves an active entry to the head of the lru list,
\* into the hash inactiv and into the usage.
LEMMA LruAddEffect ==
  ASSUME NEW s \in CacheType, NEW e \in Entries, Flagged(s, e),
         e \in s.activ, e \notin s.inactiv
  PROVE  LET t == LruAdd(s, e)
         IN  /\ t \in CacheType /\ SameRest(s, t) /\ Others(s, t, e) /\ Fields(s, t, e)
             /\ Flagged(t, e)
             /\ t.ent[e].key = s.ent[e].key
             /\ t.activ = s.activ \ {e} /\ t.inactiv = s.inactiv \union {e}
             /\ t.dirty = s.dirty \ {e}
             /\ t.lru = <<e>> \o s.lru /\ t.usage = s.usage + MemSize(s, e)
<1> DEFINE x == DirtyDel(s, e)
           y == ActivDel(x, e)
           t == LruAdd(s, e)
<1>1. t \in CacheType
  BY LruAddTyped
<1>2. /\ x \in CacheType /\ SameRest(s, x) /\ Others(s, x, e) /\ Fields(s, x, e)
      /\ Flagged(x, e)
      /\ x.ent[e].key = s.ent[e].key /\ x.ent[e].lru = s.ent[e].lru
      /\ x.activ = s.activ /\ x.inactiv = s.inactiv /\ x.dirty = s.dirty \ {e}
      /\ x.lru = s.lru /\ x.usage = s.usage
  BY DirtyDelEffect
<1> HIDE DEF x
<1>3. /\ y \in CacheType /\ SameRest(x, y) /\ Others(x, y, e) /\ Fields(x, y, e)
      /\ Flagged(y, e)
      /\ y.ent[e].key = x.ent[e].key /\ y.ent[e].lru = x.ent[e].lru
      /\ y.activ = x.activ \ {e} /\ y.inactiv = x.inactiv /\ y.dirty = x.dirty
      /\ y.lru = x.lru /\ y.usage = x.usage
  BY <1>2, ActivDelEffect
<1>4. ~s.ent[e].lru /\ y.ent[e].key # None /\ y = ActivDel(DirtyDel(s, e), e)
  BY <1>2, <1>3 DEF Flagged, x
<1> HIDE DEF y
<1>5. t = [y EXCEPT !.ent[e].lru = TRUE, !.inactiv = @ \union {e},
                    !.lru = <<e>> \o @, !.usage = @ + MemSize(y, e)]
  BY <1>4 DEF LruAdd
<1> HIDE DEF t
<1>6. /\ SameRest(y, t) /\ Others(y, t, e) /\ Fields(y, t, e)
      /\ t.ent[e].key = y.ent[e].key /\ t.ent[e].lru = TRUE
      /\ t.ent[e].activ = y.ent[e].activ /\ t.ent[e].dirty = y.ent[e].dirty
      /\ t.activ = y.activ /\ t.inactiv = y.inactiv \union {e} /\ t.dirty = y.dirty
      /\ t.lru = <<e>> \o y.lru /\ t.usage = y.usage + MemSize(y, e)
  <2>1. /\ SameRest(y, t) /\ Others(y, t, e) /\ t.ent[e] = [y.ent[e] EXCEPT !.lru = TRUE]
        /\ t.activ = y.activ /\ t.inactiv = y.inactiv \union {e} /\ t.dirty = y.dirty
        /\ t.lru = <<e>> \o y.lru /\ t.usage = y.usage + MemSize(y, e)
    BY <1>3, <1>5 DEF CacheType, SameRest, Others
  <2> QED BY <2>1, <1>3, EntryTyped DEF EntryType, Fields
<1>7. MemSize(y, e) = MemSize(s, e)
  BY <1>2, <1>3 DEF MemSize, Fields
<1>8. SameRest(s, t) /\ Others(s, t, e) /\ Fields(s, t, e)
  BY <1>2, <1>3, <1>6, SMTT(30) DEF SameRest, Others, Fields
<1>9. Flagged(t, e)
  BY <1>2, <1>3, <1>4, <1>6 DEF Flagged
<1> QED BY <1>1, <1>2, <1>3, <1>6, <1>7, <1>8, <1>9 DEF t

\* An entry of the lru list that is requested becomes active, and leaves the lru
\* list, the hash inactiv and the usage.
LEMMA ReviveEffect ==
  ASSUME NEW s \in CacheType, NEW e \in Entries, Flagged(s, e),
         e \in s.inactiv, e \notin s.activ
  PROVE  LET t == ActivAdd(LruDel(s, e), e)
         IN  /\ t \in CacheType /\ SameRest(s, t) /\ Others(s, t, e) /\ Fields(s, t, e)
             /\ Flagged(t, e)
             /\ t.ent[e].key = s.ent[e].key
             /\ t.activ = s.activ \union {e} /\ t.inactiv = s.inactiv \ {e}
             /\ t.dirty = s.dirty \ {e}
             /\ t.lru = RemoveFirst(s.lru, e) /\ t.usage = s.usage - MemSize(s, e)
<1> DEFINE w == LruDel(s, e)
           x == DirtyDel(w, e)
           y == LruDel(x, e)
           t == ActivAdd(w, e)
<1>1. /\ w \in CacheType /\ SameRest(s, w) /\ Others(s, w, e) /\ Fields(s, w, e)
      /\ Flagged(w, e)
      /\ w.ent[e].key = s.ent[e].key /\ w.ent[e].activ = s.ent[e].activ
      /\ w.activ = s.activ /\ w.inactiv = s.inactiv \ {e} /\ w.dirty = s.dirty
      /\ w.lru = RemoveFirst(s.lru, e) /\ w.usage = s.usage - MemSize(s, e)
  BY LruDelEffect
<1> HIDE DEF w
<1>2. /\ x \in CacheType /\ SameRest(w, x) /\ Others(w, x, e) /\ Fields(w, x, e)
      /\ Flagged(x, e)
      /\ x.ent[e].key = w.ent[e].key /\ x.ent[e].activ = w.ent[e].activ
      /\ x.activ = w.activ /\ x.inactiv = w.inactiv /\ x.dirty = w.dirty \ {e}
      /\ x.lru = w.lru /\ x.usage = w.usage
  BY <1>1, DirtyDelEffect
<1> HIDE DEF x
<1>3. e \notin x.inactiv
  BY <1>1, <1>2
<1>4. /\ y \in CacheType /\ SameRest(x, y) /\ Others(x, y, e) /\ Fields(x, y, e)
      /\ Flagged(y, e)
      /\ y.ent[e].key = x.ent[e].key /\ y.ent[e].activ = x.ent[e].activ
      /\ y.activ = x.activ /\ y.inactiv = x.inactiv \ {e} /\ y.dirty = x.dirty
      /\ y.lru = x.lru /\ y.usage = x.usage
  BY <1>2, <1>3, LruDelEffect
<1>5. ~w.ent[e].activ /\ y.ent[e].key # None /\ y = LruDel(DirtyDel(w, e), e)
  BY <1>1, <1>2, <1>4 DEF Flagged, x
<1> HIDE DEF y
<1>6. t = [y EXCEPT !.ent[e].activ = TRUE, !.activ = @ \union {e}]
  BY <1>5 DEF ActivAdd
<1>7. t \in CacheType
  BY <1>1, ActivAddTyped
<1> HIDE DEF t
<1>8. /\ SameRest(y, t) /\ Others(y, t, e) /\ t.ent[e] = [y.ent[e] EXCEPT !.activ = TRUE]
      /\ t.activ = y.activ \union {e} /\ t.inactiv = y.inactiv /\ t.dirty = y.dirty
      /\ t.lru = y.lru /\ t.usage = y.usage
  BY <1>4, <1>6 DEF CacheType, SameRest, Others
<1>9. /\ Fields(y, t, e) /\ t.ent[e].key = y.ent[e].key /\ t.ent[e].activ = TRUE
      /\ t.ent[e].lru = y.ent[e].lru /\ t.ent[e].dirty = y.ent[e].dirty
  BY <1>4, <1>8, EntryTyped DEF EntryType, Fields
<1>10. SameRest(s, t) /\ Others(s, t, e) /\ Fields(s, t, e)
  BY <1>1, <1>2, <1>4, <1>8, <1>9 DEF SameRest, Others, Fields
<1>11. Flagged(t, e)
  BY <1>4, <1>5, <1>8, <1>9 DEF Flagged
<1> QED BY <1>1, <1>2, <1>4, <1>7, <1>8, <1>9, <1>10, <1>11 DEF t, w

\* _evas_cache_image_dirty_add moves an entry from whichever list it is on to the
\* dirty list, and takes its key.
LEMMA DirtyAddEffect ==
  ASSUME NEW s \in CacheType, NEW e \in Entries, Flagged(s, e), e \notin s.dirty
  PROVE  LET t == DirtyAdd(s, e)
         IN  /\ t \in CacheType /\ SameRest(s, t) /\ Others(s, t, e) /\ Fields(s, t, e)
             /\ Flagged(t, e)
             /\ t.ent[e].key = None
             /\ t.activ = s.activ \ {e} /\ t.inactiv = s.inactiv \ {e}
             /\ t.dirty = s.dirty \union {e}
             /\ t.lru = IF e \in s.inactiv THEN RemoveFirst(s.lru, e) ELSE s.lru
             /\ t.usage = IF e \in s.inactiv THEN s.usage - MemSize(s, e) ELSE s.usage
<1> DEFINE x == ActivDel(s, e)
           y == LruDel(x, e)
           t == DirtyAdd(s, e)
<1>1. t \in CacheType
  BY DirtyAddTyped
<1>2. /\ x \in CacheType /\ SameRest(s, x) /\ Others(s, x, e) /\ Fields(s, x, e)
      /\ Flagged(x, e)
      /\ x.ent[e].key = s.ent[e].key /\ x.ent[e].lru = s.ent[e].lru
      /\ x.activ = s.activ \ {e} /\ x.inactiv = s.inactiv /\ x.dirty = s.dirty
      /\ x.lru = s.lru /\ x.usage = s.usage
  BY ActivDelEffect
<1> HIDE DEF x
<1>3. /\ y \in CacheType /\ SameRest(x, y) /\ Others(x, y, e) /\ Fields(x, y, e)
      /\ Flagged(y, e)
      /\ y.activ = x.activ /\ y.inactiv = x.inactiv \ {e} /\ y.dirty = x.dirty
      /\ y.lru = IF e \in x.inactiv THEN RemoveFirst(x.lru, e) ELSE x.lru
      /\ y.usage = IF e \in x.inactiv THEN x.usage - MemSize(x, e) ELSE x.usage
  BY <1>2, LruDelEffect
<1>4. MemSize(x, e) = MemSize(s, e)
  BY <1>2 DEF MemSize, Fields
<1>5. ~s.ent[e].dirty /\ y = LruDel(ActivDel(s, e), e)
  BY DEF Flagged, x
<1> HIDE DEF y
<1>6. t = [y EXCEPT !.ent[e].dirty = TRUE, !.dirty = @ \union {e}, !.ent[e].key = None]
  BY <1>5 DEF DirtyAdd
<1> HIDE DEF t
<1>7. /\ SameRest(y, t) /\ Others(y, t, e)
      /\ t.ent[e] = [y.ent[e] EXCEPT !.dirty = TRUE, !.key = None]
      /\ t.activ = y.activ /\ t.inactiv = y.inactiv /\ t.dirty = y.dirty \union {e}
      /\ t.lru = y.lru /\ t.usage = y.usage
  BY <1>3, <1>6 DEF CacheType, SameRest, Others
<1>8. /\ Fields(y, t, e) /\ t.ent[e].key = None /\ t.ent[e].activ = y.ent[e].activ
      /\ t.ent[e].lru = y.ent[e].lru /\ t.ent[e].dirty = TRUE
  BY <1>3, <1>7, EntryTyped DEF EntryType, Fields
<1>9. SameRest(s, t) /\ Others(s, t, e) /\ Fields(s, t, e)
  BY <1>2, <1>3, <1>7, <1>8 DEF SameRest, Others, Fields
<1>10. ~y.ent[e].activ /\ ~y.ent[e].lru
  BY <1>2, <1>3 DEF Flagged
<1>11. Flagged(t, e)
  BY <1>3, <1>7, <1>8, <1>10 DEF Flagged
<1> QED BY <1>1, <1>2, <1>3, <1>4, <1>7, <1>8, <1>9, <1>11 DEF t

\* A deleted entry is on no list any more, and its block is free.
LEMMA DestroyEffect ==
  ASSUME NEW s \in CacheType, NEW e \in Entries, Flagged(s, e)
  PROVE  LET t == Destroy(s, e)
         IN  /\ t \in CacheType /\ SameRest(s, t) /\ Others(s, t, e) /\ t.ent[e] = Blank
             /\ t.activ = s.activ \ {e} /\ t.inactiv = s.inactiv \ {e}
             /\ t.dirty = s.dirty \ {e}
             /\ t.lru = IF e \in s.inactiv THEN RemoveFirst(s.lru, e) ELSE s.lru
             /\ t.usage = IF e \in s.inactiv THEN s.usage - MemSize(s, e) ELSE s.usage
<1> DEFINE w == DirtyDel(s, e)
           x == ActivDel(w, e)
           y == LruDel(x, e)
           t == Destroy(s, e)
<1>1. t \in CacheType /\ t = [y EXCEPT !.ent[e] = Blank]
  BY DestroyTyped DEF Destroy
<1>2. /\ w \in CacheType /\ SameRest(s, w) /\ Others(s, w, e) /\ Fields(s, w, e)
      /\ Flagged(w, e)
      /\ w.activ = s.activ /\ w.inactiv = s.inactiv /\ w.dirty = s.dirty \ {e}
      /\ w.lru = s.lru /\ w.usage = s.usage
  BY DirtyDelEffect
<1> HIDE DEF w
<1>3. /\ x \in CacheType /\ SameRest(w, x) /\ Others(w, x, e) /\ Fields(w, x, e)
      /\ Flagged(x, e)
      /\ x.activ = w.activ \ {e} /\ x.inactiv = w.inactiv /\ x.dirty = w.dirty
      /\ x.lru = w.lru /\ x.usage = w.usage
  BY <1>2, ActivDelEffect
<1> HIDE DEF x
<1>4. /\ y \in CacheType /\ SameRest(x, y) /\ Others(x, y, e) /\ Fields(x, y, e)
      /\ Flagged(y, e)
      /\ y.activ = x.activ /\ y.inactiv = x.inactiv \ {e} /\ y.dirty = x.dirty
      /\ y.lru = IF e \in x.inactiv THEN RemoveFirst(x.lru, e) ELSE x.lru
      /\ y.usage = IF e \in x.inactiv THEN x.usage - MemSize(x, e) ELSE x.usage
  BY <1>3, LruDelEffect
<1> HIDE DEF y
<1>5. MemSize(x, e) = MemSize(s, e)
  BY <1>2, <1>3 DEF MemSize, Fields
<1> HIDE DEF t
<1>6. /\ SameRest(y, t) /\ Others(y, t, e) /\ t.ent[e] = Blank
      /\ t.activ = y.activ /\ t.inactiv = y.inactiv /\ t.dirty = y.dirty
      /\ t.lru = y.lru /\ t.usage = y.usage
  BY <1>1, <1>4 DEF CacheType, SameRest, Others
<1>7. SameRest(s, t) /\ Others(s, t, e)
  BY <1>2, <1>3, <1>4, <1>6 DEF SameRest, Others
<1> QED BY <1>1, <1>2, <1>3, <1>4, <1>5, <1>6, <1>7 DEF t

\* evas_cache_image_flush frees some of the entries of the lru list, takes
\* them off every list and off the usage, and leaves no more than fits.
LEMMA FlushEffect ==
  ASSUME NEW s \in CacheType, Range(s.lru) = s.inactiv, IsInjective(s.lru)
  PROVE  \E S \in SUBSET s.inactiv :
           LET t == Flush(s)
           IN  /\ t \in CacheType
               /\ \A e \in Entries : t.ent[e] = IF e \in S THEN Blank ELSE s.ent[e]
               /\ t.preload = s.preload /\ t.pend = s.pend /\ t.phase = s.phase
               /\ t.flagged = s.flagged /\ t.limit = s.limit /\ t.may = s.may
               /\ t.inform = s.inform /\ t.bad = (s.bad \/ \E e \in S : HasJob(s, e))
               /\ t.activ = s.activ /\ t.inactiv = s.inactiv \ S /\ t.dirty = s.dirty
               /\ Range(t.lru) = t.inactiv /\ IsInjective(t.lru)
               /\ t.usage = s.usage - Usage(s, S)
               /\ t.lru # <<>> => t.usage <= t.limit
<1> DEFINE n == Stay(s)
           S == Range(Behind(s.lru, n))
           x == Evict(s, S)
           l == SubSeq(s.lru, 1, n)
           t == Flush(s)
<1>1. /\ n \in 0 .. Len(s.lru)
      /\ n = 0 \/ ~OverLimit([s EXCEPT !.usage = @ - Usage(s, S)])
  BY StayFacts
<1>2. l \in Seq(Entries) /\ S \subseteq Entries /\ Range(s.lru) = Range(l) \union S
  BY <1>1, BehindTyped
<1>3. t \in CacheType
  BY FlushTyped
<1>4. t = [x EXCEPT !.lru = SubSeq(@, 1, n)]
  BY DEF Flush
<1>5. Len(l) = n /\ IsInjective(l) /\ Range(l) \cap S = {}
  <2>1. s.lru \in Seq(Entries) /\ Len(s.lru) \in Nat /\ DOMAIN s.lru = 1 .. Len(s.lru)
    BY DEF CacheType
  <2>2. \A i, j \in 1 .. Len(s.lru) : s.lru[i] = s.lru[j] => i = j
    BY <2>1 DEF IsInjective
  <2> DEFINE g == SubSeq(s.lru, n + 1, Len(s.lru))
  <2>3. Len(l) = n /\ \A i \in 1 .. n : l[i] = s.lru[i]
    BY <1>1, <2>1, SubSeqProperties
  <2>4. Len(g) = Len(s.lru) - n /\ \A i \in 1 .. Len(s.lru) - n : g[i] = s.lru[n + i]
    <3>1. n \in 0 .. Len(s.lru)
      BY <1>1, <2>1
    <3> HIDE DEF n
    <3> QED BY <2>1, <3>1, TailFacts
  <2>5. DOMAIN l = 1 .. n /\ DOMAIN g = 1 .. Len(s.lru) - n
    <3>1. g \in Seq(Entries)
      BY <1>1, <2>1, SubSeqProperties
    <3> QED BY <1>2, <2>3, <2>4, <3>1
  <2> HIDE DEF n, l, g
  <2>6. IsInjective(l)
    BY <1>1, <2>1, <2>2, <2>3, <2>5 DEF IsInjective
  <2>7. ASSUME NEW i \in 1 .. n, NEW j \in 1 .. Len(s.lru) - n
        PROVE  l[i] # g[j]
    <3>1. i \in 1 .. Len(s.lru) /\ n + j \in 1 .. Len(s.lru) /\ i # n + j
      BY <1>1, <2>1
    <3> QED BY <3>1, <2>2, <2>3, <2>4
  <2>8. Range(l) \cap Range(g) = {}
    BY <2>5, <2>7 DEF Range
  <2> QED BY <2>3, <2>6, <2>8 DEF Behind, g
<1> HIDE DEF n, S, l
<1>6. /\ x.ent = [e \in Entries |-> IF e \in S THEN Blank ELSE s.ent[e]]
      /\ x.preload = s.preload /\ x.pend = s.pend /\ x.phase = s.phase
      /\ x.flagged = s.flagged /\ x.limit = s.limit /\ x.may = s.may /\ x.inform = s.inform
      /\ x.bad = (s.bad \/ \E e \in S : HasJob(s, e))
      /\ x.activ = s.activ /\ x.inactiv = s.inactiv \ S /\ x.dirty = s.dirty
      /\ x.lru = s.lru /\ x.usage = s.usage - Usage(s, S)
      /\ DOMAIN x = DOMAIN s
  BY DEF Evict, CacheType
<1> HIDE DEF x
<1>7. /\ t.ent = x.ent
      /\ t.preload = x.preload /\ t.pend = x.pend /\ t.phase = x.phase
      /\ t.flagged = x.flagged /\ t.limit = x.limit /\ t.may = x.may /\ t.inform = x.inform
      /\ t.bad = x.bad
      /\ t.activ = x.activ /\ t.inactiv = x.inactiv /\ t.dirty = x.dirty
      /\ t.lru = SubSeq(x.lru, 1, n) /\ t.usage = x.usage
  BY <1>4, <1>6 DEF CacheType
<1>8. t.lru = l /\ Range(t.lru) = t.inactiv
  <2>1. t.lru = l
    BY <1>6, <1>7 DEF l
  <2>2. Range(l) = s.inactiv \ S
    BY <1>2, <1>5
  <2> QED BY <2>1, <2>2, <1>6, <1>7
<1>9. ASSUME t.lru # <<>>
      PROVE  t.usage <= t.limit
  <2>1. n # 0
    BY <1>2, <1>5, <1>8, <1>9
  <2>2. ~([s EXCEPT !.usage = @ - Usage(s, S)].limit < [s EXCEPT !.usage = @ - Usage(s, S)].usage)
    BY <1>1, <2>1 DEF OverLimit
  <2>3. ~(s.limit < s.usage - Usage(s, S))
    BY <2>2 DEF CacheType
  <2>4. s.limit \in Int /\ s.usage - Usage(s, S) \in Int
    BY <1>3, <1>6, <1>7 DEF CacheType
  <2> QED BY <2>3, <2>4, <1>6, <1>7
<1>10. S \in SUBSET s.inactiv
  BY <1>2
<1> HIDE DEF t
<1>11. \A e \in Entries : t.ent[e] = IF e \in S THEN Blank ELSE s.ent[e]
  BY <1>6, <1>7
<1> QED BY <1>3, <1>5, <1>6, <1>7, <1>8, <1>9, <1>10, <1>11, ZenonT(40) DEF t

\* The memory of a set of images when one is added or taken, or some are, and when
\* no pixels come or go.
LEMMA UsageChanges ==
  ASSUME NEW s \in CacheType, NEW S \in SUBSET Entries
  PROVE  /\ \A e \in Entries \ S : Usage(s, S \union {e}) = Usage(s, S) + MemSize(s, e)
         /\ \A e \in S : Usage(s, S \ {e}) = Usage(s, S) - MemSize(s, e)
         /\ \A T \in SUBSET S : Usage(s, S \ T) = Usage(s, S) - Usage(s, T)
         /\ \A t : (\A e \in S : t.ent[e].data = s.ent[e].data) => Usage(t, S) = Usage(s, S)
<1> DEFINE D(T) == {e \in T : s.ent[e].data}
<1>1. \A T \in SUBSET Entries : /\ IsFiniteSet(T) /\ IsFiniteSet(D(T))
                                /\ Cardinality(T) \in Nat /\ Cardinality(D(T)) \in Nat
                                /\ Usage(s, T) = Cardinality(T) + Cardinality(D(T))
  BY UsageTyped, FS_CardinalityType DEF Usage
<1>2. ASSUME NEW e \in Entries \ S
      PROVE  Usage(s, S \union {e}) = Usage(s, S) + MemSize(s, e)
  <2>1. Cardinality(S \union {e}) = Cardinality(S) + 1
    BY <1>1, FS_AddElement
  <2>2. CASE s.ent[e].data
    <3>1. D(S \union {e}) = D(S) \union {e} /\ e \notin D(S)
      BY <2>2
    <3>2. Cardinality(D(S \union {e})) = Cardinality(D(S)) + 1
      <4> HIDE DEF D
      <4> QED BY <3>1, <1>1, FS_AddElement
    <3> HIDE DEF D
    <3> QED BY <2>1, <2>2, <3>2, <1>1 DEF MemSize
  <2>3. CASE ~s.ent[e].data
    <3>1. D(S \union {e}) = D(S)
      BY <2>3
    <3> HIDE DEF D
    <3> QED BY <2>1, <2>3, <3>1, <1>1 DEF MemSize
  <2> QED BY <2>2, <2>3
<1>3. ASSUME NEW e \in S
      PROVE  Usage(s, S \ {e}) = Usage(s, S) - MemSize(s, e)
  <2>1. Cardinality(S \ {e}) = Cardinality(S) - 1
    BY <1>1, FS_RemoveElement
  <2>2. CASE s.ent[e].data
    <3>1. D(S \ {e}) = D(S) \ {e} /\ e \in D(S)
      BY <2>2
    <3>2. Cardinality(D(S \ {e})) = Cardinality(D(S)) - 1
      <4> HIDE DEF D
      <4> QED BY <3>1, <1>1, FS_RemoveElement
    <3> HIDE DEF D
    <3> QED BY <2>1, <2>2, <3>2, <1>1 DEF MemSize
  <2>3. CASE ~s.ent[e].data
    <3>1. D(S \ {e}) = D(S)
      BY <2>3
    <3> HIDE DEF D
    <3> QED BY <2>1, <2>3, <3>1, <1>1 DEF MemSize
  <2> QED BY <2>2, <2>3
<1>4. ASSUME NEW T \in SUBSET S
      PROVE  Usage(s, S \ T) = Usage(s, S) - Usage(s, T)
  <2>1. (S \ T) \union T = S /\ (S \ T) \cap T = {}
    OBVIOUS
  <2>2. D(S \ T) \union D(T) = D(S) /\ D(S \ T) \cap D(T) = {}
    OBVIOUS
  <2> HIDE DEF D
  <2>3. /\ IsFiniteSet(T) /\ IsFiniteSet(S \ T) /\ IsFiniteSet(D(T)) /\ IsFiniteSet(D(S \ T))
    BY <1>1
  <2>4. Cardinality(S) = Cardinality(S \ T) + Cardinality(T) - Cardinality({})
    BY <2>1, <2>3, FS_Union
  <2>5. Cardinality(D(S)) = Cardinality(D(S \ T)) + Cardinality(D(T)) - Cardinality({})
    BY <2>2, <2>3, FS_Union
  <2>6. Cardinality({}) = 0
    BY FS_EmptySet
  <2> QED BY <2>4, <2>5, <2>6, <1>1
<1>5. ASSUME NEW t, \A e \in S : t.ent[e].data = s.ent[e].data
      PROVE  Usage(t, S) = Usage(s, S)
  <2>1. {e \in S : t.ent[e].data} = {e \in S : s.ent[e].data}
    BY <1>5
  <2> QED BY <2>1 DEF Usage
<1> QED BY <1>2, <1>3, <1>4, <1>5

-----------------------------------------------------------------------------
\* The state of the cache between two calls, as the image objects im, the
\* preloading objects pre, the copy cp that an object is about to get, the
\* files dk on disk and cl, whether evas_cache_image_shutdown has begun, see it.

\* The application does something of a kind.
Does(s, kind) == kind \in s.may.does

\* The objects that hold an image, and those among them that wait for it.
Holding(im, e) == {o \in Objects : im[o] = e}
Target(im, pre, e) == {o \in pre : im[o] = e}

\* An entry is on one list, the one its flags say, or on none when it is free.
OnLists(s, e) ==
  /\ Flagged(s, e)
  /\ s.ent[e].alive <=> e \in s.activ \/ e \in s.inactiv \/ e \in s.dirty
  /\ e \in s.activ => e \notin s.inactiv
  /\ e \in s.dirty => e \notin s.activ /\ e \notin s.inactiv
  /\ e \in s.dirty => s.ent[e].key = None
  /\ ~s.ent[e].alive => s.ent[e] = Blank
  /\ e \in s.inactiv => s.ent[e].refs = 0

\* Its job is known to the cache: the list `preload' has it until it is
\* cancelled, and the list `pending' afterwards.
JobOK(s, e) ==
  /\ HasJob(s, e) => e \in s.activ
  /\ e \in s.preload <=> HasJob(s, e) /\ ~s.ent[e].pending
  /\ e \in s.pend <=> HasJob(s, e) /\ s.ent[e].pending
  /\ e \in s.flagged <=> HasJob(s, e) /\ s.ent[e].pending
  /\ s.phase[e] = "queued" => ~s.ent[e].pending
  /\ IsInjective(s.ent[e].targets)

\* Only the shutdown marks images that are to be deleted when their job is over.
DeletesOK(s, cl, e) ==
  s.ent[e].deleteMe =>
    cl /\ HasJob(s, e) /\ s.ent[e].targets = <<>> /\ s.ent[e].refs = 0

\* What follows from what the application does or does not do: jobs are for
\* preloads, and where there are preloads no image is dirty or stale.
ProgramOK(s, dk, e) ==
  /\ ~Does(s, "preload") => s.phase[e] = "idle" /\ s.ent[e].targets = <<>>
  /\ Does(s, "preload") =>
       /\ e \notin s.dirty
       /\ s.ent[e].alive => s.ent[e].file /\ s.ent[e].stamp = dk[s.ent[e].key]

\* The count of references is the number of the holders; a copy that an object is
\* about to get has one.
HeldOK(s, im, cp, e) ==
  /\ s.ent[e].alive => s.ent[e].refs = Cardinality(Holding(im, e)) + (IF cp = e THEN 1 ELSE 0)
  /\ ~s.ent[e].alive => Holding(im, e) = {}
  /\ cp = e => e \in s.dirty /\ Holding(im, e) = {}

\* All of that, and the targets are the objects that wait.
EntryOK(s, im, pre, cp, dk, cl, e) ==
  /\ OnLists(s, e) /\ JobOK(s, e) /\ DeletesOK(s, cl, e) /\ ProgramOK(s, dk, e)
  /\ HeldOK(s, im, cp, e)
  /\ Range(s.ent[e].targets) = Target(im, pre, e)

\* The lists as a whole: the lru list, the keys, the usage and the limit.
LruOK(s)   == Range(s.lru) = s.inactiv /\ IsInjective(s.lru)
KeysOK(s)  == \A d, e \in s.activ \union s.inactiv : s.ent[d].key = s.ent[e].key => d = e
UsageOK(s) == ~Does(s, "unload") => s.usage = Usage(s, s.inactiv)
FitsOK(s)  == s.lru # <<>> => s.usage <= s.limit

\* A job that no target waits for is cancelled; an image no object holds can be
\* evicted, or will be when its job is over.
Wanted(s, e) == HasJob(s, e) /\ s.ent[e].targets = <<>> => s.ent[e].pending
Evictable(s, e) ==
  /\ s.ent[e].alive /\ s.ent[e].refs = 0 => e \in s.inactiv \/ HasJob(s, e)
  /\ Wanted(s, e)

\* Objects hold entries or nothing, and wait only for what they hold.
Users(im, pre, cp) ==
  /\ im \in [Objects -> Entries \union {None}] /\ pre \subseteq Objects
  /\ \A o \in pre : im[o] # None

\* The cache while a function of it runs that may have left an image in no list ...
Core(s, im, pre, cp, dk, cl) ==
  /\ s \in CacheType /\ ~s.bad /\ s.inform = Quiet
  /\ LruOK(s) /\ KeysOK(s) /\ UsageOK(s)
  /\ Users(im, pre, cp)
  /\ \A e \in Entries : EntryOK(s, im, pre, cp, dk, cl, e)

\* ... and between two calls.
Good(s, im, pre, cp, dk, cl) ==
  Core(s, im, pre, cp, dk, cl) /\ FitsOK(s) /\ \A e \in Entries : Evictable(s, e)

\* An entry that is as it was, and the same to the objects, stays in order.
Same(s, t, e) ==
  /\ t.ent[e] = s.ent[e] /\ t.phase[e] = s.phase[e] /\ t.may = s.may
  /\ e \in t.activ <=> e \in s.activ
  /\ e \in t.inactiv <=> e \in s.inactiv
  /\ e \in t.dirty <=> e \in s.dirty
  /\ e \in t.preload <=> e \in s.preload
  /\ e \in t.pend <=> e \in s.pend
  /\ e \in t.flagged <=> e \in s.flagged

\* The same objects hold it, and wait for it.
SameUsers(im, pre, cp, jm, qre, dp, e) ==
  /\ Holding(jm, e) = Holding(im, e) /\ Target(jm, qre, e) = Target(im, pre, e)
  /\ dp = e <=> cp = e

\* What was in order of such an entry still is.
LEMMA SameEntry ==
  ASSUME NEW s, NEW t, NEW im, NEW pre, NEW cp, NEW jm, NEW qre, NEW dp, NEW dk, NEW cl, NEW e,
         Same(s, t, e), SameUsers(im, pre, cp, jm, qre, dp, e),
         EntryOK(s, im, pre, cp, dk, cl, e)
  PROVE  EntryOK(t, jm, qre, dp, dk, cl, e)
<1>1. OnLists(t, e)
  BY DEF Same, EntryOK, OnLists, Flagged
<1>2. JobOK(t, e)
  BY DEF Same, EntryOK, JobOK, HasJob
<1>3. DeletesOK(t, cl, e)
  BY DEF Same, EntryOK, DeletesOK, HasJob
<1>4. ProgramOK(t, dk, e)
  BY DEF Same, EntryOK, ProgramOK, Does
<1>5. HeldOK(t, jm, dp, e)
  BY DEF Same, SameUsers, EntryOK, HeldOK
<1>6. Range(t.ent[e].targets) = Target(jm, qre, e)
  BY DEF Same, SameUsers, EntryOK
<1> QED BY <1>1, <1>2, <1>3, <1>4, <1>5, <1>6 DEF EntryOK

\* So was its place in the lru list, or its job.
LEMMA SameEvictable ==
  ASSUME NEW s, NEW t, NEW e, Same(s, t, e), Evictable(s, e)
  PROVE  Evictable(t, e)
BY DEF Same, Evictable, Wanted, HasJob

\* If one entry changes, and its holders, it is enough to look at it and at the
\* lists: the other entries stay in order.
LEMMA OneEntry ==
  ASSUME NEW s, NEW im, NEW pre, NEW cp, NEW dk, NEW cl, Core(s, im, pre, cp, dk, cl),
         NEW t \in CacheType, NEW jm, NEW qre, NEW dp, NEW e \in Entries,
         ~t.bad, t.inform = Quiet, Users(jm, qre, dp), LruOK(t), UsageOK(t),
         \A d \in Entries \ {e} : Same(s, t, d) /\ SameUsers(im, pre, cp, jm, qre, dp, d),
         e \in t.activ \union t.inactiv =>
           \/ e \in s.activ \union s.inactiv /\ t.ent[e].key = s.ent[e].key
           \/ \A d \in (s.activ \union s.inactiv) \ {e} : s.ent[d].key # t.ent[e].key,
         EntryOK(t, jm, qre, dp, dk, cl, e)
  PROVE  Core(t, jm, qre, dp, dk, cl)
<1>1. \A d \in Entries : EntryOK(t, jm, qre, dp, dk, cl, d)
  <2>1. ASSUME NEW d \in Entries \ {e}
        PROVE  EntryOK(t, jm, qre, dp, dk, cl, d)
    <3>1. EntryOK(s, im, pre, cp, dk, cl, d)
      BY DEF Core
    <3> QED BY <3>1, <2>1, SameEntry
  <2> QED BY <2>1
<1>2. KeysOK(t)
  <2>1. s \in CacheType /\ KeysOK(s)
    BY DEF Core
  <2>2. t.activ \subseteq Entries /\ t.inactiv \subseteq Entries
    BY DEF CacheType
  <2>3. \A d \in (t.activ \union t.inactiv) \ {e} :
           d \in s.activ \union s.inactiv /\ t.ent[d].key = s.ent[d].key
    BY <2>2 DEF Same
  <2>4. ASSUME NEW d \in (t.activ \union t.inactiv) \ {e}, e \in t.activ \union t.inactiv
        PROVE  t.ent[d].key # t.ent[e].key
    BY <2>1, <2>3, <2>4 DEF KeysOK
  <2>5. ASSUME NEW d \in t.activ \union t.inactiv, NEW b \in t.activ \union t.inactiv,
               t.ent[d].key = t.ent[b].key
        PROVE  d = b
    <3>1. CASE d # e /\ b # e
      BY <2>1, <2>3, <2>5, <3>1 DEF KeysOK
    <3>2. CASE d = e \/ b = e
      BY <2>4, <2>5, <3>2
    <3> QED BY <3>1, <3>2
  <2> QED BY <2>5 DEF KeysOK
<1> QED BY <1>1, <1>2 DEF Core

-----------------------------------------------------------------------------
(***************************************************************************)
(* A contract for each function of evas_cache_image.c: called on a cache   *)
(* that is in order, it leaves one that is, whatever the images, the       *)
(* objects and their number. OneEntry, JobStep and PixelsGood carry the    *)
(* entries a function does not touch.                                      *)
(***************************************************************************)

\* No job has been queued, cancelled or reported.
JobsSame(s, t) == t.phase = s.phase /\ t.flagged = s.flagged /\ t.may = s.may

\* An image with no reference has no holder, no target, and is nobody's copy.
LEMMA Unheld ==
  ASSUME NEW s \in CacheType, NEW im, NEW pre, NEW cp, NEW dk, NEW cl, NEW e \in Entries,
         Users(im, pre, cp), EntryOK(s, im, pre, cp, dk, cl, e), s.ent[e].refs = 0
  PROVE  /\ Holding(im, e) = {} /\ cp # e /\ Target(im, pre, e) = {}
         /\ s.ent[e].targets = <<>>
<1>1. IsFiniteSet(Holding(im, e)) /\ Cardinality(Holding(im, e)) \in Nat
  <2>1. Holding(im, e) \in SUBSET Objects
    BY DEF Holding
  <2> QED BY <2>1, CacheAssumption, FS_Subset, FS_CardinalityType
<1>2. Holding(im, e) = {} /\ (s.ent[e].alive => cp # e)
  <2>1. CASE s.ent[e].alive
    <3>1. Cardinality(Holding(im, e)) = 0 /\ cp # e
      BY <1>1, <2>1 DEF EntryOK, HeldOK
    <3> QED BY <3>1, <1>1, FS_EmptySet
  <2>2. CASE ~s.ent[e].alive
    BY <2>2 DEF EntryOK, HeldOK
  <2> QED BY <2>1, <2>2
<1>3. cp # e
  BY <1>2 DEF EntryOK, HeldOK, OnLists
<1>4. Target(im, pre, e) = {}
  BY <1>2 DEF Users, Holding, Target
<1>5. s.ent[e].targets = <<>>
  <2>1. Range(s.ent[e].targets) = {} /\ s.ent[e].targets \in Seq(Objects)
    BY <1>4, EntryTyped DEF EntryOK, EntryType
  <2>2. Len(s.ent[e].targets) = 0
    <3>1. ASSUME Len(s.ent[e].targets) # 0
          PROVE  FALSE
      <4>1. 1 \in 1 .. Len(s.ent[e].targets)
        BY <2>1, <3>1
      <4> QED BY <2>1, <4>1, RangeFacts, SMTT(30)
    <3> QED BY <3>1
  <2> QED BY <2>1, <2>2
<1> QED BY <1>2, <1>3, <1>4, <1>5

\* evas_cache_image_flush finds a cache in which every image is in order, and
\* leaves a good one, within the limit: it frees only images that no object holds
\* and no job works on.
LEMMA FlushGood ==
  ASSUME NEW s, NEW im, NEW pre, NEW cp, NEW dk, NEW cl, Core(s, im, pre, cp, dk, cl),
         \A e \in Entries : Evictable(s, e)
  PROVE  /\ Good(Flush(s), im, pre, cp, dk, cl) /\ JobsSame(s, Flush(s))
         /\ Flush(s).limit = s.limit
<1> DEFINE t == Flush(s)
<1>1. s \in CacheType /\ Range(s.lru) = s.inactiv /\ IsInjective(s.lru)
  BY DEF Core, LruOK
<1>2. PICK S \in SUBSET s.inactiv :
        /\ t \in CacheType
        /\ \A e \in Entries : t.ent[e] = IF e \in S THEN Blank ELSE s.ent[e]
        /\ t.preload = s.preload /\ t.pend = s.pend /\ t.phase = s.phase
        /\ t.flagged = s.flagged /\ t.limit = s.limit /\ t.may = s.may
        /\ t.inform = s.inform /\ t.bad = (s.bad \/ \E e \in S : HasJob(s, e))
        /\ t.activ = s.activ /\ t.inactiv = s.inactiv \ S /\ t.dirty = s.dirty
        /\ Range(t.lru) = t.inactiv /\ IsInjective(t.lru)
        /\ t.usage = s.usage - Usage(s, S)
        /\ t.lru # <<>> => t.usage <= t.limit
  BY <1>1, FlushEffect
<1> HIDE DEF t
<1>3. s.inactiv \subseteq Entries
  BY <1>1 DEF CacheType
<1>4. \A e \in S : /\ e \in Entries /\ s.ent[e].refs = 0 /\ ~HasJob(s, e)
                   /\ e \notin s.activ /\ e \notin s.dirty
  BY <1>3 DEF Core, EntryOK, OnLists, JobOK
<1>5. ~t.bad /\ t.inform = Quiet
  BY <1>2, <1>4 DEF Core
<1>6. ASSUME NEW e \in Entries
      PROVE  EntryOK(t, im, pre, cp, dk, cl, e) /\ Evictable(t, e)
  <2>1. EntryOK(s, im, pre, cp, dk, cl, e) /\ Evictable(s, e) /\ Users(im, pre, cp)
    BY DEF Core
  <2>2. CASE e \notin S
    <3>1. Same(s, t, e)
      BY <1>2, <2>2 DEF Same
    <3>2. SameUsers(im, pre, cp, im, pre, cp, e)
      BY DEF SameUsers
    <3> QED BY <2>1, <3>1, <3>2, SameEntry, SameEvictable
  <2>3. CASE e \in S
    <3>1. Holding(im, e) = {} /\ cp # e /\ Target(im, pre, e) = {}
      BY <1>1, <1>4, <2>1, <2>3, Unheld
    <3>2. t.ent[e] = Blank /\ ~HasJob(t, e)
      BY <1>2, <1>4, <2>3 DEF HasJob
    <3>3. OnLists(t, e) /\ Evictable(t, e)
      BY <1>2, <1>4, <2>3, <3>2 DEF OnLists, Flagged, Blank, Evictable, Wanted
    <3>4. JobOK(t, e)
      <4>1. IsInjective(<<>>)
        BY DEF IsInjective
      <4> QED BY <1>2, <1>4, <2>1, <2>3, <3>2, <4>1 DEF JobOK, EntryOK, HasJob, Blank
    <3>5. DeletesOK(t, cl, e) /\ ProgramOK(t, dk, e) /\ HeldOK(t, im, cp, e)
      BY <1>2, <1>4, <2>1, <2>3, <3>1, <3>2
         DEF DeletesOK, ProgramOK, HeldOK, Blank, HasJob, Does, EntryOK
    <3>6. Range(t.ent[e].targets) = Target(im, pre, e)
      <4>1. Range(<<>>) = {}
        BY DEF Range
      <4> QED BY <3>1, <3>2, <4>1 DEF Blank
    <3> QED BY <3>3, <3>4, <3>5, <3>6 DEF EntryOK
  <2> QED BY <2>2, <2>3
<1>7. KeysOK(t)
  BY <1>2, <1>3, <1>4 DEF KeysOK, Core, CacheType
<1>8. UsageOK(t)
  <2>1. \A T \in SUBSET s.inactiv : Usage(s, s.inactiv \ T) = Usage(s, s.inactiv) - Usage(s, T)
    BY <1>1, <1>3, UsageChanges
  <2>2. \A e \in s.inactiv \ S : t.ent[e].data = s.ent[e].data
    BY <1>2, <1>3
  <2>3. s.inactiv \ S \in SUBSET Entries
    BY <1>3
  <2>4. Usage(t, s.inactiv \ S) = Usage(s, s.inactiv \ S)
    BY <1>1, <2>2, <2>3, UsageChanges
  <2> QED BY <1>2, <2>1, <2>4 DEF UsageOK, Core, Does
<1>9. LruOK(t) /\ FitsOK(t) /\ JobsSame(s, t)
  BY <1>2 DEF LruOK, FitsOK, JobsSame
<1> QED BY <1>2, <1>5, <1>6, <1>7, <1>8, <1>9 DEF Good, Core, t

\* The lru list and the usage stay exact when an entry leaves the list.
LEMMA LruShrinks ==
  ASSUME NEW s \in CacheType, LruOK(s), NEW e \in s.inactiv
  PROVE  /\ Range(RemoveFirst(s.lru, e)) = s.inactiv \ {e} /\ IsInjective(RemoveFirst(s.lru, e))
         /\ RemoveFirst(s.lru, e) # <<>> => s.lru # <<>>
         /\ Usage(s, s.inactiv \ {e}) = Usage(s, s.inactiv) - MemSize(s, e)
         /\ MemSize(s, e) \in Nat
<1>1. s.lru \in Seq(Entries) /\ e \in Entries /\ s.inactiv \in SUBSET Entries
  BY DEF CacheType
<1>2. Range(s.lru) = s.inactiv /\ IsInjective(s.lru)
  BY DEF LruOK
<1>3. Range(RemoveFirst(s.lru, e)) = Range(s.lru) \ {e} /\ IsInjective(RemoveFirst(s.lru, e))
  BY <1>1, <1>2, RemoveFirstFacts
<1>4. s.lru # <<>>
  BY <1>2, RangeFacts DEF Range
<1>5. Usage(s, s.inactiv \ {e}) = Usage(s, s.inactiv) - MemSize(s, e)
  BY <1>1, UsageChanges
<1>6. MemSize(s, e) \in Nat
  BY DEF MemSize
<1> QED BY <1>2, <1>3, <1>4, <1>5, <1>6

\* An active image whose last reference is gone goes to the lru list, from which
\* the flush that follows may take it: a good cache.
LEMMA LruAddGood ==
  ASSUME NEW s, NEW im, NEW pre, NEW cp, NEW dk, NEW cl, Core(s, im, pre, cp, dk, cl),
         NEW e \in Entries, e \in s.activ, ~HasJob(s, e), s.ent[e].refs = 0,
         \A d \in Entries \ {e} : Evictable(s, d)
  PROVE  /\ Good(Flush(LruAdd(s, e)), im, pre, cp, dk, cl)
         /\ JobsSame(s, Flush(LruAdd(s, e)))
<1> DEFINE t == LruAdd(s, e)
<1>1. /\ s \in CacheType /\ Users(im, pre, cp) /\ EntryOK(s, im, pre, cp, dk, cl, e)
      /\ LruOK(s) /\ UsageOK(s) /\ ~s.bad /\ s.inform = Quiet
  BY DEF Core
<1>2. Flagged(s, e) /\ e \notin s.inactiv /\ e \notin s.dirty /\ s.inactiv \in SUBSET Entries
  BY <1>1 DEF EntryOK, OnLists, CacheType
<1>3. /\ t \in CacheType /\ SameRest(s, t) /\ Others(s, t, e) /\ Fields(s, t, e)
      /\ Flagged(t, e)
      /\ t.ent[e].key = s.ent[e].key
      /\ t.activ = s.activ \ {e} /\ t.inactiv = s.inactiv \union {e} /\ t.dirty = s.dirty \ {e}
      /\ t.lru = <<e>> \o s.lru /\ t.usage = s.usage + MemSize(s, e)
  BY <1>1, <1>2, LruAddEffect
<1> HIDE DEF t
<1>4. \A d \in Entries \ {e} : Same(s, t, d)
  BY <1>3 DEF Same, SameRest, Others
<1>5. OnLists(t, e) /\ Evictable(t, e)
  BY <1>1, <1>2, <1>3 DEF EntryOK, OnLists, Fields, Evictable, Wanted, HasJob, SameRest
<1>6. JobOK(t, e)
  BY <1>1, <1>3 DEF EntryOK, JobOK, HasJob, Fields, SameRest
<1>7. DeletesOK(t, cl, e) /\ ProgramOK(t, dk, e)
  BY <1>1, <1>3 DEF EntryOK, DeletesOK, ProgramOK, HasJob, Fields, SameRest, Does
<1>8. HeldOK(t, im, cp, e) /\ Range(t.ent[e].targets) = Target(im, pre, e)
  BY <1>1, <1>2, <1>3 DEF EntryOK, HeldOK, Fields
<1>9. EntryOK(t, im, pre, cp, dk, cl, e)
  BY <1>5, <1>6, <1>7, <1>8 DEF EntryOK
<1>10. LruOK(t)
  <2>1. s.lru \in Seq(Entries) /\ <<e>> \in Seq(Entries) /\ Len(s.lru) \in Nat
    BY <1>1 DEF CacheType
  <2>2. Range(<<e>>) = {e}
    BY DEF Range
  <2>3. Range(<<e>> \o s.lru) = Range(<<e>>) \union Range(s.lru)
    BY <2>1, JoinFacts, ZenonT(40)
  <2>4. IsInjective(<<e>> \o s.lru)
    <3> DEFINE l == <<e>> \o s.lru
    <3>1. /\ DOMAIN l = 1 .. Len(s.lru) + 1 /\ l[1] = e
          /\ \A i \in 2 .. Len(s.lru) + 1 : l[i] = s.lru[i - 1] /\ i - 1 \in 1 .. Len(s.lru)
      BY <2>1
    <3>2. DOMAIN s.lru = 1 .. Len(s.lru)
      BY <2>1
    <3>3. \A i, j \in 1 .. Len(s.lru) : s.lru[i] = s.lru[j] => i = j
      BY <1>1, <3>2 DEF LruOK, IsInjective
    <3>4. \A i \in 1 .. Len(s.lru) : s.lru[i] # e
      BY <1>1, <1>2, <2>1, RangeFacts DEF LruOK
    <3> HIDE DEF l
    <3>5. \A i, j \in 1 .. Len(s.lru) + 1 : l[i] = l[j] => i = j
      <4>1. TAKE i, j \in 1 .. Len(s.lru) + 1
      <4>2. HAVE l[i] = l[j]
      <4>3. i = 1 \/ i \in 2 .. Len(s.lru) + 1
        BY <2>1
      <4>4. j = 1 \/ j \in 2 .. Len(s.lru) + 1
        BY <2>1
      <4>5. CASE i = 1 /\ j = 1
        BY <4>5
      <4>6. CASE i = 1 /\ j \in 2 .. Len(s.lru) + 1
        BY <4>2, <4>6, <3>1, <3>4
      <4>7. CASE j = 1 /\ i \in 2 .. Len(s.lru) + 1
        BY <4>2, <4>7, <3>1, <3>4
      <4>8. CASE i \in 2 .. Len(s.lru) + 1 /\ j \in 2 .. Len(s.lru) + 1
        <5>1. i - 1 = j - 1
          BY <4>2, <4>8, <3>1, <3>3
        <5> QED BY <5>1, <4>8
      <4> QED BY <4>3, <4>4, <4>5, <4>6, <4>7, <4>8
    <3> QED BY <3>1, <3>5 DEF IsInjective, l
  <2> QED BY <1>1, <1>3, <2>2, <2>3, <2>4 DEF LruOK
<1>11. UsageOK(t)
  <2>1. Usage(s, s.inactiv \union {e}) = Usage(s, s.inactiv) + MemSize(s, e)
    BY <1>1, <1>2, UsageChanges
  <2>2. \A d \in s.inactiv \union {e} : t.ent[d].data = s.ent[d].data
    BY <1>2, <1>3 DEF Others, Fields
  <2>3. Usage(t, s.inactiv \union {e}) = Usage(s, s.inactiv \union {e})
    <3>1. s.inactiv \union {e} \in SUBSET Entries
      BY <1>2
    <3> QED BY <1>1, <2>2, <3>1, UsageChanges
  <2> QED BY <1>1, <1>3, <2>1, <2>3 DEF UsageOK, SameRest, Does
<1>12. Core(t, im, pre, cp, dk, cl)
  <2>1. \A d \in Entries \ {e} : Same(s, t, d) /\ SameUsers(im, pre, cp, im, pre, cp, d)
    BY <1>4 DEF SameUsers
  <2>2. ~t.bad /\ t.inform = Quiet
    BY <1>1, <1>3 DEF SameRest
  <2>3. e \in s.activ \union s.inactiv /\ t.ent[e].key = s.ent[e].key
    BY <1>3
  <2> QED BY <1>1, <1>3, <1>9, <1>10, <1>11, <2>1, <2>2, <2>3, OneEntry
<1>13. \A d \in Entries : Evictable(t, d)
  BY <1>4, <1>5, SameEvictable
<1>14. Good(Flush(t), im, pre, cp, dk, cl) /\ JobsSame(t, Flush(t))
  BY <1>12, <1>13, FlushGood
<1> QED BY <1>3, <1>14 DEF JobsSame, SameRest, t

\* The lists stay exact when one entry leaves them or goes to the dirty list.
LEMMA ShrunkOK ==
  ASSUME NEW s \in CacheType, LruOK(s), UsageOK(s), NEW t \in CacheType, NEW e \in Entries,
         t.may = s.may, t.limit = s.limit, Others(s, t, e), t.inactiv = s.inactiv \ {e},
         t.lru = (IF e \in s.inactiv THEN RemoveFirst(s.lru, e) ELSE s.lru),
         t.usage = (IF e \in s.inactiv THEN s.usage - MemSize(s, e) ELSE s.usage)
  PROVE  LruOK(t) /\ UsageOK(t) /\ (FitsOK(s) => FitsOK(t))
<1>1. s.inactiv \in SUBSET Entries /\ s.usage \in Int /\ s.limit \in Int
  BY DEF CacheType
<1>2. Usage(t, s.inactiv \ {e}) = Usage(s, s.inactiv \ {e})
  <2>1. s.inactiv \ {e} \in SUBSET Entries
    BY <1>1
  <2>2. \A d \in s.inactiv \ {e} : t.ent[d].data = s.ent[d].data
    BY <1>1 DEF Others
  <2> QED BY <2>1, <2>2, UsageChanges
<1>3. CASE e \in s.inactiv
  <2>1. /\ Range(RemoveFirst(s.lru, e)) = s.inactiv \ {e} /\ IsInjective(RemoveFirst(s.lru, e))
        /\ RemoveFirst(s.lru, e) # <<>> => s.lru # <<>>
        /\ Usage(s, s.inactiv \ {e}) = Usage(s, s.inactiv) - MemSize(s, e)
        /\ MemSize(s, e) \in Nat
    BY <1>3, LruShrinks
  <2>2. LruOK(t)
    BY <1>3, <2>1 DEF LruOK
  <2>3. UsageOK(t)
    BY <1>2, <1>3, <2>1 DEF UsageOK, Does
  <2>4. FitsOK(s) => FitsOK(t)
    BY <1>1, <1>3, <2>1 DEF FitsOK
  <2> QED BY <2>2, <2>3, <2>4
<1>4. CASE e \notin s.inactiv
  <2>1. s.inactiv \ {e} = s.inactiv
    BY <1>4
  <2> QED BY <1>2, <1>4, <2>1 DEF LruOK, UsageOK, Does, FitsOK
<1> QED BY <1>3, <1>4

\* An image that no object holds and that has no job can be freed.
LEMMA DestroyGood ==
  ASSUME NEW s, NEW im, NEW pre, NEW cp, NEW dk, NEW cl, Core(s, im, pre, cp, dk, cl), FitsOK(s),
         NEW e \in Entries, ~HasJob(s, e), s.ent[e].refs = 0,
         \A d \in Entries \ {e} : Evictable(s, d)
  PROVE  Good(Destroy(s, e), im, pre, cp, dk, cl) /\ JobsSame(s, Destroy(s, e))
<1> DEFINE t == Destroy(s, e)
<1>1. /\ s \in CacheType /\ Users(im, pre, cp) /\ EntryOK(s, im, pre, cp, dk, cl, e)
      /\ LruOK(s) /\ UsageOK(s) /\ ~s.bad /\ s.inform = Quiet
  BY DEF Core
<1>2. /\ Holding(im, e) = {} /\ cp # e /\ Target(im, pre, e) = {}
      /\ s.ent[e].targets = <<>>
  BY <1>1, Unheld
<1>3. /\ t \in CacheType /\ SameRest(s, t) /\ Others(s, t, e) /\ t.ent[e] = Blank
      /\ t.activ = s.activ \ {e} /\ t.inactiv = s.inactiv \ {e} /\ t.dirty = s.dirty \ {e}
      /\ t.lru = (IF e \in s.inactiv THEN RemoveFirst(s.lru, e) ELSE s.lru)
      /\ t.usage = (IF e \in s.inactiv THEN s.usage - MemSize(s, e) ELSE s.usage)
  BY <1>1, DestroyEffect DEF EntryOK, OnLists
<1> HIDE DEF t
<1>4. \A d \in Entries \ {e} : Same(s, t, d) /\ SameUsers(im, pre, cp, im, pre, cp, d)
  BY <1>3 DEF Same, SameRest, Others, SameUsers
<1>5. t.ent[e] = Blank /\ ~HasJob(t, e)
  BY <1>3 DEF HasJob, SameRest
<1>6. OnLists(t, e) /\ Evictable(t, e)
  BY <1>3, <1>5 DEF OnLists, Flagged, Blank, Evictable, Wanted
<1>7. JobOK(t, e)
  <2>1. IsInjective(<<>>)
    BY DEF IsInjective
  <2>2. e \notin t.preload /\ e \notin t.pend /\ e \notin t.flagged /\ t.phase[e] # "queued"
    BY <1>1, <1>3 DEF EntryOK, JobOK, SameRest, HasJob
  <2> QED BY <1>5, <2>1, <2>2 DEF JobOK, Blank
<1>8. DeletesOK(t, cl, e) /\ ProgramOK(t, dk, e) /\ HeldOK(t, im, cp, e)
  BY <1>1, <1>2, <1>3, <1>5 DEF DeletesOK, ProgramOK, HeldOK, Blank, HasJob, Does, EntryOK, SameRest
<1>9. Range(t.ent[e].targets) = Target(im, pre, e)
  <2>1. Range(<<>>) = {}
    BY DEF Range
  <2> QED BY <1>2, <1>3, <2>1 DEF Blank
<1>10. EntryOK(t, im, pre, cp, dk, cl, e)
  BY <1>6, <1>7, <1>8, <1>9 DEF EntryOK
<1>11. LruOK(t) /\ UsageOK(t) /\ FitsOK(t)
  BY <1>1, <1>3, ShrunkOK DEF SameRest
<1>12. ~t.bad /\ t.inform = Quiet /\ JobsSame(s, t)
  BY <1>1, <1>3 DEF SameRest, JobsSame
<1>13. e \notin t.activ \union t.inactiv
  BY <1>3
<1>14. Core(t, im, pre, cp, dk, cl)
  BY <1>1, <1>3, <1>4, <1>10, <1>11, <1>12, <1>13, OneEntry
<1>15. \A d \in Entries : Evictable(t, d)
  BY <1>4, <1>6, SameEvictable
<1> QED BY <1>11, <1>12, <1>14, <1>15 DEF Good, t

\* Where nothing is preloaded, any image can become dirty.
LEMMA DirtyAddGood ==
  ASSUME NEW s, NEW im, NEW pre, NEW cp, NEW dk, NEW cl, Core(s, im, pre, cp, dk, cl), FitsOK(s),
         ~Does(s, "preload"), NEW e \in Entries, s.ent[e].alive
  PROVE  LET t == DirtyAdd(s, e)
         IN  /\ Core(t, im, pre, cp, dk, cl) /\ FitsOK(t) /\ JobsSame(s, t)
             /\ t.ent[e].refs = s.ent[e].refs /\ t.ent[e].alive
             /\ t.activ = s.activ \ {e} /\ t.inactiv = s.inactiv \ {e}
             /\ \A d \in Entries \ {e} : /\ t.ent[d] = s.ent[d]
                                         /\ Evictable(s, d) => Evictable(t, d)
<1> DEFINE t == DirtyAdd(s, e)
<1>1. /\ s \in CacheType /\ Users(im, pre, cp) /\ EntryOK(s, im, pre, cp, dk, cl, e)
      /\ LruOK(s) /\ UsageOK(s) /\ ~s.bad /\ s.inform = Quiet
  BY DEF Core
<1>2. CASE e \in s.dirty
  <2>1. t = s /\ e \notin s.activ /\ e \notin s.inactiv
    BY <1>1, <1>2 DEF DirtyAdd, EntryOK, OnLists, Flagged
  <2> QED BY <2>1 DEF JobsSame
<1>3. CASE e \notin s.dirty
  <2>1. /\ t \in CacheType /\ SameRest(s, t) /\ Others(s, t, e) /\ Fields(s, t, e)
        /\ Flagged(t, e)
        /\ t.ent[e].key = None
        /\ t.activ = s.activ \ {e} /\ t.inactiv = s.inactiv \ {e}
        /\ t.dirty = s.dirty \union {e}
        /\ t.lru = (IF e \in s.inactiv THEN RemoveFirst(s.lru, e) ELSE s.lru)
        /\ t.usage = (IF e \in s.inactiv THEN s.usage - MemSize(s, e) ELSE s.usage)
    BY <1>1, <1>3, DirtyAddEffect DEF EntryOK, OnLists
  <2> HIDE DEF t
  <2>2. \A d \in Entries \ {e} : Same(s, t, d) /\ SameUsers(im, pre, cp, im, pre, cp, d)
    BY <2>1 DEF Same, SameRest, Others, SameUsers
  <2>3. OnLists(t, e)
    BY <1>1, <2>1 DEF EntryOK, OnLists, Fields
  <2>4. JobOK(t, e)
    BY <1>1, <2>1 DEF EntryOK, JobOK, HasJob, Fields, SameRest, ProgramOK
  <2>5. DeletesOK(t, cl, e) /\ ProgramOK(t, dk, e)
    BY <1>1, <2>1 DEF EntryOK, DeletesOK, ProgramOK, HasJob, Fields, SameRest, Does
  <2>6. HeldOK(t, im, cp, e) /\ Range(t.ent[e].targets) = Target(im, pre, e)
    BY <1>1, <2>1 DEF EntryOK, HeldOK, Fields
  <2>7. EntryOK(t, im, pre, cp, dk, cl, e)
    BY <2>3, <2>4, <2>5, <2>6 DEF EntryOK
  <2>8. LruOK(t) /\ UsageOK(t) /\ FitsOK(t)
    BY <1>1, <2>1, ShrunkOK DEF SameRest
  <2>9. ~t.bad /\ t.inform = Quiet /\ JobsSame(s, t)
    BY <1>1, <2>1 DEF SameRest, JobsSame
  <2>10. e \notin t.activ \union t.inactiv
    BY <2>1
  <2>11. Core(t, im, pre, cp, dk, cl)
    BY <1>1, <2>1, <2>2, <2>7, <2>8, <2>9, <2>10, OneEntry
  <2> QED BY <2>1, <2>2, <2>8, <2>9, <2>11, SameEvictable DEF Fields, Others, t
<1> QED BY <1>2, <1>3

\* An object that holds nothing takes a reference of an active image.
LEMMA RefGood ==
  ASSUME NEW s, NEW im, NEW pre, NEW cp, NEW dk, NEW cl, Core(s, im, pre, cp, dk, cl), FitsOK(s),
         NEW e \in Entries, e \in s.activ, ~s.ent[e].deleteMe, Wanted(s, e),
         \A d \in Entries \ {e} : Evictable(s, d), NEW o \in Objects, im[o] = None
  PROVE  LET t == [s EXCEPT !.ent[e].refs = @ + 1]
         IN  Good(t, [im EXCEPT ![o] = e], pre, cp, dk, cl) /\ JobsSame(s, t)
<1> DEFINE t == [s EXCEPT !.ent[e].refs = @ + 1]
           jm == [im EXCEPT ![o] = e]
           n == s.ent[e].refs + 1
<1>1. /\ s \in CacheType /\ Users(im, pre, cp) /\ EntryOK(s, im, pre, cp, dk, cl, e)
      /\ LruOK(s) /\ UsageOK(s) /\ ~s.bad /\ s.inform = Quiet
  BY DEF Core
<1>2. t \in CacheType /\ n \in Nat /\ n # 0
  <2>1. s.ent[e].refs \in Nat
    BY <1>1, EntryTyped DEF EntryType
  <2> QED BY <1>1, <2>1, RefTyped
<1>3. /\ SameRest(s, t) /\ Others(s, t, e) /\ t.ent[e] = [s.ent[e] EXCEPT !.refs = n]
      /\ t.activ = s.activ /\ t.inactiv = s.inactiv /\ t.dirty = s.dirty
      /\ t.lru = s.lru /\ t.usage = s.usage
  BY <1>1 DEF CacheType, SameRest, Others
<1> HIDE DEF t, n
<1>4. LET r == s.ent[e]
          q == t.ent[e]
      IN  /\ q.alive = r.alive /\ q.file = r.file /\ q.stamp = r.stamp /\ q.refs = n
          /\ q.data = r.data /\ q.pending = r.pending /\ q.key = r.key /\ q.activ = r.activ
          /\ q.lru = r.lru /\ q.dirty = r.dirty
          /\ q.deleteMe = r.deleteMe /\ q.targets = r.targets
  BY <1>1, <1>3, EntryTyped DEF EntryType
<1>5. e \notin s.inactiv /\ e \notin s.dirty /\ s.ent[e].alive
  BY <1>1 DEF EntryOK, OnLists
<1>6. /\ Holding(jm, e) = Holding(im, e) \union {o} /\ o \notin Holding(im, e)
      /\ \A d \in Entries \ {e} : Holding(jm, d) = Holding(im, d)
      /\ \A d \in Entries : Target(jm, pre, d) = Target(im, pre, d)
      /\ Users(jm, pre, cp)
  <2>1. None \notin Entries /\ o \notin pre
    BY <1>1, CacheAssumption DEF Users
  <2> QED BY <1>1, <2>1 DEF Holding, Target, Users
<1>7. Cardinality(Holding(jm, e)) = Cardinality(Holding(im, e)) + 1
  <2>1. Holding(im, e) \in SUBSET Objects
    BY DEF Holding
  <2>2. IsFiniteSet(Holding(im, e))
    BY <2>1, CacheAssumption, FS_Subset
  <2> QED BY <1>6, <2>2, FS_AddElement
<1>8. Cardinality(Holding(im, e)) \in Nat
  <2>1. Holding(im, e) \in SUBSET Objects
    BY DEF Holding
  <2> QED BY <2>1, CacheAssumption, FS_Subset, FS_CardinalityType
<1> HIDE DEF jm
<1>9. \A d \in Entries \ {e} : Same(s, t, d) /\ SameUsers(im, pre, cp, jm, pre, cp, d)
  BY <1>3, <1>6 DEF Same, SameRest, Others, SameUsers
<1>10. OnLists(t, e) /\ Evictable(t, e)
  BY <1>1, <1>2, <1>3, <1>4, <1>5 DEF EntryOK, OnLists, Flagged, Evictable, Wanted, HasJob, SameRest
<1>11. JobOK(t, e)
  BY <1>1, <1>3, <1>4 DEF EntryOK, JobOK, HasJob, SameRest
<1>12. DeletesOK(t, cl, e) /\ ProgramOK(t, dk, e)
  BY <1>1, <1>3, <1>4 DEF EntryOK, DeletesOK, ProgramOK, HasJob, SameRest, Does
<1>13. HeldOK(t, jm, cp, e)
  <2>1. cp # e
    BY <1>1, <1>5 DEF EntryOK, HeldOK
  <2>2. s.ent[e].refs = Cardinality(Holding(im, e))
    BY <1>1, <1>5, <1>8, <2>1 DEF EntryOK, HeldOK
  <2>3. t.ent[e].refs = Cardinality(Holding(jm, e))
    BY <2>2, <1>4, <1>7 DEF n
  <2>4. Cardinality(Holding(jm, e)) \in Nat
    BY <1>7, <1>8
  <2> QED BY <2>1, <2>3, <2>4, <1>4, <1>5 DEF HeldOK
<1>14. EntryOK(t, jm, pre, cp, dk, cl, e)
  BY <1>1, <1>4, <1>6, <1>10, <1>11, <1>12, <1>13 DEF EntryOK
<1>15. LruOK(t) /\ FitsOK(t)
  BY <1>1, <1>3 DEF LruOK, FitsOK, SameRest
<1>16. UsageOK(t)
  <2>1. s.inactiv \in SUBSET Entries
    BY <1>1 DEF CacheType
  <2>2. \A d \in s.inactiv : t.ent[d].data = s.ent[d].data
    BY <1>3, <1>4, <2>1 DEF Others
  <2>3. Usage(t, s.inactiv) = Usage(s, s.inactiv)
    BY <1>1, <2>1, <2>2, UsageChanges
  <2> QED BY <1>1, <1>3, <2>3 DEF UsageOK, SameRest, Does
<1>17. ~t.bad /\ t.inform = Quiet /\ JobsSame(s, t)
  BY <1>1, <1>3 DEF SameRest, JobsSame
<1>18. e \in s.activ \union s.inactiv /\ t.ent[e].key = s.ent[e].key
  BY <1>4
<1>19. Core(t, jm, pre, cp, dk, cl)
  BY <1>2, <1>6, <1>9, <1>14, <1>15, <1>16, <1>17, <1>18, OneEntry
<1>20. \A d \in Entries : Evictable(t, d)
  BY <1>9, <1>10, SameEvictable
<1> QED BY <1>15, <1>17, <1>19, <1>20 DEF Good, t, jm

\* Nothing has changed but what concerns the job of an entry.
SameBut(s, t, e) ==
  /\ t.activ = s.activ /\ t.inactiv = s.inactiv /\ t.dirty = s.dirty
  /\ t.lru = s.lru /\ t.usage = s.usage
  /\ t.limit = s.limit /\ t.may = s.may /\ t.bad = s.bad /\ t.inform = s.inform
  /\ \A d \in Entries \ {e} :
       /\ t.ent[d] = s.ent[d] /\ t.phase[d] = s.phase[d]
       /\ d \in t.preload <=> d \in s.preload
       /\ d \in t.pend <=> d \in s.pend
       /\ d \in t.flagged <=> d \in s.flagged

\* The fields that have nothing to do with the pixels and the job.
Alike(q, r) ==
  /\ q.alive = r.alive /\ q.key = r.key /\ q.file = r.file /\ q.stamp = r.stamp
  /\ q.refs = r.refs /\ q.dirty = r.dirty /\ q.activ = r.activ /\ q.lru = r.lru
Identity(s, t, e) == Alike(t.ent[e], s.ent[e])

\* The fields of an entry when its job has been cancelled, ...
LEMMA PendingSet ==
  ASSUME NEW r \in EntryType
  PROVE  LET q == [r EXCEPT !.pending = TRUE]
         IN  /\ q \in EntryType /\ Alike(q, r) /\ q.pending = TRUE
             /\ q.loaded = r.loaded /\ q.data = r.data /\ q.done = r.done
             /\ q.deleteMe = r.deleteMe /\ q.unloadCancel = r.unloadCancel
             /\ q.targets = r.targets
<1> DEFINE q == [r EXCEPT !.pending = TRUE]
<1>1. q \in EntryType
  BY DEF EntryType
<1>2. /\ Alike(q, r) /\ q.pending = TRUE
      /\ q.loaded = r.loaded /\ q.data = r.data /\ q.done = r.done
      /\ q.deleteMe = r.deleteMe /\ q.unloadCancel = r.unloadCancel
      /\ q.targets = r.targets
  BY DEF EntryType, Alike
<1> QED BY <1>1, <1>2

\* ... when it gets a job, ...
LEMMA PendingClear ==
  ASSUME NEW r \in EntryType
  PROVE  LET q == [r EXCEPT !.pending = FALSE]
         IN  /\ q \in EntryType /\ Alike(q, r) /\ q.pending = FALSE
             /\ q.loaded = r.loaded /\ q.data = r.data /\ q.done = r.done
             /\ q.deleteMe = r.deleteMe /\ q.unloadCancel = r.unloadCancel
             /\ q.targets = r.targets
<1> DEFINE q == [r EXCEPT !.pending = FALSE]
<1>1. q \in EntryType
  BY DEF EntryType
<1>2. /\ Alike(q, r) /\ q.pending = FALSE
      /\ q.loaded = r.loaded /\ q.data = r.data /\ q.done = r.done
      /\ q.deleteMe = r.deleteMe /\ q.unloadCancel = r.unloadCancel
      /\ q.targets = r.targets
  BY DEF EntryType, Alike
<1> QED BY <1>1, <1>2

\* ... when it is marked to be deleted, ...
LEMMA DeleteSet ==
  ASSUME NEW r \in EntryType
  PROVE  LET q == [r EXCEPT !.deleteMe = TRUE]
         IN  /\ q \in EntryType /\ Alike(q, r) /\ q.deleteMe = TRUE
             /\ q.loaded = r.loaded /\ q.data = r.data /\ q.done = r.done
             /\ q.pending = r.pending /\ q.unloadCancel = r.unloadCancel
             /\ q.targets = r.targets
<1> DEFINE q == [r EXCEPT !.deleteMe = TRUE]
<1>1. q \in EntryType
  BY DEF EntryType
<1>2. /\ Alike(q, r) /\ q.deleteMe = TRUE
      /\ q.loaded = r.loaded /\ q.data = r.data /\ q.done = r.done
      /\ q.pending = r.pending /\ q.unloadCancel = r.unloadCancel
      /\ q.targets = r.targets
  BY DEF EntryType, Alike
<1> QED BY <1>1, <1>2

\* ... when it no longer is, ...
LEMMA DeleteClear ==
  ASSUME NEW r \in EntryType
  PROVE  LET q == [r EXCEPT !.deleteMe = FALSE]
         IN  /\ q \in EntryType /\ Alike(q, r) /\ q.deleteMe = FALSE
             /\ q.loaded = r.loaded /\ q.data = r.data /\ q.done = r.done
             /\ q.pending = r.pending /\ q.unloadCancel = r.unloadCancel
             /\ q.targets = r.targets
<1> DEFINE q == [r EXCEPT !.deleteMe = FALSE]
<1>1. q \in EntryType
  BY DEF EntryType
<1>2. /\ Alike(q, r) /\ q.deleteMe = FALSE
      /\ q.loaded = r.loaded /\ q.data = r.data /\ q.done = r.done
      /\ q.pending = r.pending /\ q.unloadCancel = r.unloadCancel
      /\ q.targets = r.targets
  BY DEF EntryType, Alike
<1> QED BY <1>1, <1>2

\* ... when a preload of it is asked for, ...
LEMMA LoadedClear ==
  ASSUME NEW r \in EntryType
  PROVE  LET q == [r EXCEPT !.loaded = FALSE]
         IN  /\ q \in EntryType /\ Alike(q, r) /\ q.loaded = FALSE
             /\ q.data = r.data /\ q.done = r.done /\ q.pending = r.pending
             /\ q.deleteMe = r.deleteMe /\ q.unloadCancel = r.unloadCancel
             /\ q.targets = r.targets
<1> DEFINE q == [r EXCEPT !.loaded = FALSE]
<1>1. q \in EntryType
  BY DEF EntryType
<1>2. /\ Alike(q, r) /\ q.loaded = FALSE
      /\ q.data = r.data /\ q.done = r.done /\ q.pending = r.pending
      /\ q.deleteMe = r.deleteMe /\ q.unloadCancel = r.unloadCancel
      /\ q.targets = r.targets
  BY DEF EntryType, Alike
<1> QED BY <1>1, <1>2

\* ... and when its targets change.
LEMMA TargetsSet ==
  ASSUME NEW r \in EntryType, NEW l \in Seq(Objects)
  PROVE  LET q == [r EXCEPT !.targets = l]
         IN  /\ q \in EntryType /\ Alike(q, r) /\ q.targets = l
             /\ q.loaded = r.loaded /\ q.data = r.data /\ q.done = r.done
             /\ q.pending = r.pending /\ q.deleteMe = r.deleteMe
             /\ q.unloadCancel = r.unloadCancel
<1> DEFINE q == [r EXCEPT !.targets = l]
<1>1. q \in EntryType
  BY DEF EntryType
<1>2. /\ Alike(q, r) /\ q.targets = l
      /\ q.loaded = r.loaded /\ q.data = r.data /\ q.done = r.done
      /\ q.pending = r.pending /\ q.deleteMe = r.deleteMe
      /\ q.unloadCancel = r.unloadCancel
  BY DEF EntryType, Alike
<1> QED BY <1>1, <1>2

\* If only the job of one image and its targets change, it is enough to look at
\* them: the rest of the cache stays in order.
LEMMA JobStep ==
  ASSUME NEW s, NEW im, NEW pre, NEW cp, NEW dk, NEW cl, Core(s, im, pre, cp, dk, cl),
         NEW t \in CacheType, NEW qre, NEW e \in Entries,
         SameBut(s, t, e), Identity(s, t, e), s.ent[e].alive,
         t.ent[e].data = s.ent[e].data \/ e \notin s.inactiv,
         JobOK(t, e), DeletesOK(t, cl, e),
         Does(s, "preload") \/ (t.phase[e] = "idle" /\ t.ent[e].targets = <<>>),
         Users(im, qre, cp),
         \A d \in Entries \ {e} : Target(im, qre, d) = Target(im, pre, d),
         Range(t.ent[e].targets) = Target(im, qre, e)
  PROVE  /\ Core(t, im, qre, cp, dk, cl)
         /\ FitsOK(s) => FitsOK(t)
         /\ \A d \in Entries \ {e} : Evictable(s, d) => Evictable(t, d)
<1>1. /\ s \in CacheType /\ Users(im, pre, cp) /\ EntryOK(s, im, pre, cp, dk, cl, e)
      /\ LruOK(s) /\ UsageOK(s) /\ ~s.bad /\ s.inform = Quiet
  BY DEF Core
<1>2. \A d \in Entries \ {e} : Same(s, t, d) /\ SameUsers(im, pre, cp, im, qre, cp, d)
  BY DEF Same, SameBut, SameUsers
<1>3. OnLists(t, e)
  BY <1>1 DEF EntryOK, OnLists, Flagged, Identity, Alike, SameBut
<1>4. ProgramOK(t, dk, e)
  BY <1>1 DEF EntryOK, ProgramOK, Identity, Alike, SameBut, Does
<1>5. HeldOK(t, im, cp, e)
  BY <1>1 DEF EntryOK, HeldOK, Identity, Alike, SameBut
<1>6. EntryOK(t, im, qre, cp, dk, cl, e)
  BY <1>3, <1>4, <1>5 DEF EntryOK
<1>7. LruOK(t) /\ (FitsOK(s) => FitsOK(t)) /\ ~t.bad /\ t.inform = Quiet
  BY <1>1 DEF LruOK, FitsOK, SameBut
<1>8. UsageOK(t)
  <2>1. s.inactiv \in SUBSET Entries
    BY <1>1 DEF CacheType
  <2>2. \A d \in s.inactiv : t.ent[d].data = s.ent[d].data
    BY <2>1 DEF SameBut
  <2>3. Usage(t, s.inactiv) = Usage(s, s.inactiv)
    BY <1>1, <2>1, <2>2, UsageChanges
  <2> QED BY <1>1, <2>3 DEF UsageOK, SameBut, Does
<1>10. e \in t.activ \union t.inactiv =>
         e \in s.activ \union s.inactiv /\ t.ent[e].key = s.ent[e].key
  BY DEF SameBut, Identity, Alike
<1>11. Core(t, im, qre, cp, dk, cl)
  BY <1>2, <1>6, <1>7, <1>8, <1>10, OneEntry
<1>12. \A d \in Entries \ {e} : Evictable(s, d) => Evictable(t, d)
  BY <1>2, SameEvictable
<1> QED BY <1>7, <1>11, <1>12

\* The end of _evas_cache_image_async_cancel: an image no object holds goes to the
\* lru list, any other stays.
LEMMA SettleGood ==
  ASSUME NEW s, NEW im, NEW pre, NEW cp, NEW dk, NEW cl, Core(s, im, pre, cp, dk, cl),
         FitsOK(s), NEW e \in Entries, e \in s.activ, ~HasJob(s, e),
         \A d \in Entries \ {e} : Evictable(s, d)
  PROVE  Good(Settle(s, e), im, pre, cp, dk, cl) /\ JobsSame(s, Settle(s, e))
<1>1. CASE s.ent[e].refs = 0
  BY <1>1, LruAddGood DEF Settle
<1>2. CASE s.ent[e].refs # 0
  <2>1. Evictable(s, e)
    BY <1>2 DEF Evictable, Wanted
  <2> QED BY <1>2, <2>1 DEF Settle, Good, JobsSame
<1> QED BY <1>1, <1>2

\* The cache without the loop of async_end that is under way.
Calmed(s) == [s EXCEPT !.inform = Quiet]

\* The targets of an entry are about to be informed.
Informs(s, e, settle) ==
  /\ s.inform = [e |-> e, cb |-> FALSE, settle |-> settle]
  /\ e \in s.activ /\ ~HasJob(s, e) /\ s.ent[e].refs # 0 /\ s.ent[e].targets # <<>>

\* Nothing but the loop of async_end is left out.
LEMMA CalmedFacts ==
  ASSUME NEW s \in CacheType
  PROVE  /\ s.inform = Quiet => Calmed(s) = s
         /\ Calmed(s) \in CacheType /\ Calmed(s).inform = Quiet
         /\ Calmed(s).ent = s.ent /\ Calmed(s).phase = s.phase /\ Calmed(s).flagged = s.flagged
         /\ Calmed(s).may = s.may /\ Calmed(s).bad = s.bad /\ Calmed(s).activ = s.activ
         /\ Calmed(s).inactiv = s.inactiv /\ Calmed(s).dirty = s.dirty /\ Calmed(s).lru = s.lru
         /\ Calmed(s).preload = s.preload /\ Calmed(s).pend = s.pend
         /\ Calmed(s).usage = s.usage /\ Calmed(s).limit = s.limit
<1>1. None \in Entries \union {None} /\ Quiet \in [e : Entries \union {None}, cb : BOOLEAN, settle : BOOLEAN]
  BY DEF Quiet
<1> QED BY <1>1 DEF Calmed, CacheType

\* The cache after the first statements of async_end, and of async_cancel.
Ended(s, e) ==
  [s EXCEPT !.preload = @ \ {e}, !.pend = @ \ {e}, !.ent[e].done = s.ent[e].loaded]
Given(s, e) == [s EXCEPT !.pend = @ \ {e}, !.ent[e].deleteMe = FALSE]

\* An image is deleted when its job is over only if nobody holds it.
Unused(s, e) == s.ent[e].deleteMe => s.ent[e].refs = 0

\* _evas_cache_image_async_end of a job that is over leaves a good cache, and the
\* targets, if any, to the loop; t is the cache after its first statements.
LEMMA AsyncEndGood ==
  ASSUME NEW s, NEW im, NEW pre, NEW cp, NEW dk, NEW cl, NEW e \in Entries,
         NEW settle \in BOOLEAN, NEW t,
         t = Ended(s, e),
         Core(t, im, pre, cp, dk, cl), FitsOK(t), e \in t.activ, ~HasJob(t, e),
         \A d \in Entries \ {e} : Evictable(t, d),
         settle \/ t.ent[e].refs # 0
  PROVE  LET r == AsyncEnd(s, e, settle)
         IN  /\ r \in CacheType /\ Good(Calmed(r), im, pre, cp, dk, cl) /\ JobsSame(t, r)
             /\ r.inform = Quiet \/ Informs(r, e, settle)
             /\ t.ent[e].targets = <<>> => r.inform = Quiet
<1> DEFINE r == AsyncEnd(s, e, settle)
<1>1. t \in CacheType /\ t.inform = Quiet /\ EntryOK(t, im, pre, cp, dk, cl, e) /\ Users(im, pre, cp)
  BY DEF Core
<1>2. r = IF t.ent[e].targets # <<>>
          THEN [t EXCEPT !.inform = [e |-> e, cb |-> FALSE, settle |-> settle]]
          ELSE IF settle THEN Settle(t, e) ELSE t
  BY DEF AsyncEnd, Ended
<1> HIDE DEF r
<1>3. CASE t.ent[e].targets # <<>>
  <2>1. r = [t EXCEPT !.inform = [e |-> e, cb |-> FALSE, settle |-> settle]]
    BY <1>2, <1>3
  <2>2. r \in CacheType
    BY <1>1, <2>1 DEF CacheType
  <2>3. Calmed(r) = t
    BY <1>1, <2>1 DEF CacheType, Calmed
  <2>4. t.ent[e].refs # 0
    BY <1>1, <1>3, Unheld
  <2>5. Evictable(t, e)
    BY <2>4 DEF Evictable, Wanted
  <2>6. Good(t, im, pre, cp, dk, cl)
    BY <2>5 DEF Good
  <2>7. r.activ = t.activ /\ r.ent = t.ent /\ r.phase = t.phase /\ JobsSame(t, r)
        /\ r.inform = [e |-> e, cb |-> FALSE, settle |-> settle]
    BY <1>1, <2>1 DEF CacheType, JobsSame
  <2>8. Informs(r, e, settle)
    BY <1>3, <2>4, <2>7 DEF Informs, HasJob
  <2> QED BY <1>3, <2>2, <2>3, <2>6, <2>7, <2>8 DEF r
<1>4. CASE t.ent[e].targets = <<>> /\ settle
  <2>1. r = Settle(t, e)
    BY <1>2, <1>4
  <2>2. Good(r, im, pre, cp, dk, cl) /\ JobsSame(t, r)
    BY <2>1, SettleGood
  <2>3. r \in CacheType /\ r.inform = Quiet
    BY <2>2 DEF Good, Core
  <2> QED BY <2>2, <2>3, CalmedFacts DEF r
<1>5. CASE t.ent[e].targets = <<>> /\ ~settle
  <2>1. r = t
    BY <1>2, <1>5
  <2>2. Evictable(t, e)
    BY <1>5 DEF Evictable, Wanted
  <2>3. Good(t, im, pre, cp, dk, cl)
    BY <2>2 DEF Good
  <2> QED BY <1>1, <2>1, <2>3, CalmedFacts DEF r, JobsSame
<1> QED BY <1>3, <1>4, <1>5

\* _evas_cache_image_async_cancel of a job that is over leaves a good cache: the
\* image is freed if it was to be deleted, its targets are informed if the pixels
\* were loaded nevertheless, and it goes to the lru list if no object holds it.
LEMMA AsyncCancelGood ==
  ASSUME NEW s \in CacheType, NEW im, NEW pre, NEW cp, NEW dk, NEW cl, NEW e \in Entries, NEW v,
         v = Given(s, e),
         Core(v, im, pre, cp, dk, cl), FitsOK(v), e \in v.activ, ~HasJob(v, e),
         \A d \in Entries \ {e} : Evictable(v, d),
         Unused(s, e)
  PROVE  LET r == AsyncCancel(s, e)
         IN  /\ r \in CacheType /\ Good(Calmed(r), im, pre, cp, dk, cl) /\ JobsSame(v, r)
             /\ r.inform = Quiet \/ Informs(r, e, TRUE)
             /\ s.ent[e].targets = <<>> \/ ~s.ent[e].loaded => r.inform = Quiet
<1> DEFINE u == [s EXCEPT !.pend = @ \ {e}]
           r == AsyncCancel(s, e)
<1>1. v \in CacheType /\ v.inform = Quiet /\ EntryOK(v, im, pre, cp, dk, cl, e) /\ Users(im, pre, cp)
  BY DEF Core
<1>2. v.ent[e] = [s.ent[e] EXCEPT !.deleteMe = FALSE]
  BY DEF CacheType, Given
<1>3. /\ v.ent[e].targets = s.ent[e].targets /\ v.ent[e].loaded = s.ent[e].loaded
      /\ v.ent[e].refs = s.ent[e].refs /\ v.ent[e].dirty = s.ent[e].dirty
  BY <1>2, EntryTyped DEF EntryType
<1>4. ~s.ent[e].dirty
  BY <1>1, <1>3 DEF EntryOK, OnLists, Flagged
<1>5. CASE s.ent[e].deleteMe
  <2>1. [u EXCEPT !.ent[e].deleteMe = FALSE] = v
    BY DEF CacheType, Given
  <2>2. r = Destroy(v, e)
    BY <1>5, <2>1 DEF AsyncCancel
  <2>3. Good(r, im, pre, cp, dk, cl) /\ JobsSame(v, r)
    BY <1>3, <1>5, <2>2, DestroyGood DEF Unused
  <2>4. r \in CacheType /\ r.inform = Quiet
    BY <2>3 DEF Good, Core
  <2> QED BY <2>3, <2>4, CalmedFacts
<1>6. CASE ~s.ent[e].deleteMe
  <2>1. u = v
    <3>1. [s.ent[e] EXCEPT !.deleteMe = FALSE] = s.ent[e]
      <4> DEFINE q == s.ent[e]
      <4>1. q \in EntryType /\ ~q.deleteMe
        BY <1>6, EntryTyped
      <4> HIDE DEF q
      <4>2. q.deleteMe = FALSE
        BY <4>1 DEF EntryType
      <4>3. [q EXCEPT !.deleteMe = FALSE] = q
        BY <4>1, <4>2 DEF EntryType
      <4> QED BY <4>3 DEF q
    <3>2. v = [s EXCEPT !.pend = @ \ {e}, !.ent[e] = s.ent[e]]
      BY <3>1 DEF CacheType, Given
    <3> QED BY <3>2, ZenonT(40) DEF CacheType
  <2>2. r = IF s.ent[e].loaded THEN AsyncEnd(v, e, TRUE) ELSE Settle(v, e)
    BY <1>4, <1>6, <2>1 DEF AsyncCancel
  <2> HIDE DEF r, u
  <2>3. CASE s.ent[e].loaded
    <3> DEFINE t == Ended(v, e)
    <3>1. [v.ent[e] EXCEPT !.done = v.ent[e].loaded] \in EntryType
      BY <1>1, EntryTyped DEF EntryType
    <3>2. t \in CacheType
      BY <1>1, <3>1, ZenonT(40) DEF CacheType, Ended
    <3>3. e \notin v.preload /\ e \notin v.pend
      BY <1>1 DEF EntryOK, JobOK
    <3>4. SameBut(v, t, e) /\ t.ent[e] = [v.ent[e] EXCEPT !.done = v.ent[e].loaded]
          /\ t.phase = v.phase /\ t.preload = v.preload /\ t.pend = v.pend
          /\ t.flagged = v.flagged
      <4>1. /\ t.ent = [v.ent EXCEPT ![e].done = v.ent[e].loaded]
            /\ t.activ = v.activ /\ t.inactiv = v.inactiv /\ t.dirty = v.dirty
            /\ t.lru = v.lru /\ t.usage = v.usage /\ t.limit = v.limit /\ t.may = v.may
            /\ t.bad = v.bad /\ t.inform = v.inform
            /\ t.phase = v.phase /\ t.preload = v.preload /\ t.pend = v.pend
            /\ t.flagged = v.flagged
        BY <1>1, <3>3 DEF CacheType, Ended
      <4>2. v.ent \in [Entries -> EntryType]
        BY <1>1 DEF CacheType
      <4> QED BY <4>1, <4>2 DEF SameBut
    <3> HIDE DEF t
    <3>5. /\ Identity(v, t, e) /\ t.ent[e].data = v.ent[e].data
          /\ t.ent[e].targets = v.ent[e].targets /\ t.ent[e].pending = v.ent[e].pending
          /\ t.ent[e].deleteMe = v.ent[e].deleteMe
      BY <1>1, <3>4, EntryTyped DEF EntryType, Identity, Alike
    <3>6. JobOK(t, e) /\ DeletesOK(t, cl, e) /\ ~HasJob(t, e) /\ v.ent[e].alive
      BY <1>1, <3>4, <3>5 DEF EntryOK, JobOK, DeletesOK, HasJob, OnLists
    <3>7. Does(v, "preload") \/ (t.phase[e] = "idle" /\ t.ent[e].targets = <<>>)
      BY <1>1, <3>4, <3>5 DEF EntryOK, ProgramOK
    <3>8. Users(im, pre, cp) /\ Range(t.ent[e].targets) = Target(im, pre, e)
      BY <1>1, <3>5 DEF EntryOK
    <3>9. Core(t, im, pre, cp, dk, cl) /\ FitsOK(t) /\ \A d \in Entries \ {e} : Evictable(t, d)
      <4>1. \A d \in Entries \ {e} : Target(im, pre, d) = Target(im, pre, d)
        OBVIOUS
      <4>2. t.ent[e].data = v.ent[e].data \/ e \notin v.inactiv
        BY <3>5
      <4>3. SameBut(v, t, e) /\ Identity(v, t, e) /\ v.ent[e].alive /\ JobOK(t, e) /\ DeletesOK(t, cl, e)
        BY <3>4, <3>5, <3>6
      <4>4. /\ Core(t, im, pre, cp, dk, cl)
            /\ FitsOK(v) => FitsOK(t)
            /\ \A d \in Entries \ {e} : Evictable(v, d) => Evictable(t, d)
        BY <3>2, <3>7, <3>8, <4>1, <4>2, <4>3, JobStep
      <4> QED BY <4>4
    <3>10. e \in t.activ /\ JobsSame(v, t)
      BY <3>4 DEF SameBut, JobsSame
    <3>11. /\ r \in CacheType /\ Good(Calmed(r), im, pre, cp, dk, cl) /\ JobsSame(t, r)
           /\ r.inform = Quiet \/ Informs(r, e, TRUE)
           /\ t.ent[e].targets = <<>> => r.inform = Quiet
      <4>1. r = AsyncEnd(v, e, TRUE)
        BY <2>2, <2>3
      <4>2. t = Ended(v, e)
        BY DEF t
      <4>3. ASSUME NEW b \in BOOLEAN, b \/ t.ent[e].refs # 0
            PROVE  LET q == AsyncEnd(v, e, b)
                   IN  /\ q \in CacheType /\ Good(Calmed(q), im, pre, cp, dk, cl)
                       /\ JobsSame(t, q)
                       /\ q.inform = Quiet \/ Informs(q, e, b)
                       /\ t.ent[e].targets = <<>> => q.inform = Quiet
        BY <3>6, <3>9, <3>10, <4>2, <4>3, AsyncEndGood
      <4> QED BY <4>1, <4>3, Zenon
    <3> QED BY <1>3, <2>3, <3>5, <3>10, <3>11 DEF JobsSame, r
  <2>4. CASE ~s.ent[e].loaded
    <3>1. Good(r, im, pre, cp, dk, cl) /\ JobsSame(v, r)
      BY <2>2, <2>4, SettleGood
    <3>2. r \in CacheType /\ r.inform = Quiet
      BY <3>1 DEF Good, Core
    <3> QED BY <3>1, <3>2, CalmedFacts DEF r
  <2> QED BY <2>3, <2>4
<1> QED BY <1>5, <1>6

\* At most the job of one entry has been cancelled, as PreloadJobs allows.
JobsMove(s, t, e) ==
  /\ t.may = s.may
  /\ \/ t.phase = s.phase /\ t.flagged = s.flagged
     \/ s.phase[e] = "queued" /\ t.phase = [s.phase EXCEPT ![e] = "idle"] /\ t.flagged = s.flagged
     \/ /\ s.phase[e] \notin {"idle", "queued"}
        /\ t.phase = s.phase /\ t.flagged = s.flagged \union {e}

\* The cancellation that preload_remove and load_data have in common: a job that
\* was not started is gone, one that was will report to async_cancel, and in both
\* cases the cache is good.
LEMMA CancelJobGood ==
  ASSUME NEW s, NEW im, NEW pre, NEW cp, NEW dk, NEW cl, Core(s, im, pre, cp, dk, cl), FitsOK(s),
         Does(s, "preload"), NEW e \in Entries, s.ent[e].alive, ~s.ent[e].deleteMe,
         \A d \in Entries \ {e} : Evictable(s, d),
         s.ent[e].targets = <<>> \/ ~s.ent[e].loaded,
         s.ent[e].refs = 0 => e \in s.inactiv \/ HasJob(s, e)
  PROVE  LET r == CancelJob(s, e)
         IN  Good(r, im, pre, cp, dk, cl) /\ JobsMove(s, r, e)
<1> DEFINE r == CancelJob(s, e)
           x == [s EXCEPT !.preload = @ \ {e}, !.pend = @ \union {e}, !.ent[e].pending = TRUE]
<1>1. /\ s \in CacheType /\ Users(im, pre, cp) /\ EntryOK(s, im, pre, cp, dk, cl, e)
      /\ s.inform = Quiet
  BY DEF Core
<1>2. \A d \in Entries \ {e} : Target(im, pre, d) = Target(im, pre, d)
  OBVIOUS
<1>3. CASE ~HasJob(s, e) \/ s.ent[e].pending
  <2>1. r = s
    BY <1>3 DEF CancelJob
  <2>2. Evictable(s, e)
    BY <1>3 DEF Evictable, Wanted
  <2> QED BY <2>1, <2>2 DEF Good, JobsMove
<1>4. CASE HasJob(s, e) /\ ~s.ent[e].pending
  <2>1. r = ThreadCancel(x, e)
    BY <1>4 DEF CancelJob
  <2>2. [s.ent[e] EXCEPT !.pending = TRUE] \in EntryType
    BY <1>1, EntryTyped, PendingSet
  <2>3. x \in CacheType
    BY <1>1, <2>2 DEF CacheType
  <2>4. e \in s.activ /\ e \notin s.flagged /\ e \notin s.inactiv
    BY <1>1, <1>4 DEF EntryOK, JobOK, OnLists
  <2>5. x.phase = s.phase /\ x.flagged = s.flagged
    BY <1>1 DEF CacheType
  <2>6. CASE s.phase[e] = "queued"
    <3> DEFINE y == [x EXCEPT !.phase[e] = "idle"]
               v == Given(y, e)
    <3>1. r = AsyncCancel(y, e)
      BY <2>1, <2>5, <2>6 DEF ThreadCancel
    <3>2. y \in CacheType
      BY <2>3 DEF CacheType, Phases
    <3>3. y = [s EXCEPT !.preload = @ \ {e}, !.pend = @ \union {e}, !.ent[e].pending = TRUE,
                        !.phase[e] = "idle"]
      OBVIOUS
    <3>4. /\ y.ent = [s.ent EXCEPT ![e].pending = TRUE]
          /\ y.phase = [s.phase EXCEPT ![e] = "idle"]
          /\ y.preload = s.preload \ {e} /\ y.pend = s.pend \union {e} /\ y.flagged = s.flagged
          /\ y.activ = s.activ /\ y.inactiv = s.inactiv /\ y.dirty = s.dirty
          /\ y.lru = s.lru /\ y.usage = s.usage /\ y.limit = s.limit /\ y.may = s.may
          /\ y.bad = s.bad /\ y.inform = s.inform
      BY <1>1, <3>3 DEF CacheType
    <3> HIDE DEF x, y
    <3>5. /\ v.ent = [y.ent EXCEPT ![e].deleteMe = FALSE]
          /\ v.phase = y.phase
          /\ v.preload = y.preload /\ v.pend = y.pend \ {e} /\ v.flagged = y.flagged
          /\ v.activ = y.activ /\ v.inactiv = y.inactiv /\ v.dirty = y.dirty
          /\ v.lru = y.lru /\ v.usage = y.usage /\ v.limit = y.limit /\ v.may = y.may
          /\ v.bad = y.bad /\ v.inform = y.inform
      BY <3>2 DEF Given, CacheType
    <3>6. v \in CacheType
      <4>1. [y.ent[e] EXCEPT !.deleteMe = FALSE] \in EntryType
        BY <3>2, EntryTyped, DeleteClear
      <4> QED BY <3>2, <4>1 DEF Given, CacheType
    <3> HIDE DEF v
    <3>7. SameBut(s, v, e) /\ v.phase[e] = "idle"
          /\ e \notin v.preload /\ e \notin v.pend /\ e \notin v.flagged
      BY <1>1, <2>4, <3>4, <3>5 DEF SameBut, CacheType
    <3>8. /\ v.ent[e] = [y.ent[e] EXCEPT !.deleteMe = FALSE]
          /\ y.ent[e] = [s.ent[e] EXCEPT !.pending = TRUE]
      BY <1>1, <3>2, <3>4, <3>5 DEF CacheType
    <3>9. /\ Identity(s, v, e) /\ v.ent[e].data = s.ent[e].data
          /\ v.ent[e].targets = s.ent[e].targets /\ v.ent[e].deleteMe = FALSE
          /\ y.ent[e].targets = s.ent[e].targets /\ y.ent[e].loaded = s.ent[e].loaded
          /\ y.ent[e].deleteMe = s.ent[e].deleteMe
      <4>1. s.ent[e] \in EntryType /\ y.ent[e] \in EntryType
        BY <1>1, <3>2, EntryTyped
      <4>2. /\ Alike(y.ent[e], s.ent[e]) /\ y.ent[e].data = s.ent[e].data
            /\ y.ent[e].targets = s.ent[e].targets /\ y.ent[e].loaded = s.ent[e].loaded
            /\ y.ent[e].deleteMe = s.ent[e].deleteMe
        BY <3>8, <4>1, PendingSet
      <4>3. /\ Alike(v.ent[e], y.ent[e]) /\ v.ent[e].data = y.ent[e].data
            /\ v.ent[e].targets = y.ent[e].targets /\ v.ent[e].deleteMe = FALSE
        BY <3>8, <4>1, DeleteClear
      <4> QED BY <4>2, <4>3 DEF Identity, Alike
    <3>10. JobOK(v, e) /\ DeletesOK(v, cl, e) /\ ~HasJob(v, e)
      BY <1>1, <3>7, <3>9 DEF JobOK, DeletesOK, HasJob, EntryOK
    <3>11. /\ v.ent[e].data = s.ent[e].data \/ e \notin s.inactiv
           /\ Does(s, "preload") \/ (v.phase[e] = "idle" /\ v.ent[e].targets = <<>>)
           /\ Range(v.ent[e].targets) = Target(im, pre, e)
      BY <1>1, <3>9 DEF EntryOK
    <3>12. /\ Core(v, im, pre, cp, dk, cl)
           /\ FitsOK(s) => FitsOK(v)
           /\ \A d \in Entries \ {e} : Evictable(s, d) => Evictable(v, d)
      BY <1>1, <1>2, <3>6, <3>7, <3>9, <3>10, <3>11, JobStep
    <3>13. /\ v = Given(y, e) /\ FitsOK(v) /\ e \in v.activ
           /\ \A d \in Entries \ {e} : Evictable(v, d)
           /\ Unused(y, e)
      BY <2>4, <3>7, <3>9, <3>12 DEF v, SameBut, Unused
    <3>14. LET q == AsyncCancel(y, e)
           IN  /\ q \in CacheType /\ Good(Calmed(q), im, pre, cp, dk, cl) /\ JobsSame(v, q)
               /\ q.inform = Quiet \/ Informs(q, e, TRUE)
               /\ y.ent[e].targets = <<>> \/ ~y.ent[e].loaded => q.inform = Quiet
      <4>1. /\ y \in CacheType /\ v = Given(y, e) /\ Core(v, im, pre, cp, dk, cl) /\ FitsOK(v)
            /\ e \in v.activ /\ ~HasJob(v, e)
        BY <3>2, <3>10, <3>12, <3>13
      <4> QED BY <4>1, <3>13, AsyncCancelGood
    <3>15. Good(r, im, pre, cp, dk, cl)
      BY <3>1, <3>9, <3>14, CalmedFacts
    <3>16. JobsMove(s, r, e)
      BY <2>6, <3>1, <3>4, <3>5, <3>14 DEF JobsMove, JobsSame
    <3> QED BY <3>15, <3>16
  <2>7. CASE s.phase[e] # "queued"
    <3>1. r = [x EXCEPT !.flagged = @ \union {e}]
      BY <2>1, <2>5, <2>7 DEF ThreadCancel
    <3>2. r \in CacheType
      BY <1>1, CancelJobTyped
    <3>3. r = [s EXCEPT !.preload = @ \ {e}, !.pend = @ \union {e}, !.ent[e].pending = TRUE,
                        !.flagged = @ \union {e}]
      BY <3>1
    <3> HIDE DEF x, r
    <3>4. /\ r.ent = [s.ent EXCEPT ![e].pending = TRUE]
          /\ r.phase = s.phase
          /\ r.preload = s.preload \ {e} /\ r.pend = s.pend \union {e}
          /\ r.flagged = s.flagged \union {e}
          /\ r.activ = s.activ /\ r.inactiv = s.inactiv /\ r.dirty = s.dirty
          /\ r.lru = s.lru /\ r.usage = s.usage /\ r.limit = s.limit /\ r.may = s.may
          /\ r.bad = s.bad /\ r.inform = s.inform
      BY <1>1, <3>3 DEF CacheType
    <3>5. SameBut(s, r, e) /\ r.phase[e] = s.phase[e]
          /\ e \notin r.preload /\ e \in r.pend /\ e \in r.flagged
      BY <1>1, <3>4 DEF SameBut, CacheType
    <3>6. r.ent[e] = [s.ent[e] EXCEPT !.pending = TRUE]
      BY <1>1, <3>4 DEF CacheType
    <3>7. /\ Identity(s, r, e) /\ r.ent[e].data = s.ent[e].data /\ r.ent[e].pending = TRUE
          /\ r.ent[e].targets = s.ent[e].targets /\ r.ent[e].deleteMe = s.ent[e].deleteMe
      BY <1>1, <3>6, EntryTyped, PendingSet DEF Identity
    <3>8. JobOK(r, e) /\ DeletesOK(r, cl, e) /\ HasJob(r, e)
      BY <1>1, <1>4, <2>4, <2>7, <3>4, <3>5, <3>7 DEF JobOK, DeletesOK, HasJob, EntryOK
    <3>9. /\ r.ent[e].data = s.ent[e].data \/ e \notin s.inactiv
          /\ Does(s, "preload") \/ (r.phase[e] = "idle" /\ r.ent[e].targets = <<>>)
          /\ Range(r.ent[e].targets) = Target(im, pre, e)
      BY <1>1, <3>7 DEF EntryOK
    <3>10. /\ Core(r, im, pre, cp, dk, cl)
           /\ FitsOK(s) => FitsOK(r)
           /\ \A d \in Entries \ {e} : Evictable(s, d) => Evictable(r, d)
      BY <1>1, <1>2, <3>2, <3>5, <3>7, <3>8, <3>9, JobStep
    <3>11. Evictable(r, e)
      BY <3>7, <3>8 DEF Evictable, Wanted
    <3>12. JobsMove(s, r, e)
      BY <1>4, <2>7, <3>4 DEF JobsMove, HasJob
    <3> QED BY <3>10, <3>11, <3>12 DEF Good, r
  <2> QED BY <2>6, <2>7
<1> QED BY <1>3, <1>4

\* In a program without preloads no object waits for one.
LEMMA NoTargets ==
  ASSUME NEW s, NEW im, NEW pre, NEW cp, NEW dk, NEW cl, Core(s, im, pre, cp, dk, cl),
         ~Does(s, "preload")
  PROVE  pre = {}
<1>1. ASSUME NEW o \in pre
      PROVE  FALSE
  <2>1. o \in Objects /\ im[o] \in Entries
    BY DEF Core, Users
  <2>2. EntryOK(s, im, pre, cp, dk, cl, im[o])
    BY <2>1 DEF Core
  <2>3. Range(<<>>) = {}
    BY DEF Range
  <2> QED BY <2>1, <2>2, <2>3 DEF EntryOK, ProgramOK, Target
<1> QED BY <1>1

\* _evas_cache_image_entry_preload_remove of a preloading object: it is no target
\* any more, and if it was the last, the job is cancelled.
LEMMA PreloadRemoveGood ==
  ASSUME NEW s, NEW im, NEW pre, NEW cp, NEW dk, Good(s, im, pre, cp, dk, FALSE),
         NEW o \in pre
  PROVE  LET r == PreloadRemove(s, im[o], o)
         IN  Good(r, im, pre \ {o}, cp, dk, FALSE) /\ JobsMove(s, r, im[o])
<1> DEFINE e == im[o]
           qre == pre \ {o}
           l == RemoveFirst(s.ent[e].targets, o)
           t == [s EXCEPT !.ent[e].targets = l]
           r == PreloadRemove(s, im[o], o)
<1>1. /\ s \in CacheType /\ Users(im, pre, cp) /\ s.inform = Quiet
      /\ Core(s, im, pre, cp, dk, FALSE) /\ FitsOK(s) /\ \A d \in Entries : Evictable(s, d)
  BY DEF Good, Core
<1>2. o \in Objects /\ e \in Entries /\ o # None
  BY <1>1, CacheAssumption DEF Users
<1>3. EntryOK(s, im, pre, cp, dk, FALSE, e)
  BY <1>1, <1>2 DEF Core
<1>4. s.ent[e] \in EntryType /\ s.ent[e].targets \in Seq(Objects)
  BY <1>1, <1>2, EntryTyped DEF EntryType
<1>5. Range(s.ent[e].targets) = Target(im, pre, e) /\ IsInjective(s.ent[e].targets)
  BY <1>3 DEF EntryOK, JobOK
<1>6. o \in Target(im, pre, e) /\ s.ent[e].targets # <<>>
  <2>1. Range(<<>>) = {}
    BY DEF Range
  <2> QED BY <1>2, <1>5, <2>1 DEF Target
<1>7. s.ent[e].refs # 0 /\ s.ent[e].alive /\ ~s.ent[e].deleteMe /\ Does(s, "preload")
  <2>1. s.ent[e].refs # 0
    BY <1>1, <1>2, <1>3, <1>6, Unheld
  <2>2. o \in Holding(im, e)
    BY <1>2 DEF Holding
  <2> QED BY <1>3, <1>6, <2>1, <2>2 DEF EntryOK, HeldOK, DeletesOK, ProgramOK
<1>8. /\ l \in Seq(Objects) /\ IsInjective(l) /\ Range(l) = Range(s.ent[e].targets) \ {o}
  BY <1>2, <1>4, <1>5, RemoveFirstFacts
<1>9. r = IF l = <<>> THEN CancelJob(t, e) ELSE t
  <2>1. t.ent[e].targets = l
    BY <1>1, <1>2, <1>4 DEF CacheType, EntryType
  <2> QED BY <1>2, <1>7, <2>1 DEF PreloadRemove
<1> HIDE DEF l, r, e
<1>10. [s.ent[e] EXCEPT !.targets = l] \in EntryType
  BY <1>4, <1>8, TargetsSet
<1>11. t \in CacheType
  BY <1>1, <1>2, <1>10 DEF CacheType
<1>12. SameBut(s, t, e) /\ t.phase = s.phase /\ t.preload = s.preload /\ t.pend = s.pend
       /\ t.flagged = s.flagged /\ t.ent[e] = [s.ent[e] EXCEPT !.targets = l]
  BY <1>1, <1>2 DEF SameBut, CacheType
<1> HIDE DEF t
<1>13. /\ Identity(s, t, e) /\ t.ent[e].data = s.ent[e].data
       /\ t.ent[e].pending = s.ent[e].pending
       /\ t.ent[e].targets = l /\ t.ent[e].deleteMe = s.ent[e].deleteMe
       /\ t.ent[e].loaded = s.ent[e].loaded
  BY <1>4, <1>8, <1>12, TargetsSet DEF Identity
<1>14. JobOK(t, e) /\ DeletesOK(t, FALSE, e)
  BY <1>3, <1>8, <1>12, <1>13, <1>7 DEF JobOK, DeletesOK, HasJob, EntryOK, SameBut
<1>15. /\ t.ent[e].data = s.ent[e].data \/ e \notin s.inactiv
       /\ Does(s, "preload") \/ (t.phase[e] = "idle" /\ t.ent[e].targets = <<>>)
       /\ Users(im, qre, cp)
       /\ \A d \in Entries \ {e} : Target(im, qre, d) = Target(im, pre, d)
       /\ Range(t.ent[e].targets) = Target(im, qre, e)
  BY <1>1, <1>5, <1>7, <1>8, <1>13 DEF Users, Target, e
<1> HIDE DEF qre
<1>16. /\ Core(t, im, qre, cp, dk, FALSE)
       /\ FitsOK(s) => FitsOK(t)
       /\ \A d \in Entries \ {e} : Evictable(s, d) => Evictable(t, d)
  BY <1>1, <1>2, <1>7, <1>11, <1>12, <1>13, <1>14, <1>15, JobStep, ZenonT(40)
<1>17. t.ent[e].refs # 0 /\ t.ent[e].alive /\ Does(t, "preload") /\ ~t.ent[e].deleteMe
  BY <1>7, <1>12, <1>13 DEF Identity, Alike, SameBut, Does
<1>18. CASE l = <<>>
  <2>1. FitsOK(t) /\ \A d \in Entries \ {e} : Evictable(t, d)
    BY <1>1, <1>16
  <2>2. (t.ent[e].targets = <<>> \/ ~t.ent[e].loaded)
        /\ (t.ent[e].refs = 0 => e \in t.inactiv \/ HasJob(t, e))
    BY <1>13, <1>17, <1>18
  <2>3. Good(CancelJob(t, e), im, qre, cp, dk, FALSE) /\ JobsMove(t, CancelJob(t, e), e)
    BY <1>2, <1>16, <1>17, <2>1, <2>2, CancelJobGood
  <2> QED BY <1>9, <1>12, <1>18, <2>3 DEF JobsMove, SameBut, r, qre, e
<1>19. CASE l # <<>>
  <2>1. Evictable(t, e)
    BY <1>13, <1>17, <1>19 DEF Evictable, Wanted
  <2>2. Good(t, im, qre, cp, dk, FALSE)
    BY <1>1, <1>16, <2>1 DEF Good
  <2> QED BY <1>9, <1>12, <1>19, <2>2 DEF JobsMove, SameBut, r, qre, e
<1> QED BY <1>18, <1>19

\* evas_cache_image_drop by an object that does not wait any more: the image loses
\* a reference, and is put into the lru list, freed, or left to its job if it was
\* the last.
LEMMA DropGood ==
  ASSUME NEW s, NEW im, NEW pre, NEW cp, NEW dk, Good(s, im, pre, cp, dk, FALSE),
         NEW o \in Objects, im[o] # None, o \notin pre
  PROVE  LET r == Drop(s, im[o])
         IN  Good(r, [im EXCEPT ![o] = None], pre, cp, dk, FALSE) /\ JobsSame(s, r)
<1> DEFINE e == im[o]
           jm == [im EXCEPT ![o] = None]
           n == IF s.ent[e].refs = 0 THEN 0 ELSE s.ent[e].refs - 1
           t == [s EXCEPT !.ent[e].refs = n]
           r == Drop(s, e)
<1>1. /\ s \in CacheType /\ Users(im, pre, cp) /\ s.inform = Quiet /\ ~s.bad
      /\ Core(s, im, pre, cp, dk, FALSE) /\ FitsOK(s) /\ \A d \in Entries : Evictable(s, d)
      /\ LruOK(s) /\ UsageOK(s)
  BY DEF Good, Core
<1>2. e \in Entries /\ None \notin Entries
  BY <1>1, CacheAssumption DEF Users
<1>3. EntryOK(s, im, pre, cp, dk, FALSE, e) /\ Evictable(s, e)
  BY <1>1, <1>2 DEF Core
<1>4. s.ent[e] \in EntryType /\ s.ent[e].refs \in Nat
  BY <1>1, <1>2, EntryTyped DEF EntryType
<1>5. /\ Holding(jm, e) = Holding(im, e) \ {o} /\ o \in Holding(im, e)
      /\ \A d \in Entries \ {e} : Holding(jm, d) = Holding(im, d)
      /\ \A d \in Entries : Target(jm, pre, d) = Target(im, pre, d)
      /\ Users(jm, pre, cp)
  BY <1>1, <1>2 DEF Holding, Target, Users
<1>6. IsFiniteSet(Holding(im, e)) /\ Cardinality(Holding(im, e)) \in Nat
  <2>1. Holding(im, e) \in SUBSET Objects
    BY DEF Holding
  <2> QED BY <2>1, CacheAssumption, FS_Subset, FS_CardinalityType
<1>7. /\ Cardinality(Holding(jm, e)) = Cardinality(Holding(im, e)) - 1
      /\ Cardinality(Holding(im, e)) # 0
  BY <1>5, <1>6, FS_RemoveElement, FS_EmptySet, ZenonT(40)
<1>8. s.ent[e].alive /\ cp # e
  BY <1>3, <1>5 DEF EntryOK, HeldOK
<1>9. s.ent[e].refs = Cardinality(Holding(im, e))
  BY <1>3, <1>6, <1>8 DEF EntryOK, HeldOK
<1>10. n = Cardinality(Holding(jm, e)) /\ n \in Nat /\ s.ent[e].refs # 0
  BY <1>6, <1>7, <1>9
<1>11. r = IF t.ent[e].refs > 0 THEN t
           ELSE IF HasJob(t, e) THEN PreloadRemove(t, e, None)
           ELSE IF t.ent[e].dirty THEN EntryDelete(t, e)
           ELSE Flush(LruAdd(t, e))
  <2>1. t = [s EXCEPT !.ent[e].refs = IF @ = 0 THEN 0 ELSE @ - 1]
    BY <1>1, <1>2 DEF CacheType
  <2> QED BY <1>8, <2>1 DEF Drop
<1> HIDE DEF n, jm, r, e
<1>12. t \in CacheType
  <2>1. [s.ent[e] EXCEPT !.refs = n] \in EntryType
    BY <1>4, <1>10 DEF EntryType
  <2> QED BY <1>1, <1>2, <2>1 DEF CacheType
<1>13. /\ SameRest(s, t) /\ Others(s, t, e) /\ t.ent[e] = [s.ent[e] EXCEPT !.refs = n]
       /\ t.activ = s.activ /\ t.inactiv = s.inactiv /\ t.dirty = s.dirty
       /\ t.lru = s.lru /\ t.usage = s.usage
  BY <1>1, <1>2 DEF CacheType, SameRest, Others
<1> HIDE DEF t
<1>14. LET p == s.ent[e]
           q == t.ent[e]
       IN  /\ q.alive = p.alive /\ q.file = p.file /\ q.stamp = p.stamp /\ q.refs = n
           /\ q.data = p.data /\ q.pending = p.pending /\ q.key = p.key /\ q.activ = p.activ
           /\ q.lru = p.lru /\ q.dirty = p.dirty
           /\ q.deleteMe = p.deleteMe /\ q.targets = p.targets
  BY <1>4, <1>13 DEF EntryType
<1>15. e \notin s.inactiv
  BY <1>3, <1>10 DEF EntryOK, OnLists
<1>16. \A d \in Entries \ {e} : Same(s, t, d) /\ SameUsers(im, pre, cp, jm, pre, cp, d)
  BY <1>5, <1>13 DEF Same, SameRest, Others, SameUsers
<1>17. OnLists(t, e)
  BY <1>3, <1>8, <1>13, <1>14, <1>15 DEF EntryOK, OnLists, Flagged
<1>18. JobOK(t, e)
  BY <1>3, <1>13, <1>14 DEF EntryOK, JobOK, HasJob, SameRest
<1>19. DeletesOK(t, FALSE, e) /\ ProgramOK(t, dk, e)
  BY <1>3, <1>13, <1>14 DEF EntryOK, DeletesOK, ProgramOK, HasJob, SameRest, Does
<1>20. HeldOK(t, jm, cp, e)
  BY <1>8, <1>10, <1>14 DEF HeldOK
<1>21. EntryOK(t, jm, pre, cp, dk, FALSE, e)
  BY <1>2, <1>3, <1>5, <1>14, <1>17, <1>18, <1>19, <1>20 DEF EntryOK
<1>22. LruOK(t) /\ FitsOK(t)
  BY <1>1, <1>13 DEF LruOK, FitsOK, SameRest
<1>23. UsageOK(t)
  <2>1. s.inactiv \in SUBSET Entries
    BY <1>1 DEF CacheType
  <2>2. \A d \in s.inactiv : t.ent[d].data = s.ent[d].data
    BY <1>13, <1>14, <2>1 DEF Others
  <2>3. Usage(t, s.inactiv) = Usage(s, s.inactiv)
    BY <1>1, <2>1, <2>2, UsageChanges
  <2> QED BY <1>1, <1>13, <2>3 DEF UsageOK, SameRest, Does
<1>24. ~t.bad /\ t.inform = Quiet /\ JobsSame(s, t)
  BY <1>1, <1>13 DEF SameRest, JobsSame
<1>25. e \in t.activ \union t.inactiv =>
         e \in s.activ \union s.inactiv /\ t.ent[e].key = s.ent[e].key
  BY <1>13, <1>14
<1>26. Core(t, jm, pre, cp, dk, FALSE)
  BY <1>1, <1>2, <1>5, <1>12, <1>16, <1>21, <1>22, <1>23, <1>24, <1>25, OneEntry
<1>27. \A d \in Entries \ {e} : Evictable(t, d)
  BY <1>1, <1>16, SameEvictable
<1>28. CASE n # 0
  <2>1. r = t
    BY <1>10, <1>11, <1>14, <1>28
  <2>2. Evictable(t, e)
    BY <1>3, <1>13, <1>14, <1>28 DEF Evictable, Wanted, HasJob, SameRest
  <2>3. Good(t, jm, pre, cp, dk, FALSE)
    BY <1>22, <1>26, <1>27, <2>2 DEF Good
  <2> QED BY <1>24, <2>1, <2>3 DEF r, jm, e
<1>29. CASE n = 0 /\ HasJob(t, e)
  <2>1. t.ent[e].targets = <<>>
    BY <1>2, <1>5, <1>12, <1>14, <1>21, <1>29, Unheld
  <2>2. Wanted(t, e)
    BY <1>3, <1>13, <1>14 DEF Evictable, Wanted, HasJob, SameRest
  <2>3. t.ent[e].pending
    BY <1>29, <2>1, <2>2 DEF Wanted
  <2>4. [t EXCEPT !.ent[e].targets = <<>>] = t
    <3>1. [t.ent[e] EXCEPT !.targets = <<>>] = t.ent[e]
      <4> DEFINE p == t.ent[e]
      <4>1. p \in EntryType /\ p.targets = <<>>
        BY <1>2, <1>12, <2>1, EntryTyped
      <4> HIDE DEF p
      <4>2. [p EXCEPT !.targets = <<>>] = p
        BY <4>1 DEF EntryType
      <4> QED BY <4>2 DEF p
    <3>2. [t EXCEPT !.ent[e].targets = <<>>] = [t EXCEPT !.ent[e] = t.ent[e]]
      BY <1>2, <1>12, <3>1 DEF CacheType
    <3> QED BY <1>2, <1>12, <3>2 DEF CacheType
  <2>5. r = t
    <3>1. r = PreloadRemove(t, e, None)
      BY <1>11, <1>14, <1>29
    <3>2. PreloadRemove(t, e, None) = CancelJob(t, e)
      BY <1>8, <1>14, <2>1, <2>4 DEF PreloadRemove
    <3>3. CancelJob(t, e) = t
      BY <2>3 DEF CancelJob
    <3> QED BY <3>1, <3>2, <3>3
  <2>6. Evictable(t, e)
    BY <1>29, <2>2 DEF Evictable
  <2>7. Good(t, jm, pre, cp, dk, FALSE)
    BY <1>22, <1>26, <1>27, <2>6 DEF Good
  <2> QED BY <1>24, <2>5, <2>7 DEF r, jm, e
<1>30. CASE n = 0 /\ ~HasJob(t, e) /\ t.ent[e].dirty
  <2>1. r = Destroy(t, e)
    <3>1. ~t.ent[e].deleteMe
      BY <1>21 DEF EntryOK, DeletesOK
    <3> QED BY <1>11, <1>14, <1>30, <3>1 DEF EntryDelete
  <2>2. t.ent[e].refs = 0
    BY <1>14, <1>30
  <2>3. Good(r, jm, pre, cp, dk, FALSE) /\ JobsSame(t, r)
    BY <1>2, <1>22, <1>26, <1>27, <1>30, <2>1, <2>2, DestroyGood
  <2> QED BY <1>24, <2>3 DEF JobsSame, r, jm, e
<1>31. CASE n = 0 /\ ~HasJob(t, e) /\ ~t.ent[e].dirty
  <2>1. r = Flush(LruAdd(t, e))
    BY <1>11, <1>14, <1>31
  <2>2. e \in t.activ
    BY <1>8, <1>13, <1>14, <1>15, <1>17, <1>31 DEF OnLists, Flagged
  <2>3. t.ent[e].refs = 0
    BY <1>14, <1>31
  <2>4. Good(r, jm, pre, cp, dk, FALSE) /\ JobsSame(t, r)
    BY <1>2, <1>26, <1>27, <1>31, <2>1, <2>2, <2>3, LruAddGood
  <2> QED BY <1>24, <2>4 DEF JobsSame, r, jm, e
<1> QED BY <1>28, <1>29, <1>30, <1>31

\* An object that gives up its preload leaves a good cache, whether it was
\* preloading or not, ...
LEMMA StopPreloadGood ==
  ASSUME NEW s, NEW cp, NEW dk, Good(s, img, preloading, cp, dk, FALSE), NEW o \in Objects
  PROVE  LET r == StopPreload(s, o)
         IN  Good(r, img, preloading \ {o}, cp, dk, FALSE) /\ \E e : JobsMove(s, r, e)
<1>1. CASE o \in preloading
  BY <1>1, PreloadRemoveGood DEF StopPreload
<1>2. CASE o \notin preloading
  <2>1. StopPreload(s, o) = s /\ preloading \ {o} = preloading
    BY <1>2 DEF StopPreload
  <2>2. JobsMove(s, s, o)
    BY DEF JobsMove
  <2> QED BY <2>1, <2>2
<1> QED BY <1>1, <1>2

\* ... and so does one that gives up its image as well.
LEMMA ReleaseGood ==
  ASSUME NEW s, NEW cp, NEW dk, Good(s, img, preloading, cp, dk, FALSE), NEW o \in Objects
  PROVE  LET r == Release(s, o)
         IN  /\ Good(r, [img EXCEPT ![o] = None], preloading \ {o}, cp, dk, FALSE)
             /\ \E e : JobsMove(s, r, e)
<1>1. Users(img, preloading, cp)
  BY DEF Good, Core
<1>2. CASE img[o] = None
  <2>1. Release(s, o) = s /\ preloading \ {o} = preloading /\ [img EXCEPT ![o] = None] = img
    BY <1>1, <1>2 DEF Release, Users
  <2>2. JobsMove(s, s, o)
    BY DEF JobsMove
  <2> QED BY <2>1, <2>2
<1>3. CASE img[o] # None
  <2> DEFINE x == StopPreload(s, o)
             qre == preloading \ {o}
             r == Release(s, o)
  <2>1. Good(x, img, qre, cp, dk, FALSE) /\ \E e : JobsMove(s, x, e)
    BY StopPreloadGood
  <2>2. r = Drop(x, img[o])
    BY <1>3 DEF Release
  <2>3. o \notin qre
    OBVIOUS
  <2> HIDE DEF x, qre, r
  <2>4. Good(r, [img EXCEPT ![o] = None], qre, cp, dk, FALSE) /\ JobsSame(x, r)
    BY <1>3, <2>1, <2>2, <2>3, DropGood
  <2>5. \E e : JobsMove(s, r, e)
    BY <2>1, <2>4 DEF JobsMove, JobsSame
  <2> QED BY <2>4, <2>5 DEF qre, r
<1> QED BY <1>2, <1>3

\* evas_cache_image_request finds the image in the lru list: it is active then,
\* and wants only its reference.
LEMMA ReviveGood ==
  ASSUME NEW s, NEW im, NEW pre, NEW cp, NEW dk, NEW cl, Good(s, im, pre, cp, dk, cl),
         NEW e \in s.inactiv
  PROVE  LET t == ActivAdd(LruDel(s, e), e)
         IN  /\ Core(t, im, pre, cp, dk, cl) /\ FitsOK(t) /\ JobsSame(s, t)
             /\ e \in Entries /\ e \in t.activ /\ ~HasJob(t, e) /\ ~t.ent[e].deleteMe
             /\ \A d \in Entries \ {e} : Evictable(t, d)
<1> DEFINE t == ActivAdd(LruDel(s, e), e)
<1>1. /\ s \in CacheType /\ Users(im, pre, cp) /\ s.inform = Quiet /\ ~s.bad
      /\ Core(s, im, pre, cp, dk, cl) /\ FitsOK(s) /\ \A d \in Entries : Evictable(s, d)
      /\ LruOK(s) /\ UsageOK(s)
  BY DEF Good, Core
<1>2. e \in Entries
  BY <1>1 DEF CacheType
<1>3. EntryOK(s, im, pre, cp, dk, cl, e)
  BY <1>1, <1>2 DEF Core
<1>4. e \notin s.activ /\ e \notin s.dirty /\ ~HasJob(s, e)
  BY <1>3 DEF EntryOK, OnLists, JobOK
<1>5. /\ t \in CacheType /\ SameRest(s, t) /\ Others(s, t, e) /\ Fields(s, t, e)
      /\ Flagged(t, e)
      /\ t.ent[e].key = s.ent[e].key
      /\ t.activ = s.activ \union {e} /\ t.inactiv = s.inactiv \ {e} /\ t.dirty = s.dirty \ {e}
      /\ t.lru = RemoveFirst(s.lru, e) /\ t.usage = s.usage - MemSize(s, e)
  BY <1>1, <1>2, <1>3, <1>4, ReviveEffect DEF EntryOK, OnLists
<1> HIDE DEF t
<1>6. \A d \in Entries \ {e} : Same(s, t, d) /\ SameUsers(im, pre, cp, im, pre, cp, d)
  BY <1>5 DEF Same, SameRest, Others, SameUsers
<1>7. OnLists(t, e)
  BY <1>3, <1>4, <1>5 DEF EntryOK, OnLists, Fields
<1>8. JobOK(t, e) /\ ~HasJob(t, e)
  BY <1>3, <1>4, <1>5 DEF EntryOK, JobOK, HasJob, Fields, SameRest
<1>9. DeletesOK(t, cl, e) /\ ProgramOK(t, dk, e) /\ ~t.ent[e].deleteMe
  BY <1>3, <1>4, <1>5 DEF EntryOK, DeletesOK, ProgramOK, HasJob, Fields, SameRest, Does
<1>10. HeldOK(t, im, cp, e) /\ Range(t.ent[e].targets) = Target(im, pre, e)
  BY <1>3, <1>4, <1>5 DEF EntryOK, HeldOK, Fields
<1>11. EntryOK(t, im, pre, cp, dk, cl, e)
  BY <1>7, <1>8, <1>9, <1>10 DEF EntryOK
<1>12. LruOK(t) /\ UsageOK(t) /\ FitsOK(t)
  <2>1. /\ t.lru = (IF e \in s.inactiv THEN RemoveFirst(s.lru, e) ELSE s.lru)
        /\ t.usage = (IF e \in s.inactiv THEN s.usage - MemSize(s, e) ELSE s.usage)
        /\ t.may = s.may /\ t.limit = s.limit
    BY <1>5 DEF SameRest
  <2> QED BY <1>1, <1>2, <1>5, <2>1, ShrunkOK
<1>13. ~t.bad /\ t.inform = Quiet /\ JobsSame(s, t)
  BY <1>1, <1>5 DEF SameRest, JobsSame
<1>14. e \in t.activ \union t.inactiv =>
         e \in s.activ \union s.inactiv /\ t.ent[e].key = s.ent[e].key
  BY <1>5
<1>15. Core(t, im, pre, cp, dk, cl)
  BY <1>1, <1>2, <1>5, <1>6, <1>11, <1>12, <1>13, <1>14, OneEntry
<1>16. \A d \in Entries \ {e} : Evictable(t, d)
  BY <1>1, <1>6, SameEvictable
<1> QED BY <1>2, <1>5, <1>8, <1>9, <1>12, <1>13, <1>15, <1>16 DEF t

\* No image on the lists has this key.
KeyFree(s, k) == \A e \in s.activ \union s.inactiv : s.ent[e].key # k

\* _evas_cache_image_entry_new for a file whose image is on no list: the new image
\* is active, and wants only its reference.
LEMMA EntryNewGood ==
  ASSUME NEW s, NEW im, NEW pre, NEW cp, NEW cl, Good(s, im, pre, cp, disk, cl),
         NEW k \in Keys, disk[k] \in Stamps \union {None}, KeyFree(s, k),
         NEW e \in FreeBlocks(s)
  PROVE  LET t == EntryNew(s, e, k)
         IN  /\ Core(t, im, pre, cp, disk, cl) /\ FitsOK(t) /\ JobsSame(s, t)
             /\ e \in Entries /\ e \in t.activ /\ ~HasJob(t, e) /\ ~t.ent[e].deleteMe
             /\ \A d \in Entries \ {e} : Evictable(t, d)
<1> DEFINE t == EntryNew(s, e, k)
           p == [Blank EXCEPT !.alive = TRUE, !.key = k, !.file = TRUE,
                              !.stamp = disk[k], !.activ = TRUE]
<1>1. /\ s \in CacheType /\ Users(im, pre, cp) /\ s.inform = Quiet /\ ~s.bad
      /\ Core(s, im, pre, cp, disk, cl) /\ FitsOK(s) /\ \A d \in Entries : Evictable(s, d)
      /\ LruOK(s) /\ UsageOK(s)
  BY DEF Good, Core
<1>2. e \in Entries /\ ~s.ent[e].alive /\ ~HasJob(s, e) /\ k # None
  BY CacheAssumption DEF FreeBlocks
<1>3. EntryOK(s, im, pre, cp, disk, cl, e)
  BY <1>1, <1>2 DEF Core
<1>4. /\ e \notin s.activ /\ e \notin s.dirty /\ e \notin s.inactiv /\ s.ent[e] = Blank
      /\ Holding(im, e) = {} /\ cp # e
  BY <1>2, <1>3 DEF EntryOK, OnLists, HeldOK
<1>5. t \in CacheType
  BY <1>1, <1>2, EntryNewTyped
<1>6. /\ SameRest(s, t) /\ Others(s, t, e) /\ t.ent[e] = p
      /\ t.activ = s.activ \union {e} /\ t.inactiv = s.inactiv /\ t.dirty = s.dirty
      /\ t.lru = s.lru /\ t.usage = s.usage
  BY <1>1, <1>2 DEF CacheType, SameRest, Others, EntryNew
<1>7. /\ p.alive /\ p.key = k /\ p.file /\ p.stamp = disk[k] /\ p.activ /\ ~p.lru /\ ~p.dirty
      /\ p.refs = 0 /\ p.targets = <<>> /\ ~p.pending /\ ~p.deleteMe /\ ~p.data
  BY DEF Blank
<1> HIDE DEF t, p
<1>8. \A d \in Entries \ {e} : Same(s, t, d) /\ SameUsers(im, pre, cp, im, pre, cp, d)
  BY <1>6 DEF Same, SameRest, Others, SameUsers
<1>9. OnLists(t, e)
  BY <1>2, <1>4, <1>6, <1>7 DEF OnLists, Flagged
<1>10. JobOK(t, e) /\ ~HasJob(t, e)
  <2>1. IsInjective(<<>>)
    BY DEF IsInjective
  <2> QED BY <1>2, <1>3, <1>6, <1>7, <2>1 DEF EntryOK, JobOK, HasJob, SameRest
<1>11. DeletesOK(t, cl, e) /\ ProgramOK(t, disk, e) /\ ~t.ent[e].deleteMe
  BY <1>3, <1>4, <1>6, <1>7 DEF EntryOK, DeletesOK, ProgramOK, SameRest, Does
<1>12. HeldOK(t, im, cp, e)
  <2>1. Cardinality(Holding(im, e)) = 0
    BY <1>4, FS_EmptySet
  <2> QED BY <1>4, <1>6, <1>7, <2>1 DEF HeldOK
<1>13. Range(t.ent[e].targets) = Target(im, pre, e)
  <2>1. Target(im, pre, e) = {}
    BY <1>1, <1>4 DEF Target, Holding, Users
  <2>2. Range(<<>>) = {}
    BY DEF Range
  <2> QED BY <1>6, <1>7, <2>1, <2>2
<1>14. EntryOK(t, im, pre, cp, disk, cl, e)
  BY <1>9, <1>10, <1>11, <1>12, <1>13 DEF EntryOK
<1>15. LruOK(t) /\ FitsOK(t)
  BY <1>1, <1>6 DEF LruOK, FitsOK, SameRest
<1>16. UsageOK(t)
  <2>1. s.inactiv \in SUBSET Entries
    BY <1>1 DEF CacheType
  <2>2. \A d \in s.inactiv : t.ent[d].data = s.ent[d].data
    BY <1>4, <1>6, <2>1 DEF Others
  <2>3. Usage(t, s.inactiv) = Usage(s, s.inactiv)
    BY <1>1, <2>1, <2>2, UsageChanges
  <2> QED BY <1>1, <1>6, <2>3 DEF UsageOK, SameRest, Does
<1>17. ~t.bad /\ t.inform = Quiet /\ JobsSame(s, t)
  BY <1>1, <1>6 DEF SameRest, JobsSame
<1>18. e \in t.activ \union t.inactiv =>
         \/ e \in s.activ \union s.inactiv /\ t.ent[e].key = s.ent[e].key
         \/ \A d \in (s.activ \union s.inactiv) \ {e} : s.ent[d].key # t.ent[e].key
  BY <1>6, <1>7 DEF KeyFree
<1>19. Core(t, im, pre, cp, disk, cl)
  BY <1>1, <1>2, <1>5, <1>8, <1>14, <1>15, <1>16, <1>17, <1>18, OneEntry
<1>20. \A d \in Entries \ {e} : Evictable(t, d)
  BY <1>1, <1>8, SameEvictable
<1> QED BY <1>2, <1>6, <1>10, <1>11, <1>15, <1>17, <1>19, <1>20 DEF t

\* evas_cache_image_request takes a stale image that is in use off the hash
\* activ: it is never found again.
LEMMA StaleActivGood ==
  ASSUME NEW s, NEW im, NEW pre, NEW cp, NEW dk, Good(s, im, pre, cp, dk, FALSE),
         ~Does(s, "preload"), NEW e \in s.activ
  PROVE  LET t == DirtyAdd(s, e)
         IN  /\ Good(t, im, pre, cp, dk, FALSE) /\ JobsSame(s, t)
             /\ t.activ = s.activ \ {e} /\ t.inactiv = s.inactiv \ {e}
             /\ \A d \in Entries \ {e} : t.ent[d] = s.ent[d]
<1> DEFINE t == DirtyAdd(s, e)
<1>1. /\ s \in CacheType /\ Core(s, im, pre, cp, dk, FALSE) /\ FitsOK(s)
      /\ \A d \in Entries : Evictable(s, d)
  BY DEF Good, Core
<1>2. e \in Entries
  BY <1>1 DEF CacheType
<1>3. EntryOK(s, im, pre, cp, dk, FALSE, e) /\ Evictable(s, e)
  BY <1>1, <1>2 DEF Core
<1>4. s.ent[e].alive /\ s.ent[e].refs # 0
  BY <1>3 DEF EntryOK, OnLists, ProgramOK, Evictable, HasJob
<1>5. /\ Core(t, im, pre, cp, dk, FALSE) /\ FitsOK(t) /\ JobsSame(s, t)
      /\ t.ent[e].refs = s.ent[e].refs /\ t.ent[e].alive
      /\ t.activ = s.activ \ {e} /\ t.inactiv = s.inactiv \ {e}
      /\ \A d \in Entries \ {e} : /\ t.ent[d] = s.ent[d]
                                  /\ Evictable(s, d) => Evictable(t, d)
  BY <1>1, <1>2, <1>4, DirtyAddGood
<1> HIDE DEF t
<1>6. Evictable(t, e)
  BY <1>3, <1>4, <1>5 DEF Evictable, Wanted, EntryOK, ProgramOK, HasJob, JobsSame
<1> QED BY <1>1, <1>5, <1>6 DEF Good, t

\* A stale image of the lru list is made dirty and deleted.
LEMMA StaleLruGood ==
  ASSUME NEW s, NEW im, NEW pre, NEW cp, NEW dk, Good(s, im, pre, cp, dk, FALSE),
         ~Does(s, "preload"), NEW e \in s.inactiv
  PROVE  LET t == EntryDelete(DirtyAdd(s, e), e)
         IN  /\ Good(t, im, pre, cp, dk, FALSE) /\ JobsSame(s, t)
             /\ t.activ = s.activ \ {e} /\ t.inactiv = s.inactiv \ {e}
             /\ \A d \in Entries \ {e} : t.ent[d] = s.ent[d]
<1> DEFINE x == DirtyAdd(s, e)
           t == EntryDelete(x, e)
<1>1. /\ s \in CacheType /\ Core(s, im, pre, cp, dk, FALSE) /\ FitsOK(s)
      /\ \A d \in Entries : Evictable(s, d)
  BY DEF Good, Core
<1>2. e \in Entries
  BY <1>1 DEF CacheType
<1>3. EntryOK(s, im, pre, cp, dk, FALSE, e)
  BY <1>1, <1>2 DEF Core
<1>4. s.ent[e].alive /\ s.ent[e].refs = 0 /\ ~HasJob(s, e)
  BY <1>3 DEF EntryOK, OnLists, ProgramOK, HasJob
<1>5. /\ Core(x, im, pre, cp, dk, FALSE) /\ FitsOK(x) /\ JobsSame(s, x)
      /\ x.ent[e].refs = s.ent[e].refs /\ x.ent[e].alive
      /\ x.activ = s.activ \ {e} /\ x.inactiv = s.inactiv \ {e}
      /\ \A d \in Entries \ {e} : /\ x.ent[d] = s.ent[d]
                                  /\ Evictable(s, d) => Evictable(x, d)
  BY <1>1, <1>2, <1>4, DirtyAddGood
<1> HIDE DEF x
<1>6. EntryOK(x, im, pre, cp, dk, FALSE, e) /\ x \in CacheType
  BY <1>2, <1>5 DEF Core
<1>7. ~HasJob(x, e) /\ ~x.ent[e].deleteMe /\ x.ent[e].refs = 0 /\ Flagged(x, e)
  BY <1>4, <1>5, <1>6 DEF HasJob, JobsSame, EntryOK, DeletesOK, OnLists
<1>8. t = Destroy(x, e)
  BY <1>7 DEF EntryDelete
<1>9. \A d \in Entries \ {e} : Evictable(x, d)
  BY <1>1, <1>5
<1>10. Good(t, im, pre, cp, dk, FALSE) /\ JobsSame(x, t)
  <2>1. Core(x, im, pre, cp, dk, FALSE) /\ FitsOK(x) /\ ~HasJob(x, e) /\ x.ent[e].refs = 0
    BY <1>5, <1>7
  <2> HIDE DEF t
  <2>2. Good(Destroy(x, e), im, pre, cp, dk, FALSE) /\ JobsSame(x, Destroy(x, e))
    BY <1>2, <1>9, <2>1, DestroyGood
  <2> QED BY <1>8, <2>2
<1>11. t.activ = x.activ \ {e} /\ t.inactiv = x.inactiv \ {e} /\ Others(x, t, e)
  BY <1>2, <1>6, <1>7, <1>8, DestroyEffect
<1> QED BY <1>5, <1>10, <1>11 DEF JobsSame, Others, x

\* evas_cache_image_request, for an object without an image, leaves a good cache in
\* which the object holds the result: an image that is shared, one out of the lru
\* list, a new one or none.
LEMMA RequestsGood ==
  ASSUME NEW s, NEW im, NEW pre, NEW cp, Good(s, im, pre, cp, disk, FALSE),
         NEW k \in Keys, disk[k] \in Stamps \union {None},
         Does(s, "preload") => disk[k] # None,
         NEW o \in Objects, im[o] = None, NEW r \in Requests(s, k)
  PROVE  Good(r[1], [im EXCEPT ![o] = r[2]], pre, cp, disk, FALSE) /\ JobsSame(s, r[1])
<1> DEFINE a  == Find(s, s.activ, k)
           s1 == IF a = None THEN s ELSE DirtyAdd(s, a)
           b  == Find(s1, s1.inactiv, k)
           s2 == IF b = None THEN s1 ELSE EntryDelete(DirtyAdd(s1, b), b)
           Ref(t, e) == <<[t EXCEPT !.ent[e].refs = @ + 1], e>>
           Done == Good(r[1], [im EXCEPT ![o] = r[2]], pre, cp, disk, FALSE) /\ JobsSame(s, r[1])
<1>1. /\ s \in CacheType /\ Core(s, im, pre, cp, disk, FALSE) /\ FitsOK(s) /\ KeysOK(s)
      /\ (\A d \in Entries : Evictable(s, d)) /\ s.activ \in SUBSET Entries
      /\ s.inactiv \in SUBSET Entries /\ k # None /\ Users(im, pre, cp)
  BY CacheAssumption DEF Good, Core, CacheType
<1>2. ASSUME NEW t, NEW e \in Entries, Core(t, im, pre, cp, disk, FALSE), FitsOK(t), JobsSame(s, t),
             e \in t.activ, ~t.ent[e].deleteMe, Wanted(t, e),
             \A d \in Entries \ {e} : Evictable(t, d), r = Ref(t, e)
      PROVE  Done
  <2> DEFINE u == [t EXCEPT !.ent[e].refs = @ + 1]
  <2>1. Good(u, [im EXCEPT ![o] = e], pre, cp, disk, FALSE) /\ JobsSame(t, u)
    BY <1>2, RefGood
  <2>2. r[1] = u /\ r[2] = e
    BY <1>2
  <2> HIDE DEF u
  <2> QED BY <1>2, <2>1, <2>2 DEF JobsSame
<1>3. \/ Fresh(s, a, k) /\ r = Ref(s, a)
      \/ ~Fresh(s, a, k) /\ Fresh(s1, b, k) /\ r = Ref(ActivAdd(LruDel(s1, b), b), b)
      \/ ~Fresh(s, a, k) /\ ~Fresh(s1, b, k) /\ \E e \in FreeBlocks(s2) : r = Ref(EntryNew(s2, e, k), e)
      \/ ~Fresh(s, a, k) /\ ~Fresh(s1, b, k) /\ r = <<s2, None>>
  BY DEF Requests
<1>4. /\ a = None \/ a \in s.activ
      /\ a # None => s.ent[a].key = k
      /\ a = None => \A e \in s.activ : s.ent[e].key # k
  BY <1>1, FindFacts
<1> HIDE DEF a, Done
<1>5. CASE Fresh(s, a, k) /\ r = Ref(s, a)
  <2>1. a \in Entries /\ a \in s.activ
    BY <1>1, <1>4, <1>5 DEF Fresh
  <2>2. EntryOK(s, im, pre, cp, disk, FALSE, a) /\ Evictable(s, a)
    BY <1>1, <2>1 DEF Core
  <2>3. ~s.ent[a].deleteMe /\ Wanted(s, a) /\ JobsSame(s, s)
    BY <2>2 DEF EntryOK, DeletesOK, Evictable, JobsSame
  <2> QED BY <1>1, <1>2, <1>5, <2>1, <2>3 DEF Done
<1>6. ASSUME ~Fresh(s, a, k)
      PROVE  /\ Good(s1, im, pre, cp, disk, FALSE) /\ JobsSame(s, s1)
             /\ \A e \in s1.activ : s1.ent[e].key # k
  <2>1. CASE a = None
    BY <1>4, <2>1 DEF JobsSame
  <2>2. CASE a # None
    <3>1. a \in Entries /\ a \in s.activ /\ s.ent[a].key = k
      BY <1>1, <1>4, <2>2
    <3>2. EntryOK(s, im, pre, cp, disk, FALSE, a)
      BY <1>1, <3>1 DEF Core
    <3>3. ~Does(s, "preload")
      BY <1>6, <2>2, <3>1, <3>2 DEF EntryOK, OnLists, ProgramOK, Fresh
    <3>4. /\ Good(s1, im, pre, cp, disk, FALSE) /\ JobsSame(s, s1)
          /\ s1.activ = s.activ \ {a}
          /\ \A d \in Entries \ {a} : s1.ent[d] = s.ent[d]
      <4> DEFINE q == DirtyAdd(s, a)
      <4>1. s1 = q
        BY <2>2
      <4>2. /\ Good(q, im, pre, cp, disk, FALSE) /\ JobsSame(s, q)
            /\ q.activ = s.activ \ {a} /\ q.inactiv = s.inactiv \ {a}
            /\ \A d \in Entries \ {a} : q.ent[d] = s.ent[d]
        BY <3>1, <3>3, StaleActivGood, ZenonT(40)
      <4> HIDE DEF q, s1
      <4> QED BY <4>1, <4>2
    <3>5. \A e \in s1.activ : s1.ent[e].key # k
      BY <1>1, <3>1, <3>4 DEF KeysOK
    <3> QED BY <3>4, <3>5
  <2> QED BY <2>1, <2>2
<1> HIDE DEF s1
<1>7. ASSUME ~Fresh(s, a, k)
      PROVE  /\ b = None \/ b \in s1.inactiv
             /\ b # None => s1.ent[b].key = k /\ b \in Entries
             /\ b = None => \A e \in s1.inactiv : s1.ent[e].key # k
             /\ s1.activ \in SUBSET Entries /\ s1.inactiv \in SUBSET Entries
  <2>1. s1 \in CacheType
    BY <1>6, <1>7 DEF Good, Core
  <2>2. s1.activ \in SUBSET Entries /\ s1.inactiv \in SUBSET Entries
    BY <2>1 DEF CacheType
  <2> QED BY <2>1, <2>2, FindFacts
<1> HIDE DEF b
<1>8. CASE ~Fresh(s, a, k) /\ Fresh(s1, b, k) /\ r = Ref(ActivAdd(LruDel(s1, b), b), b)
  <2> DEFINE t == ActivAdd(LruDel(s1, b), b)
  <2>1. b \in s1.inactiv
    BY <1>7, <1>8 DEF Fresh
  <2>2. Good(s1, im, pre, cp, disk, FALSE) /\ JobsSame(s, s1)
    BY <1>6, <1>8
  <2>3. /\ Core(t, im, pre, cp, disk, FALSE) /\ FitsOK(t) /\ JobsSame(s1, t)
        /\ b \in Entries /\ b \in t.activ /\ ~HasJob(t, b) /\ ~t.ent[b].deleteMe
        /\ \A d \in Entries \ {b} : Evictable(t, d)
    BY <2>1, <2>2, ReviveGood
  <2>4. r = Ref(t, b)
    BY <1>8
  <2> HIDE DEF t
  <2>5. JobsSame(s, t) /\ Wanted(t, b)
    BY <2>2, <2>3 DEF JobsSame, Wanted
  <2> QED BY <1>2, <2>3, <2>4, <2>5 DEF Done
<1>9. ASSUME ~Fresh(s, a, k), ~Fresh(s1, b, k)
      PROVE  Good(s2, im, pre, cp, disk, FALSE) /\ JobsSame(s, s2) /\ KeyFree(s2, k)
  <2>1. /\ Good(s1, im, pre, cp, disk, FALSE) /\ JobsSame(s, s1)
        /\ \A e \in s1.activ : s1.ent[e].key # k
    BY <1>6, <1>9
  <2>2. CASE b = None
    BY <1>7, <1>9, <2>1, <2>2 DEF KeyFree
  <2>3. CASE b # None
    <3>1. b \in s1.inactiv /\ b \in Entries /\ s1.ent[b].key = k
      BY <1>7, <1>9, <2>3
    <3>2. EntryOK(s1, im, pre, cp, disk, FALSE, b) /\ KeysOK(s1)
      BY <2>1, <3>1 DEF Good, Core
    <3>3. ~Does(s1, "preload")
      <4>1. Does(s1, "preload") => disk[k] # None
        BY <2>1 DEF JobsSame, Does
      <4> QED BY <1>9, <2>3, <3>1, <3>2, <4>1 DEF EntryOK, OnLists, ProgramOK, Fresh
    <3>4. /\ Good(s2, im, pre, cp, disk, FALSE) /\ JobsSame(s1, s2)
          /\ s2.activ = s1.activ \ {b} /\ s2.inactiv = s1.inactiv \ {b}
          /\ \A d \in Entries \ {b} : s2.ent[d] = s1.ent[d]
      <4> DEFINE q == EntryDelete(DirtyAdd(s1, b), b)
      <4>1. s2 = q
        BY <2>3
      <4>2. /\ Good(q, im, pre, cp, disk, FALSE) /\ JobsSame(s1, q)
            /\ q.activ = s1.activ \ {b} /\ q.inactiv = s1.inactiv \ {b}
            /\ \A d \in Entries \ {b} : q.ent[d] = s1.ent[d]
        BY <2>1, <3>1, <3>3, StaleLruGood, ZenonT(40)
      <4> HIDE DEF q, s2
      <4> QED BY <4>1, <4>2
    <3> HIDE DEF s2
    <3>5. KeyFree(s2, k)
      BY <1>7, <1>9, <3>1, <3>2, <3>4 DEF KeysOK, KeyFree
    <3> QED BY <2>1, <3>4, <3>5 DEF JobsSame
  <2> QED BY <2>2, <2>3
<1> HIDE DEF s2
<1>10. CASE ~Fresh(s, a, k) /\ ~Fresh(s1, b, k) /\ \E e \in FreeBlocks(s2) : r = Ref(EntryNew(s2, e, k), e)
  <2>1. PICK e \in FreeBlocks(s2) : r = Ref(EntryNew(s2, e, k), e)
    BY <1>10
  <2> DEFINE t == EntryNew(s2, e, k)
  <2>2. Good(s2, im, pre, cp, disk, FALSE) /\ JobsSame(s, s2) /\ KeyFree(s2, k)
    BY <1>9, <1>10
  <2>3. /\ Core(t, im, pre, cp, disk, FALSE) /\ FitsOK(t) /\ JobsSame(s2, t)
        /\ e \in Entries /\ e \in t.activ /\ ~HasJob(t, e) /\ ~t.ent[e].deleteMe
        /\ \A d \in Entries \ {e} : Evictable(t, d)
    BY <2>2, EntryNewGood
  <2>4. r = Ref(t, e)
    BY <2>1
  <2> HIDE DEF t
  <2>5. JobsSame(s, t) /\ Wanted(t, e)
    BY <2>2, <2>3 DEF JobsSame, Wanted
  <2> QED BY <1>2, <2>3, <2>4, <2>5 DEF Done
<1>11. CASE ~Fresh(s, a, k) /\ ~Fresh(s1, b, k) /\ r = <<s2, None>>
  <2>1. [im EXCEPT ![o] = None] = im
    BY <1>1 DEF Users
  <2> QED BY <1>9, <1>11, <2>1
<1> QED BY <1>3, <1>5, <1>8, <1>10, <1>11 DEF Done

\* evas_cache_image_copied_data, called for a copy of a shared image: the copy is
\* dirty, and has the one reference its object is about to get.
LEMMA EntryCopiedGood ==
  ASSUME NEW s, NEW im, NEW pre, NEW dk, Good(s, im, pre, None, dk, FALSE),
         ~Does(s, "preload"), NEW n \in FreeBlocks(s)
  PROVE  LET t == EntryCopied(s, n)
         IN  /\ Good(t, im, pre, n, dk, FALSE) /\ JobsSame(s, t)
             /\ \A e \in Entries \ {n} : t.ent[e] = s.ent[e]
<1> DEFINE t == EntryCopied(s, n)
           p == [Blank EXCEPT !.alive = TRUE, !.data = TRUE, !.dirty = TRUE, !.refs = 1]
<1>1. /\ s \in CacheType /\ Users(im, pre, None) /\ s.inform = Quiet /\ ~s.bad
      /\ Core(s, im, pre, None, dk, FALSE) /\ FitsOK(s) /\ \A d \in Entries : Evictable(s, d)
      /\ LruOK(s) /\ UsageOK(s)
  BY DEF Good, Core
<1>2. n \in Entries /\ ~s.ent[n].alive /\ ~HasJob(s, n) /\ n # None
  BY CacheAssumption DEF FreeBlocks
<1>3. EntryOK(s, im, pre, None, dk, FALSE, n)
  BY <1>1, <1>2 DEF Core
<1>4. /\ n \notin s.activ /\ n \notin s.dirty /\ n \notin s.inactiv /\ s.ent[n] = Blank
      /\ Holding(im, n) = {}
  BY <1>2, <1>3 DEF EntryOK, OnLists, HeldOK
<1>5. t \in CacheType
  BY <1>1, <1>2, EntryCopiedTyped
<1>6. /\ SameRest(s, t) /\ Others(s, t, n) /\ t.ent[n] = p
      /\ t.activ = s.activ /\ t.inactiv = s.inactiv /\ t.dirty = s.dirty \union {n}
      /\ t.lru = s.lru /\ t.usage = s.usage
  BY <1>1, <1>2 DEF CacheType, SameRest, Others, EntryCopied
<1>7. /\ p.alive /\ p.key = None /\ ~p.activ /\ ~p.lru /\ p.dirty
      /\ p.refs = 1 /\ p.targets = <<>> /\ ~p.pending /\ ~p.deleteMe
  BY DEF Blank
<1> HIDE DEF t, p
<1>8. \A d \in Entries \ {n} : Same(s, t, d) /\ SameUsers(im, pre, None, im, pre, n, d)
  <2>1. None \notin Entries
    BY CacheAssumption
  <2> QED BY <1>6, <2>1 DEF Same, SameRest, Others, SameUsers
<1>9. OnLists(t, n)
  BY <1>2, <1>4, <1>6, <1>7 DEF OnLists, Flagged
<1>10. JobOK(t, n) /\ ~HasJob(t, n)
  <2>1. IsInjective(<<>>)
    BY DEF IsInjective
  <2> QED BY <1>2, <1>3, <1>6, <1>7, <2>1 DEF EntryOK, JobOK, HasJob, SameRest
<1>11. DeletesOK(t, FALSE, n) /\ ProgramOK(t, dk, n)
  BY <1>2, <1>6, <1>7 DEF DeletesOK, ProgramOK, SameRest, Does, HasJob
<1>12. HeldOK(t, im, n, n)
  <2>1. Cardinality(Holding(im, n)) = 0
    BY <1>4, FS_EmptySet
  <2> QED BY <1>4, <1>6, <1>7, <2>1 DEF HeldOK
<1>13. Range(t.ent[n].targets) = Target(im, pre, n)
  <2>1. Target(im, pre, n) = {}
    BY <1>1, <1>4 DEF Target, Holding, Users
  <2>2. Range(<<>>) = {}
    BY DEF Range
  <2> QED BY <1>6, <1>7, <2>1, <2>2
<1>14. EntryOK(t, im, pre, n, dk, FALSE, n)
  BY <1>9, <1>10, <1>11, <1>12, <1>13 DEF EntryOK
<1>15. LruOK(t) /\ FitsOK(t)
  BY <1>1, <1>6 DEF LruOK, FitsOK, SameRest
<1>16. UsageOK(t)
  <2>1. s.inactiv \in SUBSET Entries
    BY <1>1 DEF CacheType
  <2>2. \A d \in s.inactiv : t.ent[d].data = s.ent[d].data
    BY <1>4, <1>6, <2>1 DEF Others
  <2>3. Usage(t, s.inactiv) = Usage(s, s.inactiv)
    BY <1>1, <2>1, <2>2, UsageChanges
  <2> QED BY <1>1, <1>6, <2>3 DEF UsageOK, SameRest, Does
<1>17. ~t.bad /\ t.inform = Quiet /\ JobsSame(s, t)
  BY <1>1, <1>6 DEF SameRest, JobsSame
<1>18. n \notin t.activ \union t.inactiv
  BY <1>4, <1>6
<1>19. Users(im, pre, n)
  BY <1>1 DEF Users
<1>20. Core(t, im, pre, n, dk, FALSE)
  BY <1>1, <1>2, <1>5, <1>8, <1>14, <1>15, <1>16, <1>17, <1>18, <1>19, OneEntry
<1>21. \A d \in Entries \ {n} : Evictable(t, d)
  BY <1>1, <1>8, SameEvictable
<1>22. Evictable(t, n)
  BY <1>6, <1>7, <1>10 DEF Evictable, Wanted
<1> QED BY <1>6, <1>15, <1>17, <1>20, <1>21, <1>22 DEF Good, Others, t

\* The object that asked for the copy takes it.
LEMMA AdoptGood ==
  ASSUME NEW s, NEW im, NEW pre, NEW cp \in Entries, NEW dk, Good(s, im, pre, cp, dk, FALSE),
         NEW o \in Objects, im[o] = None
  PROVE  Good(s, [im EXCEPT ![o] = cp], pre, None, dk, FALSE)
<1> DEFINE jm == [im EXCEPT ![o] = cp]
<1>1. /\ s \in CacheType /\ Users(im, pre, cp) /\ s.inform = Quiet /\ ~s.bad
      /\ Core(s, im, pre, cp, dk, FALSE) /\ LruOK(s) /\ UsageOK(s)
      /\ EntryOK(s, im, pre, cp, dk, FALSE, cp)
  BY DEF Good, Core
<1>2. None \notin Entries
  BY CacheAssumption
<1>3. /\ Holding(im, cp) = {} /\ cp \in s.dirty /\ s.ent[cp].alive
      /\ s.ent[cp].refs = Cardinality(Holding(im, cp)) + 1
  BY <1>1 DEF EntryOK, HeldOK, OnLists
<1>4. /\ Holding(jm, cp) = {o} /\ Users(jm, pre, None)
      /\ \A d \in Entries \ {cp} : Holding(jm, d) = Holding(im, d)
      /\ \A d \in Entries : Target(jm, pre, d) = Target(im, pre, d)
  BY <1>1, <1>2, <1>3 DEF Holding, Target, Users
<1>5. s.ent[cp].refs = 1 /\ Cardinality({o}) = 1
  BY <1>3, FS_EmptySet, FS_Singleton
<1> HIDE DEF jm
<1>6. \A d \in Entries \ {cp} : Same(s, s, d) /\ SameUsers(im, pre, cp, jm, pre, None, d)
  BY <1>2, <1>4 DEF Same, SameUsers
<1>7. HeldOK(s, jm, None, cp)
  BY <1>2, <1>3, <1>4, <1>5 DEF HeldOK
<1>8. EntryOK(s, jm, pre, None, dk, FALSE, cp)
  BY <1>1, <1>4, <1>7 DEF EntryOK
<1>9. cp \in s.activ \union s.inactiv =>
        cp \in s.activ \union s.inactiv /\ s.ent[cp].key = s.ent[cp].key
  OBVIOUS
<1>10. Core(s, jm, pre, None, dk, FALSE)
  BY <1>1, <1>4, <1>6, <1>8, <1>9, OneEntry
<1> QED BY <1>10 DEF Good, jm

\* The fields of an entry that say where it is and what its job is.
Standing(q, r) ==
  Alike(q, r) /\ q.pending = r.pending /\ q.deleteMe = r.deleteMe /\ q.targets = r.targets

\* What a thread, or the main thread, does to the pixels of an image keeps the
\* cache in order, and so do the steps of a job that is not given back.
LEMMA PixelsGood ==
  ASSUME NEW s, NEW im, NEW pre, NEW cp, NEW dk, NEW cl, Good(s, im, pre, cp, dk, cl),
         NEW t \in CacheType, NEW e \in Entries,
         SameBut(s, t, e), Standing(t.ent[e], s.ent[e]), s.ent[e].alive,
         t.ent[e].data = s.ent[e].data \/ e \notin s.inactiv,
         e \in t.preload <=> e \in s.preload,
         e \in t.pend <=> e \in s.pend,
         e \in t.flagged <=> e \in s.flagged,
         t.phase[e] = s.phase[e] \/ (HasJob(s, e) /\ t.phase[e] \notin {"idle", "queued"})
  PROVE  Good(t, im, pre, cp, dk, cl)
<1>1. /\ s \in CacheType /\ Users(im, pre, cp) /\ EntryOK(s, im, pre, cp, dk, cl, e)
      /\ Core(s, im, pre, cp, dk, cl) /\ FitsOK(s) /\ \A d \in Entries : Evictable(s, d)
  BY DEF Good, Core
<1>2. JobOK(t, e) /\ DeletesOK(t, cl, e) /\ (HasJob(t, e) <=> HasJob(s, e))
  BY <1>1 DEF EntryOK, JobOK, DeletesOK, HasJob, SameBut, Standing, Alike
<1>3. Does(s, "preload") \/ (t.phase[e] = "idle" /\ t.ent[e].targets = <<>>)
  BY <1>1 DEF EntryOK, ProgramOK, HasJob, Standing
<1>4. \A d \in Entries \ {e} : Target(im, pre, d) = Target(im, pre, d)
  OBVIOUS
<1>5. Range(t.ent[e].targets) = Target(im, pre, e) /\ Identity(s, t, e)
  BY <1>1 DEF EntryOK, Standing, Identity
<1>6. /\ Core(t, im, pre, cp, dk, cl)
      /\ FitsOK(s) => FitsOK(t)
      /\ \A d \in Entries \ {e} : Evictable(s, d) => Evictable(t, d)
  BY <1>1, <1>2, <1>3, <1>4, <1>5, JobStep
<1>7. Evictable(t, e)
  BY <1>1, <1>2 DEF Evictable, Wanted, Standing, Alike, SameBut
<1> QED BY <1>1, <1>6, <1>7 DEF Good

\* At most the job of one entry has been queued.
JobQueued(s, t, e) ==
  /\ t.may = s.may /\ t.flagged = s.flagged
  /\ \/ t.phase = s.phase
     \/ s.phase[e] = "idle" /\ t.phase = [s.phase EXCEPT ![e] = "queued"]

\* _evas_cache_image_entry_preload_add: the object is a target, and there is a job.
LEMMA PreloadAddGood ==
  ASSUME NEW s, NEW im, NEW pre, NEW dk, Good(s, im, pre, None, dk, FALSE),
         Does(s, "preload"), NEW o \in Objects, o \notin pre, im[o] # None
  PROVE  LET r == PreloadAdd(s, im[o], o)
         IN  Good(r, im, pre \union {o}, None, dk, FALSE) /\ JobQueued(s, r, im[o])
<1> DEFINE e == im[o]
           qre == pre \union {o}
           l == Append(s.ent[e].targets, o)
           t == [s EXCEPT !.ent[e].targets = l]
           r == PreloadAdd(s, im[o], o)
<1>1. /\ s \in CacheType /\ Users(im, pre, None) /\ s.inform = Quiet
      /\ Core(s, im, pre, None, dk, FALSE) /\ FitsOK(s) /\ \A d \in Entries : Evictable(s, d)
  BY DEF Good, Core
<1>2. e \in Entries
  BY <1>1 DEF Users
<1>3. EntryOK(s, im, pre, None, dk, FALSE, e)
  BY <1>1, <1>2 DEF Core
<1>4. s.ent[e] \in EntryType /\ s.ent[e].targets \in Seq(Objects)
  BY <1>1, <1>2, EntryTyped DEF EntryType
<1>5. Range(s.ent[e].targets) = Target(im, pre, e) /\ IsInjective(s.ent[e].targets)
  BY <1>3 DEF EntryOK, JobOK
<1>6. o \notin Range(s.ent[e].targets)
  BY <1>5 DEF Target
<1>7. /\ s.ent[e].alive /\ ~s.ent[e].deleteMe /\ e \in s.activ
      /\ s.ent[e].refs # 0 /\ e \notin s.inactiv
  <2>1. o \in Holding(im, e)
    BY DEF Holding
  <2>2. s.ent[e].alive /\ ~s.ent[e].deleteMe
    BY <1>3, <2>1 DEF EntryOK, HeldOK, DeletesOK
  <2>3. s.ent[e].refs # 0
    BY <1>1, <1>2, <1>3, <2>1, Unheld
  <2> QED BY <1>3, <2>2, <2>3 DEF EntryOK, OnLists, ProgramOK
<1>8. l \in Seq(Objects) /\ Range(l) = Range(s.ent[e].targets) \union {o} /\ l # <<>>
  BY <1>4, AppendFacts
<1>9. IsInjective(l)
  <2> DEFINE k == s.ent[e].targets
  <2> HIDE DEF k
  <2>1. /\ Len(l) = Len(k) + 1 /\ (\A i \in 1 .. Len(k) : l[i] = k[i]) /\ l[Len(k) + 1] = o
        /\ k \in Seq(Objects) /\ o \notin Range(k) /\ IsInjective(k)
    <3>1. k \in Seq(Objects) /\ o \notin Range(k) /\ IsInjective(k) /\ l = Append(k, o)
      BY <1>4, <1>5, <1>6 DEF k
    <3> HIDE DEF l
    <3>2. Len(l) = Len(k) + 1 /\ \A i \in 1 .. Len(k) : l[i] = k[i]
      BY <3>1, AppendFacts
    <3>3. l[Len(k) + 1] = o
      BY <3>1
    <3> QED BY <3>1, <3>2, <3>3
  <2>2. DOMAIN l = 1 .. Len(k) + 1 /\ DOMAIN k = 1 .. Len(k) /\ Len(k) \in Nat
    BY <1>8, <2>1
  <2>3. \A i \in 1 .. Len(k) : k[i] # o
    BY <2>1, <2>2, RangeFacts
  <2> HIDE DEF l
  <2>4. \A i, j \in 1 .. Len(k) + 1 : l[i] = l[j] => i = j
    BY <2>1, <2>2, <2>3 DEF IsInjective
  <2> QED BY <2>2, <2>4 DEF IsInjective
<1>10. r = IF HasJob(s, e) THEN t
           ELSE [t EXCEPT !.preload = @ \union {e}, !.ent[e].pending = FALSE,
                          !.phase[e] = "queued"]
  <2>1. t = [s EXCEPT !.ent[e].targets = Append(@, o)]
    BY <1>1, <1>2 DEF CacheType
  <2> QED BY <2>1 DEF PreloadAdd
<1>11. r \in CacheType
  BY <1>1, <1>2, PreloadAddTyped
<1> HIDE DEF l, r, e
<1>12. t \in CacheType /\ [s.ent[e] EXCEPT !.targets = l] \in EntryType
  <2>1. [s.ent[e] EXCEPT !.targets = l] \in EntryType
    BY <1>4, <1>8, TargetsSet
  <2> QED BY <1>1, <1>2, <2>1 DEF CacheType
<1>13. /\ t.ent = [s.ent EXCEPT ![e] = [s.ent[e] EXCEPT !.targets = l]]
       /\ t.phase = s.phase /\ t.preload = s.preload /\ t.pend = s.pend
       /\ t.flagged = s.flagged
       /\ t.activ = s.activ /\ t.inactiv = s.inactiv /\ t.dirty = s.dirty
       /\ t.lru = s.lru /\ t.usage = s.usage /\ t.limit = s.limit /\ t.may = s.may
       /\ t.bad = s.bad /\ t.inform = s.inform
  BY <1>1, <1>2 DEF CacheType
<1> HIDE DEF t
<1>14. t.ent[e] = [s.ent[e] EXCEPT !.targets = l] /\ \A d \in Entries \ {e} : t.ent[d] = s.ent[d]
  BY <1>1, <1>2, <1>13 DEF CacheType
<1>15. /\ Alike(t.ent[e], s.ent[e]) /\ t.ent[e].data = s.ent[e].data
       /\ t.ent[e].pending = s.ent[e].pending
       /\ t.ent[e].targets = l /\ t.ent[e].deleteMe = s.ent[e].deleteMe
  BY <1>4, <1>8, <1>14, TargetsSet
<1>16. /\ Users(im, qre, None)
       /\ \A d \in Entries \ {e} : Target(im, qre, d) = Target(im, pre, d)
       /\ Range(l) = Target(im, qre, e)
  BY <1>1, <1>5, <1>8 DEF Users, Target, e
<1> HIDE DEF qre
<1>17. CASE HasJob(s, e)
  <2>1. SameBut(s, t, e) /\ Identity(s, t, e)
    BY <1>13, <1>14, <1>15 DEF SameBut, Identity
  <2>2. JobOK(t, e) /\ DeletesOK(t, FALSE, e)
    BY <1>3, <1>7, <1>9, <1>13, <1>15 DEF EntryOK, JobOK, DeletesOK, HasJob
  <2>3. /\ t.ent[e].data = s.ent[e].data \/ e \notin s.inactiv
        /\ Does(s, "preload") \/ (t.phase[e] = "idle" /\ t.ent[e].targets = <<>>)
        /\ Range(t.ent[e].targets) = Target(im, qre, e)
    BY <1>15, <1>16
  <2>4. /\ Core(t, im, qre, None, dk, FALSE)
        /\ FitsOK(s) => FitsOK(t)
        /\ \A d \in Entries \ {e} : Evictable(s, d) => Evictable(t, d)
    BY <1>1, <1>2, <1>7, <1>12, <1>16, <2>1, <2>2, <2>3, JobStep, ZenonT(40)
  <2>5. Evictable(t, e)
    BY <1>7, <1>8, <1>15 DEF Evictable, Wanted, Alike
  <2>6. r = t /\ JobQueued(s, t, e)
    BY <1>10, <1>13, <1>17 DEF JobQueued
  <2> QED BY <1>1, <2>4, <2>5, <2>6 DEF Good, r, qre, e
<1>18. CASE ~HasJob(s, e)
  <2>1. r = [t EXCEPT !.preload = @ \union {e}, !.ent[e].pending = FALSE, !.phase[e] = "queued"]
    BY <1>10, <1>18
  <2>2. /\ r.ent = [t.ent EXCEPT ![e].pending = FALSE]
        /\ r.phase = [s.phase EXCEPT ![e] = "queued"]
        /\ r.preload = s.preload \union {e} /\ r.pend = s.pend /\ r.flagged = s.flagged
        /\ r.activ = s.activ /\ r.inactiv = s.inactiv /\ r.dirty = s.dirty
        /\ r.lru = s.lru /\ r.usage = s.usage /\ r.limit = s.limit /\ r.may = s.may
        /\ r.bad = s.bad /\ r.inform = s.inform
    BY <1>12, <1>13, <2>1 DEF CacheType
  <2>3. /\ r.ent[e] = [t.ent[e] EXCEPT !.pending = FALSE]
        /\ \A d \in Entries \ {e} : r.ent[d] = s.ent[d]
    BY <1>2, <1>12, <1>14, <2>2 DEF CacheType
  <2>4. /\ Alike(r.ent[e], s.ent[e]) /\ r.ent[e].data = s.ent[e].data
        /\ ~r.ent[e].pending /\ r.ent[e].targets = l /\ r.ent[e].deleteMe = s.ent[e].deleteMe
    BY <1>2, <1>12, <1>15, <2>3, EntryTyped, PendingClear DEF Alike
  <2>5. /\ SameBut(s, r, e) /\ Identity(s, r, e)
        /\ r.phase[e] = "queued"
    BY <1>1, <1>2, <2>2, <2>3, <2>4 DEF SameBut, Identity, CacheType
  <2>6. e \notin s.pend /\ e \notin s.flagged
    BY <1>3, <1>18 DEF EntryOK, JobOK
  <2>7. JobOK(r, e) /\ DeletesOK(r, FALSE, e)
    BY <1>3, <1>7, <1>9, <2>2, <2>4, <2>5, <2>6 DEF JobOK, DeletesOK, HasJob
  <2>8. /\ r.ent[e].data = s.ent[e].data \/ e \notin s.inactiv
        /\ Does(s, "preload") \/ (r.phase[e] = "idle" /\ r.ent[e].targets = <<>>)
        /\ Range(r.ent[e].targets) = Target(im, qre, e)
    BY <1>16, <2>4
  <2>9. /\ Core(r, im, qre, None, dk, FALSE)
        /\ FitsOK(s) => FitsOK(r)
        /\ \A d \in Entries \ {e} : Evictable(s, d) => Evictable(r, d)
    <3>1. /\ Core(s, im, pre, None, dk, FALSE) /\ r \in CacheType /\ e \in Entries
          /\ SameBut(s, r, e) /\ Identity(s, r, e) /\ s.ent[e].alive
          /\ JobOK(r, e) /\ DeletesOK(r, FALSE, e) /\ Users(im, qre, None)
      BY <1>1, <1>2, <1>7, <1>11, <1>16, <2>5, <2>7
    <3>2. /\ Does(s, "preload") \/ (r.phase[e] = "idle" /\ r.ent[e].targets = <<>>)
          /\ r.ent[e].data = s.ent[e].data \/ e \notin s.inactiv
          /\ \A d \in Entries \ {e} : Target(im, qre, d) = Target(im, pre, d)
          /\ Range(r.ent[e].targets) = Target(im, qre, e)
      BY <1>16, <2>8
    <3>3. Core(r, im, qre, None, dk, FALSE)
      BY <3>1, <3>2, JobStep
    <3>4. FitsOK(s) => FitsOK(r)
      BY <3>1, <3>2, JobStep
    <3>5. \A d \in Entries \ {e} : Evictable(s, d) => Evictable(r, d)
      <4>1. \A d \in Entries \ {e} : Same(s, r, d)
        BY <3>1 DEF Same, SameBut
      <4> QED BY <4>1, SameEvictable
    <3> QED BY <3>3, <3>4, <3>5
  <2>10. Evictable(r, e)
    BY <1>7, <1>8, <2>4 DEF Evictable, Wanted, Alike
  <2>11. JobQueued(s, r, e)
    BY <1>18, <2>2 DEF JobQueued, HasJob
  <2> QED BY <1>1, <2>9, <2>10, <2>11 DEF Good, r, qre, e
<1> QED BY <1>17, <1>18

\* evas_cache_image_dirty of an image its object does not share.
LEMMA OwnWriteGood ==
  ASSUME NEW s, NEW im, NEW pre, NEW cp, NEW dk, Good(s, im, pre, cp, dk, FALSE),
         ~Does(s, "preload"), NEW o \in Objects, im[o] # None
  PROVE  Good(OwnWrite(s, im[o]), im, pre, cp, dk, FALSE) /\ JobsSame(s, OwnWrite(s, im[o]))
<1> DEFINE e == im[o]
           t == DirtyAdd(s, e)
<1>1. /\ s \in CacheType /\ Users(im, pre, cp)
      /\ Core(s, im, pre, cp, dk, FALSE) /\ FitsOK(s) /\ \A d \in Entries : Evictable(s, d)
  BY DEF Good, Core
<1>2. e \in Entries
  BY <1>1 DEF Users
<1>3. EntryOK(s, im, pre, cp, dk, FALSE, e) /\ o \in Holding(im, e)
  BY <1>1, <1>2 DEF Core, Holding
<1>4. s.ent[e].alive /\ s.ent[e].refs # 0
  BY <1>1, <1>2, <1>3, Unheld DEF EntryOK, HeldOK
<1>5. OwnWrite(s, im[o]) = t
  BY <1>4 DEF OwnWrite
<1> HIDE DEF e
<1>6. /\ Core(t, im, pre, cp, dk, FALSE) /\ FitsOK(t) /\ JobsSame(s, t)
      /\ t.ent[e].refs = s.ent[e].refs /\ t.ent[e].alive
      /\ t.activ = s.activ \ {e} /\ t.inactiv = s.inactiv \ {e}
      /\ \A d \in Entries \ {e} : /\ t.ent[d] = s.ent[d]
                                  /\ Evictable(s, d) => Evictable(t, d)
  BY <1>1, <1>2, <1>4, DirtyAddGood
<1> HIDE DEF t
<1>7. Evictable(t, e)
  BY <1>3, <1>4, <1>6 DEF Evictable, Wanted, EntryOK, ProgramOK, HasJob, JobsSame
<1> QED BY <1>1, <1>5, <1>6, <1>7 DEF Good

\* A new limit has nothing to do with the entries.
LEMMA LimitGood ==
  ASSUME NEW s, NEW im, NEW pre, NEW cp, NEW dk, NEW cl, Core(s, im, pre, cp, dk, cl),
         \A e \in Entries : Evictable(s, e), NEW l \in Nat
  PROVE  LET t == [s EXCEPT !.limit = l]
         IN  /\ Core(t, im, pre, cp, dk, cl) /\ JobsSame(s, t) /\ t.limit = l
             /\ t.lru = s.lru /\ t.usage = s.usage
             /\ \A e \in Entries : Evictable(t, e)
<1> DEFINE t == [s EXCEPT !.limit = l]
<1>1. s \in CacheType /\ LruOK(s) /\ KeysOK(s) /\ UsageOK(s) /\ ~s.bad /\ s.inform = Quiet
      /\ Users(im, pre, cp) /\ \A e \in Entries : EntryOK(s, im, pre, cp, dk, cl, e)
  BY DEF Core
<1>2. t \in CacheType
  BY <1>1 DEF CacheType
<1>3. /\ t.ent = s.ent /\ t.phase = s.phase /\ t.preload = s.preload /\ t.pend = s.pend
      /\ t.flagged = s.flagged /\ t.activ = s.activ /\ t.inactiv = s.inactiv
      /\ t.dirty = s.dirty /\ t.lru = s.lru /\ t.usage = s.usage /\ t.limit = l
      /\ t.may = s.may /\ t.bad = s.bad /\ t.inform = s.inform
  BY <1>1 DEF CacheType
<1> HIDE DEF t
<1>4. \A e \in Entries : Same(s, t, e) /\ SameUsers(im, pre, cp, im, pre, cp, e)
  BY <1>3 DEF Same, SameUsers
<1>5. \A e \in Entries : EntryOK(t, im, pre, cp, dk, cl, e) /\ Evictable(t, e)
  BY <1>1, <1>4, SameEntry, SameEvictable
<1>6. LruOK(t) /\ KeysOK(t) /\ UsageOK(t)
  BY <1>1, <1>3 DEF LruOK, KeysOK, UsageOK, Usage, Does
<1> QED BY <1>1, <1>2, <1>3, <1>5, <1>6 DEF Core, JobsSame, t

\* evas_image_cache_set leaves what fits the new limit, and evas_image_cache_flush
\* nothing, which fits the old one as well.
LEMMA CacheFlushGood ==
  ASSUME NEW s, NEW im, NEW pre, NEW cp, NEW dk, NEW cl, Good(s, im, pre, cp, dk, cl),
         NEW l \in Nat
  PROVE  LET t == Flush([s EXCEPT !.limit = l])
         IN  /\ Good(t, im, pre, cp, dk, cl) /\ JobsSame(s, t)
             /\ \A n \in Nat : l <= n => LET u == [t EXCEPT !.limit = n]
                                         IN  Good(u, im, pre, cp, dk, cl) /\ JobsSame(s, u)
<1> DEFINE x == [s EXCEPT !.limit = l]
           t == Flush(x)
<1>1. /\ Core(x, im, pre, cp, dk, cl) /\ JobsSame(s, x) /\ x.limit = l
      /\ \A e \in Entries : Evictable(x, e)
  BY LimitGood DEF Good
<1> HIDE DEF x
<1>2. Good(t, im, pre, cp, dk, cl) /\ JobsSame(x, t) /\ t.limit = x.limit
  BY <1>1, FlushGood
<1>3. JobsSame(s, t) /\ t.limit = l /\ t \in CacheType
  BY <1>1, <1>2 DEF JobsSame, Good, Core
<1> HIDE DEF t
<1>4. ASSUME NEW n \in Nat, l <= n
      PROVE  LET u == [t EXCEPT !.limit = n] IN Good(u, im, pre, cp, dk, cl) /\ JobsSame(s, u)
  <2> DEFINE u == [t EXCEPT !.limit = n]
  <2>1. /\ Core(u, im, pre, cp, dk, cl) /\ JobsSame(t, u) /\ u.limit = n
        /\ u.lru = t.lru /\ u.usage = t.usage
        /\ \A e \in Entries : Evictable(u, e)
    BY <1>2, LimitGood DEF Good
  <2>2. t.usage \in Int
    BY <1>3 DEF CacheType
  <2>3. FitsOK(u)
    BY <1>2, <1>3, <1>4, <2>1, <2>2 DEF Good, FitsOK
  <2> QED BY <1>3, <2>1, <2>3 DEF Good, JobsSame
<1> QED BY <1>2, <1>3, <1>4 DEF t, x

\* evas_cache_image_unload_all: the pixels of images that nobody is loading go.
LEMMA UnloadGood ==
  ASSUME NEW s, NEW im, NEW pre, NEW cp, NEW dk, NEW cl, Good(s, im, pre, cp, dk, cl),
         Does(s, "unload"), NEW t \in CacheType,
         SameRest(s, t), t.activ = s.activ, t.inactiv = s.inactiv, t.dirty = s.dirty,
         t.lru = s.lru, t.usage = s.usage,
         \A e \in Entries : /\ Standing(t.ent[e], s.ent[e])
                            /\ t.ent[e] = s.ent[e] \/ s.ent[e].alive
  PROVE  Good(t, im, pre, cp, dk, cl) /\ JobsSame(s, t)
<1>1. /\ s \in CacheType /\ LruOK(s) /\ KeysOK(s) /\ FitsOK(s) /\ ~s.bad /\ s.inform = Quiet
      /\ Users(im, pre, cp)
      /\ \A e \in Entries : EntryOK(s, im, pre, cp, dk, cl, e) /\ Evictable(s, e)
  BY DEF Good, Core
<1>2. ASSUME NEW e \in Entries
      PROVE  EntryOK(t, im, pre, cp, dk, cl, e) /\ Evictable(t, e)
  <2>1. EntryOK(s, im, pre, cp, dk, cl, e) /\ Evictable(s, e)
    BY <1>1
  <2>2. HasJob(t, e) <=> HasJob(s, e)
    BY DEF HasJob, SameRest
  <2>3. OnLists(t, e)
    BY <2>1 DEF EntryOK, OnLists, Flagged, Standing, Alike
  <2>4. JobOK(t, e) /\ DeletesOK(t, cl, e)
    BY <2>1, <2>2 DEF EntryOK, JobOK, DeletesOK, Standing, Alike, SameRest
  <2>5. ProgramOK(t, dk, e) /\ HeldOK(t, im, cp, e)
    BY <2>1 DEF EntryOK, ProgramOK, HeldOK, Standing, Alike, SameRest, Does
  <2>6. Evictable(t, e)
    BY <2>1, <2>2 DEF Evictable, Wanted, Standing, Alike
  <2> QED BY <2>1, <2>3, <2>4, <2>5, <2>6 DEF EntryOK, Standing
<1>3. s.activ \in SUBSET Entries /\ s.inactiv \in SUBSET Entries
  BY <1>1 DEF CacheType
<1>4. KeysOK(t)
  BY <1>1, <1>3 DEF KeysOK, Standing, Alike
<1>5. LruOK(t) /\ FitsOK(t) /\ UsageOK(t) /\ ~t.bad /\ t.inform = Quiet
  BY <1>1 DEF LruOK, FitsOK, UsageOK, SameRest, Does
<1> QED BY <1>1, <1>2, <1>4, <1>5 DEF Good, Core, JobsSame, SameRest

\* Where nothing is preloaded, the files may change.
LEMMA FilesGood ==
  ASSUME NEW s, NEW im, NEW pre, NEW cp, NEW dk, NEW cl, Good(s, im, pre, cp, dk, cl),
         ~Does(s, "preload"), NEW dl
  PROVE  Good(s, im, pre, cp, dl, cl)
<1>1. \A e \in Entries : EntryOK(s, im, pre, cp, dk, cl, e) => EntryOK(s, im, pre, cp, dl, cl, e)
  BY DEF EntryOK, ProgramOK
<1> QED BY <1>1 DEF Good, Core

\* A cache that is good is good for the shutdown, too.
LEMMA ClosingGood ==
  ASSUME NEW s, NEW im, NEW pre, NEW cp, NEW dk, Good(s, im, pre, cp, dk, FALSE), NEW cl \in BOOLEAN
  PROVE  Good(s, im, pre, cp, dk, cl)
<1>1. \A e \in Entries : EntryOK(s, im, pre, cp, dk, FALSE, e) => EntryOK(s, im, pre, cp, dk, cl, e)
  BY DEF EntryOK, DeletesOK
<1> QED BY <1>1 DEF Good, Core

\* The cache with the pixels of an image, or without them.
Loaded(s, e, ok) == [s EXCEPT !.ent[e].data = TRUE, !.ent[e].loaded = ok]

\* load_data has loaded the pixels, or failed to: the cache is good as it is, and
\* after the first statements of async_end.
LEMMA LoadedGood ==
  ASSUME NEW s, NEW im, NEW pre, NEW cp, NEW dk, NEW cl, Good(s, im, pre, cp, dk, cl),
         NEW e \in Entries, s.ent[e].alive, e \notin s.inactiv, ~HasJob(s, e), NEW ok \in BOOLEAN,
         NEW t, t = Loaded(s, e, ok)
  PROVE  /\ Good(t, im, pre, cp, dk, cl) /\ JobsSame(s, t)
         /\ Good(Ended(t, e), im, pre, cp, dk, cl) /\ JobsSame(s, Ended(t, e))
         /\ t.ent[e].targets = s.ent[e].targets
         /\ Ended(t, e).ent[e].targets = s.ent[e].targets
         /\ Ended(t, e).ent[e].refs = s.ent[e].refs
         /\ Ended(t, e).activ = s.activ
<1> DEFINE u == Ended(t, e)
           q == [s.ent[e] EXCEPT !.data = TRUE, !.loaded = ok]
           r == [q EXCEPT !.done = ok]
<1>1. s \in CacheType /\ s.ent[e] \in EntryType /\ EntryOK(s, im, pre, cp, dk, cl, e)
  BY EntryTyped DEF Good, Core
<1>2. q \in EntryType /\ Standing(q, s.ent[e]) /\ q.loaded = ok
  BY <1>1 DEF EntryType, Standing, Alike
<1>3. /\ t.ent = [s.ent EXCEPT ![e] = q]
      /\ t.activ = s.activ /\ t.inactiv = s.inactiv /\ t.dirty = s.dirty
      /\ t.lru = s.lru /\ t.usage = s.usage /\ t.limit = s.limit /\ t.may = s.may
      /\ t.bad = s.bad /\ t.inform = s.inform /\ t.phase = s.phase /\ t.flagged = s.flagged
      /\ t.preload = s.preload /\ t.pend = s.pend
  BY <1>1 DEF CacheType, Loaded
<1>4. t \in CacheType
  <2>1. t = [s EXCEPT !.ent[e] = q]
    BY <1>1 DEF CacheType, Loaded
  <2> HIDE DEF q
  <2> QED BY <1>1, <1>2, <2>1, OneWritten
<1> HIDE DEF q
<1>5. /\ t.ent[e] = q
      /\ \A d \in Entries \ {e} : t.ent[d] = s.ent[d]
  BY <1>1, <1>3 DEF CacheType
<1>6. r \in EntryType /\ Standing(r, s.ent[e])
  BY <1>2 DEF EntryType, Standing, Alike
<1>7. /\ u.ent = [t.ent EXCEPT ![e] = r]
      /\ u.activ = s.activ /\ u.inactiv = s.inactiv /\ u.dirty = s.dirty
      /\ u.lru = s.lru /\ u.usage = s.usage /\ u.limit = s.limit /\ u.may = s.may
      /\ u.bad = s.bad /\ u.inform = s.inform /\ u.phase = s.phase /\ u.flagged = s.flagged
      /\ u.preload = s.preload \ {e} /\ u.pend = s.pend \ {e}
  BY <1>2, <1>3, <1>4, <1>5 DEF CacheType, Ended
<1>8. u \in CacheType
  <2>1. \A k \in EntryType :
          [t EXCEPT !.preload = @ \ {e}, !.pend = @ \ {e}, !.ent[e] = k] \in CacheType
    BY <1>4, ZenonT(40) DEF CacheType
  <2>2. u = [t EXCEPT !.preload = @ \ {e}, !.pend = @ \ {e},
                      !.ent[e] = [t.ent[e] EXCEPT !.done = t.ent[e].loaded]]
    BY <1>4 DEF CacheType, Ended
  <2>3. [t.ent[e] EXCEPT !.done = t.ent[e].loaded] = r
    BY <1>2, <1>5
  <2> HIDE DEF u, r
  <2> QED BY <1>6, <2>1, <2>2, <2>3
<1> HIDE DEF u
<1>9. /\ u.ent[e] = r
      /\ \A d \in Entries \ {e} : u.ent[d] = s.ent[d]
  BY <1>4, <1>5, <1>7 DEF CacheType
<1> HIDE DEF r
<1>10. e \notin s.preload /\ e \notin s.pend
  BY <1>1 DEF EntryOK, JobOK
<1>11. Good(t, im, pre, cp, dk, cl)
  <2>1. SameBut(s, t, e) /\ Standing(t.ent[e], s.ent[e])
    BY <1>2, <1>3, <1>5 DEF SameBut
  <2>2. /\ e \in t.preload <=> e \in s.preload
        /\ e \in t.pend <=> e \in s.pend
        /\ e \in t.flagged <=> e \in s.flagged
        /\ t.phase[e] = s.phase[e] \/ (HasJob(s, e) /\ t.phase[e] \notin {"idle", "queued"})
    BY <1>3
  <2> QED BY <1>4, <2>1, <2>2, PixelsGood
<1>12. Good(u, im, pre, cp, dk, cl)
  <2>1. SameBut(s, u, e) /\ Standing(u.ent[e], s.ent[e])
    BY <1>6, <1>7, <1>9 DEF SameBut
  <2>2. /\ e \in u.preload <=> e \in s.preload
        /\ e \in u.pend <=> e \in s.pend
        /\ e \in u.flagged <=> e \in s.flagged
        /\ u.phase[e] = s.phase[e] \/ (HasJob(s, e) /\ u.phase[e] \notin {"idle", "queued"})
    BY <1>7, <1>10
  <2> QED BY <1>8, <2>1, <2>2, PixelsGood
<1>13. JobsSame(s, t) /\ JobsSame(s, u)
  BY <1>3, <1>7 DEF JobsSame
<1> QED BY <1>2, <1>5, <1>6, <1>7, <1>9, <1>11, <1>12, <1>13 DEF u, Standing, Alike

\* When no object holds an image, no target is left, no image has a reference, and
\* every job has been cancelled: the loop over the list `preload' finds nothing.
LEMMA NobodyHolds ==
  ASSUME NEW s, NEW im, NEW pre, NEW dk, NEW cl, Good(s, im, pre, None, dk, cl),
         \A o \in Objects : im[o] = None, NEW e \in Entries
  PROVE  /\ pre = {} /\ s.ent[e].targets = <<>> /\ (s.ent[e].alive => s.ent[e].refs = 0)
         /\ e \notin s.preload /\ (HasJob(s, e) => s.ent[e].pending)
<1>1. /\ s \in CacheType /\ Users(im, pre, None) /\ EntryOK(s, im, pre, None, dk, cl, e)
      /\ Evictable(s, e)
  BY DEF Good, Core
<1>2. pre = {}
  BY <1>1 DEF Users
<1>3. s.ent[e].targets = <<>>
  <2>1. s.ent[e].targets \in Seq(Objects) /\ Range(s.ent[e].targets) = {}
    BY <1>1, <1>2, EntryTyped DEF EntryType, EntryOK, Target
  <2>2. s.ent[e].targets # <<>> => Head(s.ent[e].targets) \in Range(s.ent[e].targets)
    BY <1>1, <2>1, TailInjective DEF EntryOK, JobOK
  <2> QED BY <2>1, <2>2
<1>4. s.ent[e].alive => s.ent[e].refs = 0
  <2>1. Holding(im, e) = {} /\ None # e
    BY CacheAssumption DEF Holding
  <2>2. Cardinality(Holding(im, e)) = 0
    BY <2>1, FS_EmptySet
  <2> QED BY <1>1, <2>1, <2>2 DEF EntryOK, HeldOK
<1>5. HasJob(s, e) => s.ent[e].pending
  BY <1>1, <1>3 DEF Evictable, Wanted
<1> QED BY <1>1, <1>2, <1>3, <1>4, <1>5 DEF EntryOK, JobOK

\* _evas_cache_image_entry_delete, in the shutdown: the image is freed, or marked
\* to be freed when its job is over.
LEMMA ClosingDelete ==
  ASSUME NEW s, NEW im, NEW pre, NEW dk, NEW cl, cl, Good(s, im, pre, None, dk, cl),
         \A o \in Objects : im[o] = None, NEW e \in Entries, s.ent[e].alive
  PROVE  Good(EntryDelete(s, e), im, pre, None, dk, cl) /\ JobsSame(s, EntryDelete(s, e))
<1>1. /\ Core(s, im, pre, None, dk, cl) /\ FitsOK(s) /\ \A d \in Entries : Evictable(s, d)
      /\ s \in CacheType /\ EntryOK(s, im, pre, None, dk, cl, e) /\ s.ent[e] \in EntryType
      /\ Users(im, pre, None)
  BY EntryTyped DEF Good, Core
<1>2. /\ s.ent[e].targets = <<>> /\ s.ent[e].refs = 0
      /\ (HasJob(s, e) => s.ent[e].pending)
  BY NobodyHolds
<1>3. CASE s.ent[e].deleteMe
  BY <1>3 DEF EntryDelete, JobsSame
<1>4. CASE ~s.ent[e].deleteMe /\ ~HasJob(s, e)
  <2>1. EntryDelete(s, e) = Destroy(s, e)
    BY <1>4 DEF EntryDelete
  <2>2. Good(Destroy(s, e), im, pre, None, dk, cl) /\ JobsSame(s, Destroy(s, e))
    BY <1>1, <1>2, <1>4, DestroyGood
  <2> QED BY <2>1, <2>2
<1>5. CASE ~s.ent[e].deleteMe /\ HasJob(s, e)
  <2> DEFINE x == [s EXCEPT !.ent[e].deleteMe = TRUE]
             q == [s.ent[e] EXCEPT !.deleteMe = TRUE]
  <2>1. /\ q \in EntryType /\ Alike(q, s.ent[e]) /\ q.deleteMe = TRUE /\ q.data = s.ent[e].data
        /\ q.pending = s.ent[e].pending /\ q.targets = <<>>
    BY <1>1, <1>2, DeleteSet
  <2>2. /\ x.ent = [s.ent EXCEPT ![e] = q]
        /\ x.activ = s.activ /\ x.inactiv = s.inactiv /\ x.dirty = s.dirty
        /\ x.lru = s.lru /\ x.usage = s.usage /\ x.limit = s.limit /\ x.may = s.may
        /\ x.bad = s.bad /\ x.inform = s.inform /\ x.phase = s.phase /\ x.flagged = s.flagged
        /\ x.preload = s.preload /\ x.pend = s.pend
    BY <1>1 DEF CacheType
  <2>3. x \in CacheType
    <3>1. x = [s EXCEPT !.ent[e] = q]
      BY <1>1 DEF CacheType
    <3> HIDE DEF x, q
    <3> QED BY <1>1, <2>1, <3>1, OneWritten
  <2> HIDE DEF q
  <2>4. /\ x.ent[e] = q
        /\ \A d \in Entries \ {e} : x.ent[d] = s.ent[d]
    BY <1>1, <2>2 DEF CacheType
  <2>5. EntryDelete(s, e) = PreloadRemove(x, e, None)
    BY <1>5 DEF EntryDelete
  <2> HIDE DEF x
  <2>6. PreloadRemove(x, e, None) = x
    <3> DEFINE t == [x EXCEPT !.ent[e].targets = <<>>]
    <3>1. t = x
      <4>1. [q EXCEPT !.targets = <<>>] = q
        BY <2>1 DEF EntryType
      <4>2. [x.ent EXCEPT ![e].targets = <<>>] = x.ent
        BY <2>3, <2>4, <4>1 DEF CacheType
      <4> QED BY <2>3, <4>2 DEF CacheType
    <3>2. x.ent[e].alive /\ x.ent[e].targets = <<>> /\ x.ent[e].pending
      BY <1>2, <1>5, <2>1, <2>4 DEF Alike
    <3>3. PreloadRemove(x, e, None) = IF t.ent[e].targets = <<>> THEN CancelJob(t, e) ELSE t
      BY <3>2 DEF PreloadRemove
    <3> HIDE DEF t
    <3>4. CancelJob(x, e) = x
      BY <3>2 DEF CancelJob
    <3> QED BY <3>1, <3>2, <3>3, <3>4
  <2>7. SameBut(s, x, e) /\ Identity(s, x, e)
    BY <2>1, <2>2, <2>4 DEF SameBut, Identity
  <2>8. JobOK(x, e) /\ DeletesOK(x, cl, e)
    BY <1>1, <1>2, <1>5, <2>1, <2>2, <2>4 DEF EntryOK, JobOK, DeletesOK, HasJob, Alike
  <2>9. /\ x.ent[e].data = s.ent[e].data \/ e \notin s.inactiv
        /\ Does(s, "preload") \/ (x.phase[e] = "idle" /\ x.ent[e].targets = <<>>)
        /\ Range(x.ent[e].targets) = Target(im, pre, e)
    BY <1>1, <1>2, <1>5, <2>1, <2>2, <2>4 DEF EntryOK, ProgramOK, HasJob
  <2>10. \A d \in Entries \ {e} : Target(im, pre, d) = Target(im, pre, d)
    OBVIOUS
  <2>11. /\ Core(x, im, pre, None, dk, cl)
         /\ FitsOK(s) => FitsOK(x)
         /\ \A d \in Entries \ {e} : Evictable(s, d) => Evictable(x, d)
    <3> DEFINE cp == None
    <3>1. Core(s, im, pre, cp, dk, cl) /\ Users(im, pre, cp)
      BY <1>1
    <3> HIDE DEF cp
    <3>2. /\ Core(x, im, pre, cp, dk, cl)
          /\ FitsOK(s) => FitsOK(x)
          /\ \A d \in Entries \ {e} : Evictable(s, d) => Evictable(x, d)
      BY <2>3, <2>7, <2>8, <2>9, <2>10, <3>1, JobStep, ZenonT(40)
    <3> QED BY <3>2 DEF cp
  <2>12. Evictable(x, e)
    BY <1>2, <1>5, <2>1, <2>2, <2>4 DEF Evictable, Wanted, HasJob
  <2>13. Good(x, im, pre, None, dk, cl) /\ JobsSame(s, x)
    BY <1>1, <2>2, <2>11, <2>12 DEF Good, JobsSame
  <2> QED BY <2>5, <2>6, <2>13
<1> QED BY <1>3, <1>4, <1>5
=============================================================================
