-------------------------- MODULE EvasImageCache --------------------------
(***************************************************************************)
(* The image cache (lib/cache/evas_cache_image.c) as the image objects of  *)
(* a canvas (lib/canvas/evas_object_image.c) use it through the software   *)
(* engine, while preload threads load pixels behind its back.              *)
(*                                                                         *)
(* The C functions that run in the main thread without waiting are         *)
(* operators from a state of the cache to the next one, named after the    *)
(* functions and called by each other as in the code; an action is one     *)
(* call by an image object, one step of the thread that runs an entry's    *)
(* job, or one event the main thread takes from the pipe. The jobs are     *)
(* those of PreloadJobs, one per entry.                                    *)
(***************************************************************************)
EXTENDS Integers, FiniteSets, SequencesExt

CONSTANTS
  Entries,      \* blocks malloc can return for an Image_Entry
  Objects,      \* image objects: they hold entries, and are preload targets
  Keys,         \* file names (with key and load options: hkey)
  Stamps,       \* what stat() may say of a file (mtime, size, inode)
  None,         \* NULL
  Limits,       \* values evas_image_cache_set may be called with
  Programs      \* what may happen besides: sets of kinds of behaviour, see below

Kinds ==
  {"preload",   \* objects call evas_object_image_preload
   "dirty",     \* objects write to their images
   "change",    \* files change on disk or go away
   "unload",    \* evas_render_dump is called
   "fail",      \* a loader fails, or refuses to run in a thread; no memory for a target
   "reenter"}   \* preload callbacks call the image functions

ASSUME CacheAssumption ==
  /\ IsFiniteSet(Entries) /\ IsFiniteSet(Objects)
  /\ None \notin Entries \union Objects \union Keys \union Stamps
  /\ Limits \subseteq Nat
  /\ Programs \subseteq [does : SUBSET Kinds, uses : SUBSET Objects]

VARIABLES
  c,           \* the cache, its entries and their jobs: see TypeOK
  img,         \* [Objects -> Entries \cup {None}]: o->engine_data
  file,        \* [Objects -> Keys \cup {None}]: o->cur.file
  preloading,  \* the objects with o->preloading set
  disk,        \* [Keys -> Stamps \cup {None}]: what stat() says now
  m            \* where the main thread is

vars == <<c, img, file, preloading, disk, m>>

\* The application may do this, in the behaviour at hand.
May(kind) == kind \in c.may.does

Idle == [pc |-> "idle", o |-> None, e |-> None, copy |-> None, then |-> "none", had |-> FALSE,
         asleep |-> FALSE]

\* A block that is not allocated.
Blank ==
  [alive |-> FALSE, key |-> None, file |-> FALSE, stamp |-> None, refs |-> 0,
   dirty |-> FALSE, activ |-> FALSE, lru |-> FALSE, loaded |-> FALSE, data |-> FALSE,
   done |-> FALSE, pending |-> FALSE, deleteMe |-> FALSE, unloadCancel |-> FALSE,
   targets |-> <<>>]

Quiet == [e |-> None, cb |-> FALSE, settle |-> FALSE]

Init ==
  /\ c \in [ent : {[e \in Entries |-> Blank]},
            activ : {{}}, inactiv : {{}}, lru : {<<>>}, dirty : {{}},
            preload : {{}}, pend : {{}}, usage : {0}, limit : Limits,
            phase : {[e \in Entries |-> "idle"]}, flagged : {{}},
            inform : {Quiet}, bad : {FALSE}, may : Programs]
  /\ img = [o \in Objects |-> None]
  /\ file = [o \in Objects |-> None]
  /\ preloading = {}
  /\ disk \in [Keys -> IF May("change") THEN Stamps \union {None} ELSE Stamps]
  /\ m = Idle

\* Using a block that is freed.
Touch(s, e) == [s EXCEPT !.bad = @ \/ ~s.ent[e].alive]

HasJob(s, e) == s.phase[e] # "idle"                             \* ie->preload
LockHeld     == {"loading", "loaded", "checked"}  \* the thread has ie->lock

-----------------------------------------------------------------------------
\* The lists: dirty, activ (a hash), and lru with its hash inactiv

\* _evas_common_rgba_image_ram_usage: the struct, and the pixels if any.
MemSize(s, e) == IF s.ent[e].data THEN 2 ELSE 1
Usage(s, S) == Cardinality(S) + Cardinality({e \in S : s.ent[e].data})

DirtyDel(s, e) ==
  IF ~s.ent[e].dirty THEN s
  ELSE [s EXCEPT !.ent[e].dirty = FALSE, !.dirty = @ \ {e}]

ActivDel(s, e) ==
  IF ~s.ent[e].activ \/ s.ent[e].key = None THEN s
  ELSE [s EXCEPT !.ent[e].activ = FALSE, !.activ = @ \ {e}]

\* Mutant of LruDel: the pixels are not counted.
LruDelStructOnly(s, e) ==
  IF ~s.ent[e].lru \/ s.ent[e].key = None THEN s
  ELSE [s EXCEPT !.ent[e].lru = FALSE, !.inactiv = @ \ {e}, !.lru = RemoveFirst(@, e),
                 !.usage = @ - 1]

LruDel(s, e) ==
  IF ~s.ent[e].lru \/ s.ent[e].key = None THEN s
  ELSE [s EXCEPT !.ent[e].lru = FALSE, !.inactiv = @ \ {e}, !.lru = RemoveFirst(@, e),
                 !.usage = @ - MemSize(s, e)]

DirtyAdd(s, e) ==
  IF s.ent[e].dirty THEN s
  ELSE [LruDel(ActivDel(s, e), e) EXCEPT !.ent[e].dirty = TRUE, !.dirty = @ \union {e},
                                         !.ent[e].key = None]

ActivAdd(s, e) ==
  IF s.ent[e].activ THEN s
  ELSE LET t == LruDel(DirtyDel(s, e), e)
       IN  IF t.ent[e].key = None THEN t
           ELSE [t EXCEPT !.ent[e].activ = TRUE, !.activ = @ \union {e}]

LruAdd(s, e) ==
  IF s.ent[e].lru THEN s
  ELSE LET t == ActivDel(DirtyDel(s, e), e)
       IN  IF t.ent[e].key = None THEN t
           ELSE [t EXCEPT !.ent[e].lru = TRUE, !.inactiv = @ \union {e},
                          !.lru = <<e>> \o @, !.usage = @ + MemSize(t, e)]

-----------------------------------------------------------------------------
\* Freeing an entry, and the jobs

\* The end of _evas_cache_image_entry_delete.
Destroy(s, e) ==
  [LruDel(ActivDel(DirtyDel(s, e), e), e) EXCEPT !.ent[e] = Blank]

\* evas_cache_image_flush: the tail of the lru list is deleted, an entry at a
\* time, until usage is within the limit; it is compared as an unsigned int.
Behind(l, n) == SubSeq(l, n + 1, Len(l))

OverLimit(s) == s.usage < 0 \/ s.limit < s.usage

\* What stays of the lru list: as much as fits.
Stay(s) ==
  LET fits(n) == ~OverLimit([s EXCEPT !.usage = @ - Usage(s, Range(Behind(s.lru, n)))])
  IN  Max({n \in 0 .. Len(s.lru) : n = 0 \/ fits(n)})

\* An entry with a job would stay on the list for ever.
Evict(s, S) ==
  [s EXCEPT !.ent = [e \in Entries |-> IF e \in S THEN Blank ELSE @[e]],
            !.inactiv = @ \ S, !.usage = @ - Usage(s, S),
            !.bad = @ \/ \E e \in S : HasJob(s, e)]

Flush(s) ==
  LET n == Stay(s)
  IN  [Evict(s, Range(Behind(s.lru, n))) EXCEPT !.lru = SubSeq(@, 1, n)]

\* Mutant of Settle: an unused entry is not put into the lru list.
SettleNot(s, e) == s

\* The end of _evas_cache_image_async_cancel.
Settle(s, e) == IF s.ent[e].refs = 0 THEN Flush(LruAdd(s, e)) ELSE s

\* _evas_cache_image_async_end: the targets are informed one by one by the
\* Inform steps below; settle says whether async_cancel goes on afterwards.
AsyncEnd(s, e, settle) ==
  LET t == [s EXCEPT !.preload = @ \ {e}, !.pend = @ \ {e},
                     !.ent[e].done = s.ent[e].loaded]
  IN  IF t.ent[e].targets # <<>>
      THEN [t EXCEPT !.inform = [e |-> e, cb |-> FALSE, settle |-> settle]]
      ELSE IF settle THEN Settle(t, e) ELSE t

\* Mutant of AsyncCancel: the targets are not informed.
AsyncCancelSilent(s, e) ==
  LET t == [s EXCEPT !.pend = @ \ {e}]
  IN  IF s.ent[e].deleteMe \/ s.ent[e].dirty
      THEN Destroy([t EXCEPT !.ent[e].deleteMe = FALSE], e)
      ELSE Settle(t, e)

\* _evas_cache_image_async_cancel, with ie->preload NULL already.
AsyncCancel(s, e) ==
  LET t == [s EXCEPT !.pend = @ \ {e}]
  IN  IF s.ent[e].deleteMe \/ s.ent[e].dirty
      THEN Destroy([t EXCEPT !.ent[e].deleteMe = FALSE], e)
      ELSE IF s.ent[e].loaded THEN AsyncEnd(t, e, TRUE) ELSE Settle(t, e)

\* Mutants of ThreadCancel: func_cancel is not called for a queued job; a job
\* is given up although a thread has it.
ThreadCancelSilent(s, e) ==
  IF s.phase[e] = "queued" THEN [s EXCEPT !.phase[e] = "idle"]
  ELSE [s EXCEPT !.flagged = @ \union {e}]

ThreadCancelAlways(s, e) == AsyncCancel([s EXCEPT !.phase[e] = "idle"], e)

\* evas_preload_thread_cancel of the entry's job.
ThreadCancel(s, e) ==
  IF s.phase[e] = "queued"
  THEN AsyncCancel([s EXCEPT !.phase[e] = "idle"], e)
  ELSE [s EXCEPT !.flagged = @ \union {e}]

\* The cancellation that preload_remove and load_data have in common.
CancelJob(s, e) ==
  IF HasJob(s, e) /\ ~s.ent[e].pending
  THEN ThreadCancel([s EXCEPT !.preload = @ \ {e}, !.pend = @ \union {e},
                              !.ent[e].pending = TRUE], e)
  ELSE s

\* _evas_cache_image_entry_preload_remove: one target, or all of them.
PreloadRemove(s, e, o) ==
  IF ~s.ent[e].alive THEN Touch(s, e)
  ELSE LET t == [s EXCEPT !.ent[e].targets = IF o = None THEN <<>> ELSE RemoveFirst(@, o)]
       IN  IF t.ent[e].targets = <<>> THEN CancelJob(t, e) ELSE t

\* _evas_cache_image_entry_preload_add.
PreloadAdd(s, e, o) ==
  LET t == [s EXCEPT !.ent[e].targets = Append(@, o)]
  IN  IF HasJob(s, e) THEN t
      ELSE [t EXCEPT !.preload = @ \union {e}, !.ent[e].pending = FALSE,
                     !.phase[e] = "queued"]

\* _evas_cache_image_entry_delete.
EntryDelete(s, e) ==
  IF s.ent[e].deleteMe THEN s
  ELSE IF HasJob(s, e) THEN PreloadRemove([s EXCEPT !.ent[e].deleteMe = TRUE], e, None)
  ELSE Destroy(s, e)

-----------------------------------------------------------------------------
\* The calls of an image object, through the software engine

\* Mutants of Drop: a running preload is not stopped; the count is decremented
\* without a look at it.
DropKeepsJob(s, e) ==
  LET t == [s EXCEPT !.ent[e].refs = IF @ = 0 THEN 0 ELSE @ - 1]
  IN  IF t.ent[e].refs > 0 THEN t ELSE Flush(LruAdd(t, e))

DropTwice(s, e) == [s EXCEPT !.ent[e].refs = @ - 2]

\* evas_cache_image_drop.
Drop(s, e) ==
  IF ~s.ent[e].alive THEN Touch(s, e)
  ELSE LET t == [s EXCEPT !.ent[e].refs = IF @ = 0 THEN 0 ELSE @ - 1]
       IN  IF t.ent[e].refs > 0 THEN t
           ELSE IF HasJob(t, e) THEN PreloadRemove(t, e, None)
           ELSE IF t.ent[e].dirty THEN EntryDelete(t, e)
           ELSE Flush(LruAdd(t, e))

\* Mutant of StopPreload: the object goes without giving up its preload.
StopPreloadForgotten(s, o) == s

\* The object gives up its preload, and then its image.
StopPreload(s, o) ==
  IF o \in preloading THEN PreloadRemove(s, img[o], o) ELSE s

Release(s, o) ==
  IF img[o] = None THEN s ELSE Drop(StopPreload(s, o), img[o])

FreeBlocks(s) == {e \in Entries : ~s.ent[e].alive /\ ~HasJob(s, e)}

\* _evas_cache_image_entry_new for a file, and for pixels without a file.
EntryNew(s, e, k) ==
  [s EXCEPT !.ent[e] = [Blank EXCEPT !.alive = TRUE, !.key = k, !.file = TRUE,
                                     !.stamp = disk[k], !.activ = TRUE],
            !.activ = @ \union {e}]

EntryCopied(s, e) ==
  [s EXCEPT !.ent[e] = [Blank EXCEPT !.alive = TRUE, !.data = TRUE, !.dirty = TRUE,
                                     !.refs = 1],
            !.dirty = @ \union {e}]

\* eina_hash_find, in activ or inactiv.
Find(s, S, k) ==
  IF \E e \in S : s.ent[e].key = k THEN CHOOSE e \in S : s.ent[e].key = k ELSE None

Fresh(s, e, k) == e # None /\ disk[k] # None /\ s.ent[e].stamp = disk[k]

\* The results of evas_cache_image_request: the cache and the entry, or NULL.
\* A stale entry is taken off the lists, so that it is never found again, and
\* deleted if it was in the lru list. The new entry is refused when stat() or
\* the loader's constructor fails, or no block is free.
Requests(s, k) ==
  LET a  == Find(s, s.activ, k)
      s1 == IF a = None THEN s ELSE DirtyAdd(s, a)
      b  == Find(s1, s1.inactiv, k)
      s2 == IF b = None THEN s1 ELSE EntryDelete(DirtyAdd(s1, b), b)
      Ref(t, e) == <<[t EXCEPT !.ent[e].refs = @ + 1], e>>
  IN  IF Fresh(s, a, k) THEN {Ref(s, a)}
      ELSE IF Fresh(s1, b, k) THEN {Ref(ActivAdd(LruDel(s1, b), b), b)}
      ELSE {Ref(EntryNew(s2, e, k), e) : e \in IF disk[k] = None THEN {} ELSE FreeBlocks(s2)}
             \union (IF disk[k] = None \/ May("fail") \/ FreeBlocks(s2) = {}
                     THEN {<<s2, None>>} ELSE {})

\* The main thread is neither asleep on cond_wakeup nor in the loop of AsyncEnd,
\* and has not used a freed block: nothing is said of what it does afterwards.
Steady == c.inform = Quiet /\ ~c.bad /\ ~m.asleep

\* Calls are made from the main loop, or from a callback in AsyncEnd.
InCall ==
  \/ m.pc = "idle" /\ Steady
  \/ May("reenter") /\ c.inform.cb /\ ~c.bad

\* evas_object_image_file_set.
FileSet(o, k) ==
  /\ InCall
  /\ o \in c.may.uses
  /\ file[o] # k
  /\ \E r \in Requests(Release(c, o), k) :
       /\ c' = r[1]
       /\ img' = [img EXCEPT ![o] = r[2]]
  /\ file' = [file EXCEPT ![o] = k]
  /\ preloading' = preloading \ {o}
  /\ UNCHANGED <<disk, m>>

\* evas_object_image_free, and evas_object_image_unload(obj, 0), which keeps
\* the file for evas_object_image_load.
LetGo(o) ==
  /\ InCall
  /\ img[o] # None
  /\ c' = Release(c, o)
  /\ img' = [img EXCEPT ![o] = None]
  /\ preloading' = preloading \ {o}
  /\ UNCHANGED <<disk, m>>

ObjectFree(o)   == LetGo(o) /\ file' = [file EXCEPT ![o] = None]
ObjectUnload(o) == LetGo(o) /\ UNCHANGED file

\* evas_object_image_load.
ObjectLoad(o) ==
  /\ InCall
  /\ img[o] = None /\ file[o] # None
  /\ \E r \in Requests(c, file[o]) :
       /\ c' = r[1]
       /\ img' = [img EXCEPT ![o] = r[2]]
  /\ UNCHANGED <<file, preloading, disk, m>>

\* evas_object_image_preload(obj, 0) of an image that is not preloading: it is
\* reported at once when the pixels are there, or there is no memory to wait for them.
Preload(o) ==
  /\ May("preload") /\ InCall
  /\ img[o] # None /\ c.ent[img[o]].alive /\ o \notin preloading
  /\ LET e == img[o]
         s == [c EXCEPT !.ent[e].loaded = FALSE]
     IN  IF c.ent[e].loaded /\ c.ent[e].data THEN UNCHANGED <<c, preloading>>
         ELSE \/ /\ c.ent[e].done \/ May("fail")
                 /\ c' = s /\ UNCHANGED preloading
              \/ /\ ~c.ent[e].done
                 /\ c' = PreloadAdd(s, e, o) /\ preloading' = preloading \union {o}
  /\ UNCHANGED <<img, file, disk, m>>

\* evas_object_image_preload(obj, 1).
PreloadCancel(o) ==
  /\ InCall
  /\ img[o] # None /\ o \in preloading
  /\ c' = PreloadRemove(c, img[o], o)
  /\ preloading' = preloading \ {o}
  /\ UNCHANGED <<img, file, disk, m>>

-----------------------------------------------------------------------------
\* Calls that write to an image, or wait for its pixels

\* evas_cache_image_alone and evas_cache_image_dirty of an image nobody shares.
OwnWrite(s, e) == IF s.ent[e].alive THEN DirtyAdd(s, e) ELSE Touch(s, e)

\* evas_object_image_alpha_set.
AlphaSetOwn(o) ==
  /\ May("dirty") /\ InCall
  /\ img[o] # None /\ c.ent[img[o]].refs <= 1
  /\ c' = OwnWrite(StopPreload(c, o), img[o])
  /\ preloading' = preloading \ {o}
  /\ UNCHANGED <<img, file, disk, m>>

\* evas_object_image_unload(obj, 1), of evas_image_cache_reload: the image is
\* made dirty before the preload is stopped.
ReloadOwn(o) ==
  /\ May("dirty") /\ InCall
  /\ img[o] # None /\ file[o] # None
  /\ c.ent[img[o]].refs <= 1 \/ c.ent[img[o]].dirty
  /\ c' = Release(OwnWrite(c, img[o]), o)
  /\ img' = [img EXCEPT ![o] = None]
  /\ preloading' = preloading \ {o}
  /\ UNCHANGED <<file, disk, m>>

\* evas_cache_image_load_data as far as the wait: what a draw calls, and what
\* cache->func.dirty calls on the original of a copy.
LoadStart(o, then, s, n) ==
  /\ m.pc = "idle" /\ Steady
  /\ img[o] # None /\ s.ent[img[o]].alive
  /\ LET e == img[o]
         wait == ~s.ent[e].loaded
     IN  /\ c' = IF wait THEN CancelJob(s, e) ELSE s
         /\ m' = [pc |-> IF wait THEN "wait" ELSE "ready", o |-> o, e |-> e, copy |-> n,
                  then |-> then, had |-> wait /\ HasJob(s, e), asleep |-> FALSE]
  /\ UNCHANGED <<img, file, disk>>

Draw(o) == LoadStart(o, "draw", c, None) /\ UNCHANGED preloading

\* evas_cache_image_alone and evas_cache_image_dirty of a shared image: there
\* is a block for a copy (the bound on Entries), the original is loaded for
\* it, and in LoadReturn the object drops the original.
AlphaSetShared(o) ==
  /\ May("dirty")
  /\ img[o] # None /\ c.ent[img[o]].refs > 1
  /\ \E n \in FreeBlocks(c) : LoadStart(o, "alpha", EntryCopied(StopPreload(c, o), n), n)
  /\ preloading' = preloading \ {o}

ReloadShared(o) ==
  /\ May("dirty")
  /\ img[o] # None /\ file[o] # None
  /\ c.ent[img[o]].refs > 1 /\ ~c.ent[img[o]].dirty
  /\ \E n \in FreeBlocks(c) : LoadStart(o, "reload", EntryCopied(c, n), n)
  /\ UNCHANGED preloading

\* evas_cache_image_load_data and evas_cache_image_shutdown sleep on cond_wakeup
\* when there was no event left and what they wait for is not over. No lock is
\* held from the last read of the pipe to the wait, nor taken for a broadcast:
\* one that comes in between wakes nobody, so nothing says that WakeUp will be
\* taken (EvasPreload, WaitEnds). No event is read until then.
Sleep ==
  /\ Steady
  /\ \A e \in Entries : c.phase[e] # "posted"
  /\ \/ m.pc = "wait" /\ HasJob(c, m.e)
     \/ m.pc = "pending" /\ c.pend # {}
  /\ m' = [m EXCEPT !.asleep = TRUE]
  /\ UNCHANGED <<c, img, file, preloading, disk>>

\* A broadcast that found it asleep, or a spurious wakeup.
WakeUp ==
  /\ m.asleep
  /\ m' = [m EXCEPT !.asleep = FALSE]
  /\ UNCHANGED <<c, img, file, preloading, disk>>

\* The job is over: the pixels are loaded here unless the job has loaded them.
LoadFinish ==
  /\ m.pc = "wait" /\ Steady
  /\ ~HasJob(c, m.e)
  /\ IF ~c.ent[m.e].alive \/ c.ent[m.e].loaded THEN c' = Touch(c, m.e)
     ELSE \E ok \in BOOLEAN :
            /\ ok => c.ent[m.e].file
            /\ ~ok => May("fail") \/ ~c.ent[m.e].file
            /\ LET s == [c EXCEPT !.ent[m.e].data = TRUE, !.ent[m.e].loaded = ok]
               IN  c' = IF m.had THEN AsyncEnd(s, m.e, FALSE) ELSE s
  /\ m' = [m EXCEPT !.pc = "ready"]
  /\ UNCHANGED <<img, file, preloading, disk>>

\* The call goes on.
LoadReturn ==
  /\ m.pc = "ready" /\ Steady
  /\ \/ m.then = "draw" /\ c' = Touch(c, m.e) /\ UNCHANGED <<img, preloading>>
     \/ /\ m.then = "alpha"
        /\ c' = Drop(c, m.e)
        /\ img' = [img EXCEPT ![m.o] = m.copy]
        /\ UNCHANGED preloading
     \/ /\ m.then = "reload"
        /\ LET s == Drop(c, m.e)
               t == IF m.o \in preloading THEN PreloadRemove(s, m.copy, m.o) ELSE s
           IN  c' = Drop(t, m.copy)
        /\ img' = [img EXCEPT ![m.o] = None]
        /\ preloading' = preloading \ {m.o}
  /\ m' = Idle
  /\ UNCHANGED <<file, disk>>

-----------------------------------------------------------------------------
\* Calls on the whole cache

\* evas_image_cache_set, and evas_image_cache_flush, which sets the limit to 0
\* and back.
CacheSet(l) ==
  /\ InCall
  /\ c.limit # l
  /\ c' = Flush([c EXCEPT !.limit = l])
  /\ UNCHANGED <<img, file, preloading, disk, m>>

CacheFlush ==
  /\ InCall
  /\ c.limit # 0
  /\ c' = [Flush([c EXCEPT !.limit = 0]) EXCEPT !.limit = c.limit]
  /\ UNCHANGED <<img, file, preloading, disk, m>>

\* evas_cache_image_unload_data: the pixels go, or, when the thread that loads
\* them has the entry's lock, it is told to throw them away.
UnloadData(e) ==
  LET ent == c.ent[e]
  IN  IF c.phase[e] \in LockHeld THEN [ent EXCEPT !.unloadCancel = TRUE]
      ELSE IF ~ent.loaded \/ ~ent.file \/ ent.dirty THEN ent
      ELSE [ent EXCEPT !.data = FALSE, !.loaded = FALSE, !.done = FALSE]

UnloadAll ==
  /\ May("unload") /\ InCall
  /\ c' = [c EXCEPT !.ent = [e \in Entries |->
              IF e \in Range(c.lru) \union c.activ \union c.inactiv THEN UnloadData(e) ELSE @[e]]]
  /\ UNCHANGED <<img, file, preloading, disk, m>>

\* Somebody writes, replaces or removes the file.
FileChanges(k) ==
  /\ May("change")
  /\ \E st \in (Stamps \union {None}) \ {disk[k]} : disk' = [disk EXCEPT ![k] = st]
  /\ UNCHANGED <<c, img, file, preloading, m>>

-----------------------------------------------------------------------------
\* The thread that runs an entry's job: _evas_cache_image_async_heavy

ThreadStep(e, from, to) ==
  /\ c.phase[e] = from
  /\ UNCHANGED <<img, file, preloading, disk, m>>

JobTaken(e) ==
  /\ ThreadStep(e, "queued", "taken")
  /\ c' = [c EXCEPT !.phase[e] = "taken"]

\* info.module is dereferenced without a test: NULL in an image without a file.
JobLocks(e) ==
  /\ ThreadStep(e, "taken", "loading")
  /\ c' = [c EXCEPT !.phase[e] = "loading", !.bad = @ \/ ~c.ent[e].file]

\* The pixels, or none: a loader that fails leaves an empty surface, and one
\* that is not for threads is not called.
JobLoads(e) ==
  /\ ThreadStep(e, "loading", "loaded")
  /\ \/ /\ ~c.ent[e].loaded
        /\ \E ok \in IF May("fail") THEN BOOLEAN ELSE {TRUE} :
             c' = [c EXCEPT !.phase[e] = "loaded", !.ent[e].data = TRUE, !.ent[e].loaded = ok]
     \/ /\ c.ent[e].loaded \/ May("fail")
        /\ c' = [c EXCEPT !.phase[e] = "loaded"]

\* Under ie->lock_cancel.
JobChecksUnload(e) ==
  /\ ThreadStep(e, "loaded", "checked")
  /\ c' = IF c.ent[e].unloadCancel
          THEN [c EXCEPT !.phase[e] = "checked", !.ent[e].unloadCancel = FALSE,
                         !.ent[e].data = FALSE, !.ent[e].loaded = FALSE, !.ent[e].done = FALSE]
          ELSE [c EXCEPT !.phase[e] = "checked"]

\* ie->lock is released, and the event put into the pipe.
JobPosts(e) ==
  /\ ThreadStep(e, "checked", "posted")
  /\ c' = [c EXCEPT !.phase[e] = "posted"]

Job(e) == JobTaken(e) \/ JobLocks(e) \/ JobLoads(e) \/ JobChecksUnload(e) \/ JobPosts(e)

\* The main thread takes the event from the pipe, in its main loop, in
\* evas_cache_image_load_data or in evas_cache_image_shutdown.
Deliver(e) ==
  /\ c.phase[e] = "posted"
  /\ m.pc \in {"idle", "wait", "process", "pending"} /\ Steady
  /\ LET s == [c EXCEPT !.phase[e] = "idle", !.flagged = @ \ {e}]
     IN  c' = IF e \in c.flagged THEN AsyncCancel(s, e) ELSE AsyncEnd(s, e, FALSE)
  /\ UNCHANGED <<img, file, preloading, disk, m>>

\* The loop of _evas_cache_image_async_end: the first target's callback is
\* called, which an object ignores that is not preloading any more, ...
InformCall ==
  LET e == c.inform.e
  IN  /\ e # None /\ ~c.inform.cb /\ c.ent[e].targets # <<>>
      /\ c' = [c EXCEPT !.inform.cb = TRUE]
      /\ preloading' = preloading \ {Head(c.ent[e].targets)}
      /\ UNCHANGED <<img, file, disk, m>>

\* ... and then the first target is removed.
InformReturn ==
  LET e == c.inform.e
  IN  /\ e # None /\ c.inform.cb
      /\ c' = IF ~c.ent[e].alive \/ c.ent[e].targets = <<>>
              THEN [c EXCEPT !.bad = TRUE, !.inform = Quiet]
              ELSE [c EXCEPT !.inform.cb = FALSE, !.ent[e].targets = Tail(@)]
      /\ UNCHANGED <<img, file, preloading, disk, m>>

InformDone ==
  LET e == c.inform.e
      s == [c EXCEPT !.inform = Quiet]
  IN  /\ e # None /\ ~c.inform.cb /\ c.ent[e].targets = <<>>
      /\ c' = IF c.inform.settle THEN Settle(s, e) ELSE s
      /\ UNCHANGED <<img, file, preloading, disk, m>>

Inform == InformCall \/ InformReturn \/ InformDone

-----------------------------------------------------------------------------
\* evas_cache_image_shutdown, when no object holds an image any more

MainStep(from, to) ==
  /\ m.pc = from /\ Steady
  /\ m' = [m EXCEPT !.pc = to]
  /\ UNCHANGED <<img, file, preloading, disk>>

ShutdownStart ==
  /\ \A o \in Objects : img[o] = None
  /\ MainStep("idle", "cancel")
  /\ UNCHANGED c

\* A loop over a list: each step takes an entry, until none is left.
ShutdownLoop(pc, S, next) == MainStep(pc, next) /\ S = {} /\ UNCHANGED c
ShutdownTakes(pc, S, e)   == MainStep(pc, pc) /\ e \in S

\* EINA_LIST_FREE(cache->preload, im). A drop has cancelled the job of every image
\* that no object holds any more: if the lists are right, this one is empty.
ShutdownCancel ==
  IF c.preload = {} THEN ShutdownLoop("cancel", {}, "process")
  ELSE \E e \in c.preload :
         /\ ShutdownTakes("cancel", c.preload, e)
         /\ c' = PreloadRemove([c EXCEPT !.ent[e].deleteMe = TRUE, !.preload = @ \ {e}], e, None)

\* The events there are have been processed, and every list is emptied by
\* _evas_cache_image_entry_delete. An entry of the dirty list that has a job
\* stays there, and the loop goes round without end; one of the hash activ is
\* left to its job.
ShutdownProcessed ==
  /\ \A e \in Entries : c.phase[e] # "posted"
  /\ UNCHANGED c
  /\ MainStep("process", "lru")

ShutdownDelete(e) ==
  /\ \/ ShutdownTakes("lru", Range(c.lru), e)
     \/ ShutdownTakes("dirty", c.dirty, e)
     \/ ShutdownTakes("activ", {d \in c.activ : ~c.ent[d].deleteMe}, e)
  /\ c' = EntryDelete(c, e)

ShutdownGoesOn ==
  \/ ShutdownProcessed
  \/ ShutdownLoop("lru", Range(c.lru), "dirty")
  \/ ShutdownLoop("dirty", c.dirty, "activ")
  \/ ShutdownLoop("activ", {d \in c.activ : ~c.ent[d].deleteMe}, "pending")
  \/ ShutdownLoop("pending", c.pend, "down")

Shutdown == ShutdownCancel \/ ShutdownGoesOn \/ \E e \in Entries : ShutdownDelete(e)

\* Everything has stopped, or has gone on with a freed block.
Stopped == (m.pc = "down" \/ c.bad) /\ UNCHANGED vars

-----------------------------------------------------------------------------
Call(o) ==
  \/ \E k \in Keys : FileSet(o, k)
  \/ ObjectFree(o) \/ ObjectUnload(o) \/ ObjectLoad(o)
  \/ Preload(o) \/ PreloadCancel(o)
  \/ AlphaSetOwn(o) \/ ReloadOwn(o) \/ Draw(o) \/ AlphaSetShared(o) \/ ReloadShared(o)

Next ==
  \/ \E o \in Objects : Call(o)
  \/ \E l \in Limits : CacheSet(l)
  \/ CacheFlush \/ UnloadAll
  \/ \E k \in Keys : FileChanges(k)
  \/ \E e \in Entries : Job(e) \/ Deliver(e)
  \/ Inform \/ Sleep \/ WakeUp \/ LoadFinish \/ LoadReturn
  \/ ShutdownStart \/ Shutdown \/ Stopped

\* Threads run the jobs; the main loop comes back to the pipe between any two
\* calls, so that an event is taken however often calls come in between; a
\* call or a shutdown that was begun goes on while it does not sleep. Nothing is
\* assumed of the end of a sleep.
Fairness ==
  /\ \A e \in Entries : WF_vars(Job(e)) /\ SF_vars(Deliver(e))
  /\ WF_vars(Inform) /\ WF_vars(LoadFinish) /\ WF_vars(LoadReturn)
  /\ WF_vars(Shutdown)

SafeSpec == Init /\ [][Next]_vars
Spec == SafeSpec /\ Fairness
-----------------------------------------------------------------------------
\* Properties

Alive     == {e \in Entries : c.ent[e].alive}
Holders(e) == {o \in Objects : img[o] = e}
Phases    == {"idle", "queued", "taken", "loading", "loaded", "checked", "posted"}

EntryType ==
  [alive : BOOLEAN, key : Keys \union {None}, file : BOOLEAN, stamp : Stamps \union {None},
   refs : Nat, dirty : BOOLEAN, activ : BOOLEAN, lru : BOOLEAN, loaded : BOOLEAN,
   data : BOOLEAN, done : BOOLEAN, pending : BOOLEAN, deleteMe : BOOLEAN,
   unloadCancel : BOOLEAN, targets : Seq(Objects)]

\* Every variable has its type.
CacheType ==
  [ent : [Entries -> EntryType], activ : SUBSET Entries, inactiv : SUBSET Entries,
   lru : Seq(Entries), dirty : SUBSET Entries, preload : SUBSET Entries,
   pend : SUBSET Entries, usage : Int, limit : Nat, phase : [Entries -> Phases],
   flagged : SUBSET Entries,
   inform : [e : Entries \union {None}, cb : BOOLEAN, settle : BOOLEAN],
   bad : BOOLEAN, may : Programs]

MainType ==
  [pc : {"idle", "wait", "ready", "cancel", "process", "lru", "dirty", "activ", "pending", "down"},
   o : Objects \union {None}, e : Entries \union {None}, copy : Entries \union {None},
   then : {"none", "draw", "alpha", "reload"}, had : BOOLEAN, asleep : BOOLEAN]

TypeOK ==
  /\ c \in CacheType /\ m \in MainType
  /\ img \in [Objects -> Entries \union {None}] /\ file \in [Objects -> Keys \union {None}]
  /\ preloading \subseteq Objects /\ disk \in [Keys -> Stamps \union {None}]

\* An entry that an object, a job, the loop of async_end or load_data still
\* refers to is not freed, and none is used after it was.
NoUseAfterFree ==
  /\ ~c.bad
  /\ \A o \in Objects : img[o] # None => c.ent[img[o]].alive
  /\ \A e \in Entries : HasJob(c, e) => c.ent[e].alive
  /\ \A e \in {c.inform.e, m.e} \ {None} : c.ent[e].alive

\* An entry is on exactly one list, the one its flags say, and has a key unless
\* it is dirty; the lru list and the inactiv hash have the same entries, none
\* of which has a job: cache_flush would go round without end.
ListsMatchFlags ==
  /\ \A e \in Entries :
       /\ c.ent[e].activ <=> e \in c.activ
       /\ c.ent[e].lru   <=> e \in c.inactiv
       /\ c.ent[e].dirty <=> e \in c.dirty
  /\ Alive = c.activ \union c.inactiv \union c.dirty
  /\ c.activ \cap c.inactiv = {} /\ (c.activ \union c.inactiv) \cap c.dirty = {}
  /\ \A e \in Alive : e \in c.dirty <=> c.ent[e].key = None
  /\ Range(c.lru) = c.inactiv /\ IsInjective(c.lru)
  /\ \A e \in c.inactiv : ~HasJob(c, e)

\* "We only have 1 active copy of an image at a given key", and none in the lru
\* list besides: evas_cache_image_request relies on it where it compares a
\* time stamp with a `struct stat' that may not have been filled in.
OneCopyPerKey ==
  \A d, e \in c.activ \union c.inactiv : c.ent[d].key = c.ent[e].key => d = e

\* An image no object holds can be evicted: it is in the lru list, or will be
\* when its job is over.
UnusedIsEvictable ==
  \A e \in Alive :
    c.ent[e].refs = 0 => e \in c.inactiv \/ HasJob(c, e) \/ c.inform.e = e

\* All three, whatever was shared, copied, cancelled or reloaded in between.
ListsExact == ListsMatchFlags /\ OneCopyPerKey /\ UnusedIsEvictable

\* The counters, whatever was shared, copied or evicted: the reference count is
\* the number of image objects that hold the entry (the copy that an object is
\* about to get counts for it); cache->usage does not exceed the limit between two
\* calls, and is the memory of the images in the lru list, unless evas_render_dump
\* is called, which unloads their pixels without counting.
CountsExact ==
  /\ \A e \in Alive :
       c.ent[e].refs = Cardinality(Holders(e)) + (IF m.copy = e THEN 1 ELSE 0)
  /\ c.lru # <<>> => c.usage <= c.limit
  /\ "unload" \notin c.may.does => c.usage = Usage(c, c.inactiv)

\* A job is on the list `preload' until it is cancelled and then on the list
\* `pending' until it is over; only a job on `pending' can end in async_cancel.
JobLists ==
  /\ c.preload = {e \in Entries : HasJob(c, e) /\ ~c.ent[e].pending}
  /\ c.pend = {e \in Entries : HasJob(c, e) /\ c.ent[e].pending}
  /\ c.flagged \subseteq c.pend

\* An object is a target of the image it holds while it is preloading, once,
\* and of no other image: nothing informs a freed object, or one that has moved
\* on; and a job is on the list where a drop, a cancellation or the shutdown
\* looks for it.
Waiting(e) ==
  IF c.inform.e = e /\ c.inform.cb THEN Tail(c.ent[e].targets) ELSE c.ent[e].targets

TargetsMatch ==
  /\ JobLists
  /\ \A o \in preloading : img[o] # None
  /\ \A e \in Entries :
       /\ IsInjective(c.ent[e].targets)
       /\ Range(Waiting(e)) = {o \in preloading : img[o] = e}

\* The jobs are used as PreloadJobs allows: never queued twice, never cancelled
\* after the report, and never left behind.
PJ == INSTANCE PreloadJobs WITH
        Jobs    <- Entries,
        phase   <- [e \in Entries |->
                      IF c.phase[e] = "taken" \/ c.phase[e] \in LockHeld THEN "running"
                      ELSE c.phase[e]],
        flagged <- c.flagged,
        open    <- TRUE
UsesPreloadJobs == PJ!SafeSpec

\* Where loaders succeed and nobody writes to an image that is being preloaded,
Calm == c.may.does \cap {"dirty", "fail", "reenter"} = {}

\* and the main thread does not sleep for ever through a broadcast it has missed,
NeverLost == []<>(~m.asleep)

\* an object that asked for a preload hears of it, or gives it up: also when its
\* image is drawn, cancelled and preloaded again meanwhile.
PreloadAnswered ==
  Calm => (NeverLost => \A o \in Objects : o \in preloading ~> o \notin preloading)

\* and evas_cache_image_shutdown returns, and has freed every entry: no job is left
\* that it waits for and nobody reports.
ShutdownEnds ==
  Calm => (NeverLost => (m.pc = "cancel" ~> m.pc = "down" /\ Alive = {}))
=============================================================================
