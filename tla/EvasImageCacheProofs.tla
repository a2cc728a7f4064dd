----------------------- MODULE EvasImageCacheProofs -----------------------
(***************************************************************************)
(* The safety of the image cache, for any number of entries, objects, keys *)
(* and time stamps: its types for every program; and, for programs that do *)
(* not write to images they may preload nor call image functions out of    *)
(* preload callbacks, that nothing freed is used, that the lists, the      *)
(* counts and the targets are exact, and that the jobs are used as         *)
(* PreloadJobs allows. The inductive invariant is IInv.                    *)
(***************************************************************************)
EXTENDS EvasImageCacheLemmas

\* What the call that waits needs to have its types.
MainTyped ==
  m.pc \in {"wait", "ready"} =>
    /\ m.o \in Objects /\ m.e \in Entries
    /\ m.then = "reload" => m.copy \in Entries

\* The empty cache has its types.
THEOREM InitTyped == Init => TypeOK /\ MainTyped
<1> SUFFICES ASSUME Init
             PROVE  TypeOK /\ MainTyped
  OBVIOUS
<1>1. c \in CacheType
  <2>1. [e \in Entries |-> Blank] \in [Entries -> EntryType]
    BY BlankTyped
  <2>2. Quiet \in [e : Entries \union {None}, cb : BOOLEAN, settle : BOOLEAN]
    BY DEF Quiet
  <2>3. [e \in Entries |-> "idle"] \in [Entries -> Phases]
    BY DEF Phases
  <2>4. <<>> \in Seq(Entries) /\ Limits \subseteq Nat
    BY CacheAssumption
  <2>5. c.may \in Programs
    BY DEF Init
  <2> DEFINE A == {[e \in Entries |-> Blank]}
             B == {[e \in Entries |-> "idle"]}
             I == {Quiet}
             E == {<<>>}
             S == {{}}
             U == {0}
             F == {FALSE}
             J == [e : Entries \union {None}, cb : BOOLEAN, settle : BOOLEAN]
  <2>6. c \in [ent : A, activ : S, inactiv : S, lru : E, dirty : S,
               preload : S, pend : S, usage : U, limit : Limits,
               phase : B, flagged : S, inform : I, bad : F, may : Programs]
    BY DEF Init
  <2>7. /\ A \subseteq [Entries -> EntryType] /\ B \subseteq [Entries -> Phases]
        /\ S \subseteq SUBSET Entries /\ U \subseteq Int /\ F \subseteq BOOLEAN
        /\ I \subseteq J
        /\ E \subseteq Seq(Entries) /\ Limits \subseteq Nat
    BY <2>1, <2>2, <2>3, <2>4
  <2> HIDE DEF A, B, I, E, S, U, F, J
  <2>8. CacheType = [ent : [Entries -> EntryType], activ : SUBSET Entries, inactiv : SUBSET Entries,
   lru : Seq(Entries), dirty : SUBSET Entries, preload : SUBSET Entries,
   pend : SUBSET Entries, usage : Int, limit : Nat, phase : [Entries -> Phases],
   flagged : SUBSET Entries, inform : J, bad : BOOLEAN, may : Programs]
    BY DEF CacheType, J
  <2> QED BY <2>6, <2>7, <2>8
<1>2. m \in MainType
  BY DEF Init, Idle, MainType
<1>3. disk \in [Keys -> Stamps \union {None}]
  BY DEF Init
<1>4. MainTyped
  BY DEF Init, Idle, MainTyped
<1> QED BY <1>1, <1>2, <1>3, <1>4 DEF Init, TypeOK

\* Every call of an object keeps the types.
LEMMA CallTyped ==
  ASSUME TypeOK, MainTyped, NEW o \in Objects, Call(o)
  PROVE  TypeOK' /\ MainTyped'
<1>1. /\ c \in CacheType /\ m \in MainType
      /\ img \in [Objects -> Entries \union {None}] /\ file \in [Objects -> Keys \union {None}]
      /\ preloading \subseteq Objects /\ disk \in [Keys -> Stamps \union {None}]
  BY DEF TypeOK
<1>2. img[o] # None => img[o] \in Entries
  BY <1>1
<1>4. ASSUME NEW s \in CacheType
      PROVE  /\ StopPreload(s, o) \in CacheType \/ img[o] = None
             /\ Release(s, o) \in CacheType
             /\ img[o] # None => OwnWrite(s, img[o]) \in CacheType
  <2>1. img[o] # None => StopPreload(s, o) \in CacheType
    BY <1>2, <1>4, PreloadRemoveTyped DEF StopPreload
  <2> DEFINE t == StopPreload(s, o)
  <2>2. img[o] # None => t \in CacheType
    BY <2>1
  <2> HIDE DEF t
  <2>3. img[o] # None => Drop(t, img[o]) \in CacheType
    BY <1>2, <2>2, DropTyped
  <2>4. img[o] # None => OwnWrite(s, img[o]) \in CacheType
    BY <1>2, <1>4, DirtyAddTyped, TouchTyped DEF OwnWrite
  <2> QED BY <1>4, <2>1, <2>3, <2>4 DEF Release, t
<1>5. ASSUME NEW k \in Keys, NEW s \in CacheType, NEW r \in Requests(s, k)
      PROVE  r[1] \in CacheType /\ [img EXCEPT ![o] = r[2]] \in [Objects -> Entries \union {None}]
  <2>1. disk[k] \in Stamps \union {None}
    BY <1>1
  <2>2. r[1] \in CacheType /\ r[2] \in Entries \union {None}
    BY <2>1, RequestsTyped
  <2> QED BY <1>1, <2>2
<1>6. [img EXCEPT ![o] = None] \in [Objects -> Entries \union {None}]
  BY <1>1
<1>7. CASE \E k \in Keys : FileSet(o, k)
  <2>1. PICK k \in Keys : FileSet(o, k)
    BY <1>7
  <2>2. PICK r \in Requests(Release(c, o), k) : c' = r[1] /\ img' = [img EXCEPT ![o] = r[2]]
    BY <2>1 DEF FileSet
  <2>3. Release(c, o) \in CacheType
    BY <1>1, <1>4
  <2>4. c' \in CacheType /\ img' \in [Objects -> Entries \union {None}]
    BY <1>5, <2>2, <2>3
  <2> QED BY <1>1, <2>1, <2>4 DEF FileSet, TypeOK, MainTyped
<1>8. CASE ObjectFree(o) \/ ObjectUnload(o)
  BY <1>1, <1>4, <1>6, <1>8 DEF ObjectFree, ObjectUnload, LetGo, TypeOK, MainTyped
<1>9. CASE ObjectLoad(o)
  <2>1. file[o] \in Keys
    BY <1>1, <1>9 DEF ObjectLoad
  <2> QED BY <1>1, <1>5, <1>9, <2>1 DEF ObjectLoad, TypeOK, MainTyped
<1>10. CASE Preload(o)
  <2> DEFINE e == img[o]
             s == [c EXCEPT !.ent[e].loaded = FALSE]
  <2>1. e \in Entries
    BY <1>2, <1>10 DEF Preload
  <2>2. s = [c EXCEPT !.ent[e] = [c.ent[e] EXCEPT !.loaded = FALSE]]
    BY <1>1 DEF CacheType
  <2>3. s \in CacheType
    BY <1>1, <2>1, <2>2, EntryTyped, FieldWritten, OneWritten
  <2> HIDE DEF s
  <2>4. PreloadAdd(s, e, o) \in CacheType
    BY <2>1, <2>3, PreloadAddTyped
  <2>5. c' \in CacheType /\ preloading' \subseteq Objects
    BY <1>1, <1>10, <2>3, <2>4 DEF Preload, s
  <2> QED BY <1>1, <1>10, <2>5 DEF Preload, TypeOK, MainTyped
<1>11. CASE PreloadCancel(o)
  BY <1>1, <1>2, <1>11, PreloadRemoveTyped DEF PreloadCancel, TypeOK, MainTyped
<1>12. CASE AlphaSetOwn(o)
  <2>1. StopPreload(c, o) \in CacheType
    BY <1>1, <1>4, <1>12 DEF AlphaSetOwn
  <2> DEFINE s == StopPreload(c, o)
  <2> HIDE DEF s
  <2>2. c' \in CacheType
    BY <1>4, <1>12, <2>1 DEF AlphaSetOwn, s
  <2> QED BY <1>1, <1>12, <2>2 DEF AlphaSetOwn, TypeOK, MainTyped
<1>13. CASE ReloadOwn(o)
  <2>1. OwnWrite(c, img[o]) \in CacheType
    BY <1>1, <1>4, <1>13 DEF ReloadOwn
  <2>2. c' \in CacheType
    BY <1>4, <1>13, <2>1 DEF ReloadOwn
  <2> QED BY <1>1, <1>6, <1>13, <2>2 DEF ReloadOwn, TypeOK, MainTyped
<1>14. ASSUME NEW s \in CacheType, NEW n \in Entries \union {None}, NEW then \in {"draw", "alpha", "reload"},
              LoadStart(o, then, s, n), then = "reload" => n \in Entries,
              preloading' \subseteq Objects
       PROVE  TypeOK' /\ MainTyped'
  <2>1. img[o] \in Entries
    BY <1>2, <1>14 DEF LoadStart
  <2>2. CancelJob(s, img[o]) \in CacheType
    BY <2>1, CancelJobTyped
  <2>3. c' \in CacheType /\ img' = img /\ file' = file /\ disk' = disk
    BY <1>14, <2>2 DEF LoadStart
  <2>4. m' \in MainType
    BY <1>14, <2>1 DEF LoadStart, MainType, HasJob
  <2>5. MainTyped'
    BY <1>14, <2>1 DEF LoadStart, MainTyped
  <2> QED BY <1>1, <1>14, <2>3, <2>4, <2>5 DEF TypeOK
<1>15. CASE Draw(o)
  <2>1. None \in Entries \union {None} /\ preloading' \subseteq Objects
    BY <1>1, <1>15 DEF Draw
  <2> QED BY <1>1, <1>14, <1>15, <2>1 DEF Draw
<1>16. CASE AlphaSetShared(o)
  <2>1. PICK n \in FreeBlocks(c) : LoadStart(o, "alpha", EntryCopied(StopPreload(c, o), n), n)
    BY <1>16 DEF AlphaSetShared
  <2>2. n \in Entries /\ preloading' \subseteq Objects
    BY <1>1, <1>16, <2>1 DEF FreeBlocks, AlphaSetShared
  <2>3. StopPreload(c, o) \in CacheType
    BY <1>1, <1>4, <1>16 DEF AlphaSetShared
  <2>4. EntryCopied(StopPreload(c, o), n) \in CacheType
    BY <2>2, <2>3, EntryCopiedTyped
  <2> QED BY <1>14, <2>1, <2>2, <2>4
<1>17. CASE ReloadShared(o)
  <2>1. PICK n \in FreeBlocks(c) : LoadStart(o, "reload", EntryCopied(c, n), n)
    BY <1>17 DEF ReloadShared
  <2>2. n \in Entries /\ preloading' \subseteq Objects
    BY <1>1, <1>17, <2>1 DEF FreeBlocks, ReloadShared
  <2>3. EntryCopied(c, n) \in CacheType
    BY <1>1, <2>2, EntryCopiedTyped
  <2> QED BY <1>14, <2>1, <2>2, <2>3
<1> QED BY <1>7, <1>8, <1>9, <1>10, <1>11, <1>12, <1>13, <1>15, <1>16, <1>17 DEF Call

\* A step of a thread that runs a job, and the report of one, keep the types.
LEMMA JobTyped ==
  ASSUME TypeOK, MainTyped, NEW e \in Entries, Job(e) \/ Deliver(e)
  PROVE  TypeOK' /\ MainTyped'
<1>1. /\ c \in CacheType /\ c.ent[e] \in EntryType
      /\ \A b \in BOOLEAN : b \in BOOLEAN
  BY EntryTyped DEF TypeOK
<1>2. Phases = {"idle", "queued", "taken", "loading", "loaded", "checked", "posted"}
  BY DEF Phases
<1>3. \A r \in EntryType, p \in Phases : [c EXCEPT !.phase[e] = p, !.ent[e] = r] \in CacheType
  BY <1>1 DEF CacheType
<1>4. \A p \in Phases, b \in BOOLEAN : [c EXCEPT !.phase[e] = p, !.bad = b] \in CacheType
  BY <1>1 DEF CacheType
<1>5. \A p \in Phases : [c EXCEPT !.phase[e] = p] \in CacheType
  BY <1>1 DEF CacheType
<1>6. c.bad \in BOOLEAN /\ c.ent[e].file \in BOOLEAN
  BY <1>1 DEF CacheType, EntryType
<1>7. CASE Job(e)
  <2>1. CASE JobTaken(e)
    BY <1>2, <1>5, <2>1 DEF JobTaken, ThreadStep, TypeOK, MainTyped
  <2>2. CASE JobLocks(e)
    <3>1. c' = [c EXCEPT !.phase[e] = "loading", !.bad = (c.bad \/ ~c.ent[e].file)]
      BY <2>2 DEF JobLocks
    <3>2. c' \in CacheType
      BY <1>2, <1>4, <1>6, <3>1
    <3> QED BY <2>2, <3>2 DEF JobLocks, ThreadStep, TypeOK, MainTyped
  <2>3. CASE JobLoads(e)
    <3>1. \A ok \in BOOLEAN :
            [c EXCEPT !.phase[e] = "loaded", !.ent[e].data = TRUE, !.ent[e].loaded = ok]
              \in CacheType
      <4> TAKE ok \in BOOLEAN
      <4> DEFINE r == [c.ent[e] EXCEPT !.data = TRUE, !.loaded = ok]
      <4>1. r \in EntryType
        BY <1>1, FieldWritten
      <4>2. [c EXCEPT !.phase[e] = "loaded", !.ent[e].data = TRUE, !.ent[e].loaded = ok]
              = [c EXCEPT !.phase[e] = "loaded", !.ent[e] = r]
        BY <1>1 DEF CacheType
      <4> HIDE DEF r
      <4> QED BY <1>2, <1>3, <4>1, <4>2
    <3>2. c' \in CacheType
      BY <1>2, <1>5, <2>3, <3>1 DEF JobLoads
    <3> QED BY <2>3, <3>2 DEF JobLoads, ThreadStep, TypeOK, MainTyped
  <2>4. CASE JobChecksUnload(e)
    <3> DEFINE r == [c.ent[e] EXCEPT !.unloadCancel = FALSE, !.data = FALSE, !.loaded = FALSE,
                                     !.done = FALSE]
    <3>1. r \in EntryType
      BY <1>1, FieldWritten
    <3>2. [c EXCEPT !.phase[e] = "checked", !.ent[e].unloadCancel = FALSE,
                    !.ent[e].data = FALSE, !.ent[e].loaded = FALSE, !.ent[e].done = FALSE]
            = [c EXCEPT !.phase[e] = "checked", !.ent[e] = r]
      BY <1>1, UnloadWritten
    <3> HIDE DEF r
    <3>3. c' \in CacheType
      BY <1>2, <1>3, <1>5, <2>4, <3>1, <3>2 DEF JobChecksUnload
    <3> QED BY <2>4, <3>3 DEF JobChecksUnload, ThreadStep, TypeOK, MainTyped
  <2>5. CASE JobPosts(e)
    BY <1>2, <1>5, <2>5 DEF JobPosts, ThreadStep, TypeOK, MainTyped
  <2> QED BY <1>7, <2>1, <2>2, <2>3, <2>4, <2>5 DEF Job
<1>8. CASE Deliver(e)
  <2> DEFINE s == [c EXCEPT !.phase[e] = "idle", !.flagged = @ \ {e}]
  <2>1. s \in CacheType
    BY <1>1, <1>2 DEF CacheType
  <2>2. c' = IF e \in c.flagged THEN AsyncCancel(s, e) ELSE AsyncEnd(s, e, FALSE)
    BY <1>8 DEF Deliver
  <2> HIDE DEF s
  <2>3. c' \in CacheType
    BY <2>1, <2>2, AsyncCancelTyped, AsyncEndTyped
  <2> QED BY <1>8, <2>3 DEF Deliver, TypeOK, MainTyped
<1> QED BY <1>7, <1>8

\* The loop of async_end keeps the types.
LEMMA InformTyped ==
  ASSUME TypeOK, MainTyped, Inform
  PROVE  TypeOK' /\ MainTyped'
<1> DEFINE I == [e : Entries \union {None}, cb : BOOLEAN, settle : BOOLEAN]
           e == c.inform.e
<1>1. c \in CacheType /\ c.inform \in I /\ Quiet \in I
  BY DEF TypeOK, CacheType, Quiet
<1>2. e \in Entries /\ c.ent[e] \in EntryType /\ c.ent[e].targets \in Seq(Objects)
  BY <1>1, EntryTyped DEF Inform, InformCall, InformReturn, InformDone, EntryType
<1>3. \A i \in I : [c EXCEPT !.inform = i] \in CacheType
  BY <1>1 DEF CacheType
<1>4. CASE InformCall
  <2>1. [c.inform EXCEPT !.cb = TRUE] \in I
    BY <1>1
  <2>2. c' = [c EXCEPT !.inform = [c.inform EXCEPT !.cb = TRUE]]
    BY <1>4 DEF InformCall
  <2>3. c' \in CacheType
    BY <1>3, <2>1, <2>2
  <2> QED BY <1>4, <2>3 DEF InformCall, TypeOK, MainTyped
<1>5. CASE InformReturn
  <2>1. CASE ~c.ent[e].alive \/ c.ent[e].targets = <<>>
    <3>1. c' = [c EXCEPT !.bad = TRUE, !.inform = Quiet]
      BY <1>5, <2>1 DEF InformReturn
    <3>2. c' \in CacheType
      BY <1>1, <3>1 DEF CacheType
    <3> QED BY <1>5, <3>2 DEF InformReturn, TypeOK, MainTyped
  <2>2. CASE ~(~c.ent[e].alive \/ c.ent[e].targets = <<>>)
    <3> DEFINE r == [c.ent[e] EXCEPT !.targets = Tail(c.ent[e].targets)]
    <3>1. Tail(c.ent[e].targets) \in Seq(Objects)
      BY <1>2, <2>2
    <3>2. r \in EntryType
      BY <1>2, <3>1, FieldWritten
    <3>3. c' = [c EXCEPT !.inform = [c.inform EXCEPT !.cb = FALSE], !.ent[e] = r]
      BY <1>1, <1>2, <1>5, <2>2 DEF InformReturn, CacheType
    <3>4. [c.inform EXCEPT !.cb = FALSE] \in I
      BY <1>1
    <3> HIDE DEF r
    <3>5. c' \in CacheType
      BY <1>1, <1>2, <3>2, <3>3, <3>4 DEF CacheType
    <3> QED BY <1>5, <3>5 DEF InformReturn, TypeOK, MainTyped
  <2> QED BY <2>1, <2>2
<1>6. CASE InformDone
  <2> DEFINE s == [c EXCEPT !.inform = Quiet]
  <2>1. s \in CacheType
    BY <1>1, <1>3
  <2>2. c' = IF c.inform.settle THEN Settle(s, e) ELSE s
    BY <1>6 DEF InformDone
  <2> HIDE DEF s
  <2>3. c' \in CacheType
    BY <1>2, <2>1, <2>2, SettleTyped
  <2> QED BY <1>6, <2>3 DEF InformDone, TypeOK, MainTyped
<1> QED BY <1>4, <1>5, <1>6 DEF Inform

\* The call that has waited for its pixels keeps the types.
LEMMA LoadTyped ==
  ASSUME TypeOK, MainTyped, LoadFinish \/ LoadReturn
  PROVE  TypeOK' /\ MainTyped'
<1>1. /\ c \in CacheType /\ m \in MainType
      /\ img \in [Objects -> Entries \union {None}] /\ file \in [Objects -> Keys \union {None}]
      /\ preloading \subseteq Objects /\ disk \in [Keys -> Stamps \union {None}]
  BY DEF TypeOK
<1>2. m.pc \in {"wait", "ready"} /\ m.o \in Objects /\ m.e \in Entries
  BY DEF LoadFinish, LoadReturn, MainTyped
<1>3. Idle \in MainType
  BY DEF Idle, MainType
<1>4. CASE LoadFinish
  <2>1. m' \in MainType /\ m' = [m EXCEPT !.pc = "ready"]
    BY <1>1, <1>4 DEF LoadFinish, MainType
  <2>2. MainTyped'
    BY <1>1, <1>2, <2>1 DEF MainTyped, MainType
  <2>3. ASSUME NEW ok \in BOOLEAN
        PROVE  [c EXCEPT !.ent[m.e].data = TRUE, !.ent[m.e].loaded = ok] \in CacheType
    <3> DEFINE r == [c.ent[m.e] EXCEPT !.data = TRUE, !.loaded = ok]
    <3>1. r \in EntryType
      BY <1>1, <1>2, EntryTyped, FieldWritten
    <3>2. [c EXCEPT !.ent[m.e].data = TRUE, !.ent[m.e].loaded = ok] = [c EXCEPT !.ent[m.e] = r]
      BY <1>1, <1>2 DEF CacheType
    <3> HIDE DEF r
    <3> QED BY <1>1, <1>2, <3>1, <3>2, OneWritten
  <2>4. Touch(c, m.e) \in CacheType
    BY <1>1, TouchTyped
  <2>5. CASE ~c.ent[m.e].alive \/ c.ent[m.e].loaded
    BY <1>1, <1>4, <2>1, <2>2, <2>4, <2>5 DEF LoadFinish, TypeOK
  <2>6. CASE ~(~c.ent[m.e].alive \/ c.ent[m.e].loaded)
    <3>1. PICK ok \in BOOLEAN :
            LET s == [c EXCEPT !.ent[m.e].data = TRUE, !.ent[m.e].loaded = ok]
            IN  c' = IF m.had THEN AsyncEnd(s, m.e, FALSE) ELSE s
      BY <1>4, <2>6 DEF LoadFinish
    <3> DEFINE s == [c EXCEPT !.ent[m.e].data = TRUE, !.ent[m.e].loaded = ok]
    <3>2. s \in CacheType
      BY <2>3
    <3>3. c' = IF m.had THEN AsyncEnd(s, m.e, FALSE) ELSE s
      BY <3>1
    <3> HIDE DEF s
    <3>4. c' \in CacheType
      BY <1>2, <3>2, <3>3, AsyncEndTyped
    <3> QED BY <1>1, <1>4, <2>1, <2>2, <3>4 DEF LoadFinish, TypeOK
  <2> QED BY <2>5, <2>6
<1>5. CASE LoadReturn
  <2>1. m' \in MainType /\ MainTyped' /\ file' = file /\ disk' = disk
    BY <1>3, <1>5 DEF LoadReturn, MainTyped, Idle
  <2>2. Drop(c, m.e) \in CacheType /\ Touch(c, m.e) \in CacheType
    BY <1>1, <1>2, DropTyped, TouchTyped
  <2>3. m.copy \in Entries \union {None}
    BY <1>1 DEF MainType
  <2>4. CASE m.then # "reload"
    <3>1. c' \in CacheType /\ preloading' \subseteq Objects
      BY <1>1, <1>5, <2>2, <2>4 DEF LoadReturn
    <3>2. img' \in [Objects -> Entries \union {None}]
      BY <1>1, <1>5, <2>3, <2>4 DEF LoadReturn
    <3> QED BY <1>1, <2>1, <3>1, <3>2 DEF TypeOK
  <2>5. CASE m.then = "reload"
    <3> DEFINE s == Drop(c, m.e)
               t == IF m.o \in preloading THEN PreloadRemove(s, m.copy, m.o) ELSE s
    <3>1. m.copy \in Entries
      BY <1>2, <2>5 DEF MainTyped
    <3>2. s \in CacheType
      BY <2>2
    <3>3. /\ c' = Drop(t, m.copy)
          /\ img' = [img EXCEPT ![m.o] = None] /\ preloading' = preloading \ {m.o}
      BY <1>5, <2>5 DEF LoadReturn
    <3> HIDE DEF s
    <3>4. t \in CacheType
      BY <1>2, <3>1, <3>2, PreloadRemoveTyped
    <3> HIDE DEF t
    <3>5. c' \in CacheType
      BY <3>1, <3>3, <3>4, DropTyped
    <3>6. img' \in [Objects -> Entries \union {None}] /\ preloading' \subseteq Objects
      BY <1>1, <3>3
    <3> QED BY <1>1, <2>1, <3>5, <3>6 DEF TypeOK
  <2> QED BY <2>4, <2>5
<1> QED BY <1>4, <1>5

\* Falling asleep and waking up keep the types.
LEMMA SleepTyped ==
  ASSUME TypeOK, MainTyped, Sleep \/ WakeUp
  PROVE  TypeOK' /\ MainTyped'
<1>1. PICK b \in BOOLEAN : m' = [m EXCEPT !.asleep = b]
  BY DEF Sleep, WakeUp
<1>2. /\ m' \in MainType /\ m'.pc = m.pc /\ m'.o = m.o /\ m'.e = m.e /\ m'.copy = m.copy
      /\ m'.then = m.then
  BY <1>1 DEF TypeOK, MainType
<1> QED BY <1>2 DEF Sleep, WakeUp, TypeOK, MainTyped

\* The calls on the whole cache, and changes of the files, keep the types.
LEMMA WholeTyped ==
  ASSUME TypeOK, MainTyped,
         (\E l \in Limits : CacheSet(l)) \/ CacheFlush \/ UnloadAll \/ \E k \in Keys : FileChanges(k)
  PROVE  TypeOK' /\ MainTyped'
<1>1. c \in CacheType /\ c.limit \in Nat
  BY DEF TypeOK, CacheType
<1>2. \A l \in Nat : [c EXCEPT !.limit = l] \in CacheType
  BY <1>1 DEF CacheType
<1>3. \A l \in Nat : Flush([c EXCEPT !.limit = l]) \in CacheType
  BY <1>2, FlushTyped
<1>4. CASE \E l \in Limits : CacheSet(l)
  BY <1>3, <1>4, CacheAssumption DEF CacheSet, TypeOK, MainTyped
<1>5. CASE CacheFlush
  <2> DEFINE s == Flush([c EXCEPT !.limit = 0])
  <2>1. s \in CacheType
    BY <1>3
  <2>2. c' = [s EXCEPT !.limit = c.limit]
    BY <1>5 DEF CacheFlush
  <2> HIDE DEF s
  <2>3. c' \in CacheType
    BY <1>1, <2>1, <2>2 DEF CacheType
  <2> QED BY <1>5, <2>3 DEF CacheFlush, TypeOK, MainTyped
<1>6. CASE UnloadAll
  <2>1. \A e \in Entries : UnloadData(e) \in EntryType
    <3> TAKE e \in Entries
    <3>1. c.ent[e] \in EntryType
      BY <1>1, EntryTyped
    <3> QED BY <3>1, FieldWritten DEF UnloadData
  <2> DEFINE f == [e \in Entries |->
                     IF e \in Range(c.lru) \union c.activ \union c.inactiv THEN UnloadData(e)
                     ELSE c.ent[e]]
  <2>2. f \in [Entries -> EntryType]
    BY <1>1, <2>1, EntryTyped
  <2>3. c' = [c EXCEPT !.ent = f]
    BY <1>6 DEF UnloadAll
  <2> HIDE DEF f
  <2>4. c' \in CacheType
    BY <1>1, <2>2, <2>3 DEF CacheType
  <2> QED BY <1>6, <2>4 DEF UnloadAll, TypeOK, MainTyped
<1>7. CASE \E k \in Keys : FileChanges(k)
  BY <1>7 DEF FileChanges, TypeOK, MainTyped
<1> QED BY <1>4, <1>5, <1>6, <1>7

\* The shutdown keeps the types.
LEMMA ShutdownTyped ==
  ASSUME TypeOK, MainTyped, ShutdownStart \/ Shutdown
  PROVE  TypeOK' /\ MainTyped'
<1>1. c \in CacheType /\ m \in MainType
  BY DEF TypeOK
<1>2. ASSUME NEW from \in {"idle", "cancel", "process", "lru", "dirty", "activ", "pending"},
             NEW to \in {"cancel", "process", "lru", "dirty", "activ", "pending", "down"},
             MainStep(from, to), c' \in CacheType
      PROVE  TypeOK' /\ MainTyped'
  <2>1. m' \in MainType /\ m'.pc \notin {"wait", "ready"}
    BY <1>1, <1>2 DEF MainStep, MainType
  <2> QED BY <1>2, <2>1 DEF MainStep, TypeOK, MainTyped
<1>3. CASE ShutdownStart \/ ShutdownGoesOn \/ (ShutdownCancel /\ c.preload = {})
  <2>1. c' = c
    BY <1>3 DEF ShutdownStart, ShutdownGoesOn, ShutdownLoop, ShutdownProcessed, ShutdownCancel
  <2> QED BY <1>1, <1>2, <1>3, <2>1
       DEF ShutdownStart, ShutdownGoesOn, ShutdownLoop, ShutdownProcessed, ShutdownCancel
<1>4. CASE ShutdownCancel /\ c.preload # {}
  <2>0. PICK e \in c.preload :
          /\ MainStep("cancel", "cancel")
          /\ c' = PreloadRemove([c EXCEPT !.ent[e].deleteMe = TRUE, !.preload = @ \ {e}], e, None)
    BY <1>4 DEF ShutdownCancel, ShutdownTakes
  <2>01. e \in Entries
    BY <1>1 DEF CacheType
  <2> DEFINE r == [c.ent[e] EXCEPT !.deleteMe = TRUE]
             s == [c EXCEPT !.ent[e].deleteMe = TRUE, !.preload = @ \ {e}]
  <2>1. r \in EntryType
    BY <1>1, <2>01, EntryTyped, FieldWritten
  <2>2. s = [c EXCEPT !.ent[e] = r, !.preload = c.preload \ {e}]
    BY <1>1 DEF CacheType
  <2> HIDE DEF r
  <2>3. s \in CacheType
    BY <1>1, <2>1, <2>2, ZenonT(40) DEF CacheType
  <2>4. c' = PreloadRemove(s, e, None)
    BY <2>0
  <2> HIDE DEF s
  <2>5. c' \in CacheType
    BY <2>01, <2>3, <2>4, PreloadRemoveTyped
  <2> QED BY <1>2, <2>0, <2>5
<1>5. ASSUME NEW e \in Entries, ShutdownDelete(e)
      PROVE  TypeOK' /\ MainTyped'
  <2>1. c' \in CacheType
    BY <1>1, <1>5, EntryDeleteTyped DEF ShutdownDelete
  <2> QED BY <1>2, <1>5, <2>1 DEF ShutdownDelete, ShutdownTakes
<1>6. c.preload = {} \/ c.preload # {}
  OBVIOUS
<1> QED BY <1>3, <1>4, <1>5, <1>6 DEF Shutdown

\* The type invariant, for every program, with writes, changing files, failing
\* loaders and calls out of callbacks in any combination, and for any number of
\* entries, objects, keys and time stamps.
THEOREM TypeCorrect == SafeSpec => []TypeOK
<1>1. TypeOK /\ MainTyped /\ [Next]_vars => TypeOK' /\ MainTyped'
  <2> SUFFICES ASSUME TypeOK, MainTyped, [Next]_vars
               PROVE  TypeOK' /\ MainTyped'
    OBVIOUS
  <2>1. CASE UNCHANGED vars
    BY <2>1 DEF vars, TypeOK, MainTyped
  <2>2. CASE Stopped
    BY <2>1, <2>2 DEF Stopped
  <2> QED BY <2>1, <2>2, CallTyped, JobTyped, InformTyped, SleepTyped, LoadTyped, WholeTyped, ShutdownTyped
       DEF Next
<1> QED BY <1>1, InitTyped, PTL DEF SafeSpec

\* Nobody writes to an image that may be preloaded, and no preload callback
\* calls the image functions: what goes wrong otherwise is known.
Plain ==
  \A p \in Programs : "preload" \in p.does => p.does \cap {"dirty", "change", "reenter"} = {}

-----------------------------------------------------------------------------
\* The inductive invariant

\* The object whose callback is being called is not preloading any more, but
\* it is still a target.
Informed ==
  IF c.inform.cb THEN preloading \union {Head(c.ent[c.inform.e].targets)} ELSE preloading

\* evas_cache_image_shutdown has begun.
Closing == m.pc \notin {"idle", "wait", "ready"}

\* The loop of async_end runs over the targets of an image that is still held, and
\* whose job is over.
InformOK ==
  /\ ~Does(c, "preload") => c.inform = Quiet
  /\ c.inform.e # None =>
       c.inform.e \in c.activ /\ ~HasJob(c, c.inform.e) /\ c.ent[c.inform.e].refs # 0
  /\ c.inform.cb =>
       /\ c.inform.e # None /\ c.ent[c.inform.e].targets # <<>>
       /\ Head(c.ent[c.inform.e].targets) \notin preloading

\* No file vanishes under an application that preloads.
DiskOK == Does(c, "preload") => \A k \in Keys : disk[k] # None

\* A call waits only for the image its object holds, to draw it or to replace it
\* by a copy; the shutdown finds no image held.
MainOK ==
  /\ Does(c, "preload") => m.copy = None
  /\ m.pc \notin {"wait", "ready"} => m.copy = None /\ m.e = None
  /\ m.pc \in {"wait", "ready"} =>
       /\ m.o \in Objects /\ m.e \in Entries /\ img[m.o] = m.e /\ m.then # "none"
       /\ m.then = "draw" <=> m.copy = None
  /\ Closing => \A o \in Objects : img[o] = None

\* The inductive invariant.
IInv ==
  /\ TypeOK /\ MainTyped
  /\ Good(Calmed(c), img, Informed, m.copy, disk, Closing)
  /\ InformOK /\ DiskOK /\ MainOK

\* What PreloadJobs allows a step to do to the jobs.
Jobs(e) == JobsMove(c, c', e) \/ JobQueued(c, c', e)

-----------------------------------------------------------------------------
\* A call finds the main thread idle, and a good cache: it never comes out of a
\* preload callback, and nothing waits.
LEMMA CallReady ==
  ASSUME Plain, IInv, InCall
  PROVE  /\ m.pc = "idle" /\ m.copy = None /\ c.inform = Quiet /\ ~c.bad
         /\ Good(c, img, preloading, None, disk, FALSE)
<1>1. c \in CacheType /\ InformOK /\ MainOK /\ Good(Calmed(c), img, Informed, m.copy, disk, Closing)
  BY DEF IInv, TypeOK
<1>2. c.may \in Programs /\ c.may.does \in SUBSET Kinds
  BY <1>1, CacheAssumption DEF CacheType
<1>3. m.pc = "idle" /\ Steady
  <2>1. Does(c, "preload") => ~May("reenter")
    BY <1>2 DEF Plain, Does, May
  <2>2. ~Does(c, "preload") => ~c.inform.cb
    BY <1>1 DEF InformOK, Quiet
  <2> QED BY <2>1, <2>2 DEF InCall
<1>4. Calmed(c) = c /\ Informed = preloading /\ m.copy = None /\ Closing = FALSE
  <2>1. c.inform = Quiet /\ ~c.inform.cb
    BY <1>3 DEF Steady, Quiet
  <2>2. Calmed(c) = c
    BY <1>1, <2>1, CalmedFacts
  <2> QED BY <1>1, <1>3, <2>1, <2>2 DEF Informed, MainOK, Closing
<1> QED BY <1>1, <1>3, <1>4 DEF Steady

\* What a call has to leave behind: a good cache.
LEMMA CallKept ==
  ASSUME IInv, m.pc = "idle", m.copy = None, m' = m, disk' = disk, TypeOK', MainTyped',
         c'.may = c.may, Good(c', img', preloading', None, disk, FALSE)
  PROVE  IInv'
<1>1. c' \in CacheType /\ c'.inform = Quiet
  BY DEF Good, Core
<1>2. Calmed(c') = c'
  BY <1>1, CalmedFacts
<1>3. Informed' = preloading'
  BY <1>1 DEF Informed, Quiet
<1>4. Closing' = FALSE /\ m'.copy = None
  BY DEF Closing
<1>5. Good(Calmed(c'), img', Informed', m'.copy, disk', Closing')
  BY <1>2, <1>3, <1>4
<1>6. InformOK'
  BY <1>1 DEF InformOK, Quiet
<1>7. DiskOK'
  BY DEF IInv, DiskOK, Does
<1>8. MainOK'
  BY <1>4 DEF IInv, MainOK
<1> QED BY <1>5, <1>6, <1>7, <1>8 DEF IInv

\* evas_object_image_file_set keeps the invariant: the old preload and the old
\* image are given up, and the new image is requested.
LEMMA FileSetKeeps ==
  ASSUME Plain, IInv, TypeOK', MainTyped', NEW o \in Objects, NEW k \in Keys, FileSet(o, k)
  PROVE  IInv' /\ \E e : Jobs(e)
<1> DEFINE s == Release(c, o)
           jm == [img EXCEPT ![o] = None]
<1>1. /\ m.pc = "idle" /\ m.copy = None
      /\ Good(c, img, preloading, None, disk, FALSE)
  BY CallReady DEF FileSet
<1>2. Good(s, jm, preloading \ {o}, None, disk, FALSE) /\ \E e : JobsMove(c, s, e)
  BY <1>1, ReleaseGood
<1>3. PICK r \in Requests(s, k) : c' = r[1] /\ img' = [img EXCEPT ![o] = r[2]]
  BY DEF FileSet
<1> HIDE DEF s
<1>4. disk[k] \in Stamps \union {None} /\ img \in [Objects -> Entries \union {None}]
  BY DEF IInv, TypeOK
<1>5. jm[o] = None /\ [jm EXCEPT ![o] = r[2]] = img'
  BY <1>3, <1>4
<1> HIDE DEF jm
<1>6. Does(s, "preload") => disk[k] # None
  BY <1>2 DEF IInv, DiskOK, Does, JobsMove
<1>7. Good(r[1], [jm EXCEPT ![o] = r[2]], preloading \ {o}, None, disk, FALSE) /\ JobsSame(s, r[1])
  BY <1>2, <1>4, <1>5, <1>6, RequestsGood
<1>8. Good(c', img', preloading', None, disk, FALSE)
  BY <1>3, <1>5, <1>7 DEF FileSet
<1>9. \E e : JobsMove(c, c', e)
  BY <1>2, <1>3, <1>7 DEF JobsMove, JobsSame
<1>10. IInv'
  BY <1>1, <1>8, <1>9, CallKept DEF FileSet, JobsMove
<1> QED BY <1>9, <1>10 DEF Jobs

\* evas_object_image_free and evas_object_image_unload keep the invariant.
LEMMA LetGoKeeps ==
  ASSUME Plain, IInv, TypeOK', MainTyped', NEW o \in Objects, LetGo(o)
  PROVE  IInv' /\ \E e : Jobs(e)
<1>1. /\ m.pc = "idle" /\ m.copy = None
      /\ Good(c, img, preloading, None, disk, FALSE)
  BY CallReady DEF LetGo
<1>2. /\ Good(Release(c, o), [img EXCEPT ![o] = None], preloading \ {o}, None, disk, FALSE)
      /\ \E e : JobsMove(c, Release(c, o), e)
  BY <1>1, ReleaseGood
<1>3. Good(c', img', preloading', None, disk, FALSE) /\ \E e : JobsMove(c, c', e)
  BY <1>2 DEF LetGo
<1>4. IInv'
  BY <1>1, <1>3, CallKept DEF LetGo, JobsMove
<1> QED BY <1>3, <1>4 DEF Jobs

\* evas_object_image_load keeps the invariant.
LEMMA ObjectLoadKeeps ==
  ASSUME Plain, IInv, TypeOK', MainTyped', NEW o \in Objects, ObjectLoad(o)
  PROVE  IInv' /\ \E e : Jobs(e)
<1>1. /\ m.pc = "idle" /\ m.copy = None
      /\ Good(c, img, preloading, None, disk, FALSE)
  BY CallReady DEF ObjectLoad
<1>2. file[o] \in Keys /\ disk[file[o]] \in Stamps \union {None}
  BY DEF IInv, TypeOK, ObjectLoad
<1>3. PICK r \in Requests(c, file[o]) : c' = r[1] /\ img' = [img EXCEPT ![o] = r[2]]
  BY DEF ObjectLoad
<1>4. img[o] = None /\ (Does(c, "preload") => disk[file[o]] # None)
  BY <1>2 DEF ObjectLoad, IInv, DiskOK
<1>5. Good(r[1], [img EXCEPT ![o] = r[2]], preloading, None, disk, FALSE) /\ JobsSame(c, r[1])
  BY <1>1, <1>2, <1>4, RequestsGood
<1>6. Good(c', img', preloading', None, disk, FALSE) /\ JobsMove(c, c', o)
  BY <1>3, <1>5 DEF ObjectLoad, JobsMove, JobsSame
<1>7. IInv'
  BY <1>1, <1>6, CallKept DEF ObjectLoad, JobsMove
<1> QED BY <1>6, <1>7 DEF Jobs

\* evas_object_image_preload, to give up, keeps the invariant.
LEMMA PreloadCancelKeeps ==
  ASSUME Plain, IInv, TypeOK', MainTyped', NEW o \in Objects, PreloadCancel(o)
  PROVE  IInv' /\ \E e : Jobs(e)
<1>1. /\ m.pc = "idle" /\ m.copy = None
      /\ Good(c, img, preloading, None, disk, FALSE)
  BY CallReady DEF PreloadCancel
<1>2. o \in preloading /\ c' = PreloadRemove(c, img[o], o) /\ preloading' = preloading \ {o}
      /\ img' = img
  BY DEF PreloadCancel
<1>3. /\ Good(PreloadRemove(c, img[o], o), img, preloading \ {o}, None, disk, FALSE)
      /\ JobsMove(c, PreloadRemove(c, img[o], o), img[o])
  BY <1>1, <1>2, PreloadRemoveGood
<1>4. Good(c', img', preloading', None, disk, FALSE) /\ JobsMove(c, c', img[o])
  BY <1>2, <1>3
<1>5. IInv'
  BY <1>1, <1>4, CallKept DEF PreloadCancel, JobsMove
<1> QED BY <1>4, <1>5 DEF Jobs

\* evas_object_image_preload keeps the invariant: the object is told at once, or
\* never, or becomes a target of the job.
LEMMA PreloadKeeps ==
  ASSUME Plain, IInv, TypeOK', MainTyped', NEW o \in Objects, Preload(o)
  PROVE  IInv' /\ \E e : Jobs(e)
<1> DEFINE e == img[o]
           s == [c EXCEPT !.ent[e].loaded = FALSE]
<1>1. /\ m.pc = "idle" /\ m.copy = None /\ c \in CacheType
      /\ Good(c, img, preloading, None, disk, FALSE)
  BY CallReady DEF Preload, IInv, TypeOK
<1>2. /\ e \in Entries /\ c.ent[e].alive /\ o \notin preloading /\ img' = img /\ m' = m
      /\ disk' = disk /\ Does(c, "preload")
  BY DEF Preload, IInv, TypeOK, May, Does
<1>3. Good(s, img, preloading, None, disk, FALSE) /\ JobsSame(c, s) /\ s.may = c.may
  <2> DEFINE q == [c.ent[e] EXCEPT !.loaded = FALSE]
  <2>1. /\ q \in EntryType /\ Alike(q, c.ent[e]) /\ q.data = c.ent[e].data
        /\ q.pending = c.ent[e].pending
        /\ q.deleteMe = c.ent[e].deleteMe /\ q.targets = c.ent[e].targets
    BY <1>1, <1>2, EntryTyped, LoadedClear
  <2>2. s = [c EXCEPT !.ent[e] = q]
    BY <1>1, <1>2 DEF CacheType
  <2> HIDE DEF q, s, e
  <2>3. s \in CacheType
    BY <1>1, <1>2, <2>1, <2>2, OneWritten
  <2>4. /\ s.ent = [c.ent EXCEPT ![e] = q]
        /\ s.activ = c.activ /\ s.inactiv = c.inactiv /\ s.dirty = c.dirty
        /\ s.lru = c.lru /\ s.usage = c.usage /\ s.limit = c.limit /\ s.may = c.may
        /\ s.bad = c.bad /\ s.inform = c.inform /\ s.phase = c.phase /\ s.flagged = c.flagged
        /\ s.preload = c.preload /\ s.pend = c.pend
    BY <1>1, <2>2 DEF CacheType
  <2>5. s.ent[e] = q /\ \A d \in Entries \ {e} : s.ent[d] = c.ent[d]
    BY <1>1, <1>2, <2>4 DEF CacheType
  <2>6. SameBut(c, s, e) /\ Standing(s.ent[e], c.ent[e])
    BY <2>1, <2>4, <2>5 DEF SameBut, Standing
  <2>7. s.ent[e].data = c.ent[e].data \/ e \notin c.inactiv
    BY <2>1, <2>5
  <2>8. /\ e \in s.preload <=> e \in c.preload
        /\ e \in s.pend <=> e \in c.pend
        /\ e \in s.flagged <=> e \in c.flagged
        /\ s.phase[e] = c.phase[e] \/ (HasJob(c, e) /\ s.phase[e] \notin {"idle", "queued"})
    BY <2>4
  <2>9. Good(s, img, preloading, None, disk, FALSE)
    BY <1>1, <1>2, <2>3, <2>6, <2>7, <2>8, PixelsGood
  <2> QED BY <2>4, <2>9 DEF JobsSame
<1>4. \/ c' = c /\ preloading' = preloading
      \/ c' = s /\ preloading' = preloading
      \/ c' = PreloadAdd(s, e, o) /\ preloading' = preloading \union {o}
  BY DEF Preload
<1> HIDE DEF s
<1>5. /\ Good(PreloadAdd(s, e, o), img, preloading \union {o}, None, disk, FALSE)
      /\ JobQueued(s, PreloadAdd(s, e, o), e)
  <2>1. Does(s, "preload") /\ img[o] # None
    BY <1>2, <1>3 DEF Does, Preload
  <2> QED BY <1>2, <1>3, <2>1, PreloadAddGood
<1> HIDE DEF e
<1>6. Good(c', img', preloading', None, disk, FALSE) /\ JobQueued(c, c', e)
  <2>1. CASE c' = c /\ preloading' = preloading
    BY <1>1, <1>2, <2>1 DEF JobQueued
  <2>2. CASE c' = s /\ preloading' = preloading
    BY <1>2, <1>3, <2>2 DEF JobQueued, JobsSame
  <2>3. CASE c' = PreloadAdd(s, e, o) /\ preloading' = preloading \union {o}
    BY <1>2, <1>3, <1>5, <2>3 DEF JobQueued, JobsSame
  <2> QED BY <1>4, <2>1, <2>2, <2>3
<1>7. IInv'
  BY <1>1, <1>2, <1>6, CallKept DEF JobQueued
<1> QED BY <1>6, <1>7 DEF Jobs

\* A program that writes to images or changes files does not preload.
LEMMA NoPreload ==
  ASSUME Plain, IInv, May("dirty") \/ May("change")
  PROVE  ~Does(c, "preload")
<1>1. c.may \in Programs
  BY DEF IInv, TypeOK, CacheType
<1> QED BY <1>1 DEF Plain, May, Does

\* evas_object_image_alpha_set and evas_image_cache_reload keep the invariant, of
\* images that are not shared.
LEMMA WriteKeeps ==
  ASSUME Plain, IInv, TypeOK', MainTyped', NEW o \in Objects, AlphaSetOwn(o) \/ ReloadOwn(o)
  PROVE  IInv' /\ \E e : Jobs(e)
<1>1. /\ m.pc = "idle" /\ m.copy = None
      /\ Good(c, img, preloading, None, disk, FALSE)
  BY CallReady DEF AlphaSetOwn, ReloadOwn
<1>2. ~Does(c, "preload") /\ img[o] # None /\ m' = m /\ disk' = disk
  BY NoPreload DEF AlphaSetOwn, ReloadOwn
<1>3. preloading = {}
  BY <1>1, <1>2, NoTargets DEF Good
<1>4. CASE AlphaSetOwn(o)
  <2>1. StopPreload(c, o) = c
    BY <1>3 DEF StopPreload
  <2>2. c' = OwnWrite(c, img[o]) /\ img' = img /\ preloading' = preloading
    BY <1>3, <1>4, <2>1 DEF AlphaSetOwn
  <2>3. /\ Good(OwnWrite(c, img[o]), img, preloading, None, disk, FALSE)
        /\ JobsSame(c, OwnWrite(c, img[o]))
    BY <1>1, <1>2, OwnWriteGood
  <2>4. Good(c', img', preloading', None, disk, FALSE) /\ JobsMove(c, c', o)
    BY <2>2, <2>3 DEF JobsMove, JobsSame
  <2> QED BY <1>1, <1>2, <2>4, CallKept DEF JobsMove, Jobs
<1>5. CASE ReloadOwn(o)
  <2> DEFINE s == OwnWrite(c, img[o])
  <2>1. /\ c' = Release(s, o) /\ img' = [img EXCEPT ![o] = None]
        /\ preloading' = preloading \ {o}
    BY <1>5 DEF ReloadOwn
  <2>2. Good(s, img, preloading, None, disk, FALSE) /\ JobsSame(c, s)
    BY <1>1, <1>2, OwnWriteGood
  <2> HIDE DEF s
  <2>3. /\ Good(Release(s, o), [img EXCEPT ![o] = None], preloading \ {o}, None, disk, FALSE)
        /\ \E e : JobsMove(s, Release(s, o), e)
    BY <2>2, ReleaseGood
  <2>4. Good(c', img', preloading', None, disk, FALSE) /\ \E e : JobsMove(c, c', e)
    BY <2>1, <2>2, <2>3 DEF JobsMove, JobsSame
  <2> QED BY <1>1, <1>2, <2>4, CallKept DEF JobsMove, Jobs
<1> QED BY <1>4, <1>5

\* evas_cache_image_load_data, as far as the wait, keeps the invariant: the object
\* holds the image, and the copy, if any, is accounted for.
LEMMA LoadStartKeeps ==
  ASSUME Plain, IInv, TypeOK', MainTyped', NEW o \in Objects, NEW s, NEW n \in Entries \union {None},
         NEW then \in {"draw", "alpha", "reload"}, LoadStart(o, then, s, n),
         then = "draw" <=> n = None,
         Good(s, img, preloading', n, disk, FALSE), JobsSame(c, s),
         Does(c, "preload") => n = None
  PROVE  IInv' /\ \E e : Jobs(e)
<1> DEFINE e == img[o]
           wait == ~s.ent[e].loaded
<1>1. /\ s \in CacheType /\ Core(s, img, preloading', n, disk, FALSE) /\ FitsOK(s)
      /\ \A d \in Entries : Evictable(s, d)
  BY DEF Good, Core
<1>2. e \in Entries /\ s.ent[e].alive
  BY DEF LoadStart, IInv, TypeOK
<1>3. EntryOK(s, img, preloading', n, disk, FALSE, e) /\ Evictable(s, e)
  BY <1>1, <1>2 DEF Core
<1>4. /\ c' = IF wait THEN CancelJob(s, e) ELSE s
      /\ m' = [pc |-> IF wait THEN "wait" ELSE "ready", o |-> o, e |-> e, copy |-> n,
               then |-> then, had |-> wait /\ HasJob(s, e), asleep |-> FALSE]
      /\ img' = img /\ disk' = disk
  BY DEF LoadStart
<1>5. Good(c', img, preloading', n, disk, FALSE) /\ JobsMove(c, c', e)
  <2>1. CASE c' = s
    BY <2>1 DEF JobsSame, JobsMove
  <2>2. CASE wait /\ ~Does(s, "preload")
    <3>1. ~HasJob(s, e)
      BY <1>3, <2>2 DEF EntryOK, ProgramOK, HasJob
    <3> QED BY <1>4, <2>1, <2>2, <3>1 DEF CancelJob
  <2>3. CASE wait /\ Does(s, "preload")
    <3>1. ~s.ent[e].deleteMe /\ (s.ent[e].refs = 0 => e \in s.inactiv \/ HasJob(s, e))
      BY <1>2, <1>3 DEF EntryOK, DeletesOK, Evictable
    <3>2. Good(CancelJob(s, e), img, preloading', n, disk, FALSE) /\ JobsMove(s, CancelJob(s, e), e)
      BY <1>1, <1>2, <2>3, <3>1, CancelJobGood
    <3> QED BY <1>4, <2>3, <3>2 DEF JobsSame, JobsMove
  <2> QED BY <1>4, <2>1, <2>2, <2>3
<1> HIDE DEF e, wait
<1>6. c' \in CacheType /\ c'.inform = Quiet
  BY <1>5 DEF Good, Core
<1>7. Calmed(c') = c' /\ Informed' = preloading'
  <2>1. Calmed(c') = c'
    BY <1>6, CalmedFacts
  <2> QED BY <1>6, <2>1 DEF Informed, Quiet
<1>8. m'.pc \in {"wait", "ready"} /\ m'.o = o /\ m'.e = e /\ m'.copy = n /\ m'.then = then
  BY <1>4
<1>9. Closing' = FALSE
  BY <1>8 DEF Closing
<1>10. Good(Calmed(c'), img', Informed', m'.copy, disk', Closing')
  BY <1>4, <1>5, <1>7, <1>8, <1>9
<1>11. InformOK' /\ DiskOK'
  BY <1>4, <1>5, <1>6 DEF InformOK, Quiet, DiskOK, IInv, JobsMove, Does
<1>12. MainOK'
  BY <1>2, <1>4, <1>5, <1>8, <1>9 DEF MainOK, JobsMove, Does, e
<1> QED BY <1>5, <1>10, <1>11, <1>12 DEF IInv, Jobs

\* A draw, and the calls that copy a shared image, keep the invariant as far as the
\* wait in load_data.
LEMMA CopyKeeps ==
  ASSUME Plain, IInv, TypeOK', MainTyped', NEW o \in Objects,
         Draw(o) \/ AlphaSetShared(o) \/ ReloadShared(o)
  PROVE  IInv' /\ \E e : Jobs(e)
<1>1. /\ m.pc = "idle" /\ Steady
  BY DEF Draw, AlphaSetShared, ReloadShared, LoadStart
<1>2. Good(c, img, preloading, None, disk, FALSE)
  BY <1>1, CallReady DEF InCall
<1>3. CASE Draw(o)
  <2>1. LoadStart(o, "draw", c, None) /\ preloading' = preloading
    BY <1>3 DEF Draw
  <2>2. JobsSame(c, c) /\ None \in Entries \union {None}
    BY DEF JobsSame
  <2> QED BY <1>2, <2>1, <2>2, LoadStartKeeps
<1>4. ASSUME AlphaSetShared(o) \/ ReloadShared(o)
      PROVE  ~Does(c, "preload") /\ preloading = {} /\ preloading' = preloading
  <2>1. ~Does(c, "preload")
    BY <1>4, NoPreload DEF AlphaSetShared, ReloadShared
  <2>2. preloading = {}
    BY <1>2, <2>1, NoTargets DEF Good
  <2> QED BY <1>4, <2>1, <2>2 DEF AlphaSetShared, ReloadShared
<1>5. ASSUME NEW n \in FreeBlocks(c), NEW then \in {"alpha", "reload"},
             ~Does(c, "preload"), preloading' = preloading,
             LoadStart(o, then, EntryCopied(c, n), n)
      PROVE  IInv' /\ \E e : Jobs(e)
  <2> DEFINE s == EntryCopied(c, n)
  <2>1. Good(s, img, preloading, n, disk, FALSE) /\ JobsSame(c, s)
    BY <1>2, <1>5, EntryCopiedGood
  <2>2. n \in Entries /\ n # None
    BY CacheAssumption DEF FreeBlocks
  <2>3. LoadStart(o, then, s, n)
    BY <1>5
  <2> HIDE DEF s
  <2>4. then = "draw" <=> n = None
    BY <2>2
  <2>5. Good(s, img, preloading', n, disk, FALSE) /\ (Does(c, "preload") => n = None)
        /\ n \in Entries \union {None} /\ then \in {"draw", "alpha", "reload"}
    BY <1>5, <2>1, <2>2
  <2> QED BY <2>1, <2>3, <2>4, <2>5, LoadStartKeeps
<1>6. CASE AlphaSetShared(o)
  <2>1. PICK n \in FreeBlocks(c) : LoadStart(o, "alpha", EntryCopied(StopPreload(c, o), n), n)
    BY <1>6 DEF AlphaSetShared
  <2>2. StopPreload(c, o) = c
    BY <1>4, <1>6 DEF StopPreload
  <2> QED BY <1>4, <1>5, <1>6, <2>1, <2>2
<1>7. CASE ReloadShared(o)
  <2>1. PICK n \in FreeBlocks(c) : LoadStart(o, "reload", EntryCopied(c, n), n)
    BY <1>7 DEF ReloadShared
  <2> QED BY <1>4, <1>5, <1>7, <2>1
<1> QED BY <1>3, <1>6, <1>7

\* Every call of an object keeps the invariant, and moves at most one job, in a
\* way PreloadJobs knows.
LEMMA CallKeeps ==
  ASSUME Plain, IInv, TypeOK', MainTyped', NEW o \in Objects, Call(o)
  PROVE  IInv' /\ \E e : Jobs(e)
BY FileSetKeeps, LetGoKeeps, ObjectLoadKeeps, PreloadKeeps, PreloadCancelKeeps, WriteKeeps,
   CopyKeeps DEF Call, ObjectFree, ObjectUnload

\* evas_image_cache_set, evas_image_cache_flush, evas_render_dump and changes of
\* the files keep the invariant.
LEMMA WholeKeeps ==
  ASSUME Plain, IInv, TypeOK', MainTyped',
         (\E l \in Limits : CacheSet(l)) \/ CacheFlush \/ UnloadAll \/ \E k \in Keys : FileChanges(k)
  PROVE  IInv' /\ \E e : Jobs(e)
<1>1. c \in CacheType /\ c.limit \in Nat
  BY DEF IInv, TypeOK, CacheType
<1>2. ASSUME m' = m, disk' = disk, img' = img, preloading' = preloading, InCall,
             Good(c', img, preloading, None, disk, FALSE), JobsSame(c, c')
      PROVE  IInv' /\ \E e : Jobs(e)
  <2>1. m.pc = "idle" /\ m.copy = None
    BY <1>2, CallReady
  <2>2. Good(c', img', preloading', None, disk, FALSE) /\ c'.may = c.may
    BY <1>2 DEF JobsSame
  <2>3. JobsMove(c, c', None)
    BY <1>2 DEF JobsMove, JobsSame
  <2> QED BY <1>2, <2>1, <2>2, <2>3, CallKept DEF Jobs
<1>3. CASE \E l \in Limits : CacheSet(l)
  <2>1. PICK l \in Limits : CacheSet(l)
    BY <1>3
  <2>2. Good(c, img, preloading, None, disk, FALSE) /\ l \in Nat
    BY <2>1, CallReady, CacheAssumption DEF CacheSet
  <2>3. LET t == Flush([c EXCEPT !.limit = l])
        IN  Good(t, img, preloading, None, disk, FALSE) /\ JobsSame(c, t)
    BY <2>2, CacheFlushGood
  <2> QED BY <1>2, <2>1, <2>3 DEF CacheSet
<1>4. CASE CacheFlush
  <2> DEFINE t == Flush([c EXCEPT !.limit = 0])
             n == c.limit
  <2>1. Good(c, img, preloading, None, disk, FALSE)
    BY <1>4, CallReady DEF CacheFlush
  <2>2. \A l \in Nat : l <= n =>
          LET u == [Flush([c EXCEPT !.limit = l]) EXCEPT !.limit = n]
          IN  Good(u, img, preloading, None, disk, FALSE) /\ JobsSame(c, u)
    BY <1>1, <2>1, CacheFlushGood
  <2>3. 0 <= n
    BY <1>1
  <2>4. LET u == [t EXCEPT !.limit = n]
        IN  Good(u, img, preloading, None, disk, FALSE) /\ JobsSame(c, u)
    BY <2>2, <2>3
  <2> QED BY <1>2, <1>4, <2>4 DEF CacheFlush
<1>5. CASE UnloadAll
  <2> DEFINE f == [e \in Entries |->
                     IF e \in Range(c.lru) \union c.activ \union c.inactiv THEN UnloadData(e)
                     ELSE c.ent[e]]
  <2>1. Good(c, img, preloading, None, disk, FALSE) /\ Does(c, "unload")
    BY <1>5, CallReady DEF UnloadAll, May, Does
  <2>2. c' = [c EXCEPT !.ent = f]
    BY <1>5 DEF UnloadAll
  <2>3. \A e \in Entries : Standing(UnloadData(e), c.ent[e])
    <3> TAKE e \in Entries
    <3>1. c.ent[e] \in EntryType
      BY <1>1, EntryTyped
    <3> DEFINE r == c.ent[e]
    <3> HIDE DEF r
    <3>2. /\ Standing(r, r) /\ Standing([r EXCEPT !.unloadCancel = TRUE], r)
          /\ Standing([r EXCEPT !.data = FALSE, !.loaded = FALSE, !.done = FALSE], r)
      BY <3>1 DEF Standing, Alike, EntryType, r
    <3> QED BY <3>2 DEF UnloadData, r
  <2>4. \A e \in Range(c.lru) \union c.activ \union c.inactiv : e \in Entries => c.ent[e].alive
    BY <2>1 DEF Good, Core, LruOK, EntryOK, OnLists
  <2>5. \A e \in Entries : /\ Standing(f[e], c.ent[e])
                           /\ f[e] = c.ent[e] \/ c.ent[e].alive
    BY <2>3, <2>4 DEF Standing, Alike
  <2> HIDE DEF f
  <2>6. /\ c'.ent = f /\ SameRest(c, c') /\ c'.activ = c.activ /\ c'.inactiv = c.inactiv
        /\ c'.dirty = c.dirty /\ c'.lru = c.lru /\ c'.usage = c.usage
    BY <1>1, <2>2 DEF CacheType, SameRest
  <2>7. c' \in CacheType
    BY DEF TypeOK
  <2>8. \A e \in Entries : /\ Standing(c'.ent[e], c.ent[e])
                           /\ c'.ent[e] = c.ent[e] \/ c.ent[e].alive
    BY <2>5, <2>6
  <2>9. Good(c', img, preloading, None, disk, FALSE) /\ JobsSame(c, c')
    BY <2>1, <2>6, <2>7, <2>8, UnloadGood
  <2> QED BY <1>2, <1>5, <2>9 DEF UnloadAll
<1>6. CASE \E k \in Keys : FileChanges(k)
  <2>1. /\ ~Does(c, "preload")
        /\ c' = c /\ img' = img /\ preloading' = preloading /\ m' = m
    BY <1>6, NoPreload DEF FileChanges
  <2>2. Good(Calmed(c), img, Informed, m.copy, disk, Closing) /\ ~Does(Calmed(c), "preload")
    BY <1>1, <2>1, CalmedFacts DEF IInv, Does
  <2>3. Good(Calmed(c), img, Informed, m.copy, disk', Closing)
    BY <2>2, FilesGood
  <2>4. Good(Calmed(c'), img', Informed', m'.copy, disk', Closing')
    BY <2>1, <2>3 DEF Informed, Closing
  <2>5. InformOK' /\ DiskOK' /\ MainOK'
    BY <2>1 DEF IInv, InformOK, DiskOK, MainOK, Does, Closing
  <2>6. JobsMove(c, c', None)
    BY <2>1 DEF JobsMove
  <2> QED BY <2>4, <2>5, <2>6 DEF IInv, Jobs
<1> QED BY <1>3, <1>4, <1>5, <1>6

-----------------------------------------------------------------------------
\* A step of the thread that has the job of an image touches its pixels and its
\* phase only: the invariant is kept, wherever the main thread is.
LEMMA WorkKept ==
  ASSUME IInv, TypeOK', MainTyped', NEW e \in Entries, HasJob(c, e),
         img' = img /\ preloading' = preloading /\ disk' = disk /\ m' = m,
         NEW p \in Phases \ {"idle", "queued"}, NEW q \in EntryType, Standing(q, c.ent[e]),
         c' = [c EXCEPT !.phase[e] = p, !.ent[e] = q]
  PROVE  IInv'
<1> DEFINE s == Calmed(c)
           t == Calmed(c')
<1>1. /\ c \in CacheType /\ c' \in CacheType /\ InformOK
      /\ Good(s, img, Informed, m.copy, disk, Closing)
  BY DEF IInv, TypeOK
<1>2. /\ c'.ent = [c.ent EXCEPT ![e] = q] /\ c'.phase = [c.phase EXCEPT ![e] = p]
      /\ c'.activ = c.activ /\ c'.inactiv = c.inactiv /\ c'.dirty = c.dirty
      /\ c'.lru = c.lru /\ c'.usage = c.usage /\ c'.limit = c.limit /\ c'.may = c.may
      /\ c'.bad = c.bad /\ c'.inform = c.inform /\ c'.flagged = c.flagged
      /\ c'.preload = c.preload /\ c'.pend = c.pend
  BY <1>1 DEF CacheType
<1>3. /\ s \in CacheType /\ s.ent = c.ent /\ s.phase = c.phase /\ s.flagged = c.flagged
      /\ s.may = c.may /\ s.bad = c.bad /\ s.activ = c.activ /\ s.inactiv = c.inactiv
      /\ s.dirty = c.dirty /\ s.lru = c.lru /\ s.preload = c.preload /\ s.pend = c.pend
      /\ s.usage = c.usage /\ s.limit = c.limit /\ s.inform = Quiet
  BY <1>1, CalmedFacts
<1>4. /\ t \in CacheType /\ t.ent = c'.ent /\ t.phase = c'.phase /\ t.flagged = c'.flagged
      /\ t.may = c'.may /\ t.bad = c'.bad /\ t.activ = c'.activ /\ t.inactiv = c'.inactiv
      /\ t.dirty = c'.dirty /\ t.lru = c'.lru /\ t.preload = c'.preload /\ t.pend = c'.pend
      /\ t.usage = c'.usage /\ t.limit = c'.limit /\ t.inform = Quiet
  BY <1>1, CalmedFacts
<1> HIDE DEF s, t
<1>5. /\ c'.ent[e] = q /\ c'.phase[e] = p
      /\ \A d \in Entries \ {e} : c'.ent[d] = c.ent[d] /\ c'.phase[d] = c.phase[d]
  BY <1>1, <1>2 DEF CacheType
<1>6. /\ SameBut(s, t, e) /\ Standing(t.ent[e], s.ent[e])
      /\ t.phase[e] \notin {"idle", "queued"} /\ HasJob(s, e)
  BY <1>2, <1>3, <1>4, <1>5 DEF SameBut, HasJob
<1>7. EntryOK(s, img, Informed, m.copy, disk, Closing, e)
  BY <1>1 DEF Good, Core
<1>8. s.ent[e].alive /\ e \notin s.inactiv
  BY <1>6, <1>7 DEF EntryOK, JobOK, OnLists
<1>9. /\ e \in t.preload <=> e \in s.preload
      /\ e \in t.pend <=> e \in s.pend
      /\ e \in t.flagged <=> e \in s.flagged
  BY <1>2, <1>3, <1>4
<1>10. Good(t, img, Informed, m.copy, disk, Closing)
  BY <1>1, <1>4, <1>6, <1>8, <1>9, PixelsGood
<1>11. c.inform.e # e
  <2>1. e # None
    BY CacheAssumption
  <2> QED BY <1>1, <2>1 DEF InformOK
<1>12. c.inform.e # None => c.inform.e \in Entries
  BY <1>1 DEF CacheType
<1>13. /\ c.inform.e # None => c'.ent[c.inform.e] = c.ent[c.inform.e]
       /\ c.inform.e # None => c'.phase[c.inform.e] = c.phase[c.inform.e]
  BY <1>5, <1>11, <1>12
<1>14. Informed' = Informed /\ Closing' = Closing
  <2>1. c'.inform = c.inform
    BY <1>2
  <2>2. c.inform.cb => c.inform.e # None
    BY <1>1 DEF InformOK
  <2>3. c.inform.cb => c'.ent[c.inform.e] = c.ent[c.inform.e]
    BY <1>13, <2>2
  <2>4. Informed' = Informed
    BY <2>1, <2>3 DEF Informed
  <2>5. Closing' = Closing
    BY DEF Closing
  <2> QED BY <2>4, <2>5
<1>15. InformOK'
  BY <1>1, <1>2, <1>13 DEF InformOK, Does, HasJob
<1>16. DiskOK' /\ MainOK'
  BY <1>2, <1>14 DEF IInv, DiskOK, MainOK, Does
<1>17. Good(Calmed(c'), img', Informed', m'.copy, disk', Closing')
  BY <1>10, <1>14 DEF t
<1> QED BY <1>15, <1>16, <1>17 DEF IInv

\* Every step of such a thread is of that kind.
LEMMA JobKeeps ==
  ASSUME IInv, TypeOK', MainTyped', NEW e \in Entries, Job(e)
  PROVE  IInv'
<1> DEFINE r == c.ent[e]
<1>1. c \in CacheType /\ r \in EntryType
  BY EntryTyped DEF IInv, TypeOK
<1>2. Phases = {"idle", "queued", "taken", "loading", "loaded", "checked", "posted"}
  BY DEF Phases
<1>3. HasJob(c, e)
  BY DEF Job, JobTaken, JobLocks, JobLoads, JobChecksUnload, JobPosts, ThreadStep, HasJob
<1>4. img' = img /\ preloading' = preloading /\ disk' = disk /\ m' = m
  BY DEF Job, JobTaken, JobLocks, JobLoads, JobChecksUnload, JobPosts, ThreadStep
<1>5. Standing(r, r)
  BY DEF Standing, Alike
<1>6. \A p \in Phases : [c EXCEPT !.phase[e] = p] = [c EXCEPT !.phase[e] = p, !.ent[e] = r]
  BY <1>1 DEF CacheType
<1>7. /\ ~c.bad /\ c.bad \in BOOLEAN /\ r.file
  <2>1. Good(Calmed(c), img, Informed, m.copy, disk, Closing)
    BY DEF IInv
  <2>2. /\ ~c.bad /\ EntryOK(Calmed(c), img, Informed, m.copy, disk, Closing, e)
        /\ Calmed(c).ent = c.ent /\ Calmed(c).phase = c.phase
    BY <1>1, <2>1, CalmedFacts DEF Good, Core
  <2> QED BY <1>1, <1>3, <2>2 DEF EntryOK, ProgramOK, JobOK, OnLists, HasJob, CacheType
<1>8. CASE JobTaken(e)
  <2>1. c' = [c EXCEPT !.phase[e] = "taken", !.ent[e] = r]
    BY <1>2, <1>6, <1>8 DEF JobTaken
  <2> QED BY <1>1, <1>2, <1>3, <1>4, <1>5, <2>1, WorkKept
<1>9. CASE JobLocks(e)
  <2>1. c' = [c EXCEPT !.phase[e] = "loading", !.bad = (c.bad \/ ~c.ent[e].file)]
    BY <1>9 DEF JobLocks
  <2>2. (c.bad \/ ~c.ent[e].file) = c.bad
    BY <1>7
  <2>3. c' = [c EXCEPT !.phase[e] = "loading"]
    BY <1>1, <2>1, <2>2 DEF CacheType
  <2>4. c' = [c EXCEPT !.phase[e] = "loading", !.ent[e] = r]
    BY <1>2, <1>6, <2>3
  <2> QED BY <1>1, <1>2, <1>3, <1>4, <1>5, <2>4, WorkKept
<1>10. CASE JobLoads(e)
  <2>1. CASE c' = [c EXCEPT !.phase[e] = "loaded"]
    <3>1. c' = [c EXCEPT !.phase[e] = "loaded", !.ent[e] = r]
      BY <1>2, <1>6, <2>1
    <3> QED BY <1>1, <1>2, <1>3, <1>4, <1>5, <3>1, WorkKept
  <2>2. ASSUME NEW ok \in BOOLEAN,
               c' = [c EXCEPT !.phase[e] = "loaded", !.ent[e].data = TRUE, !.ent[e].loaded = ok]
        PROVE  IInv'
    <3> DEFINE q == [r EXCEPT !.data = TRUE, !.loaded = ok]
    <3>1. q \in EntryType
      BY <1>1, FieldWritten
    <3>2. Standing(q, r)
      BY <1>1 DEF Standing, Alike, EntryType
    <3>3. c' = [c EXCEPT !.phase[e] = "loaded", !.ent[e] = q]
      BY <1>1, <2>2 DEF CacheType
    <3> HIDE DEF q
    <3> QED BY <1>2, <1>3, <1>4, <3>1, <3>2, <3>3, WorkKept
  <2> QED BY <1>10, <2>1, <2>2 DEF JobLoads
<1>11. CASE JobChecksUnload(e)
  <2>1. CASE c' = [c EXCEPT !.phase[e] = "checked"]
    <3>1. c' = [c EXCEPT !.phase[e] = "checked", !.ent[e] = r]
      BY <1>2, <1>6, <2>1
    <3> QED BY <1>1, <1>2, <1>3, <1>4, <1>5, <3>1, WorkKept
  <2>2. CASE c' = [c EXCEPT !.phase[e] = "checked", !.ent[e].unloadCancel = FALSE,
                            !.ent[e].data = FALSE, !.ent[e].loaded = FALSE, !.ent[e].done = FALSE]
    <3> DEFINE q == [r EXCEPT !.unloadCancel = FALSE, !.data = FALSE, !.loaded = FALSE,
                              !.done = FALSE]
    <3>1. q \in EntryType
      BY <1>1, FieldWritten
    <3>2. Standing(q, r)
      BY <1>1 DEF Standing, Alike, EntryType
    <3>3. c' = [c EXCEPT !.phase[e] = "checked", !.ent[e] = q]
      BY <1>1, <2>2, UnloadWritten
    <3> HIDE DEF q
    <3> QED BY <1>2, <1>3, <1>4, <3>1, <3>2, <3>3, WorkKept
  <2> QED BY <1>11, <2>1, <2>2 DEF JobChecksUnload
<1>12. CASE JobPosts(e)
  <2>1. c' = [c EXCEPT !.phase[e] = "posted", !.ent[e] = r]
    BY <1>2, <1>6, <1>12 DEF JobPosts
  <2> QED BY <1>1, <1>2, <1>3, <1>4, <1>5, <2>1, WorkKept
<1> QED BY <1>8, <1>9, <1>10, <1>11, <1>12 DEF Job

\* After async_end the loop over the targets, if there is one, is in order.
LEMMA InformsKept ==
  ASSUME NEW cp, NEW dk, NEW cl, Good(Calmed(c'), img', preloading', cp, dk, cl),
         c' \in CacheType,
         c'.inform = Quiet \/ \E e \in Entries, b \in BOOLEAN : Informs(c', e, b)
  PROVE  InformOK' /\ Informed' = preloading'
<1>1. Calmed(c').ent = c'.ent /\ Calmed(c').may = c'.may
  BY CalmedFacts
<1>2. ~c'.inform.cb
  <2>1. CASE c'.inform = Quiet
    BY <2>1 DEF Quiet
  <2>2. ASSUME NEW e \in Entries, NEW b \in BOOLEAN, Informs(c', e, b)
        PROVE  ~c'.inform.cb
    BY <2>2 DEF Informs
  <2> QED BY <2>1, <2>2
<1>3. Informed' = preloading'
  BY <1>2 DEF Informed
<1>4. ASSUME NEW e \in Entries, NEW b \in BOOLEAN, Informs(c', e, b)
      PROVE  InformOK'
  <2>1. e # None /\ EntryOK(Calmed(c'), img', preloading', cp, dk, cl, e)
    BY CacheAssumption DEF Good, Core
  <2>2. c'.ent[e].targets # <<>>
    BY <1>4 DEF Informs
  <2>3. Does(c', "preload")
    BY <1>1, <2>1, <2>2 DEF EntryOK, ProgramOK, Does
  <2> QED BY <1>2, <1>4, <2>1, <2>3 DEF InformOK, Informs
<1>5. ASSUME c'.inform = Quiet
      PROVE  InformOK'
  <2>1. c'.inform.e = None
    BY <1>5 DEF Quiet
  <2> QED BY <1>2, <1>5, <2>1 DEF InformOK
<1>6. InformOK'
  BY <1>4, <1>5
<1> QED BY <1>3, <1>6

\* While the main thread is not in the loop of async_end, the cache is good.
LEMMA SteadyGood ==
  ASSUME IInv, Steady
  PROVE  /\ Calmed(c) = c /\ c \in CacheType /\ c.inform = Quiet /\ ~c.bad
         /\ Good(c, img, preloading, m.copy, disk, Closing)
<1>1. c \in CacheType /\ c.inform = Quiet /\ ~c.inform.cb
  BY DEF IInv, TypeOK, Steady, Quiet
<1>2. Calmed(c) = c /\ Informed = preloading
  BY <1>1, CalmedFacts DEF Informed
<1> QED BY <1>1, <1>2 DEF IInv, Steady

\* A report keeps the invariant, of a job that was cancelled or not, in the main
\* loop, while load_data waits, and in the shutdown.
LEMMA DeliverKeeps ==
  ASSUME IInv, TypeOK', MainTyped', NEW e \in Entries, Deliver(e)
  PROVE  /\ IInv' /\ c'.may = c.may
         /\ c'.phase = [c.phase EXCEPT ![e] = "idle"] /\ c'.flagged = c.flagged \ {e}
<1> DEFINE x == [c EXCEPT !.phase[e] = "idle", !.flagged = @ \ {e}]
           cp == m.copy
           cl == Closing
<1>1. /\ c \in CacheType /\ c.inform = Quiet /\ c.phase[e] = "posted"
      /\ Good(c, img, preloading, cp, disk, cl)
      /\ img' = img /\ preloading' = preloading /\ disk' = disk /\ m' = m
      /\ c' = IF e \in c.flagged THEN AsyncCancel(x, e) ELSE AsyncEnd(x, e, FALSE)
  BY SteadyGood DEF Deliver
<1>2. /\ Core(c, img, preloading, cp, disk, cl) /\ FitsOK(c) /\ \A d \in Entries : Evictable(c, d)
      /\ EntryOK(c, img, preloading, cp, disk, cl, e) /\ Users(img, preloading, cp)
      /\ c.ent[e] \in EntryType
  BY <1>1, EntryTyped DEF Good, Core
<1>3. /\ HasJob(c, e) /\ e \in c.activ /\ c.ent[e].alive /\ e \notin c.inactiv
      /\ Does(c, "preload")
  BY <1>1, <1>2 DEF HasJob, EntryOK, JobOK, OnLists, ProgramOK
<1>4. x \in CacheType
  BY <1>1 DEF CacheType, Phases
<1>5. /\ x.ent = c.ent /\ x.phase = [c.phase EXCEPT ![e] = "idle"]
      /\ x.preload = c.preload /\ x.pend = c.pend /\ x.flagged = c.flagged \ {e}
      /\ x.activ = c.activ /\ x.inactiv = c.inactiv /\ x.dirty = c.dirty
      /\ x.lru = c.lru /\ x.usage = c.usage /\ x.limit = c.limit /\ x.may = c.may
      /\ x.bad = c.bad /\ x.inform = c.inform
  BY <1>1 DEF CacheType
<1> HIDE DEF x, cp, cl
<1>6. \A d \in Entries \ {e} : Target(img, preloading, d) = Target(img, preloading, d)
  OBVIOUS
<1>7. ASSUME NEW v, JobsSame(v, c'), v.phase = x.phase, v.flagged = x.flagged, v.may = x.may,
             Good(Calmed(c'), img, preloading, cp, disk, cl),
             c'.inform = Quiet \/ \E d \in Entries, b \in BOOLEAN : Informs(c', d, b)
      PROVE  /\ IInv' /\ c'.may = c.may
             /\ c'.phase = [c.phase EXCEPT ![e] = "idle"] /\ c'.flagged = c.flagged \ {e}
  <2>1. /\ c'.may = c.may
        /\ c'.phase = [c.phase EXCEPT ![e] = "idle"] /\ c'.flagged = c.flagged \ {e}
    BY <1>5, <1>7 DEF JobsSame
  <2>2. c' \in CacheType
    BY DEF TypeOK
  <2>3. InformOK' /\ Informed' = preloading'
    BY <1>1, <1>7, <2>2, InformsKept
  <2>4. DiskOK' /\ MainOK'
    BY <1>1, <2>1 DEF IInv, DiskOK, MainOK, Does, Closing
  <2>5. Good(Calmed(c'), img', Informed', m'.copy, disk', Closing')
    BY <1>1, <1>7, <2>3 DEF cp, cl, Closing
  <2> QED BY <2>1, <2>3, <2>4, <2>5 DEF IInv
<1>8. CASE e \in c.flagged
  <2> DEFINE v == Given(x, e)
             q == [c.ent[e] EXCEPT !.deleteMe = FALSE]
  <2>1. /\ q \in EntryType /\ Alike(q, c.ent[e]) /\ q.deleteMe = FALSE
        /\ q.data = c.ent[e].data /\ q.pending = c.ent[e].pending
        /\ q.targets = c.ent[e].targets
    BY <1>2, DeleteClear
  <2>2. /\ v.ent = [c.ent EXCEPT ![e] = q] /\ v.phase = x.phase
        /\ v.preload = c.preload /\ v.pend = c.pend \ {e} /\ v.flagged = x.flagged
        /\ v.activ = c.activ /\ v.inactiv = c.inactiv /\ v.dirty = c.dirty
        /\ v.lru = c.lru /\ v.usage = c.usage /\ v.limit = c.limit /\ v.may = c.may
        /\ v.bad = c.bad /\ v.inform = c.inform
    BY <1>1, <1>4, <1>5 DEF Given, CacheType
  <2> HIDE DEF q
  <2>3. v \in CacheType
    BY <1>4, <1>5, <2>1 DEF Given, CacheType, q
  <2> HIDE DEF v
  <2>4. v.ent[e] = q /\ \A d \in Entries \ {e} : v.ent[d] = c.ent[d]
    BY <1>1, <2>2 DEF CacheType
  <2>5. v.phase[e] = "idle" /\ \A d \in Entries \ {e} : v.phase[d] = c.phase[d]
    BY <1>1, <1>5, <2>2 DEF CacheType
  <2>6. SameBut(c, v, e) /\ Identity(c, v, e)
    BY <1>5, <2>1, <2>2, <2>4, <2>5 DEF SameBut, Identity
  <2>7. JobOK(v, e) /\ DeletesOK(v, cl, e) /\ ~HasJob(v, e)
    BY <1>2, <1>5, <1>8, <2>1, <2>2, <2>4, <2>5 DEF EntryOK, JobOK, DeletesOK, HasJob
  <2>8. /\ v.ent[e].data = c.ent[e].data \/ e \notin c.inactiv
        /\ Does(c, "preload") \/ (v.phase[e] = "idle" /\ v.ent[e].targets = <<>>)
        /\ Range(v.ent[e].targets) = Target(img, preloading, e)
    BY <1>2, <1>3, <2>1, <2>4 DEF EntryOK
  <2>9. /\ Core(v, img, preloading, cp, disk, cl)
        /\ FitsOK(c) => FitsOK(v)
        /\ \A d \in Entries \ {e} : Evictable(c, d) => Evictable(v, d)
    BY <1>2, <1>3, <1>6, <2>3, <2>6, <2>7, <2>8, JobStep
  <2>10. /\ v = Given(x, e) /\ FitsOK(v) /\ e \in v.activ
         /\ \A d \in Entries \ {e} : Evictable(v, d)
         /\ Unused(x, e)
    BY <1>2, <1>3, <1>5, <2>2, <2>9 DEF v, Unused, EntryOK, DeletesOK
  <2>11. LET r == AsyncCancel(x, e)
         IN  /\ r \in CacheType /\ Good(Calmed(r), img, preloading, cp, disk, cl)
             /\ JobsSame(v, r)
             /\ r.inform = Quiet \/ Informs(r, e, TRUE)
    BY <1>4, <2>7, <2>9, <2>10, AsyncCancelGood
  <2>12. c' = AsyncCancel(x, e)
    BY <1>1, <1>8
  <2> QED BY <1>5, <1>7, <2>2, <2>11, <2>12
<1>9. CASE e \notin c.flagged
  <2> DEFINE t == Ended(x, e)
             q == [c.ent[e] EXCEPT !.done = c.ent[e].loaded]
  <2>1. /\ q \in EntryType /\ Alike(q, c.ent[e]) /\ q.deleteMe = c.ent[e].deleteMe
        /\ q.data = c.ent[e].data /\ q.pending = c.ent[e].pending
        /\ q.targets = c.ent[e].targets
    BY <1>2 DEF EntryType, Alike
  <2>2. /\ t.ent = [c.ent EXCEPT ![e] = q] /\ t.phase = x.phase
        /\ t.preload = c.preload \ {e} /\ t.pend = c.pend \ {e} /\ t.flagged = x.flagged
        /\ t.activ = c.activ /\ t.inactiv = c.inactiv /\ t.dirty = c.dirty
        /\ t.lru = c.lru /\ t.usage = c.usage /\ t.limit = c.limit /\ t.may = c.may
        /\ t.bad = c.bad /\ t.inform = c.inform
    BY <1>1, <1>4, <1>5 DEF Ended, CacheType
  <2>3. t \in CacheType
    BY <1>4, <1>5, <2>1 DEF Ended, CacheType
  <2> HIDE DEF q, t
  <2>4. t.ent[e] = q /\ \A d \in Entries \ {e} : t.ent[d] = c.ent[d]
    BY <1>1, <2>2 DEF CacheType
  <2>5. t.phase[e] = "idle" /\ \A d \in Entries \ {e} : t.phase[d] = c.phase[d]
    BY <1>1, <1>5, <2>2 DEF CacheType
  <2>6. SameBut(c, t, e) /\ Identity(c, t, e)
    BY <1>5, <2>1, <2>2, <2>4, <2>5 DEF SameBut, Identity
  <2>7. c.ent[e].targets # <<>> /\ ~c.ent[e].deleteMe /\ c.ent[e].refs # 0
    <3>1. ~c.ent[e].pending
      BY <1>2, <1>3, <1>9 DEF EntryOK, JobOK
    <3>2. c.ent[e].targets # <<>>
      BY <1>2, <1>3, <3>1 DEF Evictable, Wanted
    <3>3. c.ent[e].refs # 0
      BY <1>1, <1>2, <3>2, Unheld
    <3> QED BY <1>2, <3>2, <3>3 DEF EntryOK, DeletesOK
  <2>8. JobOK(t, e) /\ DeletesOK(t, cl, e) /\ ~HasJob(t, e)
    BY <1>2, <1>5, <2>1, <2>2, <2>4, <2>5, <2>7 DEF EntryOK, JobOK, DeletesOK, HasJob
  <2>9. /\ t.ent[e].data = c.ent[e].data \/ e \notin c.inactiv
        /\ Does(c, "preload") \/ (t.phase[e] = "idle" /\ t.ent[e].targets = <<>>)
        /\ Range(t.ent[e].targets) = Target(img, preloading, e)
    BY <1>2, <1>3, <2>1, <2>4 DEF EntryOK
  <2>10. /\ Core(t, img, preloading, cp, disk, cl)
         /\ FitsOK(c) => FitsOK(t)
         /\ \A d \in Entries \ {e} : Evictable(c, d) => Evictable(t, d)
    BY <1>2, <1>3, <1>6, <2>3, <2>6, <2>8, <2>9, JobStep
  <2>11. /\ t = Ended(x, e) /\ FitsOK(t) /\ e \in t.activ /\ t.ent[e].refs # 0
         /\ \A d \in Entries \ {e} : Evictable(t, d)
    BY <1>2, <1>3, <2>1, <2>2, <2>4, <2>7, <2>10 DEF t, Alike
  <2>12. ASSUME NEW b \in BOOLEAN
         PROVE  LET r == AsyncEnd(x, e, b)
                IN  /\ r \in CacheType /\ Good(Calmed(r), img, preloading, cp, disk, cl)
                    /\ JobsSame(t, r)
                    /\ r.inform = Quiet \/ Informs(r, e, b)
    BY <2>8, <2>10, <2>11, AsyncEndGood
  <2>13. LET r == AsyncEnd(x, e, FALSE)
         IN  /\ r \in CacheType /\ Good(Calmed(r), img, preloading, cp, disk, cl)
             /\ JobsSame(t, r)
             /\ r.inform = Quiet \/ Informs(r, e, FALSE)
    BY <2>12, Zenon
  <2>14. c' = AsyncEnd(x, e, FALSE)
    BY <1>1, <1>9
  <2> QED BY <1>5, <1>7, <2>2, <2>13, <2>14
<1> QED BY <1>8, <1>9

\* The loop of async_end finds the image alive, active, held, and without a job.
LEMMA InformReady ==
  ASSUME IInv, c.inform.e # None
  PROVE  LET e == c.inform.e
         IN  /\ e \in Entries /\ e \in c.activ /\ ~HasJob(c, e) /\ c.ent[e].refs # 0
             /\ c.ent[e].alive /\ c.ent[e].targets \in Seq(Objects)
             /\ IsInjective(c.ent[e].targets)
             /\ Range(c.ent[e].targets) = Target(img, Informed, e)
             /\ Does(c, "preload") /\ ~c.ent[e].deleteMe /\ ~c.bad
<1> DEFINE e == c.inform.e
<1>1. /\ c \in CacheType /\ InformOK /\ Good(Calmed(c), img, Informed, m.copy, disk, Closing)
  BY DEF IInv, TypeOK
<1>2. e \in Entries /\ e \in c.activ /\ ~HasJob(c, e) /\ c.ent[e].refs # 0
  BY <1>1 DEF CacheType, InformOK
<1>3. Does(c, "preload")
  <2>1. c.inform # Quiet
    BY DEF Quiet
  <2> QED BY <1>1, <2>1 DEF InformOK
<1> HIDE DEF e
<1>4. EntryOK(Calmed(c), img, Informed, m.copy, disk, Closing, e) /\ ~Calmed(c).bad
  BY <1>1, <1>2 DEF Good, Core
<1>5. /\ Calmed(c).ent = c.ent /\ Calmed(c).activ = c.activ /\ Calmed(c).phase = c.phase
      /\ Calmed(c).bad = c.bad
  BY <1>1, CalmedFacts
<1>6. c.ent[e].targets \in Seq(Objects)
  BY <1>1, <1>2, EntryTyped DEF EntryType
<1>7. c.ent[e].alive /\ IsInjective(c.ent[e].targets) /\ ~c.ent[e].deleteMe
      /\ Range(c.ent[e].targets) = Target(img, Informed, e)
  BY <1>2, <1>4, <1>5 DEF EntryOK, OnLists, JobOK, DeletesOK, HasJob
<1> QED BY <1>2, <1>3, <1>4, <1>5, <1>6, <1>7 DEF e

\* The callback of the first target is called: its object does not wait any more,
\* and is a target still.
LEMMA InformCallKeeps ==
  ASSUME IInv, TypeOK', MainTyped', InformCall
  PROVE  IInv' /\ JobsSame(c, c')
<1> DEFINE e == c.inform.e
           h == Head(c.ent[e].targets)
<1>1. /\ e # None /\ ~c.inform.cb /\ c.ent[e].targets # <<>>
      /\ c' = [c EXCEPT !.inform.cb = TRUE]
      /\ preloading' = preloading \ {h}
      /\ img' = img /\ disk' = disk /\ m' = m
  BY DEF InformCall
<1>2. c \in CacheType /\ c' \in CacheType /\ Informed = preloading
      /\ Good(Calmed(c), img, Informed, m.copy, disk, Closing)
  BY <1>1 DEF IInv, TypeOK, Informed
<1>3. /\ e \in Entries /\ e \in c.activ /\ ~HasJob(c, e) /\ c.ent[e].refs # 0
      /\ c.ent[e].targets \in Seq(Objects) /\ IsInjective(c.ent[e].targets)
      /\ Range(c.ent[e].targets) = Target(img, preloading, e) /\ Does(c, "preload")
  BY <1>1, <1>2, InformReady
<1>4. h \in preloading
  <2>1. h \in Range(c.ent[e].targets)
    BY <1>1, <1>3, TailInjective
  <2> QED BY <1>3, <2>1 DEF Target
<1> HIDE DEF h
<1>5. /\ c'.ent = c.ent /\ c'.activ = c.activ /\ c'.phase = c.phase /\ c'.flagged = c.flagged
      /\ c'.may = c.may /\ c'.inform.e = e /\ c'.inform.cb = TRUE
      /\ [c' EXCEPT !.inform = Quiet] = [c EXCEPT !.inform = Quiet]
  BY <1>1, <1>2 DEF CacheType
<1>6. Calmed(c') = Calmed(c)
  BY <1>5 DEF Calmed
<1>7. Informed' = preloading
  BY <1>1, <1>4, <1>5 DEF Informed, h
<1>8. Closing' = Closing
  BY <1>1 DEF Closing
<1> HIDE DEF e
<1>9. InformOK'
  <2>1. /\ c'.inform.e \in c'.activ /\ ~HasJob(c', c'.inform.e) /\ c'.ent[c'.inform.e].refs # 0
        /\ c'.inform.e # None /\ Does(c', "preload")
    BY <1>1, <1>3, <1>5 DEF Does, HasJob
  <2>2. c'.ent[c'.inform.e].targets # <<>> /\ Head(c'.ent[c'.inform.e].targets) \notin preloading'
    BY <1>1, <1>5 DEF h
  <2> QED BY <2>1, <2>2 DEF InformOK
<1>10. DiskOK' /\ MainOK'
  BY <1>1, <1>5, <1>8 DEF IInv, DiskOK, MainOK, Does
<1>11. Good(Calmed(c'), img', Informed', m'.copy, disk', Closing')
  BY <1>1, <1>2, <1>6, <1>7, <1>8
<1> QED BY <1>5, <1>9, <1>10, <1>11 DEF IInv, JobsSame

\* The callback has returned, and the first target is removed: the targets are the
\* objects that wait again.
LEMMA InformReturnKeeps ==
  ASSUME IInv, TypeOK', MainTyped', InformReturn
  PROVE  IInv' /\ JobsSame(c, c')
<1> DEFINE e == c.inform.e
           h == Head(c.ent[e].targets)
           l == Tail(c.ent[e].targets)
           q == [c.ent[e] EXCEPT !.targets = l]
           s == Calmed(c)
           t == Calmed(c')
           cp == m.copy
           cl == Closing
<1>1. /\ e # None /\ c.inform.cb
      /\ c' = IF ~c.ent[e].alive \/ c.ent[e].targets = <<>>
              THEN [c EXCEPT !.bad = TRUE, !.inform = Quiet]
              ELSE [c EXCEPT !.inform.cb = FALSE, !.ent[e].targets = Tail(@)]
      /\ preloading' = preloading /\ img' = img /\ disk' = disk /\ m' = m
  BY DEF InformReturn
<1>2. /\ c \in CacheType /\ c' \in CacheType /\ Informed = preloading \union {h}
      /\ Good(s, img, Informed, cp, disk, cl) /\ InformOK /\ c.ent[e].targets # <<>>
      /\ h \notin preloading /\ img \in [Objects -> Entries \union {None}]
  BY <1>1 DEF IInv, TypeOK, Informed, InformOK
<1>3. /\ e \in Entries /\ e \in c.activ /\ ~HasJob(c, e) /\ c.ent[e].refs # 0
      /\ c.ent[e].alive
      /\ c.ent[e].targets \in Seq(Objects) /\ IsInjective(c.ent[e].targets)
      /\ Range(c.ent[e].targets) = Target(img, Informed, e) /\ Does(c, "preload")
      /\ ~c.ent[e].deleteMe
  BY <1>1, InformReady
<1>4. /\ l \in Seq(Objects) /\ IsInjective(l) /\ h \in Range(c.ent[e].targets)
      /\ Range(l) = Range(c.ent[e].targets) \ {h}
  BY <1>2, <1>3, TailInjective
<1>5. c' = [c EXCEPT !.inform.cb = FALSE, !.ent[e].targets = l]
  BY <1>1, <1>2, <1>3
<1> HIDE DEF h, l
<1>6. /\ q \in EntryType /\ Alike(q, c.ent[e]) /\ q.targets = l
      /\ q.data = c.ent[e].data /\ q.pending = c.ent[e].pending
      /\ q.deleteMe = c.ent[e].deleteMe
  BY <1>2, <1>3, <1>4, EntryTyped, TargetsSet
<1>7. /\ c'.ent = [c.ent EXCEPT ![e] = q] /\ c'.inform.e = e /\ c'.inform.cb = FALSE
      /\ c'.activ = c.activ /\ c'.inactiv = c.inactiv /\ c'.dirty = c.dirty
      /\ c'.lru = c.lru /\ c'.usage = c.usage /\ c'.limit = c.limit /\ c'.may = c.may
      /\ c'.bad = c.bad /\ c'.phase = c.phase /\ c'.flagged = c.flagged
      /\ c'.preload = c.preload /\ c'.pend = c.pend
  BY <1>2, <1>5 DEF CacheType
<1> HIDE DEF q
<1>8. /\ s.ent = c.ent /\ s.phase = c.phase /\ s.flagged = c.flagged
      /\ s.may = c.may /\ s.bad = c.bad /\ s.activ = c.activ /\ s.inactiv = c.inactiv
      /\ s.dirty = c.dirty /\ s.lru = c.lru /\ s.preload = c.preload /\ s.pend = c.pend
      /\ s.usage = c.usage /\ s.limit = c.limit /\ s.inform = Quiet
  BY <1>2, CalmedFacts
<1>9. /\ t \in CacheType /\ t.ent = c'.ent /\ t.phase = c'.phase /\ t.flagged = c'.flagged
      /\ t.may = c'.may /\ t.bad = c'.bad /\ t.activ = c'.activ /\ t.inactiv = c'.inactiv
      /\ t.dirty = c'.dirty /\ t.lru = c'.lru /\ t.preload = c'.preload /\ t.pend = c'.pend
      /\ t.usage = c'.usage /\ t.limit = c'.limit /\ t.inform = Quiet
  BY <1>2, CalmedFacts
<1> HIDE DEF s, t, cp, cl, e
<1>10. /\ c'.ent[e] = q /\ \A d \in Entries \ {e} : c'.ent[d] = c.ent[d]
  BY <1>2, <1>3, <1>7 DEF CacheType
<1>11. /\ Core(s, img, Informed, cp, disk, cl) /\ FitsOK(s) /\ \A d \in Entries : Evictable(s, d)
       /\ EntryOK(s, img, Informed, cp, disk, cl, e) /\ Users(img, Informed, cp)
  BY <1>2, <1>3 DEF Good, Core
<1>12. SameBut(s, t, e) /\ Identity(s, t, e)
  BY <1>6, <1>7, <1>8, <1>9, <1>10 DEF SameBut, Identity
<1>13. JobOK(t, e) /\ DeletesOK(t, cl, e)
  BY <1>3, <1>4, <1>6, <1>7, <1>8, <1>9, <1>10, <1>11 DEF EntryOK, JobOK, DeletesOK, HasJob
<1>14. Users(img, preloading, cp)
  BY <1>2, <1>11 DEF Users
<1>15. img[h] = e
  BY <1>3, <1>4 DEF Target
<1>16. /\ \A d \in Entries \ {e} : Target(img, preloading, d) = Target(img, Informed, d)
       /\ Range(t.ent[e].targets) = Target(img, preloading, e)
  BY <1>2, <1>3, <1>4, <1>6, <1>9, <1>10, <1>15 DEF Target
<1>17. /\ s.ent[e].alive
       /\ t.ent[e].data = s.ent[e].data \/ e \notin s.inactiv
       /\ Does(s, "preload") \/ (t.phase[e] = "idle" /\ t.ent[e].targets = <<>>)
  BY <1>3, <1>6, <1>8, <1>9, <1>10 DEF Does
<1>18. /\ Core(t, img, preloading, cp, disk, cl)
       /\ FitsOK(s) => FitsOK(t)
       /\ \A d \in Entries \ {e} : Evictable(s, d) => Evictable(t, d)
  BY <1>3, <1>9, <1>11, <1>12, <1>13, <1>14, <1>16, <1>17, JobStep
<1>19. c'.ent[e].refs # 0 /\ ~HasJob(c', e)
  BY <1>3, <1>6, <1>7, <1>10 DEF Alike, HasJob
<1>20. Evictable(t, e)
  BY <1>9, <1>19 DEF Evictable, Wanted, HasJob
<1>21. Good(t, img, preloading, cp, disk, cl)
  BY <1>11, <1>18, <1>20 DEF Good
<1>22. Informed' = preloading' /\ Closing' = cl /\ m'.copy = cp
  BY <1>1, <1>7 DEF Informed, Closing, cl, cp
<1>23. InformOK'
  BY <1>3, <1>7, <1>19 DEF InformOK, Does
<1>24. DiskOK' /\ MainOK'
  BY <1>1, <1>7, <1>22 DEF IInv, DiskOK, MainOK, Does, cl
<1>25. Good(Calmed(c'), img', Informed', m'.copy, disk', Closing')
  BY <1>1, <1>21, <1>22 DEF t
<1> QED BY <1>7, <1>23, <1>24, <1>25 DEF IInv, JobsSame

\* All targets were told: the end of async_end, and of async_cancel if that had
\* called it.
LEMMA InformDoneKeeps ==
  ASSUME IInv, TypeOK', MainTyped', InformDone
  PROVE  IInv' /\ JobsSame(c, c')
<1> DEFINE e == c.inform.e
           s == Calmed(c)
<1>1. /\ e # None /\ ~c.inform.cb /\ c.ent[e].targets = <<>>
      /\ c' = IF c.inform.settle THEN Settle(s, e) ELSE s
      /\ preloading' = preloading /\ img' = img /\ disk' = disk /\ m' = m
  BY DEF InformDone, Calmed
<1>2. /\ c \in CacheType /\ c' \in CacheType /\ Informed = preloading
      /\ Good(s, img, Informed, m.copy, disk, Closing)
  BY <1>1 DEF IInv, TypeOK, Informed
<1>3. /\ e \in Entries /\ e \in c.activ /\ ~HasJob(c, e)
  BY <1>1, InformReady
<1>4. /\ s.phase = c.phase /\ s.flagged = c.flagged /\ s.may = c.may /\ s.activ = c.activ
  BY <1>2, CalmedFacts
<1> HIDE DEF e, s
<1>5. /\ Core(s, img, preloading, m.copy, disk, Closing) /\ FitsOK(s)
      /\ \A d \in Entries : Evictable(s, d)
  BY <1>2 DEF Good
<1>6. e \in s.activ /\ ~HasJob(s, e)
  BY <1>3, <1>4 DEF HasJob
<1>7. Good(Settle(s, e), img, preloading, m.copy, disk, Closing) /\ JobsSame(s, Settle(s, e))
  BY <1>3, <1>5, <1>6, SettleGood
<1>8. Good(c', img, preloading, m.copy, disk, Closing) /\ JobsSame(c, c')
  BY <1>1, <1>2, <1>4, <1>7 DEF JobsSame
<1>9. c'.inform = Quiet
  BY <1>8 DEF Good, Core
<1>10. Calmed(c') = c' /\ Informed' = preloading'
  <2>1. Calmed(c') = c'
    BY <1>2, <1>9, CalmedFacts
  <2> QED BY <1>9, <2>1 DEF Informed, Quiet
<1>11. Closing' = Closing
  BY <1>1 DEF Closing
<1>12. InformOK'
  BY <1>9 DEF InformOK, Quiet
<1>13. DiskOK' /\ MainOK'
  BY <1>1, <1>8, <1>11 DEF IInv, DiskOK, MainOK, Does, JobsSame
<1>14. Good(Calmed(c'), img', Informed', m'.copy, disk', Closing')
  BY <1>1, <1>8, <1>10, <1>11
<1> QED BY <1>8, <1>12, <1>13, <1>14 DEF IInv

\* load_data waits for an image that its object holds: it is alive and not in the
\* lru list when the wait is over.
LEMMA LoadReady ==
  ASSUME IInv, Steady, m.pc \in {"wait", "ready"}
  PROVE  /\ c \in CacheType /\ c.inform = Quiet /\ ~c.bad
         /\ Good(c, img, preloading, m.copy, disk, FALSE)
         /\ m.o \in Objects /\ m.e \in Entries /\ img[m.o] = m.e
         /\ c.ent[m.e].alive /\ c.ent[m.e].refs # 0 /\ m.e \notin c.inactiv
         /\ c.ent[m.e] \in EntryType /\ Touch(c, m.e) = c
<1> DEFINE e == m.e
           cp == m.copy
           im == img
<1>1. /\ c \in CacheType /\ c.inform = Quiet /\ ~c.bad
      /\ Good(c, im, preloading, cp, disk, Closing) /\ Closing = FALSE
      /\ m.o \in Objects /\ e \in Entries /\ im[m.o] = e
  BY SteadyGood DEF IInv, MainOK, Closing
<1> HIDE DEF e, cp, im
<1>2. EntryOK(c, im, preloading, cp, disk, FALSE, e) /\ Users(im, preloading, cp)
  BY <1>1 DEF Good, Core
<1>3. m.o \in Holding(im, e)
  BY <1>1 DEF Holding
<1>4. c.ent[e].alive
  BY <1>2, <1>3 DEF EntryOK, HeldOK
<1>5. c.ent[e].refs # 0
  BY <1>1, <1>2, <1>3, Unheld
<1>6. e \notin c.inactiv
  BY <1>2, <1>5 DEF EntryOK, OnLists
<1>7. c.ent[e] \in EntryType
  BY <1>1, EntryTyped
<1>8. Touch(c, e) = c
  BY <1>1, <1>4 DEF Touch, CacheType
<1> QED BY <1>1, <1>4, <1>5, <1>6, <1>7, <1>8 DEF e, cp, im

\* load_data goes on when the job is over, loads the pixels unless the job has, and
\* informs the targets that were left: the invariant is kept.
LEMMA LoadFinishKeeps ==
  ASSUME IInv, TypeOK', MainTyped', LoadFinish
  PROVE  IInv' /\ JobsSame(c, c')
<1> DEFINE e == m.e
           cp == m.copy
           cl == FALSE
<1>1. /\ c \in CacheType /\ c.inform = Quiet /\ ~c.bad
      /\ Good(c, img, preloading, cp, disk, cl)
      /\ m.o \in Objects /\ e \in Entries /\ img[m.o] = e
      /\ c.ent[e].alive /\ c.ent[e].refs # 0 /\ e \notin c.inactiv
      /\ Touch(c, e) = c
  BY LoadReady DEF LoadFinish
<1>2. /\ ~HasJob(c, e) /\ m' = [m EXCEPT !.pc = "ready"]
      /\ img' = img /\ preloading' = preloading /\ disk' = disk
      /\ \/ c' = c
         \/ \E ok \in BOOLEAN :
              LET s == [c EXCEPT !.ent[e].data = TRUE, !.ent[e].loaded = ok]
              IN  c' = IF m.had THEN AsyncEnd(s, e, FALSE) ELSE s
  BY <1>1 DEF LoadFinish
<1>3. /\ m' \in MainType /\ m'.pc = "ready" /\ m'.o = m.o /\ m'.e = m.e /\ m'.copy = m.copy
      /\ m'.then = m.then
  BY <1>2 DEF IInv, TypeOK, MainType
<1>4. ASSUME JobsSame(c, c'), Good(Calmed(c'), img, preloading, cp, disk, cl),
             c'.inform = Quiet \/ \E d \in Entries, b \in BOOLEAN : Informs(c', d, b)
      PROVE  IInv' /\ JobsSame(c, c')
  <2>1. c' \in CacheType
    BY DEF TypeOK
  <2>2. InformOK' /\ Informed' = preloading'
    BY <1>2, <1>4, <2>1, InformsKept
  <2>3. Closing' = FALSE /\ DiskOK' /\ MainOK'
    BY <1>1, <1>2, <1>3, <1>4 DEF IInv, Closing, DiskOK, MainOK, Does, JobsSame, LoadFinish
  <2>4. Good(Calmed(c'), img', Informed', m'.copy, disk', Closing')
    BY <1>2, <1>3, <1>4, <2>2, <2>3
  <2> QED BY <1>4, <2>2, <2>3, <2>4 DEF IInv
<1>5. ASSUME JobsSame(c, c'), Good(c', img, preloading, cp, disk, cl)
      PROVE  IInv' /\ JobsSame(c, c')
  <2>1. c'.inform = Quiet /\ c' \in CacheType
    BY <1>5 DEF Good, Core
  <2>2. Calmed(c') = c'
    BY <2>1, CalmedFacts
  <2> QED BY <1>4, <1>5, <2>1, <2>2
<1> HIDE DEF e, cp, cl
<1>6. CASE c' = c
  BY <1>1, <1>5, <1>6 DEF JobsSame
<1>7. ASSUME NEW ok \in BOOLEAN,
             LET s == [c EXCEPT !.ent[e].data = TRUE, !.ent[e].loaded = ok]
             IN  c' = IF m.had THEN AsyncEnd(s, e, FALSE) ELSE s
      PROVE  IInv' /\ JobsSame(c, c')
  <2> DEFINE s == [c EXCEPT !.ent[e].data = TRUE, !.ent[e].loaded = ok]
             t == Ended(s, e)
  <2>1. /\ Good(s, img, preloading, cp, disk, cl) /\ JobsSame(c, s)
        /\ Good(t, img, preloading, cp, disk, cl) /\ JobsSame(c, t)
        /\ s.ent[e].targets = c.ent[e].targets /\ t.ent[e].targets = c.ent[e].targets
        /\ t.ent[e].refs = c.ent[e].refs /\ t.activ = c.activ
    <3>1. /\ Good(c, img, preloading, cp, disk, cl)
          /\ e \in Entries /\ c.ent[e].alive /\ e \notin c.inactiv /\ ~HasJob(c, e)
      BY <1>1, <1>2
    <3>2. s = Loaded(c, e, ok)
      BY DEF Loaded
    <3> HIDE DEF s
    <3> QED BY <3>1, <3>2, LoadedGood
  <2>2. c' = IF m.had THEN AsyncEnd(s, e, FALSE) ELSE s
    BY <1>7
  <2> HIDE DEF s
  <2>3. CASE ~m.had
    BY <1>5, <2>1, <2>2, <2>3
  <2>4. CASE m.had /\ c.ent[e].targets = <<>>
    <3>1. AsyncEnd(s, e, FALSE) = t
      BY <2>1, <2>4 DEF AsyncEnd, Ended
    <3> QED BY <1>5, <2>1, <2>2, <2>4, <3>1
  <2>5. CASE m.had /\ c.ent[e].targets # <<>>
    <3>1. EntryOK(c, img, preloading, cp, disk, cl, e)
      BY <1>1 DEF Good, Core
    <3>2. e \in c.activ
      BY <1>1, <2>5, <3>1 DEF EntryOK, ProgramOK, OnLists
    <3>3. ~HasJob(t, e)
      BY <1>2, <2>1 DEF HasJob, JobsSame
    <3>4. /\ Core(t, img, preloading, cp, disk, cl) /\ FitsOK(t) /\ e \in t.activ
          /\ t.ent[e].refs # 0
          /\ \A d \in Entries \ {e} : Evictable(t, d)
      BY <1>1, <2>1, <3>2 DEF Good
    <3>5. t = Ended(s, e)
      OBVIOUS
    <3> HIDE DEF t
    <3>6. ASSUME NEW b \in BOOLEAN
          PROVE  LET r == AsyncEnd(s, e, b)
                 IN  /\ r \in CacheType /\ Good(Calmed(r), img, preloading, cp, disk, cl)
                     /\ JobsSame(t, r)
                     /\ r.inform = Quiet \/ Informs(r, e, b)
      <4>1. e \in Entries
        BY <1>1
      <4> QED BY <3>3, <3>4, <3>5, <4>1, AsyncEndGood
    <3>7. LET r == AsyncEnd(s, e, FALSE)
          IN  /\ r \in CacheType /\ Good(Calmed(r), img, preloading, cp, disk, cl)
              /\ JobsSame(t, r)
              /\ r.inform = Quiet \/ Informs(r, e, FALSE)
      BY <3>6, Zenon
    <3>8. c' = AsyncEnd(s, e, FALSE)
      BY <2>2, <2>5
    <3>9. JobsSame(c, c')
      BY <2>1, <3>7, <3>8 DEF JobsSame
    <3> QED BY <1>1, <1>4, <3>7, <3>8, <3>9
  <2> QED BY <2>3, <2>4, <2>5
<1> QED BY <1>2, <1>6, <1>7

\* The call goes on: the object takes the copy and drops the original, and after
\* evas_image_cache_reload the copy as well.
LEMMA LoadReturnKeeps ==
  ASSUME Plain, IInv, TypeOK', MainTyped', LoadReturn
  PROVE  IInv' /\ JobsSame(c, c')
<1> DEFINE e == m.e
           o == m.o
           cp == m.copy
<1>1. /\ c \in CacheType /\ c.inform = Quiet /\ ~c.bad
      /\ Good(c, img, preloading, cp, disk, FALSE)
      /\ o \in Objects /\ e \in Entries /\ img[o] = e
      /\ Touch(c, e) = c /\ e # None
  BY LoadReady, CacheAssumption DEF LoadReturn
<1>2. /\ m' = Idle /\ disk' = disk
      /\ img \in [Objects -> Entries \union {None}] /\ cp \in Entries \union {None}
      /\ (Does(c, "preload") => cp = None) /\ m.then # "none" /\ (m.then = "draw" <=> cp = None)
  BY DEF LoadReturn, IInv, TypeOK, MainType, MainOK
<1>3. ASSUME JobsSame(c, c'), Good(c', img', preloading', None, disk, FALSE)
      PROVE  IInv' /\ JobsSame(c, c')
  <2>1. c'.inform = Quiet /\ c' \in CacheType
    BY <1>3 DEF Good, Core
  <2>2. Calmed(c') = c'
    BY <2>1, CalmedFacts
  <2>3. m'.pc = "idle" /\ m'.copy = None /\ m'.e = None
    BY <1>2 DEF Idle
  <2>4. Informed' = preloading' /\ Closing' = FALSE
    BY <2>1, <2>3 DEF Informed, Quiet, Closing
  <2>5. InformOK' /\ DiskOK' /\ MainOK'
    BY <1>2, <1>3, <2>1, <2>3, <2>4 DEF InformOK, Quiet, DiskOK, MainOK, Does, JobsSame, IInv
  <2>6. Good(Calmed(c'), img', Informed', m'.copy, disk', Closing')
    BY <1>2, <1>3, <2>2, <2>3, <2>4
  <2> QED BY <1>3, <2>5, <2>6 DEF IInv
<1>4. CASE m.then = "draw"
  <2>1. c' = c /\ img' = img /\ preloading' = preloading /\ cp = None
    BY <1>1, <1>2, <1>4 DEF LoadReturn
  <2> QED BY <1>1, <1>3, <2>1 DEF JobsSame
<1>5. CASE m.then \in {"alpha", "reload"}
  <2> DEFINE s == Drop(c, e)
             jm == [img EXCEPT ![o] = None]
             km == [img EXCEPT ![o] = cp]
  <2>1. cp \in Entries /\ cp # None /\ ~Does(c, "preload")
    BY <1>2, <1>5, CacheAssumption
  <2>2. preloading = {}
    BY <1>1, <2>1, NoTargets DEF Good
  <2> HIDE DEF e, o, cp, s, jm, km
  <2>3. Good(s, jm, preloading, cp, disk, FALSE) /\ JobsSame(c, s)
    <3>1. /\ Good(c, img, preloading, cp, disk, FALSE) /\ o \in Objects /\ img[o] # None
          /\ o \notin preloading
      BY <1>1, <2>2
    <3>2. LET r == Drop(c, img[o])
          IN  Good(r, [img EXCEPT ![o] = None], preloading, cp, disk, FALSE) /\ JobsSame(c, r)
      BY <3>1, DropGood
    <3> QED BY <1>1, <3>2 DEF s, jm
  <2>4. jm[o] = None /\ [jm EXCEPT ![o] = cp] = km /\ km[o] = cp
    BY <1>1, <1>2 DEF jm, km
  <2>5. [km EXCEPT ![o] = None] = jm
    BY <1>1, <1>2 DEF jm, km
  <2>6. Good(s, km, preloading, None, disk, FALSE)
    <3>1. Good(s, [jm EXCEPT ![o] = cp], preloading, None, disk, FALSE)
      BY <1>1, <2>1, <2>3, <2>4, AdoptGood
    <3> QED BY <2>4, <3>1
  <2>7. CASE m.then = "alpha"
    <3>1. c' = s /\ img' = km /\ preloading' = preloading
      BY <2>7 DEF LoadReturn, s, km, e, o, cp
    <3> QED BY <1>3, <2>3, <2>6, <3>1
  <2>8. CASE m.then = "reload"
    <3>1. c' = Drop(s, cp) /\ img' = jm /\ preloading' = preloading
      BY <2>2, <2>8 DEF LoadReturn, s, jm, e, o, cp
    <3>2. o \in Objects /\ km[o] # None /\ o \notin preloading
      BY <1>1, <2>1, <2>2, <2>4
    <3>3. LET r == Drop(s, km[o])
          IN  Good(r, [km EXCEPT ![o] = None], preloading, None, disk, FALSE) /\ JobsSame(s, r)
      BY <2>6, <3>2, DropGood
    <3>4. Good(c', img', preloading', None, disk, FALSE) /\ JobsSame(c, c')
      BY <2>3, <2>4, <2>5, <3>1, <3>3 DEF JobsSame
    <3> QED BY <1>3, <3>4
  <2> QED BY <1>5, <2>7, <2>8
<1>6. m.then \in {"draw", "alpha", "reload"}
  BY DEF LoadReturn
<1> QED BY <1>4, <1>5, <1>6

\* Falling asleep and waking up change nothing but that.
LEMMA SleepKeeps ==
  ASSUME IInv, TypeOK', MainTyped', Sleep \/ WakeUp
  PROVE  IInv' /\ JobsSame(c, c')
<1>1. PICK b \in BOOLEAN : m' = [m EXCEPT !.asleep = b]
  BY DEF Sleep, WakeUp
<1>2. /\ m'.pc = m.pc /\ m'.o = m.o /\ m'.e = m.e /\ m'.copy = m.copy /\ m'.then = m.then
  BY <1>1 DEF IInv, TypeOK, MainType
<1>3. c' = c /\ img' = img /\ preloading' = preloading /\ disk' = disk
  BY DEF Sleep, WakeUp
<1>4. Good(Calmed(c'), img', Informed', m'.copy, disk', Closing')
  BY <1>2, <1>3 DEF IInv, Informed, Closing
<1>5. InformOK' /\ DiskOK' /\ MainOK'
  BY <1>2, <1>3 DEF IInv, InformOK, DiskOK, MainOK, Closing
<1> QED BY <1>3, <1>4, <1>5 DEF IInv, JobsSame

\* A step of the shutdown has to leave a cache that is good for it.
LEMMA ClosingKept ==
  ASSUME IInv, TypeOK', MainTyped', Steady, m.copy = None, m.e = None,
         NEW to \in {"cancel", "process", "lru", "dirty", "activ", "pending", "down"},
         m' = [m EXCEPT !.pc = to], img' = img, preloading' = preloading, disk' = disk,
         \A o \in Objects : img[o] = None,
         NEW cl, cl, Good(c', img, preloading, None, disk, cl), JobsSame(c, c')
  PROVE  IInv'
<1>1. c' \in CacheType /\ c'.inform = Quiet
  BY DEF Good, Core
<1>2. m'.pc = to /\ m'.copy = None /\ m'.e = None
  BY DEF IInv, TypeOK, MainType
<1>3. Calmed(c') = c'
  BY <1>1, CalmedFacts
<1>4. Informed' = preloading'
  BY <1>1 DEF Informed, Quiet
<1>5. Closing' = TRUE /\ cl = TRUE
  BY <1>2 DEF Closing
<1>6. Good(Calmed(c'), img', Informed', m'.copy, disk', Closing')
  <2>1. Good(c', img, preloading, None, disk, TRUE)
    BY <1>5, Zenon
  <2> QED BY <1>2, <1>3, <1>4, <1>5, <2>1
<1>7. InformOK'
  BY <1>1 DEF InformOK, Quiet
<1>8. DiskOK' /\ MainOK'
  BY <1>2 DEF IInv, DiskOK, MainOK, Does, JobsSame
<1> QED BY <1>6, <1>7, <1>8 DEF IInv

\* What a step of the shutdown finds.
LEMMA ClosingReady ==
  ASSUME IInv, Steady, Closing
  PROVE  /\ m.copy = None /\ m.e = None /\ c \in CacheType
         /\ \A o \in Objects : img[o] = None
         /\ Good(c, img, preloading, None, disk, Closing)
BY SteadyGood DEF IInv, MainOK, Closing

\* evas_cache_image_shutdown begins, when no object holds an image.
LEMMA ShutdownStartKeeps ==
  ASSUME IInv, TypeOK', MainTyped', ShutdownStart
  PROVE  IInv' /\ JobsSame(c, c')
<1> DEFINE cl == TRUE
<1>1. /\ Steady /\ m.pc = "idle" /\ c' = c /\ m' = [m EXCEPT !.pc = "cancel"]
      /\ img' = img /\ preloading' = preloading /\ disk' = disk
      /\ \A o \in Objects : img[o] = None
  BY DEF ShutdownStart, MainStep
<1>2. m.copy = None /\ m.e = None
  BY <1>1 DEF IInv, MainOK
<1>3. Good(c, img, preloading, m.copy, disk, FALSE)
  BY <1>1, SteadyGood DEF Closing
<1>4. cl /\ cl \in BOOLEAN
  OBVIOUS
<1> HIDE DEF cl
<1>5. Good(c, img, preloading, None, disk, cl)
  BY <1>2, <1>3, <1>4, ClosingGood
<1>6. JobsSame(c, c') /\ Good(c', img, preloading, None, disk, cl)
  BY <1>1, <1>5 DEF JobsSame
<1>7. "cancel" \in {"cancel", "process", "lru", "dirty", "activ", "pending", "down"}
  OBVIOUS
<1>8. IInv'
  BY <1>1, <1>2, <1>4, <1>6, <1>7, ClosingKept
<1> QED BY <1>6, <1>8

\* No image is on the list `preload' when no object holds one.
LEMMA NothingToCancel ==
  ASSUME IInv, ShutdownCancel
  PROVE  c.preload = {} /\ ShutdownLoop("cancel", {}, "process")
<1>1. Steady /\ Closing
  BY DEF ShutdownCancel, ShutdownLoop, ShutdownTakes, MainStep, Closing
<1>2. /\ c \in CacheType /\ \A o \in Objects : img[o] = None
      /\ Good(c, img, preloading, None, disk, Closing)
  BY <1>1, ClosingReady
<1>3. \A e \in Entries : e \notin c.preload
  BY <1>2, NobodyHolds DEF Good, Core
<1>4. c.preload = {}
  BY <1>2, <1>3 DEF CacheType
<1> QED BY <1>4 DEF ShutdownCancel

\* It goes from one list to the next.
LEMMA ShutdownGoesOnKeeps ==
  ASSUME IInv, TypeOK', MainTyped', ShutdownGoesOn \/ ShutdownCancel
  PROVE  IInv' /\ JobsSame(c, c')
<1>1. PICK to \in {"cancel", "process", "lru", "dirty", "activ", "pending", "down"} :
        m' = [m EXCEPT !.pc = to]
  BY NothingToCancel DEF ShutdownGoesOn, ShutdownLoop, ShutdownProcessed, MainStep
<1>2. /\ Steady /\ Closing /\ c' = c
      /\ img' = img /\ preloading' = preloading /\ disk' = disk
  BY NothingToCancel DEF ShutdownGoesOn, ShutdownLoop, ShutdownProcessed, MainStep, Closing
<1>3. /\ m.copy = None /\ m.e = None /\ \A o \in Objects : img[o] = None
      /\ Good(c, img, preloading, None, disk, Closing)
  BY <1>2, ClosingReady
<1>4. JobsSame(c, c') /\ Good(c', img, preloading, None, disk, Closing)
  BY <1>2, <1>3 DEF JobsSame
<1>5. IInv'
  BY <1>1, <1>2, <1>3, <1>4, ClosingKept
<1> QED BY <1>4, <1>5

\* It takes an image off a list.
LEMMA ShutdownDeleteKeeps ==
  ASSUME IInv, TypeOK', MainTyped', NEW e \in Entries, ShutdownDelete(e)
  PROVE  IInv' /\ JobsSame(c, c')
<1>1. /\ Steady /\ Closing /\ m.pc \in {"lru", "dirty", "activ"}
      /\ m' = [m EXCEPT !.pc = m.pc]
      /\ img' = img /\ preloading' = preloading /\ disk' = disk
  BY DEF ShutdownDelete, ShutdownTakes, MainStep, Closing
<1>2. /\ m.copy = None /\ m.e = None /\ c \in CacheType
      /\ \A o \in Objects : img[o] = None
      /\ Good(c, img, preloading, None, disk, Closing)
  BY <1>1, ClosingReady
<1>3. EntryOK(c, img, preloading, None, disk, Closing, e) /\ LruOK(c)
  BY <1>2 DEF Good, Core
<1>4. e \in c.inactiv \/ e \in c.dirty \/ e \in c.activ
  BY <1>3 DEF ShutdownDelete, ShutdownTakes, LruOK
<1>5. c.ent[e].alive
  BY <1>3, <1>4 DEF EntryOK, OnLists
<1>6. c' = EntryDelete(c, e)
  BY DEF ShutdownDelete
<1>7. Good(EntryDelete(c, e), img, preloading, None, disk, Closing) /\ JobsSame(c, EntryDelete(c, e))
  BY <1>1, <1>2, <1>5, ClosingDelete
<1>8. IInv'
  BY <1>1, <1>2, <1>6, <1>7, ClosingKept
<1> QED BY <1>6, <1>7, <1>8

-----------------------------------------------------------------------------
\* The empty cache is in order.
LEMMA InitGood == ASSUME Plain, Init PROVE IInv
<1>1. TypeOK /\ MainTyped /\ c \in CacheType
  BY InitTyped DEF TypeOK
<1>2. /\ \A e \in Entries : c.ent[e] = Blank /\ c.phase[e] = "idle"
      /\ c.activ = {} /\ c.inactiv = {} /\ c.dirty = {} /\ c.preload = {} /\ c.pend = {}
      /\ c.flagged = {} /\ c.lru = <<>> /\ c.usage = 0 /\ c.bad = FALSE /\ c.inform = Quiet
      /\ c.may \in Programs
      /\ img = [o \in Objects |-> None] /\ preloading = {}
      /\ disk \in [Keys -> IF May("change") THEN Stamps \union {None} ELSE Stamps]
      /\ m = Idle
  BY DEF Init
<1>3. /\ Blank.alive = FALSE /\ Blank.activ = FALSE /\ Blank.lru = FALSE /\ Blank.dirty = FALSE
      /\ Blank.pending = FALSE /\ Blank.deleteMe = FALSE /\ Blank.targets = <<>>
  BY DEF Blank
<1>4. /\ Range(<<>>) = {} /\ IsInjective(<<>>)
  BY DEF Range, IsInjective
<1>5. m.pc = "idle" /\ m.copy = None /\ m.e = None
  BY <1>2 DEF Idle
<1>6. ASSUME NEW e \in Entries, NEW cl
      PROVE  EntryOK(c, img, preloading, m.copy, disk, cl, e) /\ Evictable(c, e)
  <2>1. Holding(img, e) = {} /\ Target(img, preloading, e) = {} /\ m.copy # e
    BY <1>2, <1>5, CacheAssumption DEF Holding, Target
  <2>2. ~HasJob(c, e)
    BY <1>2 DEF HasJob
  <2>3. OnLists(c, e)
    BY <1>2, <1>3 DEF OnLists, Flagged
  <2>4. JobOK(c, e) /\ DeletesOK(c, cl, e) /\ Evictable(c, e)
    BY <1>2, <1>3, <1>4, <2>2 DEF JobOK, DeletesOK, Evictable, Wanted
  <2>5. ProgramOK(c, disk, e) /\ HeldOK(c, img, m.copy, e)
    BY <1>2, <1>3, <2>1 DEF ProgramOK, HeldOK
  <2>6. Range(c.ent[e].targets) = Target(img, preloading, e)
    BY <1>2, <1>3, <1>4, <2>1
  <2> QED BY <2>3, <2>4, <2>5, <2>6 DEF EntryOK
<1>7. LruOK(c) /\ KeysOK(c) /\ FitsOK(c) /\ Users(img, preloading, m.copy)
  BY <1>1, <1>2, <1>4 DEF LruOK, KeysOK, FitsOK, Users, TypeOK
<1>8. UsageOK(c)
  <2>1. {e \in c.inactiv : c.ent[e].data} = {} /\ c.inactiv = {}
    BY <1>2
  <2>2. Cardinality({}) = 0
    BY FS_EmptySet
  <2> QED BY <1>2, <2>1, <2>2 DEF UsageOK, Usage
<1>9. Good(c, img, preloading, m.copy, disk, Closing)
  BY <1>1, <1>2, <1>6, <1>7, <1>8 DEF Good, Core
<1>10. Calmed(c) = c /\ Informed = preloading /\ ~Closing
  <2>1. Calmed(c) = c
    BY <1>1, <1>2, CalmedFacts
  <2>2. Informed = preloading
    BY <1>2 DEF Informed, Quiet
  <2> QED BY <1>5, <2>1, <2>2 DEF Closing
<1>11. DiskOK
  <2>1. Does(c, "preload") => ~May("change")
    BY <1>2 DEF Plain, Does, May
  <2> QED BY <1>2, <2>1, CacheAssumption DEF DiskOK
<1>12. InformOK /\ MainOK
  BY <1>2, <1>5, <1>10 DEF InformOK, Quiet, MainOK
<1> QED BY <1>1, <1>9, <1>10, <1>11, <1>12 DEF IInv

\* Nothing has happened to the jobs, as PreloadJobs sees them.
NoJobMoves == PJ!jobVars' = PJ!jobVars

\* Where no job has been queued, cancelled or reported, PreloadJobs stutters.
LEMMA SameIsNoMove ==
  ASSUME JobsSame(c, c')
  PROVE  NoJobMoves
BY DEF JobsSame, NoJobMoves, PJ!jobVars

\* What a call does to a job PreloadJobs allows: it submits one that is idle, takes
\* back one that is queued, or flags one that a thread has.
LEMMA MovesAllowed ==
  ASSUME TypeOK, TypeOK', NEW e, Jobs(e)
  PROVE  PJ!Next \/ NoJobMoves
<1>1. /\ c.phase \in [Entries -> Phases] /\ c'.phase \in [Entries -> Phases]
      /\ c'.flagged \subseteq Entries
  BY DEF TypeOK, CacheType
<1>2. CASE e \notin Entries
  <2>1. c'.phase = c.phase /\ c'.flagged = c.flagged
    BY <1>1, <1>2 DEF Jobs, JobsMove, JobQueued
  <2> QED BY <2>1 DEF NoJobMoves, PJ!jobVars
<1>3. CASE e \in Entries
  <2>1. CASE c'.phase = c.phase /\ c'.flagged = c.flagged
    BY <2>1 DEF NoJobMoves, PJ!jobVars
  <2>2. CASE c.phase[e] = "queued" /\ c'.phase = [c.phase EXCEPT ![e] = "idle"] /\ c'.flagged = c.flagged
    <3>1. PJ!CancelQueued(e)
      BY <1>1, <1>3, <2>2 DEF PJ!CancelQueued, LockHeld
    <3> QED BY <1>3, <3>1 DEF PJ!Next, PJ!JobStep
  <2>3. CASE c.phase[e] = "idle" /\ c'.phase = [c.phase EXCEPT ![e] = "queued"] /\ c'.flagged = c.flagged
    <3>1. PJ!Submit(e)
      BY <1>1, <1>3, <2>3 DEF PJ!Submit, LockHeld
    <3> QED BY <1>3, <3>1 DEF PJ!Next, PJ!JobStep
  <2>4. CASE c.phase[e] \notin {"idle", "queued"} /\ c'.phase = c.phase /\ c'.flagged = c.flagged \union {e}
    <3>1. PJ!CancelLate(e)
      BY <1>1, <1>3, <2>4 DEF PJ!CancelLate, LockHeld, Phases
    <3> QED BY <1>3, <3>1 DEF PJ!Next, PJ!JobStep
  <2> QED BY <2>1, <2>2, <2>3, <2>4 DEF Jobs, JobsMove, JobQueued
<1> QED BY <1>2, <1>3

\* What a thread does with a job PreloadJobs allows: it starts it, works, and posts
\* the report.
LEMMA WorkAllowed ==
  ASSUME TypeOK, NEW e \in Entries, Job(e)
  PROVE  PJ!Next \/ NoJobMoves
<1>1. c \in CacheType /\ c.phase \in [Entries -> Phases]
  BY DEF TypeOK, CacheType
<1>2. ASSUME NEW p \in Phases, c'.phase = [c.phase EXCEPT ![e] = p], c'.flagged = c.flagged,
             c.phase[e] = "taken" \/ c.phase[e] \in LockHeld, p = "taken" \/ p \in LockHeld
      PROVE  NoJobMoves
  BY <1>1, <1>2 DEF NoJobMoves, PJ!jobVars
<1>3. CASE JobTaken(e)
  <2>1. c'.phase = [c.phase EXCEPT ![e] = "taken"] /\ c'.flagged = c.flagged /\ c.phase[e] = "queued"
    BY <1>1, <1>3 DEF JobTaken, ThreadStep, CacheType
  <2>2. PJ!Start(e)
    BY <1>1, <2>1 DEF PJ!Start, LockHeld
  <2> QED BY <2>2 DEF PJ!Next, PJ!JobStep
<1>4. CASE JobLocks(e)
  <2>1. c'.phase = [c.phase EXCEPT ![e] = "loading"] /\ c'.flagged = c.flagged /\ c.phase[e] = "taken"
    BY <1>1, <1>4 DEF JobLocks, ThreadStep, CacheType
  <2> QED BY <1>2, <2>1 DEF LockHeld, Phases
<1>5. CASE JobLoads(e)
  <2>1. c'.phase = [c.phase EXCEPT ![e] = "loaded"] /\ c'.flagged = c.flagged /\ c.phase[e] = "loading"
    BY <1>1, <1>5 DEF JobLoads, ThreadStep, CacheType
  <2> QED BY <1>2, <2>1 DEF LockHeld, Phases
<1>6. CASE JobChecksUnload(e)
  <2>1. c'.phase = [c.phase EXCEPT ![e] = "checked"] /\ c'.flagged = c.flagged /\ c.phase[e] = "loaded"
    BY <1>1, <1>6 DEF JobChecksUnload, ThreadStep, CacheType
  <2> QED BY <1>2, <2>1 DEF LockHeld, Phases
<1>7. CASE JobPosts(e)
  <2>1. c'.phase = [c.phase EXCEPT ![e] = "posted"] /\ c'.flagged = c.flagged /\ c.phase[e] = "checked"
    BY <1>1, <1>7 DEF JobPosts, ThreadStep, CacheType
  <2>2. PJ!Finish(e)
    BY <1>1, <2>1 DEF PJ!Finish, LockHeld
  <2> QED BY <2>2 DEF PJ!Next, PJ!JobStep
<1> QED BY <1>3, <1>4, <1>5, <1>6, <1>7 DEF Job

\* What the main thread does with a report PreloadJobs allows.
LEMMA ReportAllowed ==
  ASSUME TypeOK, NEW e \in Entries, c.phase[e] = "posted",
         c'.phase = [c.phase EXCEPT ![e] = "idle"], c'.flagged = c.flagged \ {e}
  PROVE  PJ!Next
<1>1. c.phase \in [Entries -> Phases]
  BY DEF TypeOK, CacheType
<1>2. PJ!Deliver(e)
  BY <1>1 DEF PJ!Deliver, LockHeld
<1> QED BY <1>2 DEF PJ!Next, PJ!JobStep

-----------------------------------------------------------------------------
\* Every step keeps the types.
LEMMA StepTyped ==
  ASSUME TypeOK, MainTyped, [Next]_vars
  PROVE  TypeOK' /\ MainTyped'
<1>1. CASE UNCHANGED vars
  BY <1>1 DEF vars, TypeOK, MainTyped
<1>2. CASE Stopped
  BY <1>1, <1>2 DEF Stopped
<1> QED BY <1>1, <1>2, CallTyped, JobTyped, InformTyped, SleepTyped, LoadTyped, WholeTyped, ShutdownTyped
     DEF Next

\* Every step keeps the invariant, and is a step of PreloadJobs or stutters.
LEMMA StepKeeps ==
  ASSUME Plain, IInv, [Next]_vars
  PROVE  IInv' /\ (PJ!Next \/ NoJobMoves)
<1>1. TypeOK /\ TypeOK' /\ MainTyped'
  BY StepTyped DEF IInv
<1>2. CASE UNCHANGED vars
  <2>1. c' = c /\ img' = img /\ preloading' = preloading /\ disk' = disk /\ m' = m
    BY <1>2 DEF vars
  <2>2. Good(Calmed(c'), img', Informed', m'.copy, disk', Closing')
    BY <2>1 DEF IInv, Informed, Closing
  <2>3. InformOK' /\ DiskOK' /\ MainOK'
    BY <2>1 DEF IInv, InformOK, DiskOK, MainOK, Closing
  <2>4. JobsSame(c, c')
    BY <2>1 DEF JobsSame
  <2> QED BY <1>1, <2>2, <2>3, <2>4, SameIsNoMove DEF IInv
<1>3. CASE Stopped
  BY <1>2, <1>3 DEF Stopped
<1>4. CASE \E o \in Objects : Call(o)
  BY <1>1, <1>4, CallKeeps, MovesAllowed
<1>5. CASE (\E l \in Limits : CacheSet(l)) \/ CacheFlush \/ UnloadAll \/ \E k \in Keys : FileChanges(k)
  BY <1>1, <1>5, WholeKeeps, MovesAllowed
<1>6. CASE \E e \in Entries : Job(e)
  BY <1>1, <1>6, JobKeeps, WorkAllowed
<1>7. CASE \E e \in Entries : Deliver(e)
  <2>1. PICK e \in Entries : Deliver(e)
    BY <1>7
  <2>2. c.phase[e] = "posted"
    BY <2>1 DEF Deliver
  <2> QED BY <1>1, <2>1, <2>2, DeliverKeeps, ReportAllowed
<1>8. CASE Inform
  BY <1>1, <1>8, InformCallKeeps, InformReturnKeeps, InformDoneKeeps, SameIsNoMove DEF Inform
<1>9. CASE Sleep \/ WakeUp \/ LoadFinish \/ LoadReturn
  BY <1>1, <1>9, SleepKeeps, LoadFinishKeeps, LoadReturnKeeps, SameIsNoMove
<1>10. CASE ShutdownStart \/ Shutdown
  BY <1>1, <1>10, ShutdownStartKeeps, ShutdownGoesOnKeeps, ShutdownDeleteKeeps, SameIsNoMove DEF Shutdown
<1> QED BY <1>2, <1>3, <1>4, <1>5, <1>6, <1>7, <1>8, <1>9, <1>10 DEF Next

\* The invariant holds in every reachable state.
LEMMA Invariance == ASSUME Plain PROVE SafeSpec => []IInv
<1>1. Init => IInv
  BY InitGood
<1>2. IInv /\ [Next]_vars => IInv'
  BY StepKeeps
<1> QED BY <1>1, <1>2, PTL DEF SafeSpec

\* What the invariant says of the cache as it is, in the loop of async_end or not.
LEMMA CacheGood ==
  ASSUME IInv
  PROVE  /\ c \in CacheType /\ ~c.bad /\ Users(img, Informed, m.copy)
         /\ LruOK(c) /\ KeysOK(c) /\ UsageOK(c) /\ FitsOK(c)
         /\ \A e \in Entries : EntryOK(c, img, Informed, m.copy, disk, Closing, e) /\ Evictable(c, e)
<1> DEFINE s == Calmed(c)
<1>1. c \in CacheType /\ Good(s, img, Informed, m.copy, disk, Closing)
  BY DEF IInv, TypeOK
<1>2. /\ s.ent = c.ent /\ s.phase = c.phase /\ s.flagged = c.flagged
      /\ s.may = c.may /\ s.bad = c.bad /\ s.activ = c.activ /\ s.inactiv = c.inactiv
      /\ s.dirty = c.dirty /\ s.lru = c.lru /\ s.preload = c.preload /\ s.pend = c.pend
      /\ s.usage = c.usage /\ s.limit = c.limit
  BY <1>1, CalmedFacts
<1> HIDE DEF s
<1>3. /\ ~s.bad /\ Users(img, Informed, m.copy)
      /\ LruOK(s) /\ KeysOK(s) /\ UsageOK(s) /\ FitsOK(s)
      /\ \A e \in Entries : EntryOK(s, img, Informed, m.copy, disk, Closing, e) /\ Evictable(s, e)
  BY <1>1 DEF Good, Core
<1>4. ASSUME NEW e \in Entries
      PROVE  EntryOK(c, img, Informed, m.copy, disk, Closing, e) /\ Evictable(c, e)
  <2>1. Same(s, c, e) /\ SameUsers(img, Informed, m.copy, img, Informed, m.copy, e)
    BY <1>2 DEF Same, SameUsers
  <2> QED BY <1>3, <2>1, SameEntry, SameEvictable
<1>5. LruOK(c) /\ KeysOK(c) /\ UsageOK(c) /\ FitsOK(c)
  BY <1>2, <1>3 DEF LruOK, KeysOK, UsageOK, FitsOK, Usage, Does
<1> QED BY <1>1, <1>2, <1>3, <1>4, <1>5

\* Where the invariant holds, nothing refers to a freed image: an object that
\* holds one counts, and a job keeps its image active.
LEMMA FreedNotUsed == ASSUME IInv PROVE NoUseAfterFree
<1>1. /\ c \in CacheType /\ ~c.bad
      /\ \A e \in Entries : EntryOK(c, img, Informed, m.copy, disk, Closing, e)
  BY CacheGood
<1>2. img \in [Objects -> Entries \union {None}]
  BY DEF IInv, TypeOK
<1>3. ASSUME NEW o \in Objects, img[o] # None
      PROVE  c.ent[img[o]].alive
  <2>1. img[o] \in Entries /\ o \in Holding(img, img[o])
    BY <1>2, <1>3 DEF Holding
  <2> QED BY <1>1, <2>1 DEF EntryOK, HeldOK
<1>4. \A e \in Entries : HasJob(c, e) => c.ent[e].alive
  BY <1>1 DEF EntryOK, JobOK, OnLists
<1>5. c.inform.e # None => c.ent[c.inform.e].alive
  BY InformReady
<1>6. m.e # None => c.ent[m.e].alive
  <2>1. m.e # None => m.o \in Objects /\ img[m.o] = m.e
    BY DEF IInv, MainOK
  <2> QED BY <1>3, <2>1
<1> QED BY <1>1, <1>3, <1>4, <1>5, <1>6 DEF NoUseAfterFree

\* Where it holds, the lists are exact.
LEMMA ListsInOrder == ASSUME IInv PROVE ListsExact
<1>1. /\ c \in CacheType /\ LruOK(c) /\ KeysOK(c)
      /\ \A e \in Entries : EntryOK(c, img, Informed, m.copy, disk, Closing, e) /\ Evictable(c, e)
  BY CacheGood
<1>2. c.activ \subseteq Entries /\ c.inactiv \subseteq Entries /\ c.dirty \subseteq Entries
  BY <1>1 DEF CacheType
<1>3. \A e \in Entries :
        /\ c.ent[e].activ <=> e \in c.activ
        /\ c.ent[e].lru   <=> e \in c.inactiv
        /\ c.ent[e].dirty <=> e \in c.dirty
        /\ c.ent[e].alive <=> e \in c.activ \/ e \in c.inactiv \/ e \in c.dirty
        /\ e \in c.activ => e \notin c.inactiv
        /\ e \in c.dirty => e \notin c.activ /\ e \notin c.inactiv
        /\ e \in c.dirty => c.ent[e].key = None
        /\ e \in c.activ \/ e \in c.inactiv => c.ent[e].key # None
        /\ HasJob(c, e) => e \in c.activ
  BY <1>1 DEF EntryOK, OnLists, Flagged, JobOK
<1>4. ListsMatchFlags
  <2>1. /\ Alive = c.activ \union c.inactiv \union c.dirty
        /\ c.activ \cap c.inactiv = {} /\ (c.activ \union c.inactiv) \cap c.dirty = {}
    BY <1>2, <1>3 DEF Alive
  <2>2. \A e \in Alive : e \in c.dirty <=> c.ent[e].key = None
    BY <1>3 DEF Alive
  <2>3. Range(c.lru) = c.inactiv /\ IsInjective(c.lru) /\ \A e \in c.inactiv : ~HasJob(c, e)
    BY <1>1, <1>2, <1>3 DEF LruOK
  <2> QED BY <1>3, <2>1, <2>2, <2>3 DEF ListsMatchFlags
<1>5. OneCopyPerKey
  BY <1>1 DEF KeysOK, OneCopyPerKey
<1>6. UnusedIsEvictable
  BY <1>1 DEF UnusedIsEvictable, Alive, Evictable
<1> QED BY <1>4, <1>5, <1>6 DEF ListsExact

\* Where it holds, the targets are the objects that wait: the one whose callback is
\* being called does not wait any more, and is the first.
LEMMA TargetsInOrder == ASSUME IInv PROVE TargetsMatch
<1>1. /\ c \in CacheType /\ InformOK
      /\ Users(img, Informed, m.copy)
      /\ \A e \in Entries : EntryOK(c, img, Informed, m.copy, disk, Closing, e)
  BY CacheGood DEF IInv
<1>2. c.preload \subseteq Entries /\ c.pend \subseteq Entries /\ c.flagged \subseteq Entries
  BY <1>1 DEF CacheType
<1>3. JobLists
  <2>1. \A e \in Entries : JobOK(c, e)
    BY <1>1 DEF EntryOK
  <2> QED BY <1>2, <2>1 DEF JobOK, JobLists
<1>4. \A o \in preloading : img[o] # None
  BY <1>1 DEF Users, Informed
<1>5. ASSUME NEW e \in Entries
      PROVE  IsInjective(c.ent[e].targets) /\ Range(Waiting(e)) = {o \in preloading : img[o] = e}
  <2>1. IsInjective(c.ent[e].targets) /\ Range(c.ent[e].targets) = Target(img, Informed, e)
    BY <1>1 DEF EntryOK, JobOK
  <2>2. c.ent[e].targets \in Seq(Objects)
    BY <1>1, EntryTyped DEF EntryType
  <2>3. CASE ~c.inform.cb
    BY <2>1, <2>3 DEF Waiting, Informed, Target
  <2>4. CASE c.inform.cb
    <3> DEFINE f == c.inform.e
               h == Head(c.ent[f].targets)
    <3>1. /\ f # None /\ c.ent[f].targets # <<>> /\ h \notin preloading
          /\ Informed = preloading \union {h}
      BY <1>1, <2>4 DEF InformOK, Informed
    <3>2. /\ c.ent[f].targets \in Seq(Objects) /\ IsInjective(c.ent[f].targets)
          /\ Range(c.ent[f].targets) = Target(img, Informed, f)
      BY <3>1, InformReady
    <3>3. /\ h \in Range(c.ent[f].targets)
          /\ Range(Tail(c.ent[f].targets)) = Range(c.ent[f].targets) \ {h}
      BY <3>1, <3>2, TailInjective
    <3> HIDE DEF h
    <3>4. img[h] = f
      BY <3>2, <3>3 DEF Target
    <3>5. CASE e = f
      <4>1. Waiting(e) = Tail(c.ent[f].targets)
        BY <2>4, <3>5 DEF Waiting
      <4> QED BY <2>1, <3>1, <3>2, <3>3, <3>5, <4>1 DEF Target
    <3>6. CASE e # f
      <4>1. Waiting(e) = c.ent[e].targets
        BY <3>6 DEF Waiting
      <4> QED BY <2>1, <3>1, <3>4, <3>6, <4>1 DEF Target
    <3> QED BY <3>5, <3>6
  <2> QED BY <2>1, <2>3, <2>4
<1> QED BY <1>3, <1>4, <1>5 DEF TargetsMatch

\* Where it holds the counters are exact.
LEMMA CountsInOrder == ASSUME IInv PROVE CountsExact
<1>1. /\ UsageOK(c) /\ FitsOK(c)
      /\ \A e \in Entries : EntryOK(c, img, Informed, m.copy, disk, Closing, e)
  BY CacheGood
<1>2. \A e \in Alive : c.ent[e].refs = Cardinality(Holders(e)) + (IF m.copy = e THEN 1 ELSE 0)
  BY <1>1 DEF EntryOK, HeldOK, Alive, Holders, Holding
<1>3. "unload" \notin c.may.does => c.usage = Usage(c, c.inactiv)
  BY <1>1 DEF UsageOK, Does
<1>4. c.lru # <<>> => c.usage <= c.limit
  BY <1>1 DEF FitsOK
<1> QED BY <1>2, <1>3, <1>4 DEF CountsExact

\* No image is used after it was freed, and none is freed that an object, a job,
\* the loop of async_end or a waiting call refers to.
THEOREM NoFreedImage == ASSUME Plain PROVE SafeSpec => []NoUseAfterFree
<1>1. IInv => NoUseAfterFree
  BY FreedNotUsed
<1> QED BY <1>1, Invariance, PTL

\* Every image is on exactly one list, the one its flags say, at most one image has
\* a key, and every unused image can be evicted.
THEOREM ListsCorrect == ASSUME Plain PROVE SafeSpec => []ListsExact
<1>1. IInv => ListsExact
  BY ListsInOrder
<1> QED BY <1>1, Invariance, PTL

\* The targets of an image are the objects that wait for it, once each, and every
\* job is on the list where a drop or the shutdown looks for it.
THEOREM TargetsCorrect == ASSUME Plain PROVE SafeSpec => []TargetsMatch
<1>1. IInv => TargetsMatch
  BY TargetsInOrder
<1> QED BY <1>1, Invariance, PTL

\* The reference counts are exact, the memory usage is within the limit, and exact
\* too in a program that does not call evas_render_dump.
THEOREM CountsCorrect == ASSUME Plain PROVE SafeSpec => []CountsExact
<1>1. IInv => CountsExact
  BY CountsInOrder
<1> QED BY <1>1, Invariance, PTL

\* The cache uses its jobs as PreloadJobs, which the thread pool implements, allows:
\* it never queues one twice, never cancels one after its report, and never loses
\* one.
THEOREM JobsUsedRightly == ASSUME Plain PROVE SafeSpec => UsesPreloadJobs
<1>1. Init => PJ!Init
  BY DEF Init, PJ!Init, LockHeld
<1>2. IInv /\ [Next]_vars => [PJ!Next]_(PJ!jobVars)
  BY StepKeeps DEF NoJobMoves
<1> QED BY <1>1, <1>2, Invariance, PTL DEF SafeSpec, UsesPreloadJobs, PJ!SafeSpec
=============================================================================
