# A TLA+ model of Evas

Evas (version 1.7) is a C library: a canvas of objects that an engine draws when the application
asks for a render. This directory holds TLA+ modules that model the parts of it where threads,
callbacks, caches and lists meet, the TLC configurations that check them on small instances, and
proofs, checked by TLAPS, for every size. `src/...` is the repository; `PROJECT.json` maps every
definition to the lines it models, every property to a plausible bug that it finds ("mutant"), and
every hazard of the code to the properties about it.

## 1. Inventory

| Component | Source (under `src/src/`) | Module |
|---|---|---|
| Preload thread pool | `lib/cache/evas_preload.c` | `EvasPreload`, abstractly `PreloadJobs` |
| Asynchronous events | `lib/canvas/evas_async_events.c` | in `EvasPreload` |
| Image cache | `lib/cache/evas_cache_image.c` | `EvasImageCache` |
| Image objects | `lib/canvas/evas_object_image.c`, `evas_object_inform.c` | the calls that touch the cache, in `EvasImageCache` |
| Software engine, images | `modules/engines/software_generic/evas_engine.c`, `lib/engines/common/evas_image_main.c` | in `EvasImageCache` |
| Canvas life cycle, layers, stacking, smart objects | `lib/canvas/evas_main.c`, `evas_object_main.c`, `evas_layer.c`, `evas_stack.c`, `evas_object_smart.c` | `EvasLayers` |
| Render pass, clipping | `lib/canvas/evas_render.c`, `evas_clip.c`, `evas_object_rectangle.c`, `lib/include/evas_inline.x` | `EvasRender` |
| Tiler, output of the buffer engine | `lib/engines/common/evas_tiler.c`, `modules/engines/buffer/evas_engine.c` | `EvasTiler` |
| cserve2 server | `bin/evas_cserve2_cache.c`, `bin/evas_cserve2_requests.c`, `bin/evas_cserve2_slaves.c` | `EvasCserve2` |
| cserve2 client | `lib/cserve2/evas_cs2_client.c` | as the server's environment, in `EvasCserve2` |
| Pointer events | `lib/canvas/evas_events.c`, `evas_callbacks.c` | `EvasEvents` |
| The rest | see section 6 | not modelled |

What each keeps and does, how they interact, what is hard, and what makes them correct:

* **Preload thread pool.** A queue `_workers`, `_threads_count`, a mutex, a work block per job with
  a flag `cancel`. Jobs are run, cancelled, drained at shutdown; threads are created on demand and
  leave when the queue is empty. Hard: a job that is cancelled while a thread takes, runs or posts
  it; a job queued while the last thread leaves; the limit, tested and counted in two critical
  sections. Correct if every job runs at most once, is reported and freed once, and not stranded.
* **Asynchronous events.** A pipe: `evas_async_events_put` writes from any thread and blocks when it
  is full, `evas_async_events_process` reads in the main thread and calls back.
* **Image cache.** Entries with references, flags, targets and a job; the hashes `activ` and
  `inactiv`, the lists `lru`, `dirty`, `preload`, `pending`; `usage` and `limit`. Hard: a thread
  writes to an entry, and the answer to its job arrives, while the entry is cancelled, shared,
  copied, replaced or freed. Correct if an entry is on the one list its flags say, counted by its
  holders, never used after it was freed, evictable when unused, and everybody who waits for it is
  told.
* **Image objects** hold an entry and are targets of its preload; they call the cache through the
  engine's function table, and the cache calls them back.
* **Canvas.** Objects are in the list of a layer or of a smart parent, and are deleted in two steps:
  `delete_me` is counted over renders, then the block is freed. Callbacks of a deletion may call
  anything again. Correct if an object is in one list and nothing points to freed blocks.
* **Render pass.** The canvas keeps lists of active, pending, restacked and deleted objects, marks
  and clip caches from one render to the next, and draws only what they point at. Correct if the
  output is what drawing everything anew would show.
* **Tiler.** A list of redraw rectangles, split, merged and widened while it is walked. Correct if
  no pixel that must be drawn is lost, also over two frames when two buffers are switched.
* **cserve2 server.** Entries of files and images that clients refer to, requests that depend on one
  another, worker processes that execute them and may die, and a list of unused images. Correct if
  each waiter is answered once, nothing freed is used, and nobody waits for ever.
* **Pointer events.** The list of objects under the pointer and the grabs of those that a button
  went down on. Callbacks show, hide, raise and delete objects, which feeds events over the same
  list. Correct if what goes down comes up and each object is told of "in" and "out" in turn.

## 2. Plan

Done: the pool, its properties and its implementation of `PreloadJobs`, proved; the image cache
above `PreloadJobs`, proved; layers and smart objects, proved; the render pass and clipping; the
tiler, proved; the cserve2 server; pointer events, proved. Left, in this order:

1. proofs for `EvasRender` and `EvasCserve2`, whose folds would first become instances of
   `ListLoops` (section 5);
2. `EvasImageCache2`: the client's cache and the cserve2 client, against the messages of
   `EvasCserve2`;
3. lists of callbacks that change while they are called; keys and focus; smart recalculation;
4. fonts of the server, the scale cache, the tree of formats of a textblock.

Proofs need recursion-free operators and at most eight modules with theorems, all of which are in
use.

How the modules compose. `EvasImageCache` and `EvasPreload` meet at `PreloadJobs`: the cache is
proved to use its jobs as `PreloadJobs` allows, the pool to implement it. `EvasRender` leaves a set
of cells to draw; `EvasTiler` shows that the rectangles which the engine makes of it cover what was
asked (drawing more is harmless there). `EvasLayers` shows in which lists the objects are that the
other two take as given. `EvasCserve2` has the client's library as its environment.

## 3. The modules

Operators called "Mutant of ..." are used by no specification: they are wrong versions of the
definition that follows them, and `PROJECT.json` says which property finds each.

**`PreloadJobs`** is what the pool promises: a job goes idle → queued → running → posted → idle; a
cancellation takes it back to idle if it is queued, and otherwise only flags it.

**`EvasPreload`** is the pool, the pipe and the condition variable. `workers`, `threadsCount`,
`pipe` and `fdOpen` are the shared variables of the code; `tpc[t]` and `cur[t]` the program counter
and the local `work` of a thread; `live`, `cancelled` and `held` say which work blocks are
allocated, flagged, and known to their owner (`Image_Entry.preload`); `heavies` and `outcome` record
what happened to a job; `mpc`, `marg`, `ret`, `goal` and `waitfor` are the main thread's. An action
is a critical section, or a step outside of one that other threads can see:
`evas_preload_thread_run` is `Run`, `Create` (the new thread may run at once) and `Count`; retiring
is `Take` (queue empty), `Recheck`, `PutDummy`, `WakeDummy`, then `ReadDummy` and `Join` in the main
thread. `Put` and `Wake` are apart, because the broadcast follows the write. `PutEvent` drops the
event when the pipe is closed or `calloc` fails. A wait is `Wait`, `WaitCheck`, `Broadcast`,
`SpuriousWakeup`.

**`EvasImageCache`** is the image cache and its callers. The main thread's functions do not
interleave with each other, so each C function is an operator from cache state to cache state with
its name (`DirtyAdd`, `LruDel`, `EntryDelete`, `AsyncEnd`, `PreloadRemove`, `Drop`, `Requests`, ...)
that calls the others as the code does. An action is a call of an image object (`FileSet`,
`ObjectFree`, `Preload`, `AlphaSetOwn`, `Draw`, ...), a step of the thread that runs
`_evas_cache_image_async_heavy` (`JobLocks` ... `JobPosts`), the delivery of a job's event, or an
iteration of a loop of the shutdown. Two things stop in the middle: `evas_cache_image_load_data`
waits for a job (`LoadStart`, `LoadFinish`, `LoadReturn`; it may fall asleep, as the shutdown may,
by `Sleep`, and `WakeUp` need not come), and the loop of
`_evas_cache_image_async_end` calls back to the application for each target (`InformCall`,
`InformReturn`, `InformDone`). `evas_cache_image_flush` cuts the lru list at the longest part that
fits (`Stay`, `Behind`, `Evict`): nothing is called back while it deletes. `c` is the cache, `c.ent`
its entries, `c.phase` the phases of their jobs (those of `PreloadJobs`, the running one divided by
the locks it takes), `c.bad` that a freed block was used. `c.may`, a member of the one constant
`Programs`, says which kinds of calls the application makes, and with which objects. Pixels are one
unit of memory, the struct another.

**`EvasLayers`** keeps `canvas` (the lists, and the fields of layers and objects they use),
`deleteMe`, `ref`, `delRef`, the stack `calls` of the `evas_object_del` that run (from whose
callbacks any call may come), and `deleteObjects`, the list of a render. Functions on the lists are
operators with the names of the code; a render is `RenderPhase1` and its end, with calls in between.
The code's loops over a list are instances of `ListLoops` (`Members`, `Deleted`, `Layers`, ...).

**`EvasRender`** keeps `scene` (what the program set, the clip caches, marks and lists) and
`screen`, what is drawn in each cell, the topmost last. A rectangle is the set of cells it covers.
`program` is the kind of program that runs. `Render` is all of `evas_render`; the other actions are
the calls between two renders.

**`EvasTiler`** keeps the list `rects` and the loop that runs over it (`mode`, `cur`, `at`,
`oldLast`, `dirty`); an iteration is an action (`Loop`). `pc`, `previous`, `todo`, `firstFrame`,
`changed`, `back`, `shown` are the render and the buffer engine around it. `wanted` and `stale` are
the history the properties speak of: the pixels added and not deleted since, and those of each
buffer that do not show the canvas. Adding and deleting may interleave in a frame, as `render_pre`
adds and video overlays delete (`evas_render.c`, 117–150, 222). `evas_tiler.c` has variants of its
operations that nothing calls; they are left out, and so are motion vectors and tile sizes, which
nothing uses.

**`EvasCserve2`** keeps `server` (entries, requests, references and waiters, and the workers:
`idle`, `working`, and the request of each, `job`), and for each handle of a client what has been
sent (`at`, `asked`). A message, an answer, failure or death of a worker, a changed file, and a
disconnection are one action each, with all the calls the server makes then. `live` has the blocks
that are allocated, of entries, requests and workers; every use of one is a `Touch`, and one of a
freed block sets `crashed`. `FindWorker` finds no worker when `Workers` are used up, `MessageFor`
makes no message for a request in `Unsent`, and the request fails in `Dispatch` as in the code. A
request that is left when its entry is freed is cancelled (`CancelRest`): nobody refers to that entry
any more, so this does not free another; a load that still depends on the request of a freed file
would use the file's list of images, which is gone, and counts as a use of freed memory.

**`EvasEvents`** keeps the canvas `c` with a stack of the functions that run: every function that
walks a list of objects is a frame, and one step takes one object of its list, so that calls from
callbacks come in between. An object's fields `covers`, `repeat` and `mode` are what it is for good,
its place, `repeat_events` and `pointer_mode`. A deletion has a step for each of its callbacks, of
del (`DelTells`) and of free (`LetGo`), which run before the object is marked (`Deleted`). `Hits` is
`_evas_event_object_list_raw_in_get`, a loop over the objects from the topmost down that ends behind
one which does not repeat events: an instance of `ListLoops` with the step `Take`. `pressed` is
history: the buttons an object heard going down.

**`MC...`** modules give the constants of the configurations, and the symmetry sets.

**`ListLoops`** is a loop over a list, with the step as a parameter, and its induction principle;
**`ListLemmas`** has facts on sequences (insertion, removal, injective lists, cutting) and minima
that several proofs need. `EvasPreloadProofs`, `EvasTilerProofs`, `EvasLayersProofs`,
`EvasImageCacheLemmas`, `EvasImageCacheProofs` and `EvasEventsProofs` hold the proofs (section 5).

## 4. The runs

| Run | Checks | Bounds | Distinct states |
|---|---|---|---|
| `pool_safety` | `TypeOK`, `NoStrandedJob`, `NoFreedWorkInUse`, `OncePerJob`, `ReportIsFinal`, `ImplementsPreloadJobsSafely` | 3 jobs, 3 threads, `_threads_max` 2, pipe of 2 | 175,764 |
| `pool_failures` | `ThreadsCounted`, when `malloc`, `calloc` and `pthread_create` may fail | 2 jobs, 2 threads, max 1 | 28,983 |
| `pool_liveness` | `ThreadsJoined`, `ImplementsPreloadJobs` | 2 jobs, 2 threads, max 1, nobody waits | 16,500 |
| `pool_wakeup` | *violated*: `WaitEnds` | 1 job, 1 thread, the main thread may wait | 377 |
| `cache_safety` | `TypeOK`, `NoUseAfterFree`, `CountsExact`, `ListsExact`, `TargetsMatch` | 3 entries, 2 objects, 2 keys, 2 stamps, limits 0 and 2; three programs: writes, changing files and failing loaders without preloads; preloads; preloads with failures and `evas_render_dump` | 893,217 |
| `cache_answer` | `UsesPreloadJobs`, `PreloadAnswered`, `ShutdownEnds` | 2 entries, 1 key; preloads with 2 objects, or preloads, writes and calls out of callbacks with one | 31,676 |
| `layers` | `TypeOK`, `InOneList`, `NothingDangles`, `OrderKept` | 3 objects (2 of them smart), layers 0 and 1, 2 nested deletions, 1 reference | 660,804 |
| `render` | `TypeOK`, `RenderedIsCurrent`, `KeptStateSound` | 2 or 3 rectangles, 3 cells of which 2 are on the output | 636,429 |
| `tiler` | `TypeOK`, `RedrawsExact`, `ShownIsCurrent`, `CallsEnd` | 4×3 pixels; one buffer: 6 rectangles, 4 calls a frame, accepted error 0 to 2; two buffers: 3 rectangles, 3 calls, limits 1 and 24 on the list | 559,749 |
| `cserve2` | `TypeOK`, `NoUseAfterFree`, `NoRequestMeansLoaded`, `RequestsMatch`, `ReferencesMatch`, `NobodyStalls` | 2 clients with a handle each, 2 paths, 2 options, blocks for 2 files, 3 images and 4 requests, 2 workers, memory for 1 unused image; paths and options are symmetric | 441,506 |
| `cserve2_unopened` | *violated*: `NoRequestMeansLoaded` | the same, opens may fail at any time | |
| `events` | `TypeOK`, `NoUseAfterFree`, `PressesPaired`, `HoverExact`, `HolderKeepsPointer` | 2 objects, 2 points, 6 kinds of pairs, 2 buttons, callbacks of down, up, del and free that call back once | 2,108,788 |

What they show is stated, property by property, in the comments of the modules. In short: the pool
runs, reports and frees each job once whatever the interleaving; the cache's lists, counts and
targets stay exact and nothing freed is used; objects are in one list whatever the callbacks of a
deletion do; a render shows what drawing everything would; no pixel is lost by the tiler; the server
answers each waiter once; and the pointer's books balance. All of it within the restrictions below.

**Why the bounds are enough.** Threads do not know each other; two that may run and a third slot let
one leave, one work and one be created at once. Three jobs let one be queued behind one that runs
while one is posted; a pipe of two fills up. In the cache an entry meets at most one other at a time
(the one it is copied from, or the one that replaces it under its key), and a third is evicted; two
objects are the least that share; a limit of 2 holds one loaded image or two that are not. A layer
or a smart parent needs two objects in its list for an order and a third that comes from another
list. Two cells on the output tell a redraw from none, the third is off it. The rectangles of the
tiler contain, touch, overlap and stick out. In the server two handles share an entry or depend on
one another's request, and a third image pushes an unused one out. When blocks run out, a call that
would need one more fails as it does without memory, or is not made.

**Fairness.** Threads are scheduled (`WF`), and a call that the main thread is in goes on (`WF`);
the main loop comes back to the pipe whatever calls the application makes in between (`SF` of
reading and delivering, which other calls disable). The tiler's loops run in one thread (`WF`).
Nothing makes the application call, cancel or shut down. Nothing wakes a main thread that sleeps on
`cond_wakeup` either: a broadcast that comes between its last read of the pipe and the wait is lost
(run `pool_wakeup`). In `EvasPreload` no liveness is therefore claimed of a pool whose main thread
waits; in `EvasImageCache` `WakeUp` has no fairness, and `PreloadAnswered` and `ShutdownEnds` are
stated for behaviours in which the main thread does not sleep for ever (`NeverLost`). The other
modules state safety only; `NobodyStalls` is the safety form of "whoever waits is answered".

**What the runs leave out.** The code misbehaves in some corners. A run avoids each by a constant,
so that what holds elsewhere can be stated, and giving the constant up makes TLC find the violation
named here:

| Constant | Behaviour | Violated |
|---|---|---|
| `EvasImageCache`: a program with `preload` and `dirty` or `change` | a dirty entry is freed when its cancelled preload ends (`evas_cache_image.c:376`) | `NoUseAfterFree` |
| the same, shutdown | the loop over the dirty list does not end when an entry of it has a job (548) | `ShutdownEnds` |
| `preload` and `reenter` | a callback that asks for the preload again is on the list twice (360) | `TargetsMatch` |
| `preload` and `fail` | a target added to a cancelled job that cannot load is told nothing (406) | `PreloadAnswered` |
| `unload` | `evas_render_dump` unloads pixels without taking them off `usage` (127, 1079) | `CountsExact` without its condition: it says of such a program only that `usage` is within the limit |
| `EvasPreload`: `MayWait` | a broadcast between the test and the wait is lost (`evas_cache_image.c:570`) | `WaitEnds` (run `pool_wakeup`) |
| `EvasRender`: `hidesClips` | changes of an object are lost while its mark is left from a hidden clipper | `RenderedIsCurrent` |
| `clipsDrawn` | an object drawn before it becomes a clipper keeps a mark | `KeptStateSound` |
| `rendersFrozen` | clip caches are not worked out while events are frozen | `RenderedIsCurrent` |
| opaque objects, or raises, without `flushes` | what the kept lists say of them is out of date | `RenderedIsCurrent`, `KeptStateSound` |
| `EvasCserve2`: `closesEarly` | a client gives up an entry that others wait for | `NoRequestMeansLoaded`, then freed entries are used |
| `opensFail`, `loadsFail` | a failed entry stays as if it had been opened or loaded | `NoRequestMeansLoaded` |
| `diesEarly` | the queues are not looked at when a worker dies | `NobodyStalls` |
| `diesIdle` | a worker that dies while it is idle is freed, and stays in the idle list (`evas_cserve2_requests.c:404`) | `NoUseAfterFree` |
| `freedCells` | a walk over a list goes on from a cell that was freed (`evas_cserve2_cache.c:391`, 995) | `NoUseAfterFree` |
| fewer `Workers` than `MaxWorkers`, or a request in `Unsent` | a request that cannot be given to a worker is freed, and then stored in its entry (`evas_cserve2_requests.c:537`, 547) | `NoUseAfterFree` |
| `changesInUse` | a file changes while requests for it are under way | `NoUseAfterFree` |
| `asksDropped` | a client asks for an image the server has dropped | `RequestsMatch` |
| `EvasEvents`: `Busy` with "in", "out" or "move" | the list computed before a callback replaces the one after it (`evas_events.c:856`) | `HoverExact`, `NoUseAfterFree` |
| `FrozenFeeds` with "out", "down" or "up" | buttons and grabs part while events are frozen (462) | `HoverExact` ("up"), `PressesPaired` |
| without `Moved` (a button goes down where no move was fed) | a count of grabs becomes negative (523) | `PressesPaired` |
| restacking while an object grabs without repeating | it is listed twice (943) | `TypeOK` |
| two such objects among three | the same | `TypeOK` |
| such an object and `PressesPaired` without `AllRepeat` | it is deleted, and those below it hear of buttons they have no grab for: three objects are needed to see it | `PressesPaired` |

**Findings.** Two runs show the code doing what a comment excludes.
`pool_wakeup`: the shutdown waits "for all pending image to die" and may do so for ever, since it
does not hold the lock from reading the pipe to waiting (`evas_cache_image.c:562`, 570).
`cserve2_unopened`: "File already loaded, otherwise there would be a request", but a file that could
not be opened is taken to be open when images of it were set up before
(`evas_cserve2_cache.c:1909`).

Three rows of the table above disagree with a comment as well. "A target is ONLY added ONCE", but a
callback may add it again before it is removed (`evas_cache_image.c:390`, 360). An object the pointer
has left, by the indirect ways `Evas.h` lists (3819-3829), is not told so when it leaves in the
callback of an in event (`evas_events.c:856`), or when the button it grabs the pointer with goes up
while events are frozen (462).

## 5. What is proved

All theorems are about `SafeSpec` (`Spec` in `EvasLayers` and `EvasEvents`), without fairness, for
every value of the constants that the `ASSUME`s of the modules admit: any number of jobs, threads,
images, objects, files and rectangles.

| Module | Theorem | States | Assumes |
|---|---|---|---|
| `EvasPreloadProofs` | `TypeCorrect` | `[]TypeOK` | |
| | `CountExact` | `[]ThreadsCounted` | |
| | `NoFreedWork`, `OneReport` | `[]NoFreedWorkInUse`, `[]OncePerJob` | `~CreateMayFail` |
| | `NoJobStranded`, `FinalReport` | `[]NoStrandedJob`, `ReportIsFinal` | `~CreateMayFail` |
| | `PoolImplementsJobs` | `ImplementsPreloadJobsSafely` | `~CreateMayFail` |
| `EvasImageCacheProofs` | `TypeCorrect` | `[]TypeOK` | |
| | `NoFreedImage` | `[]NoUseAfterFree` | `Plain` |
| | `ListsCorrect` | `[]ListsExact` | `Plain` |
| | `TargetsCorrect` | `[]TargetsMatch` | `Plain` |
| | `CountsCorrect` | `[]CountsExact` | `Plain` |
| | `JobsUsedRightly` | `UsesPreloadJobs` | `Plain` |
| `EvasTilerProofs` | `TypeCorrect` | `[]TypeOK` | |
| | `NoPixelLost` | `[]RedrawsExact` | |
| | `BufferCurrent` | `[]ShownIsCurrent` | |
| `EvasLayersProofs` | `TypeCorrect` | `[]TypeOK` | |
| | `OneListCorrect` | `[]InOneList` | |
| | `NothingFreedIsUsed` | `[]NothingDangles` | |
| | `OrderCorrect` | `OrderKept` | |
| `EvasEventsProofs` | `TypesSound` | `[]TypeOK` | the three below |
| | `NeverUsedAfterFree` | `[]NoUseAfterFree` | the three below |
| | `PressesArePaired` | `[]PressesPaired` | the three below |
| | `HoverIsExact` | `[]HoverExact` | the three below |
| | `HoldersKeepPointer` | `HolderKeepsPointer` | the three below |

`~CreateMayFail` is needed: when `pthread_create` fails and no thread is left,
`evas_preload_thread_run` frees a work that stays in `_workers`. `Plain` says that a program which
preloads does not write to images, finds its files unchanged, and makes no calls out of preload
callbacks; without each of the three TLC refutes the theorem (section 4). A program that does not
preload may do all of it, so `Plain` admits every program of the run `cache_safety`.

The theorems about pointer events have three assumptions, for any number of objects. None of them is
guaranteed by the code, and each has a violation in section 4:

* `HoverCallbacksCallNothing`: the callbacks of in, out and move events call no evas functions (those
  of down, up, del and free events may, at any depth). Without it `HoverExact` and `NoUseAfterFree`
  do not hold: TLC refutes both with "in" in `Busy`.
* `ButtonsNotFrozen`: buttons and outs are not fed while events are frozen. Without it `HoverExact`
  and `PressesPaired` do not hold: TLC refutes them with "up" and "down" in `FrozenFeeds`.
* `OneKeepsButtons`: at most one object keeps button events to itself. Without it the list of the
  pointer may have an object twice.

The model makes two more, in its guards: a button goes down where a move was fed (`Moved`), and the
program does not restack objects while one grabs the pointer without repeating (`KeptOrder`), nor
shows an object whose deletion has called back and is going on (`Kept`).

### The pool

*Types* (`TypeInv`) need two more facts: a thread has a work exactly while it runs and posts it, and
the main thread has one while a thread is created for it.

*Works* (`SafeInv`). `NoFreedWorkInUse` is not inductive. When the caller cancels a job, the work it
points to must still be allocated, which is `ReportedOnce`; when an event is read and the work
freed, it must not have been reported before, which follows from both together; and between
`pthread_create` and the return the work that is about to be given to the caller must not be freed
(`MainArgLive`), which holds since only the main thread frees. `HeavyPhase` follows `func_heavy`
through queue, thread and pipe. Queue and pipe are handled by lemmas on sequences without
repetition.

*Threads* (`CountInv`). The limit follows because only the main thread increments the count: between
its test and its increment the count can only fall (`RoomForOne`). `StrandInv` says why no job is
stranded: `evas_preload_thread_run` spares a thread only if the count is at its maximum, so at least
one counted thread exists, and a thread leaves the count only in the critical section in which it
sees the queue empty.

*Refinement.* `PlaceInv` and `MapInv` say where a live job is: in the queue, with a thread, or in
the pipe while that is open; only started jobs are flagged; nothing is queued after the drain. With
them each action is a step of one job or a stutter: the lemmas `...Moves`, one per kind of step, and
`RefinesThread`, `RefinesCalls`, `RefinesShutdown`.

### The image cache

`NoUseAfterFree` alone is far from inductive: whether a drop may free an entry depends on its count,
which depends on who holds it, on its job, which depends on the lists `preload` and `pending`, and
on its targets. The proof says once what is true of a cache between two calls, and shows that each C
function keeps it.

* `EntryOK` is that for one entry: it is on the list its flags say (`OnLists`); its job is on the
  list that its state says (`JobOK`); it is marked for deletion only by the shutdown (`DeletesOK`);
  its count is the number of its holders (`HeldOK`); its targets are the objects that wait for it;
  and what follows from the program (`ProgramOK`). `Core` says it of every entry, and of the lists
  as a whole: the lru list and its hash agree, a key has one entry, the usage is exact. `Good` adds
  what is true only when a function has finished: the usage is within the limit, an image nobody
  holds can be evicted, a job nobody waits for is cancelled. These definitions and the lemmas about
  list operators are in `EvasImageCacheLemmas`.
* The contracts, in the second half of that module, are a lemma per function (`DropGood`,
  `FlushGood`, `AsyncCancelGood`, `RequestsGood`, ...): called on a good cache, with the objects as
  they will be, it leaves a good cache, and does to the jobs what `PreloadJobs` allows. Functions
  that are called half-way through another start from `Core` and give `Good` back. `OneEntry`,
  `JobStep` and `PixelsGood` carry the entries that a function does not touch. The usage is a
  cardinality, and `UsageChanges` says how it changes with one entry, or with the evicted part of
  the lru list.
* `EvasImageCacheProofs` has the types, and the invariant `IInv`: the cache is good as far as the
  entries go (`Calmed`), the loop over the targets of `_evas_cache_image_async_end` runs over an
  entry that is held and whose job is over (`InformOK`), the object that is being told is still a
  target (`Informed`), a call that waits holds the entry it waits for (`MainOK`), the files are
  there where images are preloaded (`DiskOK`). There is a lemma per action, most of them an
  application of the contracts; the shutdown, where no object holds anything any more, has its own.

That an image is never used after it was freed then needs no argument of its own: an entry that is
held, has a job or is being informed is on the hash `activ`, and so allocated. `JobsUsedRightly`
follows from the same invariant: the contracts say how jobs move, `StepKeeps` collects it for every
step.

### The tiler

The inductive invariant `IInv` has six parts. `ListOK`: types, and where the loops' pointers into
the list may be. `FrameOK`: how the phases of a render go with the loops. `NothingLost`: what is
wanted is covered by the list and by what a loop has still to put back. `AddInv`: the rectangle that
was added last stays covered, also half-way through a loop, so that adding it again may be skipped.
`DelInv`: half-way through a deletion what is deleted is not wanted, and is gone from the rectangles
already passed; the pointer `oldLast` separates those from the parts appended behind. `StaleInv`:
what each of the two buffers lacks in each phase of a render.

An iteration of the adding loop replaces rectangles by others that cover at least the same pixels
(`Keeps`). The lemmas on geometry carry that: the parts of a split are exactly the
difference, the bounding box and a widened rectangle cover what they are made from, clipping keeps
the pixels of the output. The `abort()` after a split that leaves all of the old rectangle is
unreachable, since two rectangles that overlap leave less: `TypeOK` says so.

### Layers and smart objects

`InOneList` says of every object that is there which list it is in; half-way through
`evas_object_layer_set` or `evas_object_free` it is in none. The proof therefore speaks of a canvas
and of the set of objects that are in a list at that point: `Placed(c, A)` says that the objects of
`A` are in the one list they belong to (`Stacked`, `Grouped`), that their layers are there
(`Belongs`), in order (`Sorted`), and counted (`Counted`), and that the others are in no list.
`evas_object_inject` adds one to `A`, `evas_object_release` takes one out, and the other functions
are put together from these (`InjectFacts`, `ReleaseFacts`, `MemberDelFacts`, ..., `FreeFacts`). The
usage of a layer may be too high, never too low: members that follow a smart object to another layer
are not taken off the usage of the old one, and `Counted` states the bound that survives this.

The functions loop over lists: the members of a deleted object, the objects a render frees, those of
a layer, all layers. `LoopKeeps` in `ListLoops` is induction over a list: a family of sets `I[k]`
that each step leads through leads to `I[n]` at the end. (It is an ordinary theorem because the step
is a constant of the module, which `INSTANCE ... WITH Step <- ...` fills in.) For the loops that
free objects the family is `Freed`: what is placed, and that exactly the first `k` are gone.

`IInv` adds what is under way: objects that were deleted have left their parents and have no members
(`DeletedDetached`), a running `evas_object_del` has an object that is there (`CallsUsable`), and
what a render is going to free is there, deleted, and listed once (`FoundUsable`). `evas_free` stops
when every object of the layers was deleted, and then frees those; that this leaves none out,
members of members included, needs that no object is its own ancestor (`Rooted`), which
`evas_object_smart_member_add` keeps since it adds an object only to what does not depend on it.

`OrderKept` is a property of a step, proved from `IInv` and `Numbered`: the layer whose list an
object is in is the one its number names. `Tracks(b, c)` says that no two objects of a list have
changed their order between the canvas `b` at the start of a step and the canvas `c` somewhere in
it. The functions only take objects out of a list (`OrderRemoved`), or append objects that were not
in that list when the step began (`OrderAppended`). The latter is where `Numbered` is needed:
members that return to the list of their layer were not in it, and `evas_object_layer_set`, which
returns early for the number the object already has, appends it to a list it was not in. The calls
that stack an object insert just that one (`NewBefore`, `MovedBefore`).

### Pointer events

The hover is exact only while nothing runs, and a function that walks a list may be stopped at any
object by a callback that calls others. The inductive invariant `Good` therefore says of each canvas
what the functions that run have still to do. At most one of them is a walk of the list of the
pointer (`Walk(s)`), since only callbacks of button events and of deletions call back, and at most
one reports a button (`Button(s)`, always at the bottom); all others are quiet. With `w` the one and
`b` the other, or nothing:

* `Nested`: which function may run above which, and that none has a freed object in its list.
* `Lists`, `Outside`: the lists have no object twice and only living ones; what a walk has still to
  visit is in them; outside the canvas the pointer is in nothing.
* `Hover`: an object is marked as one the pointer is in exactly if `HasPointer` says so, which
  depends on the walk: of the objects a move left, those that were told already are not.
* `Held`: the count of the pointer is the number of the grabs, and who has a grab is on the list,
  also half-way through a move. The grabs are a set of numbered pairs (`GrabsOf`), whose cardinality
  changes with one object at a time (`GrabsLess`, `GrabsMore`).
* `Norepeat`: where an object keeps button events to itself, what is behind it has no grab, and what
  is before it is above it in the layer; so that the list which a move makes anew behind it has no
  object twice.
* `Even`, `Paired`, `Missed`: each grab of an object is a button that is down or whose release it is
  still to hear of; it has heard no more buttons going down than it has grabs; and an object that
  was told "out" by a newer event, which therefore does not hear of the release under way, waits for
  none.
* `Clean`: with no button down, the list is what the position reaches, or the walk that is on
  carries that list and will store it.

`Sound` is all of it but `Clean`: showing, hiding, raising or passing events breaks `Clean` for as
long as it takes to feed a move, and the lemmas about moves (`FeedMoveGood`, `RefeedGood`) take a
`Sound` canvas back to a `Good` one. There is a lemma per action, which all say `Good(c')` and
`HolderKeeps(c, c')`, the step property; most rest on one about what the action does to `Body` (the
conjuncts that speak of `w` and `b`) and one about the stack. That events reach the same objects
when an object they do not hit is raised, deleted or freed (`HitsRemoved`, `HitsInFront`) is
induction over the list, by `ListLoops`. TLC checked the conjuncts on the instance of `events` with
callbacks within callbacks (`MaxNest` 2) before they were proved.

The proof showed that two parts of `PressesPaired` are not so for every canvas: they held with two
objects, but with three, one of which keeps button events to itself, TLC refutes them. They are
stated for canvases without such objects now.

### Only model-checked

* Liveness (`ThreadsJoined`, `ImplementsPreloadJobs`, `PreloadAnswered`, `ShutdownEnds`,
  `CallsEnd`): fairness and `ENABLED` are out of the prover's reach.
* `EvasRender`: what a render does to all objects is a fold of what it does to one; that the result
  is what drawing everything would show needs induction over the list: the fold would have to become
  an instance of `ListLoops` first.
* `EvasCserve2`: its functions fold over sets (the waiters of a request, the handles of a client),
  for which a principle like `LoopKeeps` would be needed first.

## 6. What is not modelled, and why

* The failure of `pthread_create` is modelled, its consequences are not explored beyond the count of
  threads: a freed work is then executed, and there is nothing to say about that.
* `_evas_preload_thread_shutdown` holds `_mutex` while it calls `func_cancel`; a callback that used
  the pool would block for ever. `Drain` is one step, and its callbacks make no calls.
* `Image_Entry_Flags` share a word that two threads write. The model gives every flag a variable.
* `lru_nodata` is used by the engine image cache only. Animated images, the scale cache's share of
  `usage`, image sizes, colour spaces and surfaces without memory are data, or reached through an
  engine that is not modelled.
* `EvasLayers`: the class callback `member_del` (`evas_object_smart.c:241`) runs in `MemberDel`
  without calls of its own, and in `EvasEvents` the callback of a lost focus, before that of del
  (`evas_object_main.c:428`), is left out with the focus: deletion calls back to the program for del
  and free.
* Maps, proxies, cutouts, masks, clippers of the pointer, multi touch, wheel and keys: later, or
  never where the code is geometry only. `EvasLayers` moves smart objects with members to another
  layer only while the usage of the old layer is exact, since it is not kept afterwards
  (`evas_layer.c:144`).
* `EvasTiler` is resized to the same size only: a change of size clears everything it has, as one of
  the same size does.
* The cserve2 client's cache (`lib/cache2/evas_cache2.c`) is not modelled: its flush and its
  shutdown loop for ever on an unused image with a preload under way, and a failed answer frees or
  dereferences what others use.
* Render threads (`evas_pipe.c`) are not built at this commit (`configure.ac:1148`); the region
  buffer has no caller.
* Connections, shared memory and fonts of the server, the first cserve, containers, text, module
  registry, loaders, pixel operations, other engines, line breaking: I/O, data, external or vendored
  code.
