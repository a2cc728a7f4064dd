---------------------------- MODULE EvasCserve2 ----------------------------
(***************************************************************************)
(* The image server (src/bin/evas_cserve2_cache.c and                      *)
(* evas_cserve2_requests.c): clients open files and set up and load images *)
(* of them, the server keeps one entry for each file and each image and    *)
(* lets worker processes open and load them. A request waits for a worker  *)
(* or is processed by one; clients wait for its answer. An image that      *)
(* nobody refers to any more is kept unused until memory runs short.       *)
(*                                                                         *)
(* A handle is an image as the client library has it (evas_cs2_client.c):  *)
(* it sends OPEN and SETOPTS, LOAD or PRELOAD, UNLOAD and CLOSE. Messages  *)
(* arrive in the order they are sent. Fonts, and files that hold several   *)
(* images by key, are left out.                                            *)
(***************************************************************************)
EXTENDS Integers, FiniteSets, SequencesExt

CONSTANTS
  Clients,      \* the connections
  Handles,      \* images as clients have them
  Paths, Opts,  \* bound: the files and the load options that clients use
  Files,        \* bound: blocks for File_Data
  Images,       \* bound: blocks for Image_Data
  Requests,     \* bound: blocks for Slave_Request
  Workers,      \* bound: blocks for Slave_Worker; when they run out none can be started
  Unsent,       \* bound: the requests whose message for a worker cannot be made
  None,         \* NULL
  MaxWorkers,   \* _workers[SLAVE_IMAGE].max
  MaxUnused,    \* max_unused_mem_usage, in images with pixels
  Owner,        \* the client of each handle
  Trouble       \* bound: what happens beyond what a well-behaved world does

\* What the server does not stand: a client gives up an entry that others wait
\* for, or that a worker is busy with; a file cannot be opened after images of it
\* were set up; an image that was asked for cannot be loaded; a worker dies while
\* other requests wait, or while it is idle; a file changes while requests for it
\* are under way, or when only unused images keep it; a client asks for an image
\* the server has dropped, or (by LOAD) of a changed file. And a list is walked over
\* a cell that the walk has freed: without "freedCells" the link of such a cell is
\* still there, as Eina's pools leave it.
Troubles ==
  {"closesEarly", "opensFail", "loadsFail", "diesEarly", "diesIdle", "changesInUse",
   "asksDropped", "freedCells"}

ASSUME ServerAssumption ==
  /\ \A S \in {Clients, Handles, Files, Images, Requests, Workers} : IsFiniteSet(S)
  /\ Files \cap Images = {} /\ None \notin Files \cup Images \cup Requests \cup Workers
  /\ Unsent \subseteq Requests
  /\ MaxWorkers \in Nat \ {0, 1} /\ MaxUnused \in Nat
  /\ Owner \in [Handles -> Clients]
  /\ Trouble \subseteq Troubles

VARIABLES
  server,  \* entries, requests, workers, and what clients refer to and wait for
  at,      \* what the client of each handle has sent
  asked    \* whether it asked by "load" or "preload" last

vars == <<server, at, asked>>

Troubled(t) == t \in Trouble

Entries == Files \cup Images
Types == {"open", "load", "specLoad"}

BlankFile ==
  [path |-> None, request |-> None, opened |-> FALSE, invalid |-> FALSE,
   hashed |-> FALSE, watched |-> FALSE, images |-> {}]
BlankImage ==
  [file |-> None, opts |-> None, request |-> None, shm |-> FALSE, filled |-> FALSE,
   doload |-> FALSE, unused |-> FALSE]
BlankRequest ==
  [type |-> "open", data |-> None, waiters |-> {}, processing |-> FALSE,
   dependency |-> None, cancelled |-> FALSE]

RequestOf(s, e) ==
  IF e = None THEN None ELSE IF e \in Files THEN s.file[e].request ELSE s.image[e].request

SetRequest(s, e, r) ==
  IF e \in Files THEN [s EXCEPT !.file[e].request = r] ELSE [s EXCEPT !.image[e].request = r]

Processing(s) == {r \in s.live \cap Requests : s.req[r].processing}
Dependents(s, r) == {q \in s.live \cap Requests : s.req[q].dependency = r}

\* x is read or written, in freed memory unless it is live.
Touch(s, x) == IF x \in s.live THEN s ELSE [s EXCEPT !.crashed = TRUE]

\* A walk goes on from a cell that was freed in its body.
WalkOn(s) == IF Troubled("freedCells") THEN [s EXCEPT !.crashed = TRUE] ELSE s

(***************************************************************************)
(* Answers, and the end of a request                                       *)
(***************************************************************************)
Unrequested(s, e) == SetRequest(Touch(s, e), e, None)

AnswerTo(s, r, H, how) ==
  LET what == IF s.req[r].data \in Files THEN "open" ELSE "load"
  IN  [s EXCEPT !.req[r].waiters = @ \ H,
                !.answer[what] = [h \in Handles |-> IF h \in H THEN how ELSE @[h]]]

AnswerAll(s, r, how) == AnswerTo(s, r, s.req[r].waiters, how)

FreeRequest(s, r) ==
  [s EXCEPT !.live = @ \ {r}, !.req[r] = BlankRequest,
            !.waiting = [t \in Types |-> Remove(@[t], r)]]

\* A request that nobody waits for is taken out of its queue, or what a worker
\* makes of it will not matter.
Discard(s, r) ==
  IF s.req[r].processing THEN [s EXCEPT !.req[r].cancelled = TRUE] ELSE FreeRequest(s, r)

(***************************************************************************)
(* Entries: freeing them, and keeping unused images                        *)
(***************************************************************************)
\* cserve2_request_cancel_all for what is left of the request of entry e, which is
\* being freed: nobody refers to e any more. Loads that depend on the request of a
\* file are of its images, whose list has been freed.
CancelRest(s, e, r) ==
  IF r = None THEN s
  ELSE Discard(AnswerAll([Unrequested(Touch(s, r), e)
                            EXCEPT !.crashed = @ \/ Dependents(s, r) # {}], r, "error"), r)

FreeFile(s, f) ==
  LET t == CancelRest(Touch(s, f), f, s.file[f].request)
  IN  [Touch(t, f) EXCEPT !.live = @ \ {f}, !.file[f] = BlankFile]

Size(s, i) == IF s.image[i].shm THEN 1 ELSE 0

LeaveLru(s, i) ==
  IF s.image[i].unused
    THEN [s EXCEPT !.lru = Remove(@, i), !.usage = @ - Size(s, i), !.image[i].unused = FALSE]
    ELSE s

\* A file that can still be found goes with its last image and reference.
DropEmptyFile(t, f) ==
  IF t.file[f].images = {} /\ t.refs[f] = {} /\ t.file[f].hashed THEN FreeFile(t, f) ELSE t

\* Mutant: the file keeps the image in its list.
FreeImageListed(s, i) ==
  LET t == LeaveLru(CancelRest(s, i, s.image[i].request), i)
  IN  [Touch(t, t.image[i].file) EXCEPT !.live = @ \ {i}, !.image[i] = BlankImage]

FreeImage(s, i) ==
  LET f == s.image[i].file
      t == LeaveLru(CancelRest(s, i, s.image[i].request), i)
      left == [Touch(t, f) EXCEPT !.file[f].images = @ \ {i}]
  IN  [DropEmptyFile(left, f) EXCEPT !.live = @ \ {i}, !.image[i] = BlankImage]

\* Unused images go, the last of the list first, until image i fits.
EvictFor(s, i) ==
  FoldLeft(LAMBDA t, v : IF Size(s, i) > MaxUnused - t.usage THEN FreeImage(t, v) ELSE t,
           s, Reverse(s.lru))

Keep(s, i) ==
  [s EXCEPT !.lru = Append(@, i), !.usage = @ + Size(s, i), !.image[i].unused = TRUE]

\* Image i is worth keeping: its file is good, it fits, and somebody asked for it.
Keepable(s, i) ==
  ~s.file[s.image[i].file].invalid /\ Size(s, i) <= MaxUnused /\ s.image[i].doload

\* Mutant: nothing is evicted.
UnusedPushAll(s, i) == IF Keepable(s, i) THEN Keep(s, i) ELSE FreeImage(s, i)

UnusedPush(s, i) == IF Keepable(s, i) THEN Keep(EvictFor(s, i), i) ELSE FreeImage(s, i)

\* Mutant: a file goes although it has images.
ReferenceDelEager(s, h, e) ==
  LET t == [s EXCEPT !.refs[e] = @ \ {h}]
  IN  CASE s.refs[e] \subseteq {h} /\ e \in Files -> FreeFile(t, e)
        [] s.refs[e] \subseteq {h} /\ e \in Images -> UnusedPush(Touch(t, s.image[e].file), e)
        [] OTHER -> t

ReferenceDel(s, h, e) ==
  LET t == [s EXCEPT !.refs[e] = @ \ {h}]
  IN  CASE s.refs[e] \subseteq {h} /\ e \in Files /\ (s.file[e].invalid \/ s.file[e].images = {}) ->
             FreeFile(t, e)
        [] s.refs[e] \subseteq {h} /\ e \in Images -> UnusedPush(Touch(t, s.image[e].file), e)
        [] OTHER -> t

\* The client's hash of its files or images loses the handle.
Forget(s, h, e) ==
  IF e \in Files THEN [s EXCEPT !.files[h] = None] ELSE [s EXCEPT !.images[h] = None]

Referrers(s, e) == {h \in s.refs[e] : e \in {s.files[h], s.images[h]}}

(***************************************************************************)
(* Requests: failing and cancelling them                                   *)
(***************************************************************************)
\* Mutant: the clients go on referring to the entry.
RequestFailedHeld(s, e) == Unrequested(s, e)

\* What the owner of a request does when that fails: nobody refers to the entry
\* any more.
RequestFailed(s, e) ==
  FoldSet(LAMBDA h, t : WalkOn(ReferenceDel(Forget(t, h, e), h, e)),
          Unrequested(s, e), Referrers(s, e))

AnswerClient(s, r, c, how) ==
  AnswerTo(s, r, {h \in s.req[r].waiters : Owner[h] = c}, how)

\* The owner of request r is told, then all its waiters.
FailAll(s, r) == AnswerAll(RequestFailed(s, s.req[r].data), r, "error")

\* Loads that wait for a file to be opened; nothing depends on a load.
CancelDependents(s, r) ==
  FoldSet(LAMBDA q, t : Discard(FailAll([t EXCEPT !.req[q].dependency = None], q), q),
          s, Dependents(s, r))

\* cserve2_request_cancel_all
CancelAll(s, r) == Discard(CancelDependents(FailAll(s, r), r), r)

CancelFound(s, r) == IF r = None THEN s ELSE CancelAll(Touch(s, r), r)

\* Nobody waits for r any more: what depends on it ends unless a worker is busy with it.
Abandon(s, r) == Discard(IF s.req[r].processing THEN s ELSE CancelDependents(s, r), r)

AbandonUnwaited(s, r) == IF s.req[r].waiters = {} THEN Abandon(s, r) ELSE s

\* cserve2_request_cancel: client c gives up what request r is for.
Cancel(s, r, c) ==
  AbandonUnwaited(AnswerClient(RequestFailed(s, s.req[r].data), r, c, "error"), r)

\* A client gives up an entry (_entry_free_cb).
CancelFor(s, h, r) == IF r = None THEN s ELSE Cancel(Touch(s, r), r, Owner[h])

GiveUp(s, h, e) == ReferenceDel(CancelFor(Forget(s, h, e), h, RequestOf(s, e)), h, e)

GiveUpAny(s, h, e) == IF e = None THEN s ELSE GiveUp(s, h, e)

(***************************************************************************)
(* Requests: queueing them and sending them to workers                     *)
(***************************************************************************)
\* _cserve2_request_failed: it is over for r and what depends on it.
RequestEnds(s, r) == FreeRequest(CancelDependents(FailAll(s, r), r), r)

\* The message of r is made. A load gets its shared memory now.
MessageFor(s, r) ==
  LET d == s.req[r].data
      t == Touch(s, d)
  IN  IF d \in Files THEN t
      ELSE [Touch(t, s.image[d].file) EXCEPT !.image[d].shm = TRUE, !.image[d].filled = FALSE]

\* A worker is started unless one is idle.
FindWorker(s) ==
  LET new == Workers \ s.live
      w == CHOOSE x \in new : TRUE
  IN  IF s.idle # <<>> \/ new = {} THEN s
      ELSE [s EXCEPT !.live = @ \cup {w}, !.idle = <<w>>]

\* Worker w is busy with request r.
Work(s, w, r) ==
  [Touch(s, w) EXCEPT !.req[r].processing = TRUE, !.job[w] = r,
                      !.idle = Tail(@), !.working = @ \cup {w}]

\* Request r is given to the first of the idle workers.
Dispatch(s, r) ==
  CASE s.idle = <<>> -> RequestEnds(s, r)
    [] s.idle # <<>> /\ r \in Unsent -> RequestEnds(MessageFor(s, r), r)
    [] OTHER -> Work(MessageFor(s, r), Head(s.idle), r)

\* It leaves its queue before.
Send(s, r) == Dispatch(FindWorker([s EXCEPT !.waiting[s.req[r].type] = Remove(@, r)]), r)

\* As many requests as workers are to be had for, one worker being spared by
\* speculative loads.
Process(s) ==
  LET spares(t) == IF t = "specLoad" THEN 1 ELSE 0
      next(u, r) ==
        IF \/ u.req[r].dependency # None
           \/ Cardinality(u.working) >= MaxWorkers - spares(u.req[r].type)
          THEN u ELSE Send(Touch(u, r), r)
  IN  FoldLeft(LAMBDA u, t : FoldLeft(next, u, u.waiting[t]), s, <<"open", "load", "specLoad">>)

AddWaiter(s, r, h, what) ==
  [Touch(s, r) EXCEPT !.req[r].waiters = @ \cup {h}, !.answer[what][h] = "waiting"]

AddWaiters(s, q, H, what) == FoldSet(LAMBDA h, t : AddWaiter(t, q, h, what), s, H)

NewRequest(s, q, type, d) ==
  [s EXCEPT !.live = @ \cup {q}, !.waiting[type] = Append(@, q),
            !.req[q] = [BlankRequest EXCEPT !.type = type, !.data = d]]

Depend(s, q, dependency) ==
  IF dependency = None \/ s.req[q].dependency # None THEN s
  ELSE [Touch(s, dependency) EXCEPT !.req[q].dependency = dependency]

\* Entry d asks for type, by the request there is for it or a new one, which is
\* noted in the entry after the queues have been looked at.
RequestAdd(s, type, d, dependency, H) ==
  LET old == {q \in s.live \cap Requests : s.req[q].type = type /\ s.req[q].data = d}
      what == IF d \in Files THEN "open" ELSE "load"
      added(t, q) == Process(AddWaiters(Depend(t, q, dependency), q, H, what))
      by(t, q) == SetRequest(Touch(added(t, q), d), d, q)
      b == CHOOSE x \in (IF old = {} THEN Requests \ s.live ELSE old) : TRUE
  IN  by(IF old = {} THEN NewRequest(s, b, type, d) ELSE s, b)

\* Somebody asks for what was to be loaded speculatively.
TypeSet(s, r) ==
  IF s.req[r].processing \/ s.req[r].type = "load" THEN s
  ELSE [s EXCEPT !.req[r].type = "load", !.waiting[s.req[r].type] = Remove(@, r),
                 !.waiting["load"] = Append(@, r)]

(***************************************************************************)
(* What clients send                                                       *)
(***************************************************************************)
\* The block that is allocated next; the bounds leave one free.
Free(B) == B \ server.live # {}
Block(B) == CHOOSE b \in B \ server.live : TRUE

Images_(s, e) == IF e \in Files THEN s.file[e].images ELSE {e}

\* Nobody asks for entry e, or only handle h does, before a worker has begun.
MayGiveUp(s, h, e) ==
  LET r == RequestOf(s, e)
  IN  \/ Troubled("closesEarly") \/ r = None
      \/ /\ r # None /\ s.refs[e] = {h} /\ ~s.req[r].processing
         /\ \A i \in Images_(s, e) : ~s.image[i].doload

\* OPEN of a file the client does not have open by this handle. A known file
\* that no request is for is taken to be open.
Open(h, p) ==
  LET known == {f \in Files : server.file[f].hashed /\ server.file[f].path = p}
  IN  /\ at[h] = "unused" \/ (at[h] = "set" /\ server.answer.open[h] = "error")
      /\ server.files[h] = None /\ server.images[h] = None
      /\ at' = [at EXCEPT ![h] = "opening"]
      /\ asked' = [asked EXCEPT ![h] = "none"]
      /\ \/ \E f \in known :
              LET s == [server EXCEPT !.refs[f] = @ \cup {h}, !.files[h] = f,
                                      !.answer.load[h] = "none"]
              IN  server' = IF s.file[f].request = None THEN [s EXCEPT !.answer.open[h] = "ok"]
                            ELSE AddWaiter(s, s.file[f].request, h, "open")
         \/ /\ known = {}
            /\ Free(Files) /\ Free(Requests)
            /\ LET f == Block(Files)
                   s == [server EXCEPT !.live = @ \cup {f}, !.refs[f] = {h}, !.files[h] = f,
                                     !.file[f] = [BlankFile EXCEPT !.path = p, !.hashed = TRUE,
                                                                   !.watched = TRUE],
                                     !.answer.load[h] = "none"]
               IN  server' = RequestAdd(s, "open", f, None, {h})

Valid(s, f) == f # None /\ ~s.file[f].invalid

\* SETOPTS follows OPEN at once. The image is loaded speculatively.
SetOpts(h, o) ==
  LET f == server.files[h]
      same == {i \in server.live \cap Images :
                 server.image[i].file = f /\ server.image[i].opts = o}
      refer(s, i) == [s EXCEPT !.refs[i] = @ \cup {h}, !.images[h] = i]
  IN  /\ at[h] = "opening"
      /\ at' = [at EXCEPT ![h] = "set"]
      /\ UNCHANGED asked
      /\ \/ ~Valid(server, f) /\ UNCHANGED server
         \/ /\ Valid(server, f)
            /\ \/ \E i \in same : server' = refer(LeaveLru(server, i), i)
               \/ /\ same = {}
                  /\ Free(Images) /\ Free(Requests)
                  /\ LET i == Block(Images)
                         s == [refer(server, i) EXCEPT !.live = @ \cup {i},
                                     !.image[i] = [BlankImage EXCEPT !.file = f, !.opts = o],
                                     !.file[f].images = @ \cup {i}]
                     IN  server' = RequestAdd(s, "specLoad", i, s.file[f].request, {})

\* LOAD or PRELOAD; the server treats them alike.
Load(h, kind) ==
  LET i == server.images[h]
      f == server.image[i].file
      q == server.image[i].request
      asking(s) == IF s.image[i].doload THEN s ELSE TypeSet(s, q)
      doload(s) == [s EXCEPT !.image[i].doload = TRUE]
  IN  /\ at[h] = "set" /\ server.answer.open[h] # "error"
      /\ kind = "load" => server.answer.open[h] = "ok"
      /\ \/ server.answer.load[h] = "none"
         \/ server.answer.load[h] = "error" /\ asked[h] = "preload"
      /\ Troubled("asksDropped") \/ (i # None /\ (server.file[f].invalid => kind = "preload"))
      /\ asked' = [asked EXCEPT ![h] = kind]
      /\ UNCHANGED at
      /\ \/ i = None /\ server' = [server EXCEPT !.answer.load[h] = "waiting"]
         \/ /\ i # None
            /\ LET s == Touch(server, f)
               IN  \/ /\ s.file[f].invalid
                      /\ server' = [s EXCEPT !.answer.load[h] = "error"]
                   \/ /\ ~s.file[f].invalid /\ q # None
                      /\ server' = doload(asking(AddWaiter(s, q, h, "load")))
                   \/ /\ ~s.file[f].invalid /\ q = None /\ s.image[i].shm
                      /\ server' = doload([s EXCEPT !.answer.load[h] = "ok"])
                   \/ /\ ~s.file[f].invalid /\ q = None /\ ~s.image[i].shm
                      /\ Free(Requests)
                      /\ server' = doload(RequestAdd(s, "load", i, s.file[f].request, {h}))

\* An error that answers LOAD makes the client forget its image.
Forgot(h) == server.answer.load[h] = "error" /\ asked[h] = "load"

Unload(h) ==
  /\ at[h] = "set" /\ server.answer.open[h] # "error" /\ ~Forgot(h)
  /\ server.images[h] # None => MayGiveUp(server, h, server.images[h])
  /\ server' = GiveUpAny(server, h, server.images[h])
  /\ at' = [at EXCEPT ![h] = "unloaded"]
  /\ UNCHANGED asked

NoAnswer(s, H) ==
  [s EXCEPT !.answer = [w \in {"open", "load"} |->
                          [h \in Handles |-> IF h \in H THEN "none" ELSE s.answer[w][h]]]]

Close(h) ==
  /\ at[h] = "unloaded" \/ (at[h] = "set" /\ server.answer.open[h] # "error" /\ Forgot(h))
  /\ server.files[h] # None => MayGiveUp(server, h, server.files[h])
  /\ server' = NoAnswer(GiveUpAny(server, h, server.files[h]), {h})
  /\ at' = [at EXCEPT ![h] = "unused"]
  /\ asked' = [asked EXCEPT ![h] = "none"]

\* The connection of c is closed: its images and then its files are given up.
Disconnect(c) ==
  LET H == {h \in Handles : Owner[h] = c}
      s == FoldSet(LAMBDA h, t : GiveUpAny(t, h, t.images[h]), server, H)
  IN  /\ \E h \in H : at[h] # "unused"
      /\ \A h \in H : \A e \in {server.files[h], server.images[h]} \ {None} :
           Troubled("closesEarly") \/ RequestOf(server, e) = None
      /\ server' = NoAnswer(FoldSet(LAMBDA h, t : GiveUpAny(t, h, t.files[h]), s, H), H)
      /\ at' = [h \in Handles |-> IF h \in H THEN "unused" ELSE at[h]]
      /\ asked' = [h \in Handles |-> IF h \in H THEN "none" ELSE asked[h]]

(***************************************************************************)
(* What workers and the file system do                                     *)
(***************************************************************************)
\* A worker that is through with its request is the last to be sent another.
Rest(s, w) ==
  [s EXCEPT !.job[w] = None, !.working = @ \ {w}, !.idle = Append(@, w)]

\* Mutant: the queues are not looked at.
FinishOnly(s, w) ==
  LET r == s.job[w]
      t == FoldSet(LAMBDA q, u : [u EXCEPT !.req[q].dependency = None], s, Dependents(s, r))
  IN  Rest(FreeRequest(t, r), w)

\* The request of worker w has ended; what depends on it may go on.
Finish(s, w) ==
  LET r == s.job[w]
      t == FoldSet(LAMBDA q, u : [u EXCEPT !.req[q].dependency = None], s, Dependents(s, r))
  IN  Process(Rest(FreeRequest(t, r), w))

\* Entry d is ready.
Ready(s, d) ==
  IF d \in Files THEN [s EXCEPT !.file[d].opened = TRUE, !.file[d].request = None]
  ELSE [s EXCEPT !.image[d].filled = TRUE, !.image[d].request = None]

\* Mutant: an answer is given to one of those who wait.
ResponseToOne(s, r) ==
  LET W == s.req[r].waiters
  IN  AnswerTo(Ready(Touch(s, s.req[r].data), s.req[r].data), r,
               IF W = {} THEN {} ELSE {CHOOSE h \in W : TRUE}, "ok")

Response(s, r) == AnswerAll(Ready(Touch(s, s.req[r].data), s.req[r].data), r, "ok")

\* A worker has done what it was sent.
WorkerAnswers(w) ==
  LET r == server.job[w]
  IN  /\ w \in server.working
      /\ server' = Finish(IF server.req[r].cancelled THEN server ELSE Response(server, r), w)
      /\ UNCHANGED <<at, asked>>

\* It could not do it.
WorkerFails(w) ==
  LET r == server.job[w]
      d == server.req[r].data
  IN  /\ w \in server.working
      /\ IF d \in Files THEN Troubled("opensFail") \/ server.file[d].images = {}
         ELSE Troubled("loadsFail") \/ ~server.image[d].doload
      /\ server' = Finish(IF server.req[r].cancelled THEN server ELSE FailAll(server, r), w)
      /\ UNCHANGED <<at, asked>>

\* A worker dies and is freed; it leaves the busy ones, not the idle. The queues
\* are not looked at.
WorkerDies(w) ==
  LET r == server.job[w]
      d == server.req[r].data
      queued == UNION {Range(server.waiting[t]) : t \in Types}
      gone(s) == [s EXCEPT !.live = @ \ {w}, !.working = @ \ {w}, !.job[w] = None]
  IN  /\ w \in server.live
      /\ \/ r = None /\ Troubled("diesIdle") /\ server' = gone(server)
         \/ /\ r # None
            /\ \A i \in Images_(server, d) : Troubled("loadsFail") \/ ~server.image[i].doload
            /\ Troubled("diesEarly") \/ queued \subseteq Dependents(server, r)
            /\ server' = gone(RequestEnds(server, r))
      /\ UNCHANGED <<at, asked>>

FreeUnused(s, i) == IF s.image[i].unused THEN WalkOn(FreeImage(s, i)) ELSE s

InvalidateImages(s, f) ==
  FoldSet(LAMBDA i, t : FreeUnused(Unrequested(CancelFound(t, t.image[i].request), i), i),
          [s EXCEPT !.file[f].invalid = TRUE, !.file[f].watched = FALSE], s.file[f].images)

Unhash(s, f) == [Touch(s, f) EXCEPT !.file[f].hashed = FALSE]

Unopen(s, f) == Unrequested(CancelFound(s, s.file[f].request), f)

FreeUnreferenced(s, f) ==
  IF s.file[f].images = {} /\ s.refs[f] = {} THEN FreeFile(s, f) ELSE s

\* _file_changed_cb
Changed(s, f) == FreeUnreferenced(Unopen(Unhash(InvalidateImages(s, f), f), f), f)

FileChanged(f) ==
  /\ server.file[f].watched
  /\ \/ Troubled("changesInUse")
     \/ /\ server.refs[f] # {}
        /\ \A e \in {f} \cup server.file[f].images : RequestOf(server, e) = None
  /\ server' = Changed(server, f)
  /\ UNCHANGED <<at, asked>>

(***************************************************************************)
(* The specification                                                       *)
(***************************************************************************)
Init ==
  /\ server = [live |-> {}, file |-> [f \in Files |-> BlankFile],
               image |-> [i \in Images |-> BlankImage], req |-> [r \in Requests |-> BlankRequest],
               refs |-> [e \in Entries |-> {}], files |-> [h \in Handles |-> None],
               images |-> [h \in Handles |-> None],
               answer |-> [w \in {"open", "load"} |-> [h \in Handles |-> "none"]],
               waiting |-> [t \in Types |-> <<>>], lru |-> <<>>, usage |-> 0,
               job |-> [w \in Workers |-> None], idle |-> <<>>, working |-> {},
               crashed |-> FALSE]
  /\ at = [h \in Handles |-> "unused"]
  /\ asked = [h \in Handles |-> "none"]

Next ==
  /\ ~server.crashed
  /\ \/ \E h \in Handles : \/ \E p \in Paths : Open(h, p)
                           \/ \E o \in Opts : SetOpts(h, o)
                           \/ \E k \in {"load", "preload"} : Load(h, k)
                           \/ Unload(h)
                           \/ Close(h)
     \/ \E c \in Clients : Disconnect(c)
     \/ \E w \in Workers : WorkerAnswers(w) \/ WorkerFails(w) \/ WorkerDies(w)
     \/ \E f \in Files : FileChanged(f)

Spec == Init /\ [][Next]_vars

(***************************************************************************)
(* Properties                                                              *)
(***************************************************************************)
TypeOK ==
  /\ server.live \subseteq Entries \cup Requests \cup Workers
  /\ server.file \in [Files -> [path : Paths \cup {None}, request : Requests \cup {None},
                                opened : BOOLEAN, invalid : BOOLEAN, hashed : BOOLEAN,
                                watched : BOOLEAN, images : SUBSET Images]]
  /\ server.image \in [Images -> [file : Files \cup {None}, opts : Opts \cup {None},
                                  request : Requests \cup {None}, shm : BOOLEAN,
                                  filled : BOOLEAN, doload : BOOLEAN, unused : BOOLEAN]]
  /\ server.req \in [Requests -> [type : Types, data : Entries \cup {None},
                                  waiters : SUBSET Handles, processing : BOOLEAN,
                                  dependency : Requests \cup {None}, cancelled : BOOLEAN]]
  /\ server.refs \in [Entries -> SUBSET Handles]
  /\ server.job \in [Workers -> Requests \cup {None}]
  /\ Range(server.idle) \subseteq Workers /\ server.working \subseteq Workers
  /\ server.usage \in 0 .. MaxUnused
  /\ server.crashed \in BOOLEAN
  /\ at \in [Handles -> {"unused", "opening", "set", "unloaded"}]
  /\ asked \in [Handles -> {"none", "load", "preload"}]

\* No freed entry, request or worker (Slave_Worker) is read, written or sent
\* anything by the server, as each Touch checks. This is so without Trouble, where
\* workers can be started and messages made: "closesEarly", "opensFail",
\* "diesIdle", "changesInUse" and "freedCells", fewer Workers than MaxWorkers, and
\* a request in Unsent each refute it.
NoUseAfterFree == ~server.crashed

\* What no request is for has been opened, or loaded if there is memory for its
\* pixels: file_open and image_load answer at once for such an entry.
NoRequestMeansLoaded ==
  /\ \A f \in server.live \cap Files :
       server.file[f].request = None /\ server.file[f].hashed => server.file[f].opened
  /\ \A i \in server.live \cap Images :
       server.image[i].request = None /\ server.image[i].shm => server.image[i].filled

\* A handle that waits for an answer is a waiter of one request, which is that of
\* the entry it refers to; nobody else is answered. So each OPEN, LOAD and
\* PRELOAD is answered once. An entry and its request refer to one another, unless
\* that was cancelled, and an entry without references has none.
RequestsMatch ==
  /\ \A h \in Handles, w \in {"open", "load"} :
       LET kind == IF w = "open" THEN Files ELSE Images
           e == IF w = "open" THEN server.files[h] ELSE server.images[h]
           waits == {r \in server.live \cap Requests :
                       server.req[r].data \in kind /\ h \in server.req[r].waiters}
       IN  waits = IF server.answer[w][h] = "waiting" THEN {RequestOf(server, e)} ELSE {}
  /\ \A e \in server.live \cap Entries :
       RequestOf(server, e) # None =>
         /\ RequestOf(server, e) \in server.live
         /\ server.req[RequestOf(server, e)].data = e
         /\ server.refs[e] # {}
  /\ \A r \in server.live \cap Requests :
       ~server.req[r].cancelled => RequestOf(server, server.req[r].data) = r

\* What a client refers to is there, and counted; what nobody refers to is an
\* unused image, whose memory is counted, or a file that has images; and one path
\* is watched for one file, which can be found by it.
ReferencesMatch ==
  /\ \A h \in Handles : \A e \in {server.files[h], server.images[h]} \ {None} :
       e \in server.live /\ h \in server.refs[e]
  /\ \A e \in Entries : \A h \in server.refs[e] : e \in {server.files[h], server.images[h]}
  /\ \A f \in server.live \cap Files :
       /\ server.refs[f] = {} => server.file[f].images # {}
       /\ server.file[f].images = {i \in server.live \cap Images : server.image[i].file = f}
       /\ server.file[f].watched <=> server.file[f].hashed
  /\ \A i \in server.live \cap Images : server.image[i].file \in server.live
  /\ Range(server.lru) = {i \in server.live \cap Images : server.refs[i] = {}}
  /\ Len(server.lru) = Cardinality(Range(server.lru))
  /\ server.usage = Cardinality({i \in Range(server.lru) : server.image[i].shm})
  /\ \A f, g \in Files :
       server.file[f].hashed /\ server.file[g].hashed /\ f # g =>
         server.file[f].path # server.file[g].path

\* Whoever waits will be looked at: its request is with a worker, or some worker
\* is busy, whose answer makes the server look at the queues again; speculative
\* loads keep one worker free for that, and a worker loads images of files that
\* were opened only. Each request that is processed has a worker, and one only.
NobodyStalls ==
  /\ \A r \in server.live \cap Requests :
       server.req[r].waiters # {} => ~server.req[r].cancelled /\ Processing(server) # {}
  /\ Cardinality({r \in Processing(server) : server.req[r].type = "specLoad"}) < MaxWorkers
  /\ Cardinality(server.working) <= MaxWorkers
  /\ \A r \in Processing(server) : \E w \in server.working : server.job[w] = r
  /\ \A v, w \in server.working : server.job[v] = server.job[w] => v = w
  /\ \A r \in Processing(server) :
       server.req[r].data \in Images /\ ~server.req[r].cancelled =>
         server.file[server.image[server.req[r].data].file].opened
=============================================================================
