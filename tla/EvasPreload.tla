---------------------------- MODULE EvasPreload ----------------------------
(***************************************************************************)
(* The preload thread pool (lib/cache/evas_preload.c), the pipe that takes *)
(* finished work to the main thread (lib/canvas/evas_async_events.c) and   *)
(* the condition variable the main thread sleeps on while it waits for a   *)
(* preload (lib/cache/evas_cache_image.c).                                 *)
(*                                                                         *)
(* One action is one step no other thread can observe the middle of: a     *)
(* critical section of `_mutex' (so the mutex itself is not a variable), a *)
(* read or a write of the pipe, a broadcast, a thread creation or join, or *)
(* the run of a func_heavy, whose effect on the image is in ImageCache.    *)
(***************************************************************************)
EXTENDS Integers, FiniteSets, SequencesExt

CONSTANTS
  Jobs,          \* blocks malloc can return for an Evas_Preload_Pthread_Worker
  Threads,       \* thread slots: a bound on the workers that exist at once
  None,          \* NULL
  ThreadsMax,    \* _threads_max: the number of CPUs, at least one
  PipeCap,       \* events the pipe holds before write() blocks
  CreateMayFail, \* whether malloc and pthread_create may fail
  MayWait        \* whether the main thread also sleeps on cond_wakeup

ASSUME ConstantsAssumption ==
  /\ IsFiniteSet(Threads)
  /\ Jobs \cap Threads = {}
  /\ None \notin Jobs \union Threads
  /\ ThreadsMax \in Nat \ {0}
  /\ PipeCap \in Nat \ {0}
  /\ CreateMayFail \in BOOLEAN
  /\ MayWait \in BOOLEAN

VARIABLES
  \* shared between the threads
  workers,       \* _workers: the queue of jobs no thread has taken
  threadsCount,  \* _threads_count
  pipe,          \* the events in the pipe; a job, or a thread's dummy work
  fdOpen,        \* whether _fd_write is a descriptor or -1
  \* the worker threads
  tpc,           \* [Threads -> ThreadStates]: where each thread is
  cur,           \* [Threads -> Jobs \cup {None}]: its local `work'
  \* the work blocks
  live,          \* the jobs malloc'd and not freed
  held,          \* the jobs the caller has a pointer to (Image_Entry.preload)
  cancelled,     \* the jobs with work->cancel set
  heavies,       \* [Jobs -> 0..2]: times func_heavy began since the malloc
  outcome,       \* [Jobs -> ..]: callbacks delivered since the malloc
  \* the main thread
  mpc,           \* where it is
  marg,          \* its `work' in evas_preload_thread_run, or the thread it joins
  ret,           \* where evas_preload_thread_run returns to
  goal,          \* where evas_async_events_process returns to
  waitfor        \* the jobs it waits for, when it waits

shared   == <<workers, threadsCount, pipe, fdOpen>>
threads  == <<tpc, cur>>
blocks   == <<live, held, cancelled, heavies, outcome>>
mainVars == <<mpc, marg, ret, goal, waitfor>>
vars     == <<shared, threads, blocks, mainVars>>

ThreadStates == {"none", "take", "heavy", "put", "wake", "recheck",
                 "putDummy", "wakeDummy", "exited"}
MainStates   == {"idle", "create", "count", "failed", "process", "join",
                 "check", "sleep", "drain", "close", "down"}

Init ==
  /\ workers = <<>> /\ threadsCount = 0 /\ pipe = <<>> /\ fdOpen = TRUE
  /\ tpc = [t \in Threads |-> "none"] /\ cur = [t \in Threads |-> None]
  /\ live = {} /\ held = {} /\ cancelled = {}
  /\ heavies = [j \in Jobs |-> 0] /\ outcome = [j \in Jobs |-> "none"]
  /\ mpc = "idle" /\ marg = None /\ ret = "idle" /\ goal = "idle" /\ waitfor = {}

-----------------------------------------------------------------------------
\* The worker threads

Move(t, from, to) == tpc[t] = from /\ tpc' = [tpc EXCEPT ![t] = to]

\* Mutant of Take: the work stays in the queue.
TakeKeepsHead(t) ==
  /\ workers # <<>>
  /\ Move(t, "take", "heavy")
  /\ cur' = [cur EXCEPT ![t] = Head(workers)]
  /\ UNCHANGED <<shared, blocks, mainVars>>

\* A thread pops the head of the queue, or leaves the loop if it is empty.
Take(t) ==
  /\ \/ /\ workers # <<>>
        /\ Move(t, "take", "heavy")
        /\ cur' = [cur EXCEPT ![t] = Head(workers)]
        /\ workers' = Tail(workers)
     \/ /\ workers = <<>>
        /\ Move(t, "take", "recheck")
        /\ UNCHANGED <<cur, workers>>
  /\ UNCHANGED <<threadsCount, pipe, fdOpen, blocks, mainVars>>

\* func_heavy runs, outside of the mutex.
Heavy(t) ==
  /\ Move(t, "heavy", "put")
  /\ heavies' = [heavies EXCEPT ![cur[t]] = @ + 1]
  /\ UNCHANGED <<shared, cur, live, held, cancelled, outcome, mainVars>>

\* evas_async_events_put: the write blocks while the pipe is full; with the
\* descriptor closed, or when calloc fails, the event is dropped, there is no
\* broadcast, and nobody looks at the result.
PutEvent(t, ev, from, to, dropped) ==
  \/ /\ fdOpen /\ Len(pipe) < PipeCap
     /\ Move(t, from, to)
     /\ pipe' = Append(pipe, ev)
  \/ /\ ~fdOpen \/ CreateMayFail
     /\ Move(t, from, dropped)
     /\ UNCHANGED pipe

Put(t) ==
  /\ PutEvent(t, cur[t], "put", "wake", "take")
  /\ cur' = [cur EXCEPT ![t] = None]
  /\ UNCHANGED <<workers, threadsCount, fdOpen, blocks, mainVars>>

\* evas_cache_image_wakeup: the broadcast wakes a main thread that is asleep
\* now, and is forgotten otherwise; the mutex `wakeup' is not taken for it.
Broadcast == mpc' = IF mpc = "sleep" THEN "process" ELSE mpc

Wake(t) ==
  /\ Move(t, "wake", "take")
  /\ Broadcast
  /\ UNCHANGED <<shared, cur, blocks, marg, ret, goal, waitfor>>

\* Mutants of Recheck: the place is given up before the queue is looked at; the
\* queue is not looked at again.
RecheckDropsFirst(t) ==
  /\ Move(t, "recheck", IF workers # <<>> THEN "take" ELSE "putDummy")
  /\ threadsCount' = threadsCount - 1
  /\ UNCHANGED <<workers, pipe, fdOpen, cur, blocks, mainVars>>

RecheckBlind(t) ==
  /\ Move(t, "recheck", "putDummy")
  /\ threadsCount' = threadsCount - 1
  /\ UNCHANGED <<workers, pipe, fdOpen, cur, blocks, mainVars>>

\* The queue is looked at once more in the critical section that gives up the
\* thread's place in _threads_count.
Recheck(t) ==
  /\ \/ /\ workers # <<>>
        /\ Move(t, "recheck", "take")
        /\ UNCHANGED threadsCount
     \/ /\ workers = <<>>
        /\ Move(t, "recheck", "putDummy")
        /\ threadsCount' = threadsCount - 1
  /\ UNCHANGED <<workers, pipe, fdOpen, cur, blocks, mainVars>>

\* Mutant of PutDummy: the thread ends without a word.
PutNoDummy(t) ==
  /\ Move(t, "putDummy", "exited")
  /\ UNCHANGED <<shared, cur, blocks, mainVars>>

\* The dummy work whose func_end joins the thread; when there is no memory for
\* it, or for its event, the thread is never joined.
PutDummy(t) ==
  /\ PutEvent(t, t, "putDummy", "wakeDummy", "exited")
  /\ UNCHANGED <<workers, threadsCount, fdOpen, cur, blocks, mainVars>>

WakeDummy(t) ==
  /\ Move(t, "wakeDummy", "exited")
  /\ Broadcast
  /\ UNCHANGED <<shared, cur, blocks, marg, ret, goal, waitfor>>

Worker(t) ==
  Take(t) \/ Heavy(t) \/ Put(t) \/ Wake(t) \/ Recheck(t) \/ PutDummy(t) \/ WakeDummy(t)

-----------------------------------------------------------------------------
\* The main thread: calls of the image cache

\* Calls come from the application between two polls of the pipe, or from a
\* callback that evas_async_events_process runs.
InCall == mpc = "idle" \/ (mpc = "process" /\ goal # "drain")

InUse(j) ==
  \/ j \in live \/ j \in Range(workers) \/ j \in Range(pipe)
  \/ \E t \in Threads : cur[t] = j

\* A callback that reports on job j; the second one since malloc is an error.
Report(how, S) ==
  outcome' = [j \in Jobs |-> IF j \notin S THEN outcome[j]
                             ELSE IF outcome[j] = "none" THEN how ELSE "twice"]

\* Mutant of Release: the block is freed, what is known of it is not forgotten.
ReleaseBlockOnly(S) == live' = live \ S /\ UNCHANGED <<held, cancelled>>

Release(S) == live' = live \ S /\ held' = held \ S /\ cancelled' = cancelled \ S

\* evas_preload_thread_run as far as the first critical section. The block is
\* one malloc can return; a thread slot is free (the bound on Threads).
Run(j) ==
  /\ InCall
  /\ ~InUse(j)
  /\ \E t \in Threads : tpc[t] = "none"
  /\ workers' = Append(workers, j)
  /\ live' = live \union {j}
  /\ heavies' = [heavies EXCEPT ![j] = 0]
  /\ outcome' = [outcome EXCEPT ![j] = "none"]
  /\ IF threadsCount = ThreadsMax
     THEN held' = held \union {j} /\ UNCHANGED mainVars
     ELSE /\ mpc' = "create" /\ marg' = j /\ ret' = mpc
          /\ UNCHANGED <<held, goal, waitfor>>
  /\ UNCHANGED <<threadsCount, pipe, fdOpen, threads, cancelled>>

\* malloc of the work fails: func_cancel is called at once.
RunNoMemory(j) ==
  /\ CreateMayFail
  /\ InCall
  /\ ~InUse(j)
  /\ heavies' = [heavies EXCEPT ![j] = 0]
  /\ outcome' = [outcome EXCEPT ![j] = "cancel"]
  /\ UNCHANGED <<shared, threads, live, held, cancelled, mainVars>>

\* pthread_create succeeds: the new thread runs before it is counted.
Create ==
  /\ mpc = "create"
  /\ \E t \in Threads : Move(t, "none", "take")
  /\ mpc' = "count"
  /\ UNCHANGED <<shared, cur, blocks, marg, ret, goal, waitfor>>

Return == mpc' = ret /\ ret' = "idle" /\ marg' = None /\ UNCHANGED <<goal, waitfor>>

\* Mutant of Count: the thread is not counted.
CountForgotten ==
  /\ mpc = "count"
  /\ held' = held \union {marg}
  /\ Return
  /\ UNCHANGED <<shared, threads, live, cancelled, heavies, outcome>>

Count ==
  /\ mpc = "count"
  /\ threadsCount' = threadsCount + 1
  /\ held' = held \union {marg}
  /\ Return
  /\ UNCHANGED <<workers, pipe, fdOpen, threads, live, cancelled, heavies, outcome>>

CreateFails ==
  /\ CreateMayFail
  /\ mpc = "create"
  /\ mpc' = "failed"
  /\ UNCHANGED <<shared, threads, blocks, marg, ret, goal, waitfor>>

\* on_error: without a thread the job is cancelled and freed, but it is not
\* taken out of `_workers'; with one it stays queued and the caller gets NULL.
Failed ==
  /\ mpc = "failed"
  /\ IF threadsCount = 0
     THEN Report("cancel", {marg}) /\ Release({marg})
     ELSE UNCHANGED <<live, held, cancelled, outcome>>
  /\ Return
  /\ UNCHANGED <<shared, threads, heavies>>

\* Mutant of CancelQueued: the freed work stays in the queue.
CancelStaysQueued(j) ==
  /\ InCall
  /\ j \in held /\ j \in Range(workers)
  /\ Report("cancel", {j})
  /\ Release({j})
  /\ UNCHANGED <<shared, threads, heavies, mainVars>>

\* evas_preload_thread_cancel: a queued job is dropped and reported here; one
\* that a thread has taken is flagged for _evas_preload_thread_done.
CancelQueued(j) ==
  /\ InCall
  /\ j \in held
  /\ \E i \in DOMAIN workers : workers[i] = j /\ workers' = RemoveAt(workers, i)
  /\ Report("cancel", {j})
  /\ Release({j})
  /\ UNCHANGED <<threadsCount, pipe, fdOpen, threads, heavies, mainVars>>

CancelTaken(j) ==
  /\ InCall
  /\ j \in held \ cancelled
  /\ \A i \in DOMAIN workers : workers[i] # j
  /\ cancelled' = cancelled \union {j}
  /\ UNCHANGED <<shared, threads, live, held, heavies, outcome, mainVars>>

-----------------------------------------------------------------------------
\* The main thread: evas_async_events_process

\* The main loop polls the pipe.
Poll ==
  /\ mpc = "idle"
  /\ pipe # <<>>
  /\ mpc' = "process"
  /\ UNCHANGED <<shared, threads, blocks, marg, ret, goal, waitfor>>

\* Mutant of ReadJob: the flag is not looked at.
ReadJobUnflagged(j) ==
  /\ mpc = "process"
  /\ pipe # <<>> /\ Head(pipe) = j
  /\ pipe' = Tail(pipe)
  /\ Report("end", {j})
  /\ Release({j})
  /\ UNCHANGED <<workers, threadsCount, fdOpen, threads, heavies, mainVars>>

\* One event is read and _evas_preload_thread_done reports and frees its work;
\* a dummy work's func_end joins the thread.
ReadJob(j) ==
  /\ mpc = "process"
  /\ pipe # <<>> /\ Head(pipe) = j
  /\ pipe' = Tail(pipe)
  /\ Report(IF j \in cancelled THEN "cancel" ELSE "end", {j})
  /\ Release({j})
  /\ UNCHANGED <<workers, threadsCount, fdOpen, threads, heavies, mainVars>>

ReadDummy(t) ==
  /\ mpc = "process"
  /\ pipe # <<>> /\ Head(pipe) = t
  /\ pipe' = Tail(pipe)
  /\ mpc' = "join" /\ marg' = t
  /\ UNCHANGED <<workers, threadsCount, fdOpen, threads, blocks, ret, goal, waitfor>>

Join ==
  /\ mpc = "join"
  /\ Move(marg, "exited", "none")
  /\ mpc' = "process" /\ marg' = None
  /\ UNCHANGED <<shared, cur, blocks, ret, goal, waitfor>>

\* read() finds the pipe empty: the main thread's own broadcast wakes nobody.
PipeEmpty ==
  /\ mpc = "process"
  /\ pipe = <<>>
  /\ mpc' = goal
  /\ goal' = IF goal = "check" THEN "check" ELSE "idle"
  /\ UNCHANGED <<shared, threads, blocks, marg, ret, waitfor>>

-----------------------------------------------------------------------------
\* The main thread: waiting in evas_cache_image.c

\* evas_cache_image_load_data waits for the job of one image, and
\* evas_cache_image_shutdown for all that are pending; each was cancelled first.
Wait(S) ==
  /\ MayWait
  /\ mpc = "idle"
  /\ S # {} /\ S \subseteq held \cap cancelled
  /\ waitfor' = S
  /\ mpc' = "process" /\ goal' = "check"
  /\ UNCHANGED <<shared, threads, blocks, marg, ret>>

WaitLoadData == \E j \in Jobs : Wait({j})
WaitShutdown == Wait(held)

\* With `wakeup' locked: done, or asleep on cond_wakeup.
WaitCheck ==
  /\ mpc = "check"
  /\ IF waitfor \cap held = {}
     THEN mpc' = "idle" /\ goal' = "idle" /\ waitfor' = {}
     ELSE mpc' = "sleep" /\ UNCHANGED <<goal, waitfor>>
  /\ UNCHANGED <<shared, threads, blocks, marg, ret>>

\* A condition variable may wake up by itself; nothing says it has to.
SpuriousWakeup ==
  /\ mpc = "sleep"
  /\ mpc' = "process"
  /\ UNCHANGED <<shared, threads, blocks, marg, ret, goal, waitfor>>

-----------------------------------------------------------------------------
\* The main thread: evas_shutdown

Shutdown ==
  /\ mpc = "idle"
  /\ mpc' = "process" /\ goal' = "drain"
  /\ UNCHANGED <<shared, threads, blocks, marg, ret, waitfor>>

\* _evas_preload_thread_shutdown cancels what is queued and destroys the mutex;
\* a thread that locks it afterwards gets an error and goes on.
Drain ==
  /\ mpc = "drain"
  /\ Report("cancel", Range(workers))
  /\ Release(Range(workers))
  /\ workers' = <<>>
  /\ mpc' = "close"
  /\ UNCHANGED <<threadsCount, pipe, fdOpen, threads, heavies, marg, ret, goal, waitfor>>

\* evas_async_events_shutdown
Close ==
  /\ mpc = "close"
  /\ fdOpen' = FALSE
  /\ mpc' = "down"
  /\ UNCHANGED <<workers, threadsCount, pipe, threads, blocks, marg, ret, goal, waitfor>>

\* Everything has stopped.
Stopped ==
  /\ mpc = "down"
  /\ \A t \in Threads : tpc[t] \in {"none", "exited"}
  /\ UNCHANGED vars

Main ==
  \/ \E j \in Jobs : Run(j) \/ RunNoMemory(j) \/ CancelQueued(j) \/ CancelTaken(j) \/ ReadJob(j)
  \/ \E t \in Threads : ReadDummy(t)
  \/ Create \/ Count \/ CreateFails \/ Failed
  \/ Poll \/ Join \/ PipeEmpty
  \/ WaitLoadData \/ WaitShutdown \/ WaitCheck \/ SpuriousWakeup
  \/ Shutdown \/ Drain \/ Close

Next == Main \/ (\E t \in Threads : Worker(t)) \/ Stopped

\* Every thread is scheduled, and a call the main thread is in goes on. The
\* main loop comes back to the pipe and a callback returns, however many calls
\* of the image cache are made in between: strong fairness.
Fairness ==
  /\ \A t \in Threads : WF_vars(Worker(t))
  /\ WF_vars(Create \/ Failed) /\ WF_vars(Count) /\ WF_vars(Join)
  /\ WF_vars(WaitCheck) /\ WF_vars(Drain) /\ WF_vars(Close)
  /\ SF_vars(Poll) /\ SF_vars(PipeEmpty)
  /\ SF_vars(\E j \in Jobs : ReadJob(j)) /\ SF_vars(\E t \in Threads : ReadDummy(t))

SafeSpec == Init /\ [][Next]_vars
Spec == SafeSpec /\ Fairness

-----------------------------------------------------------------------------
\* Properties

\* Every variable has its type.
Types ==
  /\ workers \in Seq(Jobs) /\ threadsCount \in Int
  /\ pipe \in Seq(Jobs \union Threads) /\ fdOpen \in BOOLEAN
  /\ tpc \in [Threads -> ThreadStates] /\ cur \in [Threads -> Jobs \union {None}]
  /\ live \subseteq Jobs /\ held \subseteq Jobs /\ cancelled \subseteq Jobs
  /\ heavies \in [Jobs -> Nat]
  /\ outcome \in [Jobs -> {"none", "end", "cancel", "twice"}]
  /\ mpc \in MainStates /\ marg \in Jobs \union Threads \union {None}
  /\ ret \in {"idle", "process"} /\ goal \in {"idle", "check", "drain"}
  /\ waitfor \subseteq Jobs

\* And _threads_count, an int, stays in its range: it never exceeds _threads_max,
\* and it is -1 when a thread leaves that has been created but not counted yet.
TypeOK == Types /\ threadsCount \in -1 .. ThreadsMax

\* The threads that _threads_count stands for: they may still take a job.
Counted == {t \in Threads : tpc[t] \in {"take", "heavy", "put", "wake", "recheck"}}

\* _threads_count is the number of threads that may still take a job; while
\* the main thread has created one and not counted it yet, it is one behind.
ThreadsCountExact ==
  threadsCount = Cardinality(Counted) - (IF mpc = "count" THEN 1 ELSE 0)

\* There are never more threads taking jobs than _threads_max, although the
\* test and the increment of _threads_count are two critical sections.
ThreadLimit == Cardinality(Counted) <= ThreadsMax

\* Both: the pool knows how many threads it has, and has no more than it may,
\* also when one cannot be created.
ThreadsCounted == ThreadsCountExact /\ ThreadLimit

\* No job is left in the queue with nobody to take it: not even when a thread
\* finds the queue empty just as a job arrives that relies on that thread.
NoStrandedJob ==
  workers # <<>> => Counted # {} \/ mpc \in {"create", "failed"}

\* Whatever a queue, a thread or an event refers to is allocated, in one place
\* only: nothing is executed or reported after evas_preload_thread_cancel or
\* _evas_preload_thread_done has freed it, or freed twice.
Carried == {cur[t] : t \in Threads} \ {None}

NoFreedWorkInUse ==
  /\ \A h, i \in DOMAIN workers : workers[h] = workers[i] => h = i
  /\ \A h, i \in DOMAIN pipe : pipe[h] = pipe[i] /\ pipe[h] \in Jobs => h = i
  /\ \A t, u \in Threads : cur[t] = cur[u] /\ cur[t] # None => t = u
  /\ Range(workers) \cap Carried = {}
  /\ Range(pipe) \cap (Range(workers) \union Carried) = {}
  /\ Range(workers) \union Carried \union (Range(pipe) \cap Jobs) \subseteq live

\* A job's owner hears of it exactly once, when it is freed, and the pointer
\* the owner keeps until then (Image_Entry.preload) never dangles.
ReportedOnce ==
  /\ held \subseteq live
  /\ \A j \in Jobs : outcome[j] # "twice" /\ (outcome[j] # "none" => j \notin live)

\* func_heavy runs at most once per job, and never for a job that
\* evas_preload_thread_cancel has reported as cancelled on the spot; func_end is
\* only called when it did run.
HeavyOnce ==
  \A j \in Jobs :
    /\ heavies[j] <= 1
    /\ j \in Range(pipe) \/ outcome[j] = "end" => heavies[j] = 1

\* A job that evas_preload_thread_run accepted runs at most once and is reported
\* at most once, whoever cancels it or shuts Evas down in between.
OncePerJob == ReportedOnce /\ HeavyOnce

\* Once the owner has heard of a job its func_heavy does not begin any more.
NoHeavyAfterReport ==
  [][\A j \in Jobs : outcome[j] # "none" /\ heavies'[j] # heavies[j] => heavies'[j] = 0]_vars

\* func_cancel is what a job's owner hears of it exactly if it cancelled the job
\* itself, or evas_shutdown found it still in the queue; the choice is made when
\* the event is read, from a flag set at any time before.
ReportMatchesCancel ==
  [][\A j \in Jobs : outcome[j] = "none" /\ outcome'[j] \in {"end", "cancel"} /\ j \in live
       => (outcome'[j] = "cancel" <=> j \in cancelled \union Range(workers))]_vars

\* What the owner hears of a job is right, and final.
ReportIsFinal == NoHeavyAfterReport /\ ReportMatchesCancel

\* A thread that has ended is joined by the main thread, unless evas_shutdown
\* came first.
ThreadsJoined ==
  \A t \in Threads : tpc[t] = "exited" ~> tpc[t] = "none" \/ mpc = "down"

\* "Now wait for all pending image to die": a main thread that waits for jobs it
\* has cancelled goes on when they are over. It does not: the broadcast that
\* evas_async_events_put sends between evas_async_events_process and
\* eina_condition_wait wakes nobody, and no other one comes.
WaitEnds == waitfor # {} ~> waitfor = {}

\* The pool implements PreloadJobs.
Phase(j) ==
  IF j \in Range(workers) THEN "queued"
  ELSE IF j \in Carried THEN "running"
  ELSE IF j \in Range(pipe) THEN "posted"
  ELSE IF j \in live THEN "lost"
  ELSE "idle"

PJ == INSTANCE PreloadJobs WITH
        phase   <- [j \in Jobs |-> Phase(j)],
        flagged <- cancelled,
        open    <- fdOpen

\* Every step of the threads and of the main thread is a step of one job's
\* life, and every job a thread or the main loop can go on with goes on.
ImplementsPreloadJobs == PJ!Spec
\* The same without the progress of the jobs.
ImplementsPreloadJobsSafely == PJ!SafeSpec
=============================================================================
