------------------------- MODULE EvasPreloadProofs -------------------------
(***************************************************************************)
(* Proofs about EvasPreload.                                               *)
(***************************************************************************)
EXTENDS EvasPreload, SequenceTheorems, FiniteSetTheorems, TLAPS

-----------------------------------------------------------------------------
\* Sequences without repetition

\* No member of J is twice in s.
NoRepeat(s, J) == \A h, i \in DOMAIN s : s[h] = s[i] /\ s[h] \in J => h = i

\* Adding at the end keeps a queue free of repetitions if what is added is new.
LEMMA AppendFacts ==
  ASSUME NEW S, NEW J, NEW s \in Seq(S), NEW e \in S
  PROVE  /\ Append(s, e) \in Seq(S)
         /\ Range(Append(s, e)) = Range(s) \union {e}
         /\ NoRepeat(s, J) /\ (e \in J => e \notin Range(s)) => NoRepeat(Append(s, e), J)
<1>1. /\ Append(s, e) \in Seq(S)
      /\ Len(Append(s, e)) = Len(s) + 1
      /\ \A i \in 1..Len(s) : Append(s, e)[i] = s[i]
      /\ Append(s, e)[Len(s) + 1] = e
  BY AppendProperties
<1>2. Len(s) \in Nat /\ DOMAIN s = 1..Len(s) /\ DOMAIN Append(s, e) = 1..(Len(s) + 1)
  BY <1>1, LenProperties
<1>3. Range(Append(s, e)) = Range(s) \union {e}
  BY <1>1, <1>2 DEF Range
<1>4. ASSUME NoRepeat(s, J), e \in J => e \notin Range(s)
      PROVE  NoRepeat(Append(s, e), J)
  <2>1. \A i \in 1..Len(s) : s[i] = e => e \notin J
    BY <1>2, <1>4 DEF Range
  <2>2. \A k \in 1..(Len(s) + 1) : k \in 1..Len(s) \/ k = Len(s) + 1
    BY <1>2
  <2> QED BY <1>1, <1>2, <1>4, <2>1, <2>2 DEF NoRepeat
<1> QED BY <1>1, <1>3, <1>4

\* Taking the head off leaves the others.
LEMMA TailFacts ==
  ASSUME NEW S, NEW J, NEW s \in Seq(S), s # <<>>
  PROVE  /\ Tail(s) \in Seq(S)
         /\ Head(s) \in S /\ Head(s) \in Range(s)
         /\ Range(s) = Range(Tail(s)) \union {Head(s)}
         /\ NoRepeat(s, J) => NoRepeat(Tail(s), J)
         /\ NoRepeat(s, J) /\ Head(s) \in J => Head(s) \notin Range(Tail(s))
<1>1. /\ Head(s) \in S /\ Tail(s) \in Seq(S)
      /\ Len(Tail(s)) = Len(s) - 1
      /\ \A i \in 1..Len(Tail(s)) : Tail(s)[i] = s[i + 1]
  BY HeadTailProperties
<1>2. Len(s) \in Nat \ {0} /\ DOMAIN s = 1..Len(s) /\ DOMAIN Tail(s) = 1..(Len(s) - 1)
  BY <1>1, LenProperties, EmptySeq
<1>3. Head(s) = s[1]
  BY HeadTailProperties
<1>4. \A k \in 1..Len(s) : k = 1 \/ (k - 1 \in 1..(Len(s) - 1) /\ Tail(s)[k - 1] = s[k])
  BY <1>1, <1>2
<1>5. Range(s) = Range(Tail(s)) \union {Head(s)}
  <2>1. ASSUME NEW x \in Range(s) PROVE x \in Range(Tail(s)) \union {Head(s)}
    BY <1>2, <1>3, <1>4 DEF Range
  <2>2. ASSUME NEW x \in Range(Tail(s)) PROVE x \in Range(s)
    BY <1>1, <1>2 DEF Range
  <2>3. Head(s) \in Range(s)
    BY <1>2, <1>3 DEF Range
  <2> QED BY <2>1, <2>2, <2>3
<1>6. NoRepeat(s, J) => NoRepeat(Tail(s), J)
  BY <1>1, <1>2 DEF NoRepeat
<1>7. NoRepeat(s, J) /\ Head(s) \in J => Head(s) \notin Range(Tail(s))
  BY <1>1, <1>2, <1>3 DEF NoRepeat, Range
<1> QED BY <1>1, <1>5, <1>6, <1>7

\* Taking one out of the middle gives a sequence.
LEMMA RemoveAtType ==
  ASSUME NEW S, NEW s \in Seq(S), NEW i \in DOMAIN s
  PROVE  RemoveAt(s, i) \in Seq(S)
<1>1. Len(s) \in Nat /\ DOMAIN s = 1..Len(s) /\ i \in 1..Len(s) /\ \A k \in 1..Len(s) : s[k] \in S
  BY LenProperties, ElementOfSeq
<1>2. \A k \in 1..(i - 1) : s[k] \in S
  BY <1>1
<1>3. \A k \in (i + 1)..Len(s) : s[k] \in S
  BY <1>1
<1>4. SubSeq(s, 1, i - 1) \in Seq(S)
  BY <1>1, <1>2, SubSeqProperties, Z3
<1>5. SubSeq(s, i + 1, Len(s)) \in Seq(S)
  BY <1>1, <1>3, SubSeqProperties, Z3
<1> QED BY <1>4, <1>5, ConcatProperties DEF RemoveAt

\* Taking one out of the middle, as eina_inlist_remove does, leaves the others.
LEMMA RemoveAtFacts ==
  ASSUME NEW S, NEW s \in Seq(S), NEW i \in DOMAIN s, NoRepeat(s, S)
  PROVE  /\ RemoveAt(s, i) \in Seq(S)
         /\ s[i] \in Range(s)
         /\ Range(s) = Range(RemoveAt(s, i)) \union {s[i]}
         /\ NoRepeat(RemoveAt(s, i), S)
         /\ s[i] \notin Range(RemoveAt(s, i))
<1> DEFINE r == RemoveAt(s, i)
           n == Len(s)
           a == SubSeq(s, 1, i - 1)
           b == SubSeq(s, i + 1, n)
<1>1. n \in Nat /\ DOMAIN s = 1..n /\ i \in 1..n /\ \A k \in 1..n : s[k] \in S
  BY LenProperties, ElementOfSeq
<1>2. /\ a \in Seq(S) /\ Len(a) = i - 1
      /\ \A k \in 1..(i - 1) : a[k] = s[k]
  <2>1. \A k \in 1..(i - 1) : s[k] \in S
    BY <1>1
  <2> QED BY <1>1, <2>1, SubSeqProperties, Z3
<1>3. /\ b \in Seq(S) /\ Len(b) = n - i
      /\ \A k \in 1..(n - i) : b[k] = s[i + k]
  <2>1. \A k \in (i + 1)..n : s[k] \in S
    BY <1>1
  <2> QED BY <1>1, <2>1, SubSeqProperties, Z3
<1>4. /\ r \in Seq(S) /\ Len(r) = n - 1 /\ DOMAIN r = 1..(n - 1)
      /\ \A k \in 1..(n - 1) : r[k] = IF k < i THEN s[k] ELSE s[k + 1]
  <2>1. /\ a \o b \in Seq(S) /\ Len(a \o b) = Len(a) + Len(b)
        /\ \A k \in 1..(Len(a) + Len(b)) :
             (a \o b)[k] = IF k <= Len(a) THEN a[k] ELSE b[k - Len(a)]
    BY <1>2, <1>3, ConcatProperties
  <2>2. r = a \o b
    BY DEF RemoveAt
  <2>3. Len(a) + Len(b) = n - 1
    BY <1>1, <1>2, <1>3
  <2>4. ASSUME NEW k \in 1..(n - 1)
        PROVE  r[k] = IF k < i THEN s[k] ELSE s[k + 1]
    <3>1. CASE k < i
      BY <1>1, <1>2, <2>1, <2>2, <2>3, <3>1
    <3>2. CASE ~(k < i)
      <4>1. k - (i - 1) \in 1..(n - i) /\ i + (k - (i - 1)) = k + 1 /\ ~(k <= i - 1)
        BY <1>1, <3>2
      <4>2. (a \o b)[k] = b[k - (i - 1)]
        BY <1>1, <1>2, <2>1, <2>3, <3>2, <4>1
      <4> HIDE DEF a, b, r, n
      <4>3. b[k - (i - 1)] = s[k + 1]
        BY <1>3, <4>1
      <4> QED BY <2>2, <3>2, <4>2, <4>3
    <3> QED BY <3>1, <3>2
  <2> QED BY <2>1, <2>2, <2>3, <2>4, LenProperties
<1> HIDE DEF a, b, r
<1>5. Range(s) = Range(r) \union {s[i]}
  <2>1. ASSUME NEW k \in 1..n PROVE s[k] \in Range(r) \union {s[i]}
    <3>1. CASE k < i
      BY <1>1, <1>4, <3>1 DEF Range
    <3>2. CASE k > i
      <4>1. k - 1 \in 1..(n - 1) /\ ~(k - 1 < i) /\ (k - 1) + 1 = k
        BY <1>1, <3>2
      <4> QED BY <1>4, <4>1 DEF Range
    <3> QED BY <1>1, <3>1, <3>2
  <2>2. ASSUME NEW k \in 1..(n - 1) PROVE r[k] \in Range(s)
    BY <1>1, <1>4, SMTT(30) DEF Range
  <2> QED BY <1>1, <1>4, <2>1, <2>2 DEF Range
<1>6. NoRepeat(r, S)
  <2> DEFINE at(k) == IF k < i THEN k ELSE k + 1
  <2>1. \A k \in 1..(n - 1) : at(k) \in 1..n /\ r[k] = s[at(k)]
    BY <1>1, <1>4
  <2>2. \A h, k \in 1..(n - 1) : at(h) = at(k) => h = k
    BY <1>1
  <2> HIDE DEF at
  <2>3. ASSUME NEW h \in 1..(n - 1), NEW k \in 1..(n - 1), r[h] = r[k]
        PROVE  h = k
    <3>1. at(h) \in DOMAIN s /\ at(k) \in DOMAIN s /\ s[at(h)] = s[at(k)]
      BY <1>1, <2>1, <2>3
    <3>2. s[at(h)] \in S
      BY <3>1
    <3>3. at(h) = at(k)
      BY <3>1, <3>2 DEF NoRepeat
    <3> QED BY <2>2, <3>3
  <2>4. DOMAIN r = 1..(n - 1)
    BY <1>1, <1>4
  <2> QED BY <2>3, <2>4 DEF NoRepeat
<1>7. s[i] \notin Range(r)
  BY <1>1, <1>4, SMTT(30) DEF NoRepeat, Range
<1> QED BY <1>1, <1>4, <1>5, <1>6, <1>7 DEF r, Range

-----------------------------------------------------------------------------
\* Types

\* A thread has a work exactly while it runs and posts it.
HoldsWork == \A t \in Threads : tpc[t] \in {"heavy", "put"} <=> cur[t] # None

\* While a thread is being created for it the main thread has a work.
MainHoldsWork == mpc \in {"create", "count", "failed"} => marg \in Jobs

TypeInv == Types /\ HoldsWork /\ MainHoldsWork

\* The initial state has the types.
LEMMA TypeInit == Init => TypeInv
<1> SUFFICES ASSUME Init PROVE TypeInv
  OBVIOUS
<1>1. workers \in Seq(Jobs) /\ pipe \in Seq(Jobs \union Threads)
  BY EmptySeq DEF Init
<1> QED BY <1>1 DEF Init, TypeInv, Types, HoldsWork, MainHoldsWork, ThreadStates, MainStates

\* A step of a thread keeps them.
LEMMA TypeWorker ==
  ASSUME TypeInv, NEW t \in Threads, Worker(t) PROVE TypeInv'
<1> USE ConstantsAssumption DEF TypeInv, Types, HoldsWork, MainHoldsWork, ThreadStates,
        MainStates, Move, PutEvent, Broadcast, shared, threads, blocks, mainVars
<1>1. CASE Take(t)
  <2>1. workers # <<>> => Head(workers) \in Jobs /\ Tail(workers) \in Seq(Jobs)
    BY TailFacts
  <2>2. workers' \in Seq(Jobs)
    BY <1>1, <2>1 DEF Take
  <2>3. CASE workers # <<>>
    <3>1. PICK j \in Jobs : j = Head(workers)
      BY <2>1, <2>3
    <3>2. /\ tpc[t] = "take" /\ tpc' = [tpc EXCEPT ![t] = "heavy"]
          /\ cur' = [cur EXCEPT ![t] = j]
          /\ UNCHANGED <<threadsCount, pipe, fdOpen, blocks, mainVars>>
      BY <1>1, <2>3, <3>1 DEF Take
    <3> QED BY <2>2, <3>2
  <2>4. CASE workers = <<>>
    BY <1>1, <2>2, <2>4 DEF Take
  <2> QED BY <2>3, <2>4
<1>2. CASE Heavy(t)
  BY <1>2 DEF Heavy
<1>3. CASE Put(t)
  <2>1. cur[t] \in Jobs
    BY <1>3 DEF Put
  <2>2. Append(pipe, cur[t]) \in Seq(Jobs \union Threads)
    BY <2>1, AppendFacts
  <2> QED BY <1>3, <2>1, <2>2 DEF Put
<1>4. CASE Wake(t)
  BY <1>4 DEF Wake
<1>5. CASE Recheck(t)
  <2>1. CASE workers # <<>>
    BY <1>5, <2>1 DEF Recheck
  <2>2. CASE workers = <<>>
    BY <1>5, <2>2 DEF Recheck
  <2> QED BY <2>1, <2>2
<1>6. CASE PutDummy(t)
  <2>1. Append(pipe, t) \in Seq(Jobs \union Threads)
    BY AppendFacts
  <2> QED BY <1>6, <2>1, ZenonT(40) DEF PutDummy
<1>7. CASE WakeDummy(t)
  BY <1>7 DEF WakeDummy
<1> QED BY <1>1, <1>2, <1>3, <1>4, <1>5, <1>6, <1>7 DEF Worker

\* Reporting keeps the type of the outcomes.
LEMMA ReportType ==
  ASSUME Types, NEW how \in {"end", "cancel"}, NEW S, Report(how, S)
  PROVE  outcome' \in [Jobs -> {"none", "end", "cancel", "twice"}]
BY DEF Types, Report

\* A call of the image cache keeps them.
LEMMA TypeCalls ==
  ASSUME TypeInv, NEW j \in Jobs,
         Run(j) \/ RunNoMemory(j) \/ CancelQueued(j) \/ CancelTaken(j)
  PROVE  TypeInv'
<1> USE DEF TypeInv, Types, HoldsWork, MainHoldsWork, ThreadStates,
        MainStates, InCall, Release, shared, threads, blocks, mainVars
<1>1. CASE Run(j)
  <2>1. workers' \in Seq(Jobs)
    BY <1>1, AppendFacts DEF Run
  <2> QED BY <1>1, <2>1 DEF Run
<1>2. CASE RunNoMemory(j)
  BY <1>2 DEF RunNoMemory
<1>3. CASE CancelQueued(j)
  <2>1. workers' \in Seq(Jobs)
    BY <1>3, RemoveAtType DEF CancelQueued
  <2>2. outcome' \in [Jobs -> {"none", "end", "cancel", "twice"}]
    BY <1>3, ReportType DEF CancelQueued
  <2> QED BY <1>3, <2>1, <2>2 DEF CancelQueued
<1>4. CASE CancelTaken(j)
  BY <1>4 DEF CancelTaken
<1> QED BY <1>1, <1>2, <1>3, <1>4

\* Processing the events keeps them.
LEMMA TypeEvents ==
  ASSUME TypeInv,
         \/ \E j \in Jobs : ReadJob(j)
         \/ \E t \in Threads : ReadDummy(t)
         \/ Poll \/ Join \/ PipeEmpty
  PROVE  TypeInv'
<1> USE ConstantsAssumption DEF TypeInv, Types, HoldsWork, MainHoldsWork, ThreadStates,
        MainStates, Move, Release, shared, threads, blocks, mainVars
<1>1. ASSUME NEW j \in Jobs, ReadJob(j) PROVE TypeInv'
  <2>1. pipe' \in Seq(Jobs \union Threads)
    BY <1>1, TailFacts DEF ReadJob
  <2>2. outcome' \in [Jobs -> {"none", "end", "cancel", "twice"}]
    BY <1>1, ReportType DEF ReadJob
  <2> QED BY <1>1, <2>1, <2>2 DEF ReadJob
<1>2. ASSUME NEW t \in Threads, ReadDummy(t) PROVE TypeInv'
  <2>1. pipe' \in Seq(Jobs \union Threads)
    BY <1>2, TailFacts DEF ReadDummy
  <2> QED BY <1>2, <2>1 DEF ReadDummy
<1>3. CASE Poll
  BY <1>3 DEF Poll
<1>4. CASE Join
  BY <1>4 DEF Join
<1>5. CASE PipeEmpty
  BY <1>5 DEF PipeEmpty
<1> QED BY <1>1, <1>2, <1>3, <1>4, <1>5

\* Creating a thread, waiting and shutting down keep them.
LEMMA TypeMain ==
  ASSUME TypeInv,
         \/ Create \/ Count \/ CreateFails \/ Failed
         \/ WaitLoadData \/ WaitShutdown \/ WaitCheck \/ SpuriousWakeup
         \/ Shutdown \/ Drain \/ Close
  PROVE  TypeInv'
<1> USE ConstantsAssumption DEF TypeInv, Types, HoldsWork, MainHoldsWork, ThreadStates,
        MainStates, Move, Release, Return, shared, threads, blocks, mainVars
<1>1. CASE Create
  BY <1>1 DEF Create
<1>2. CASE Count
  BY <1>2 DEF Count
<1>3. CASE CreateFails
  BY <1>3 DEF CreateFails
<1>4. CASE Failed
  <2>1. outcome' \in [Jobs -> {"none", "end", "cancel", "twice"}]
    BY <1>4, ReportType DEF Failed
  <2> QED BY <1>4, <2>1 DEF Failed
<1>5. CASE WaitLoadData \/ WaitShutdown
  BY <1>5 DEF WaitLoadData, WaitShutdown, Wait
<1>6. CASE WaitCheck
  BY <1>6 DEF WaitCheck
<1>7. CASE SpuriousWakeup
  BY <1>7 DEF SpuriousWakeup
<1>8. CASE Shutdown
  BY <1>8 DEF Shutdown
<1>9. CASE Drain
  <2>1. outcome' \in [Jobs -> {"none", "end", "cancel", "twice"}]
    BY <1>9, ReportType DEF Drain
  <2>2. workers' \in Seq(Jobs)
    BY <1>9, EmptySeq DEF Drain
  <2> QED BY <1>9, <2>1, <2>2 DEF Drain
<1>10. CASE Close
  BY <1>10 DEF Close
<1> QED BY <1>1, <1>2, <1>3, <1>4, <1>5, <1>6, <1>7, <1>8, <1>9, <1>10

\* Every step keeps the types.
LEMMA TypeStep == TypeInv /\ [Next]_vars => TypeInv'
<1> SUFFICES ASSUME TypeInv, [Next]_vars PROVE TypeInv'
  OBVIOUS
<1>1. CASE UNCHANGED vars
  BY <1>1 DEF vars, shared, threads, blocks, mainVars, TypeInv, Types, HoldsWork, MainHoldsWork
<1>2. CASE Main
  BY <1>2, TypeCalls, TypeEvents, TypeMain DEF Main
<1>3. ASSUME NEW t \in Threads, Worker(t) PROVE TypeInv'
  BY <1>3, TypeWorker
<1>4. CASE Stopped
  BY <1>1, <1>4 DEF Stopped
<1> QED BY <1>1, <1>2, <1>3, <1>4 DEF Next

-----------------------------------------------------------------------------
\* No work is used after it was freed, as long as allocations do not fail

\* func_heavy has not begun for what is queued or just taken, and has run for
\* what a thread is about to post.
HeavyPhase ==
  /\ \A j \in Range(workers) : heavies[j] = 0
  /\ \A t \in Threads :
       /\ tpc[t] = "heavy" => heavies[cur[t]] = 0
       /\ tpc[t] = "put" => heavies[cur[t]] = 1

\* A thread can be created, and the work it is created for is not freed while
\* the main thread is busy with it.
MainArgLive == mpc # "failed" /\ (mpc \in {"create", "count"} => marg \in live)

\* The inductive invariant. NoFreedWorkInUse alone is not inductive: that
\* the caller's pointer is good needs ReportedOnce, and that needs to know that
\* what is running or in the pipe has not been reported.
SafeInv ==
  /\ TypeInv
  /\ NoFreedWorkInUse
  /\ ReportedOnce
  /\ HeavyOnce
  /\ HeavyPhase
  /\ MainArgLive

\* The initial state satisfies it.
LEMMA SafeInit == Init => SafeInv
<1> SUFFICES ASSUME Init PROVE SafeInv
  OBVIOUS
<1>1. Range(workers) = {} /\ Range(pipe) = {} /\ Carried = {}
  BY DEF Init, Range, Carried
<1>2. DOMAIN workers = {} /\ DOMAIN pipe = {}
  BY DEF Init
<1> QED BY <1>1, <1>2, TypeInit
        DEF Init, SafeInv, NoFreedWorkInUse, ReportedOnce, HeavyOnce, HeavyPhase, MainArgLive

\* It says nothing of what the threads do between two works, or of where the
\* main thread is outside of evas_preload_thread_run.
LEMMA SafeFrame ==
  ASSUME SafeInv, TypeInv',
         UNCHANGED <<workers, cur, live, held, heavies, outcome>>,
         \/ UNCHANGED pipe
         \/ \E t \in Threads : pipe' = Append(pipe, t)
         \/ pipe # <<>> /\ Head(pipe) \in Threads /\ pipe' = Tail(pipe),
         \A t \in Threads : tpc'[t] \in {"heavy", "put"} => tpc'[t] = tpc[t],
         MainArgLive'
  PROVE  SafeInv'
<1> USE ConstantsAssumption DEF SafeInv
<1>1. Carried' = Carried
  BY DEF Carried
<1>2. /\ NoRepeat(pipe', Jobs)
      /\ Range(pipe') \cap Jobs \subseteq Range(pipe) \cap Jobs
      /\ Range(pipe') \subseteq Range(pipe) \union Threads
  <2>1. NoRepeat(pipe, Jobs) /\ pipe \in Seq(Jobs \union Threads)
    BY DEF NoFreedWorkInUse, NoRepeat, TypeInv, Types
  <2>2. CASE UNCHANGED pipe
    BY <2>1, <2>2
  <2>3. ASSUME NEW t \in Threads, pipe' = Append(pipe, t) PROVE <1>2
    <3>1. /\ Range(Append(pipe, t)) = Range(pipe) \union {t}
          /\ t \notin Jobs => NoRepeat(Append(pipe, t), Jobs)
      BY <2>1, AppendFacts
    <3> QED BY <2>3, <3>1
  <2>4. CASE pipe # <<>> /\ Head(pipe) \in Threads /\ pipe' = Tail(pipe)
    <3>1. /\ Range(pipe) = Range(Tail(pipe)) \union {Head(pipe)}
          /\ NoRepeat(Tail(pipe), Jobs)
      BY <2>1, <2>4, TailFacts
    <3> QED BY <2>4, <3>1
  <2> QED BY <2>2, <2>3, <2>4
<1>3. Range(workers) \subseteq Jobs /\ Carried \subseteq Jobs
  BY RangeOfSeq DEF TypeInv, Types, Carried
<1>4. NoFreedWorkInUse'
  BY <1>1, <1>2, <1>3 DEF NoFreedWorkInUse, NoRepeat
<1>5. ReportedOnce'
  BY DEF ReportedOnce
<1>6. HeavyOnce'
  BY <1>2 DEF HeavyOnce
<1>7. HeavyPhase'
  BY DEF HeavyPhase
<1> QED BY <1>4, <1>5, <1>6, <1>7

\* The steps of a thread keep it: popping the queue, running func_heavy and
\* posting move a work from one place to the next.
LEMMA SafeWorker ==
  ASSUME SafeInv, NEW t \in Threads, Worker(t), TypeInv' PROVE SafeInv'
<1> USE ConstantsAssumption DEF Move, shared, threads, blocks, mainVars
<1>1. /\ workers \in Seq(Jobs) /\ pipe \in Seq(Jobs \union Threads)
      /\ tpc \in [Threads -> ThreadStates] /\ cur \in [Threads -> Jobs \union {None}]
      /\ heavies \in [Jobs -> Nat]
      /\ NoRepeat(workers, Jobs) /\ NoRepeat(pipe, Jobs)
      /\ \A u \in Threads : tpc[u] \in {"heavy", "put"} <=> cur[u] # None
  BY DEF SafeInv, TypeInv, Types, HoldsWork, NoFreedWorkInUse, NoRepeat
<1>2. ASSUME workers # <<>>, Move(t, "take", "heavy"),
             cur' = [cur EXCEPT ![t] = Head(workers)], workers' = Tail(workers),
             UNCHANGED <<threadsCount, pipe, fdOpen, blocks, mainVars>>
      PROVE  SafeInv'
  <2> DEFINE j == Head(workers)
  <2>1. /\ j \in Jobs /\ j \in Range(workers)
        /\ Range(workers) = Range(workers') \union {j}
        /\ NoRepeat(workers', Jobs) /\ j \notin Range(workers')
    BY <1>1, <1>2, TailFacts
  <2> HIDE DEF j
  <2>2. /\ cur[t] = None /\ tpc[t] = "take"
        /\ cur' = [cur EXCEPT ![t] = j] /\ tpc' = [tpc EXCEPT ![t] = "heavy"]
    BY <1>1, <1>2 DEF j
  <2>3. Carried' = Carried \union {j}
    BY <1>1, <2>1, <2>2 DEF Carried
  <2>4. \A u, v \in Threads : cur'[u] = cur'[v] /\ cur'[u] # None => u = v
    BY <1>1, <2>1, <2>2 DEF SafeInv, NoFreedWorkInUse, Carried
  <2>5. NoFreedWorkInUse'
    BY <1>1, <1>2, <2>1, <2>3, <2>4 DEF SafeInv, NoFreedWorkInUse, NoRepeat
  <2>6. ReportedOnce' /\ HeavyOnce' /\ MainArgLive'
    BY <1>2 DEF SafeInv, ReportedOnce, HeavyOnce, MainArgLive
  <2>7. HeavyPhase'
    BY <1>1, <1>2, <2>1, <2>2 DEF SafeInv, HeavyPhase
  <2> QED BY <2>5, <2>6, <2>7 DEF SafeInv
<1>3. CASE Heavy(t)
  <2>1. cur[t] \in Carried /\ cur[t] \in Jobs /\ heavies[cur[t]] = 0 /\ cur[t] \in live
    BY <1>1, <1>3 DEF Heavy, SafeInv, HeavyPhase, NoFreedWorkInUse, Carried
  <2>2. Carried' = Carried
    BY <1>3 DEF Heavy, Carried
  <2>3. NoFreedWorkInUse'
    BY <1>3, <2>2 DEF Heavy, SafeInv, NoFreedWorkInUse
  <2>4. ReportedOnce' /\ MainArgLive'
    BY <1>3 DEF Heavy, SafeInv, ReportedOnce, MainArgLive
  <2>5. /\ heavies' = [heavies EXCEPT ![cur[t]] = 1]
        /\ UNCHANGED <<workers, pipe, cur, outcome>>
        /\ tpc[t] = "heavy" /\ tpc' = [tpc EXCEPT ![t] = "put"]
    BY <1>1, <1>3, <2>1 DEF Heavy
  <2>6. HeavyOnce'
    BY <1>1, <2>1, <2>5 DEF SafeInv, HeavyOnce, NoFreedWorkInUse, ReportedOnce
  <2>7. HeavyPhase'
    BY <1>1, <2>1, <2>5 DEF SafeInv, HeavyPhase, NoFreedWorkInUse, ReportedOnce
  <2> QED BY <2>3, <2>4, <2>6, <2>7 DEF SafeInv
<1>4. CASE Put(t)
  <2> DEFINE j == cur[t]
  <2>1. /\ j \in Jobs /\ j \in Carried /\ heavies[j] = 1 /\ tpc[t] = "put"
        /\ cur' = [cur EXCEPT ![t] = None]
        /\ tpc' = [tpc EXCEPT ![t] = "wake"] \/ tpc' = [tpc EXCEPT ![t] = "take"]
        /\ pipe' = Append(pipe, j) \/ pipe' = pipe
        /\ UNCHANGED <<workers, live, held, heavies, outcome, mpc, marg>>
    BY <1>1, <1>4 DEF Put, PutEvent, SafeInv, HeavyPhase, Carried
  <2> HIDE DEF j
  <2>2. Carried' = Carried \ {j}
    BY <1>1, <2>1 DEF SafeInv, NoFreedWorkInUse, Carried, j
  <2>3. Range(pipe') \subseteq Range(pipe) \union {j} /\ NoRepeat(pipe', Jobs)
    <3>1. CASE pipe' = Append(pipe, j)
      <4>1. j \notin Range(pipe)
        BY <2>1 DEF SafeInv, NoFreedWorkInUse
      <4> QED BY <1>1, <2>1, <3>1, <4>1, AppendFacts
    <3> QED BY <1>1, <2>1, <3>1
  <2>4. \A u, v \in Threads : cur'[u] = cur'[v] /\ cur'[u] # None => u = v
    BY <1>1, <2>1 DEF SafeInv, NoFreedWorkInUse
  <2>5. NoFreedWorkInUse'
    BY <1>1, <2>1, <2>2, <2>3, <2>4 DEF SafeInv, NoFreedWorkInUse, NoRepeat
  <2>6. ReportedOnce' /\ HeavyOnce' /\ MainArgLive'
    BY <2>1, <2>3 DEF SafeInv, ReportedOnce, HeavyOnce, MainArgLive
  <2>7. HeavyPhase'
    BY <1>1, <2>1 DEF SafeInv, HeavyPhase
  <2> QED BY <2>5, <2>6, <2>7 DEF SafeInv
<1>5. ASSUME UNCHANGED <<workers, cur, live, held, heavies, outcome, marg>>,
             pipe' = pipe \/ pipe' = Append(pipe, t),
             \E to \in ThreadStates \ {"heavy", "put"} : tpc' = [tpc EXCEPT ![t] = to],
             mpc' = mpc \/ mpc' = "process"
      PROVE  SafeInv'
  <2>1. MainArgLive'
    BY <1>5 DEF SafeInv, MainArgLive
  <2>2. \A u \in Threads : tpc'[u] \in {"heavy", "put"} => tpc'[u] = tpc[u]
    BY <1>1, <1>5
  <2> QED BY <1>5, <2>1, <2>2, SafeFrame
<1>6. CASE Take(t)
  <2>1. CASE workers # <<>>
    BY <1>2, <1>6, <2>1 DEF Take
  <2>2. CASE workers = <<>>
    BY <1>5, <1>6, <2>2 DEF Take, ThreadStates
  <2> QED BY <2>1, <2>2
<1>7. CASE Wake(t) \/ WakeDummy(t)
  BY <1>5, <1>7 DEF Wake, WakeDummy, Broadcast, ThreadStates
<1>8. CASE Recheck(t)
  BY <1>5, <1>8 DEF Recheck, ThreadStates
<1>9. CASE PutDummy(t)
  BY <1>5, <1>9 DEF PutDummy, PutEvent, ThreadStates
<1> QED BY <1>3, <1>4, <1>6, <1>7, <1>8, <1>9 DEF Worker

\* The calls of the image cache keep it: a fresh work is queued once, and the
\* work that is freed is one that is nowhere else.
LEMMA SafeCalls ==
  ASSUME SafeInv, NEW j \in Jobs, Run(j) \/ CancelQueued(j) \/ CancelTaken(j), TypeInv'
  PROVE  SafeInv'
<1> USE ConstantsAssumption DEF shared, threads, blocks, mainVars
<1>1. /\ workers \in Seq(Jobs) /\ pipe \in Seq(Jobs \union Threads)
      /\ tpc \in [Threads -> ThreadStates] /\ cur \in [Threads -> Jobs \union {None}]
      /\ heavies \in [Jobs -> Nat] /\ NoRepeat(workers, Jobs)
      /\ outcome \in [Jobs -> {"none", "end", "cancel", "twice"}]
      /\ \A u \in Threads : tpc[u] \in {"heavy", "put"} <=> cur[u] # None
  BY DEF SafeInv, TypeInv, Types, HoldsWork, NoFreedWorkInUse, NoRepeat
<1>2. CASE Run(j)
  <2>1. /\ j \notin live /\ j \notin Range(workers) /\ j \notin Range(pipe) /\ j \notin Carried
        /\ workers' = Append(workers, j) /\ live' = live \union {j}
        /\ heavies' = [heavies EXCEPT ![j] = 0] /\ outcome' = [outcome EXCEPT ![j] = "none"]
        /\ held' \subseteq held \union {j}
        /\ UNCHANGED <<pipe, tpc, cur>>
    BY <1>2 DEF Run, InUse, Carried
  <2>2. Range(workers') = Range(workers) \union {j} /\ NoRepeat(workers', Jobs)
    BY <1>1, <2>1, AppendFacts
  <2>3. Carried' = Carried
    BY <2>1 DEF Carried
  <2>4. NoFreedWorkInUse'
    BY <1>1, <2>1, <2>2, <2>3 DEF SafeInv, NoFreedWorkInUse, NoRepeat
  <2>5. ReportedOnce'
    BY <1>1, <2>1 DEF SafeInv, ReportedOnce
  <2>6. HeavyOnce'
    BY <1>1, <2>1 DEF SafeInv, HeavyOnce
  <2>7. HeavyPhase'
    <3>1. \A u \in Threads : cur[u] # j
      BY <1>1, <2>1 DEF Carried
    <3>2. \A u \in Threads : tpc[u] \in {"heavy", "put"} => cur[u] \in Jobs
      BY <1>1
    <3>3. \A k \in Range(workers) : k \in Jobs
      BY <1>1, RangeOfSeq
    <3> QED BY <1>1, <2>1, <2>2, <3>1, <3>2, <3>3 DEF SafeInv, HeavyPhase
  <2>8. MainArgLive'
    BY <1>2, <2>1 DEF Run, SafeInv, MainArgLive
  <2> QED BY <2>4, <2>5, <2>6, <2>7, <2>8 DEF SafeInv
<1>3. CASE CancelQueued(j)
  <2>1. PICK i \in DOMAIN workers : workers[i] = j /\ workers' = RemoveAt(workers, i)
    BY <1>3 DEF CancelQueued
  <2>2. /\ Range(workers) = Range(workers') \union {j} /\ j \notin Range(workers')
        /\ NoRepeat(workers', Jobs)
    BY <1>1, <2>1, RemoveAtFacts
  <2>3. /\ live' = live \ {j} /\ held' = held \ {j} /\ j \in live
        /\ outcome' = [outcome EXCEPT ![j] = "cancel"]
        /\ UNCHANGED <<pipe, tpc, cur, heavies, mpc, marg>>
    <3>1. j \in live /\ outcome[j] = "none"
      BY <1>3 DEF CancelQueued, SafeInv, ReportedOnce
    <3> QED BY <1>1, <1>3, <3>1 DEF CancelQueued, Report, Release
  <2>4. Carried' = Carried
    BY <2>3 DEF Carried
  <2>5. NoFreedWorkInUse'
    <3>1. j \notin Carried /\ j \notin Range(pipe)
      BY <2>2 DEF SafeInv, NoFreedWorkInUse
    <3>2. /\ Range(workers') \union Carried' \union (Range(pipe') \cap Jobs) \subseteq live'
          /\ Range(workers') \cap Carried' = {}
          /\ Range(pipe') \cap (Range(workers') \union Carried') = {}
      BY <2>2, <2>3, <2>4, <3>1 DEF SafeInv, NoFreedWorkInUse
    <3>3. \A h, k \in DOMAIN workers' : workers'[h] = workers'[k] => h = k
      <4>1. workers' \in Seq(Jobs)
        BY DEF TypeInv, Types
      <4>2. \A h \in DOMAIN workers' : workers'[h] \in Jobs
        BY <4>1, RangeOfSeq DEF Range
      <4> QED BY <2>2, <4>2 DEF NoRepeat
    <3> QED BY <2>3, <3>2, <3>3 DEF SafeInv, NoFreedWorkInUse
  <2>6. ReportedOnce'
    BY <1>1, <2>3 DEF SafeInv, ReportedOnce
  <2>7. HeavyOnce' /\ HeavyPhase'
    BY <1>1, <2>2, <2>3 DEF SafeInv, HeavyOnce, HeavyPhase
  <2>8. MainArgLive'
    BY <1>3, <2>3 DEF CancelQueued, InCall, SafeInv, MainArgLive
  <2> QED BY <2>5, <2>6, <2>7, <2>8 DEF SafeInv
<1>4. CASE CancelTaken(j)
  <2>1. UNCHANGED <<workers, cur, live, held, heavies, outcome, pipe, tpc, mpc, marg>>
    BY <1>4 DEF CancelTaken
  <2>2. MainArgLive'
    BY <2>1 DEF SafeInv, MainArgLive
  <2> QED BY <2>1, <2>2, SafeFrame
<1> QED BY <1>2, <1>3, <1>4

\* Processing the events keeps it: the work that is freed was in the pipe, so
\* no thread has it and it is not queued.
LEMMA SafeEvents ==
  ASSUME SafeInv, TypeInv',
         \/ \E j \in Jobs : ReadJob(j)
         \/ \E t \in Threads : ReadDummy(t)
         \/ Poll \/ Join \/ PipeEmpty
  PROVE  SafeInv'
<1> USE ConstantsAssumption DEF shared, threads, blocks, mainVars
<1>1. /\ workers \in Seq(Jobs) /\ pipe \in Seq(Jobs \union Threads)
      /\ tpc \in [Threads -> ThreadStates]
      /\ outcome \in [Jobs -> {"none", "end", "cancel", "twice"}]
      /\ NoRepeat(pipe, Jobs)
  BY DEF SafeInv, TypeInv, Types, NoFreedWorkInUse, NoRepeat
<1>2. ASSUME NEW j \in Jobs, ReadJob(j) PROVE SafeInv'
  <2>1. /\ Range(pipe) = Range(pipe') \union {j} /\ j \notin Range(pipe')
        /\ NoRepeat(pipe', Jobs)
    BY <1>1, <1>2, TailFacts DEF ReadJob
  <2>2. j \in live /\ outcome[j] = "none" /\ heavies[j] = 1
    BY <2>1 DEF SafeInv, NoFreedWorkInUse, ReportedOnce, HeavyOnce
  <2>3. /\ live' = live \ {j} /\ held' = held \ {j}
        /\ \/ outcome' = [outcome EXCEPT ![j] = "cancel"]
           \/ outcome' = [outcome EXCEPT ![j] = "end"]
        /\ UNCHANGED <<workers, tpc, cur, heavies, mpc, marg>>
    <3>1. CASE j \in cancelled
      BY <1>1, <1>2, <2>2, <3>1 DEF ReadJob, Report, Release
    <3>2. CASE j \notin cancelled
      BY <1>1, <1>2, <2>2, <3>2 DEF ReadJob, Report, Release
    <3> QED BY <3>1, <3>2
  <2>4. Carried' = Carried
    BY <2>3 DEF Carried
  <2>5. NoFreedWorkInUse'
    BY <1>1, <2>1, <2>3, <2>4 DEF SafeInv, NoFreedWorkInUse, NoRepeat
  <2>6. ReportedOnce'
    BY <1>1, <2>3 DEF SafeInv, ReportedOnce
  <2>7. HeavyOnce' /\ HeavyPhase'
    BY <1>1, <2>1, <2>2, <2>3 DEF SafeInv, HeavyOnce, HeavyPhase
  <2>8. MainArgLive'
    BY <1>2, <2>3 DEF ReadJob, SafeInv, MainArgLive
  <2> QED BY <2>5, <2>6, <2>7, <2>8 DEF SafeInv
<1>3. ASSUME UNCHANGED <<workers, cur, live, held, heavies, outcome>>,
             \/ UNCHANGED pipe
             \/ pipe # <<>> /\ Head(pipe) \in Threads /\ pipe' = Tail(pipe),
             \A u \in Threads : tpc'[u] \in {"heavy", "put"} => tpc'[u] = tpc[u],
             mpc' \notin {"failed", "create", "count"}
      PROVE  SafeInv'
  BY <1>3, SafeFrame DEF MainArgLive
<1>4. ASSUME NEW t \in Threads, ReadDummy(t) PROVE SafeInv'
  BY <1>3, <1>4 DEF ReadDummy
<1>5. CASE Poll
  BY <1>3, <1>5 DEF Poll
<1>6. CASE Join
  <2>1. tpc' = [tpc EXCEPT ![marg] = "none"]
    BY <1>6 DEF Join, Move
  <2>2. \A u \in Threads : tpc'[u] \in {"heavy", "put"} => tpc'[u] = tpc[u]
    BY <1>1, <2>1
  <2> QED BY <1>3, <1>6, <2>2 DEF Join
<1>7. CASE PipeEmpty
  BY <1>3, <1>7 DEF PipeEmpty, SafeInv, TypeInv, Types
<1> QED BY <1>2, <1>4, <1>5, <1>6, <1>7

\* Creating a thread, waiting and shutting down keep it.
LEMMA SafeMain ==
  ASSUME SafeInv, ~CreateMayFail, TypeInv',
         \/ Create \/ Count \/ CreateFails \/ Failed
         \/ WaitLoadData \/ WaitShutdown \/ WaitCheck \/ SpuriousWakeup
         \/ Shutdown \/ Drain \/ Close
  PROVE  SafeInv'
<1> USE ConstantsAssumption DEF shared, threads, blocks, mainVars
<1>1. /\ workers \in Seq(Jobs) /\ tpc \in [Threads -> ThreadStates]
      /\ outcome \in [Jobs -> {"none", "end", "cancel", "twice"}]
      /\ mpc # "failed"
  BY DEF SafeInv, TypeInv, Types, MainArgLive
<1>2. CASE Create
  <2>1. PICK t \in Threads : tpc' = [tpc EXCEPT ![t] = "take"]
    BY <1>2 DEF Create, Move
  <2>2. \A u \in Threads : tpc'[u] \in {"heavy", "put"} => tpc'[u] = tpc[u]
    BY <1>1, <2>1
  <2>3. MainArgLive'
    BY <1>2 DEF Create, SafeInv, MainArgLive
  <2> QED BY <1>2, <2>2, <2>3, SafeFrame DEF Create
<1>3. CASE Count
  <2>1. /\ held' = held \union {marg} /\ marg \in live /\ mpc' \in {"idle", "process"}
        /\ UNCHANGED <<workers, pipe, tpc, cur, live, heavies, outcome>>
    BY <1>3 DEF Count, Return, SafeInv, MainArgLive, TypeInv, Types
  <2>2. Carried' = Carried
    BY <2>1 DEF Carried
  <2>3. NoFreedWorkInUse' /\ HeavyOnce' /\ HeavyPhase'
    BY <2>1, <2>2 DEF SafeInv, NoFreedWorkInUse, HeavyOnce, HeavyPhase
  <2>4. ReportedOnce' /\ MainArgLive'
    BY <2>1 DEF SafeInv, ReportedOnce, MainArgLive
  <2> QED BY <2>3, <2>4 DEF SafeInv
<1>4. CASE CreateFails \/ Failed
  BY <1>1, <1>4 DEF CreateFails, Failed
<1>5. ASSUME UNCHANGED <<workers, pipe, tpc, cur, live, held, heavies, outcome>>,
             mpc' \notin {"failed", "create", "count"}
      PROVE  SafeInv'
  BY <1>5, SafeFrame DEF MainArgLive
<1>6. CASE WaitLoadData \/ WaitShutdown
  BY <1>5, <1>6 DEF WaitLoadData, WaitShutdown, Wait
<1>7. CASE WaitCheck
  BY <1>5, <1>7 DEF WaitCheck
<1>8. CASE SpuriousWakeup
  BY <1>5, <1>8 DEF SpuriousWakeup
<1>9. CASE Shutdown
  BY <1>5, <1>9 DEF Shutdown
<1>10. CASE Close
  BY <1>5, <1>10 DEF Close
<1>11. CASE Drain
  <2> DEFINE W == Range(workers)
  <2>1. W \subseteq Jobs /\ W \subseteq live
    BY <1>1, RangeOfSeq DEF SafeInv, NoFreedWorkInUse
  <2>2. /\ workers' = <<>> /\ live' = live \ W /\ held' = held \ W
        /\ outcome' = [j \in Jobs |-> IF j \in W THEN "cancel" ELSE outcome[j]]
        /\ mpc' = "close"
        /\ UNCHANGED <<pipe, tpc, cur, heavies>>
    BY <1>1, <1>11, <2>1 DEF Drain, Report, Release, SafeInv, ReportedOnce
  <2>3. Range(workers') = {} /\ NoRepeat(workers', Jobs)
    BY <2>2 DEF Range, NoRepeat
  <2> HIDE DEF W
  <2>4. Carried' = Carried
    BY <2>2 DEF Carried
  <2>5. W \intersect Carried = {} /\ Range(pipe) \intersect W = {}
    BY DEF SafeInv, NoFreedWorkInUse, W
  <2>6. NoFreedWorkInUse'
    BY <2>2, <2>3, <2>4, <2>5 DEF SafeInv, NoFreedWorkInUse, NoRepeat
  <2>7. ReportedOnce' /\ MainArgLive'
    BY <1>1, <2>2 DEF SafeInv, ReportedOnce, MainArgLive
  <2>8. HeavyOnce' /\ HeavyPhase'
    BY <1>1, <2>2, <2>3 DEF SafeInv, HeavyOnce, HeavyPhase
  <2> QED BY <2>6, <2>7, <2>8 DEF SafeInv
<1> QED BY <1>2, <1>3, <1>4, <1>6, <1>7, <1>8, <1>9, <1>10, <1>11

\* Every step keeps it.
LEMMA SafeStep ==
  ASSUME ~CreateMayFail PROVE SafeInv /\ [Next]_vars => SafeInv'
<1> SUFFICES ASSUME SafeInv, [Next]_vars PROVE SafeInv'
  OBVIOUS
<1>1. TypeInv'
  BY TypeStep DEF SafeInv
<1>2. CASE UNCHANGED vars
  <2>1. Carried' = Carried
    BY <1>2 DEF vars, threads, Carried
  <2> QED BY <1>1, <1>2, <2>1
          DEF vars, shared, threads, blocks, mainVars, SafeInv, NoFreedWorkInUse,
              ReportedOnce, HeavyOnce, HeavyPhase, MainArgLive
<1>3. CASE Main
  <2>1. \A j \in Jobs : ~RunNoMemory(j)
    BY DEF RunNoMemory
  <2> QED BY <1>1, <1>3, <2>1, SafeCalls, SafeEvents, SafeMain DEF Main
<1>4. ASSUME NEW t \in Threads, Worker(t) PROVE SafeInv'
  BY <1>1, <1>4, SafeWorker
<1>5. CASE Stopped
  BY <1>2, <1>5 DEF Stopped
<1> QED BY <1>2, <1>3, <1>4, <1>5 DEF Next

\* What the three properties rest on.
LEMMA SafeInvariant == ASSUME ~CreateMayFail PROVE SafeSpec => []SafeInv
BY SafeInit, SafeStep, PTL DEF SafeSpec

\* If allocations do not fail, no queue, thread or event ever refers to a work
\* that was freed, and no two of them to the same work.
THEOREM NoFreedWork == ASSUME ~CreateMayFail PROVE SafeSpec => []NoFreedWorkInUse
<1>1. SafeInv => NoFreedWorkInUse
  BY DEF SafeInv
<1> QED BY <1>1, SafeInvariant, PTL

\* Nor is the owner of a job told of it twice, or left with a pointer to a work
\* that was freed; nor does func_heavy run twice for a job, or func_end without it.
THEOREM OneReport == ASSUME ~CreateMayFail PROVE SafeSpec => []OncePerJob
<1>1. SafeInv => OncePerJob
  BY DEF SafeInv, OncePerJob
<1> QED BY <1>1, SafeInvariant, PTL

-----------------------------------------------------------------------------
\* The threads and their count

\* While a thread is being created there is room for it: only the main thread
\* adds to _threads_count, so the test is still good when it does.
RoomForOne == mpc \in {"create", "count"} => threadsCount < ThreadsMax

CountInv == TypeInv /\ ThreadsCountExact /\ ThreadLimit /\ RoomForOne

\* The counted threads can be counted.
LEMMA CountedFinite ==
  /\ IsFiniteSet(Counted) /\ Cardinality(Counted) \in Nat
  /\ Cardinality(Counted) = 0 <=> Counted = {}
<1>1. Counted \subseteq Threads /\ IsFiniteSet(Threads)
  BY ConstantsAssumption DEF Counted
<1> QED BY <1>1, FS_Subset, FS_CardinalityType, FS_EmptySet

\* No thread has been counted at the start.
LEMMA CountInit == Init => CountInv
<1> SUFFICES ASSUME Init PROVE CountInv
  OBVIOUS
<1>1. Counted = {}
  BY DEF Init, Counted
<1>2. Cardinality(Counted) = 0
  BY <1>1, FS_EmptySet
<1> QED BY <1>2, TypeInit, ConstantsAssumption
        DEF Init, CountInv, ThreadsCountExact, ThreadLimit, RoomForOne

\* A step of a thread keeps the count: it leaves the counted threads in the
\* critical section that decrements it, and only there.
LEMMA CountWorker ==
  ASSUME CountInv, NEW t \in Threads, Worker(t), TypeInv' PROVE CountInv'
<1> USE ConstantsAssumption DEF Move, shared, threads, blocks, mainVars
<1>1. tpc \in [Threads -> ThreadStates] /\ threadsCount \in Int
  BY DEF CountInv, TypeInv, Types
<1>2. ASSUME Counted' = Counted, threadsCount' = threadsCount,
             mpc' = mpc \/ (mpc = "sleep" /\ mpc' = "process")
      PROVE  CountInv'
  BY <1>2 DEF CountInv, ThreadsCountExact, ThreadLimit, RoomForOne
<1>3. CASE Take(t)
  <2>1. Counted' = Counted
    BY <1>1, <1>3 DEF Take, Counted
  <2> QED BY <1>2, <1>3, <2>1 DEF Take
<1>4. CASE Heavy(t)
  <2>1. Counted' = Counted
    BY <1>1, <1>4 DEF Heavy, Counted
  <2> QED BY <1>2, <1>4, <2>1 DEF Heavy
<1>5. CASE Put(t)
  <2>1. Counted' = Counted
    BY <1>1, <1>5 DEF Put, PutEvent, Counted
  <2> QED BY <1>2, <1>5, <2>1 DEF Put
<1>6. CASE Wake(t)
  <2>1. Counted' = Counted
    BY <1>1, <1>6 DEF Wake, Counted
  <2> QED BY <1>2, <1>6, <2>1 DEF Wake, Broadcast
<1>7. CASE Recheck(t)
  <2>1. CASE workers # <<>>
    <3>1. Counted' = Counted
      BY <1>1, <1>7, <2>1 DEF Recheck, Counted
    <3> QED BY <1>2, <1>7, <2>1, <3>1 DEF Recheck
  <2>2. CASE workers = <<>>
    <3>1. t \in Counted /\ Counted' = Counted \ {t}
      BY <1>1, <1>7, <2>2 DEF Recheck, Counted
    <3>2. Cardinality(Counted') = Cardinality(Counted) - 1
      BY <3>1, CountedFinite, FS_RemoveElement
    <3>3. threadsCount' = threadsCount - 1 /\ mpc' = mpc
      BY <1>7, <2>2 DEF Recheck
    <3> QED BY <1>1, <3>2, <3>3, CountedFinite
            DEF CountInv, ThreadsCountExact, ThreadLimit, RoomForOne
  <2> QED BY <2>1, <2>2
<1>8. CASE PutDummy(t)
  <2>1. Counted' = Counted
    BY <1>1, <1>8 DEF PutDummy, PutEvent, Counted
  <2> QED BY <1>2, <1>8, <2>1 DEF PutDummy
<1>9. CASE WakeDummy(t)
  <2>1. Counted' = Counted
    BY <1>1, <1>9 DEF WakeDummy, Counted
  <2> QED BY <1>2, <1>9, <2>1 DEF WakeDummy, Broadcast
<1> QED BY <1>3, <1>4, <1>5, <1>6, <1>7, <1>8, <1>9 DEF Worker

\* A step of the main thread keeps it: a thread is created only when there is
\* room for it, and counted before another one is.
LEMMA CountMain ==
  ASSUME CountInv, Main, TypeInv' PROVE CountInv'
<1> USE ConstantsAssumption DEF Move, shared, threads, blocks, mainVars
<1>1. /\ tpc \in [Threads -> ThreadStates] /\ threadsCount \in Int
      /\ ret \in {"idle", "process"} /\ goal \in {"idle", "check", "drain"}
      /\ Cardinality(Counted) \in Nat
  BY CountedFinite DEF CountInv, TypeInv, Types
<1>2. ASSUME tpc' = tpc, threadsCount' = threadsCount, mpc # "count",
             mpc' \notin {"create", "count"} \/ mpc' = mpc
      PROVE  CountInv'
  <2>1. Counted' = Counted
    BY <1>2 DEF Counted
  <2> QED BY <1>2, <2>1 DEF CountInv, ThreadsCountExact, ThreadLimit, RoomForOne
<1>3. ASSUME NEW j \in Jobs, Run(j) PROVE CountInv'
  <2>1. CASE threadsCount = ThreadsMax
    BY <1>2, <1>3, <2>1 DEF Run, InCall
  <2>2. CASE threadsCount # ThreadsMax
    <3>1. Counted' = Counted
      BY <1>3 DEF Run, Counted
    <3>2. threadsCount = Cardinality(Counted)
      BY <1>1, <1>3 DEF Run, InCall, CountInv, ThreadsCountExact
    <3>3. threadsCount' = threadsCount /\ mpc' = "create"
      BY <1>3, <2>2 DEF Run
    <3> QED BY <1>1, <2>2, <3>1, <3>2, <3>3
            DEF CountInv, ThreadsCountExact, ThreadLimit, RoomForOne
  <2> QED BY <2>1, <2>2
<1>4. CASE Create
  <2>1. PICK t \in Threads : tpc[t] = "none" /\ tpc' = [tpc EXCEPT ![t] = "take"]
    BY <1>4 DEF Create
  <2>2. t \notin Counted /\ Counted' = Counted \union {t}
    BY <1>1, <2>1 DEF Counted
  <2>3. Cardinality(Counted') = Cardinality(Counted) + 1
    BY <2>2, CountedFinite, FS_AddElement
  <2>4. threadsCount' = threadsCount /\ mpc = "create" /\ mpc' = "count"
    BY <1>4 DEF Create
  <2> QED BY <1>1, <2>3, <2>4 DEF CountInv, ThreadsCountExact, ThreadLimit, RoomForOne
<1>5. CASE Count
  <2>1. Counted' = Counted
    BY <1>5 DEF Count, Counted
  <2>2. threadsCount' = threadsCount + 1 /\ mpc = "count" /\ mpc' \in {"idle", "process"}
    BY <1>1, <1>5 DEF Count, Return
  <2> QED BY <1>1, <2>1, <2>2 DEF CountInv, ThreadsCountExact, ThreadLimit, RoomForOne
<1>6. CASE Join
  <2>1. Counted' = Counted
    BY <1>1, <1>6 DEF Join, Counted
  <2> QED BY <1>6, <2>1 DEF Join, CountInv, ThreadsCountExact, ThreadLimit, RoomForOne
<1>7. CASE \E j \in Jobs : RunNoMemory(j) \/ CancelQueued(j) \/ CancelTaken(j)
  BY <1>2, <1>7 DEF RunNoMemory, CancelQueued, CancelTaken, InCall
<1>8. CASE \/ \E j \in Jobs : ReadJob(j)
           \/ \E t \in Threads : ReadDummy(t)
           \/ Poll \/ PipeEmpty
  BY <1>1, <1>2, <1>8 DEF ReadJob, ReadDummy, Poll, PipeEmpty
<1>9. CASE CreateFails \/ Failed
  BY <1>1, <1>2, <1>9 DEF CreateFails, Failed, Return
<1>10. CASE WaitLoadData \/ WaitShutdown \/ WaitCheck \/ SpuriousWakeup
  BY <1>2, <1>10 DEF WaitLoadData, WaitShutdown, Wait, WaitCheck, SpuriousWakeup
<1>11. CASE Shutdown \/ Drain \/ Close
  BY <1>2, <1>11 DEF Shutdown, Drain, Close
<1> QED BY <1>3, <1>4, <1>5, <1>6, <1>7, <1>8, <1>9, <1>10, <1>11 DEF Main

\* Every step keeps it.
LEMMA CountStep == CountInv /\ [Next]_vars => CountInv'
<1> SUFFICES ASSUME CountInv, [Next]_vars PROVE CountInv'
  OBVIOUS
<1>1. TypeInv'
  BY TypeStep DEF CountInv
<1>2. CASE UNCHANGED vars
  <2>1. Counted' = Counted
    BY <1>2 DEF vars, threads, Counted
  <2> QED BY <1>1, <1>2, <2>1
          DEF vars, shared, mainVars, CountInv, ThreadsCountExact, ThreadLimit, RoomForOne
<1>3. CASE Main
  BY <1>1, <1>3, CountMain
<1>4. ASSUME NEW t \in Threads, Worker(t) PROVE CountInv'
  BY <1>1, <1>4, CountWorker
<1>5. CASE Stopped
  BY <1>2, <1>5 DEF Stopped
<1> QED BY <1>2, <1>3, <1>4, <1>5 DEF Next

\* What the properties of the count rest on.
LEMMA CountInvariant == SafeSpec => []CountInv
BY CountInit, CountStep, PTL DEF SafeSpec

\* _threads_count is exact, and there are never more threads taking jobs than
\* _threads_max, whether or not threads can be created.
THEOREM CountExact == SafeSpec => []ThreadsCounted
<1>1. CountInv => ThreadsCounted
  BY DEF CountInv, ThreadsCounted
<1> QED BY <1>1, CountInvariant, PTL

\* Every variable of the pool has its type in every reachable state, and
\* _threads_count its range, whatever number of jobs and threads there is and
\* whether or not allocations fail. The range is no matter of types: it follows
\* from the exact count.
THEOREM TypeCorrect == SafeSpec => []TypeOK
<1>1. TypeInv /\ ThreadsCounted => TypeOK
  <2> SUFFICES ASSUME TypeInv, ThreadsCounted PROVE TypeOK
    OBVIOUS
  <2>1. Cardinality(Counted) \in Nat
    BY CountedFinite, FS_CardinalityType
  <2>2. threadsCount \in -1 .. ThreadsMax
    BY <2>1, ConstantsAssumption DEF ThreadsCounted, ThreadsCountExact, ThreadLimit
  <2> QED BY <2>2 DEF TypeOK, TypeInv
<1>2. SafeSpec => []TypeInv
  BY TypeInit, TypeStep, PTL DEF SafeSpec
<1> QED BY <1>1, <1>2, CountExact, PTL

\* A job in the queue has somebody to take it: the test of _threads_count in
\* evas_preload_thread_run only spares a new thread when others are counted,
\* and a counted thread looks at the queue once more before it is not.
StrandInv == CountInv /\ NoStrandedJob /\ mpc # "failed"

\* A step of a thread keeps it.
LEMMA StrandWorker ==
  ASSUME StrandInv, NEW t \in Threads, Worker(t), CountInv' PROVE StrandInv'
<1> USE DEF Move, Broadcast, shared, threads, blocks, mainVars
<1>1. tpc \in [Threads -> ThreadStates]
  BY DEF StrandInv, CountInv, TypeInv, Types
<1>2. CASE Take(t) \/ Heavy(t) \/ Put(t) \/ Wake(t)
  <2>1. t \in Counted'
    BY <1>1, <1>2 DEF Take, Heavy, Put, PutEvent, Wake, Counted
  <2>2. mpc' # "failed"
    BY <1>2 DEF Take, Heavy, Put, Wake, StrandInv
  <2> QED BY <2>1, <2>2 DEF StrandInv, NoStrandedJob
<1>3. CASE Recheck(t)
  <2>1. workers' # <<>> => t \in Counted'
    BY <1>1, <1>3 DEF Recheck, Counted
  <2>2. mpc' # "failed"
    BY <1>3 DEF Recheck, StrandInv
  <2> QED BY <2>1, <2>2 DEF StrandInv, NoStrandedJob
<1>4. CASE PutDummy(t) \/ WakeDummy(t)
  <2>1. Counted' = Counted
    BY <1>1, <1>4 DEF PutDummy, PutEvent, WakeDummy, Counted
  <2>2. workers' = workers /\ (mpc' = mpc \/ (mpc = "sleep" /\ mpc' = "process"))
    BY <1>4 DEF PutDummy, WakeDummy
  <2> QED BY <2>1, <2>2 DEF StrandInv, NoStrandedJob
<1> QED BY <1>2, <1>3, <1>4 DEF Worker

\* A step of the main thread keeps it.
LEMMA StrandMain ==
  ASSUME StrandInv, ~CreateMayFail, Main, CountInv' PROVE StrandInv'
<1> USE ConstantsAssumption DEF Move, shared, threads, blocks, mainVars
<1>1. /\ workers \in Seq(Jobs) /\ tpc \in [Threads -> ThreadStates]
      /\ ret \in {"idle", "process"} /\ goal \in {"idle", "check", "drain"}
  BY DEF StrandInv, CountInv, TypeInv, Types
<1>2. ASSUME tpc' = tpc, mpc' # "failed", mpc # "create",
             workers' # <<>> => workers # <<>>
      PROVE  StrandInv'
  <2>1. Counted' = Counted
    BY <1>2 DEF Counted
  <2> QED BY <1>2, <2>1 DEF StrandInv, NoStrandedJob
<1>3. ASSUME NEW j \in Jobs, Run(j) PROVE StrandInv'
  <2>1. CASE threadsCount = ThreadsMax
    <3>1. Counted # {} /\ Counted' = Counted
      BY <1>3, <2>1, CountedFinite
         DEF Run, InCall, StrandInv, CountInv, ThreadsCountExact, Counted
    <3> QED BY <1>3, <2>1, <3>1 DEF Run, StrandInv, NoStrandedJob
  <2>2. CASE threadsCount # ThreadsMax
    BY <1>3, <2>2 DEF Run, StrandInv, NoStrandedJob
  <2> QED BY <2>1, <2>2
<1>4. CASE Create
  <2>1. PICK t \in Threads : tpc' = [tpc EXCEPT ![t] = "take"]
    BY <1>4 DEF Create
  <2>2. t \in Counted'
    BY <1>1, <2>1 DEF Counted
  <2> QED BY <1>4, <2>2 DEF Create, StrandInv, NoStrandedJob
<1>5. CASE Join
  <2>1. Counted' = Counted
    BY <1>1, <1>5 DEF Join, Counted
  <2> QED BY <1>5, <2>1 DEF Join, StrandInv, NoStrandedJob
<1>6. CASE Count
  BY <1>1, <1>2, <1>6 DEF Count, Return
<1>7. ASSUME NEW j \in Jobs, RunNoMemory(j) \/ CancelQueued(j) \/ CancelTaken(j) \/ ReadJob(j)
      PROVE  StrandInv'
  <2>1. workers' # <<>> => workers # <<>>
    BY <1>7 DEF RunNoMemory, CancelQueued, CancelTaken, ReadJob
  <2> QED BY <1>2, <1>7, <2>1 DEF RunNoMemory, CancelQueued, CancelTaken, ReadJob, InCall
<1>8. CASE (\E t \in Threads : ReadDummy(t)) \/ Poll \/ PipeEmpty
  BY <1>1, <1>2, <1>8 DEF ReadDummy, Poll, PipeEmpty
<1>9. CASE CreateFails \/ Failed
  BY <1>9 DEF CreateFails, Failed, StrandInv
<1>10. CASE WaitLoadData \/ WaitShutdown \/ WaitCheck \/ SpuriousWakeup
  BY <1>2, <1>10 DEF WaitLoadData, WaitShutdown, Wait, WaitCheck, SpuriousWakeup
<1>11. CASE Shutdown \/ Drain \/ Close
  BY <1>2, <1>11 DEF Shutdown, Drain, Close
<1> QED BY <1>3, <1>4, <1>5, <1>6, <1>7, <1>8, <1>9, <1>10, <1>11 DEF Main

\* Every step keeps it.
LEMMA StrandStep == ASSUME ~CreateMayFail PROVE StrandInv /\ [Next]_vars => StrandInv'
<1> SUFFICES ASSUME StrandInv, [Next]_vars PROVE StrandInv'
  OBVIOUS
<1>1. CountInv'
  BY CountStep DEF StrandInv
<1>2. CASE UNCHANGED vars
  <2>1. Counted' = Counted
    BY <1>2 DEF vars, threads, Counted
  <2> QED BY <1>1, <1>2, <2>1 DEF vars, shared, mainVars, StrandInv, NoStrandedJob
<1>3. CASE Main
  BY <1>1, <1>3, StrandMain
<1>4. ASSUME NEW t \in Threads, Worker(t) PROVE StrandInv'
  BY <1>1, <1>4, StrandWorker
<1>5. CASE Stopped
  BY <1>2, <1>5 DEF Stopped
<1> QED BY <1>2, <1>3, <1>4, <1>5 DEF Next

\* If threads can be created, no job is left in the queue with no thread to
\* take it, however the threads that run out of work and the main thread that
\* queues more interleave.
THEOREM NoJobStranded == ASSUME ~CreateMayFail PROVE SafeSpec => []NoStrandedJob
<1>1. Init => StrandInv
  BY CountInit DEF Init, StrandInv, NoStrandedJob
<1>2. StrandInv => NoStrandedJob
  BY DEF StrandInv
<1> QED BY <1>1, <1>2, StrandStep, PTL DEF SafeSpec

-----------------------------------------------------------------------------
\* What a step may never do

\* Once the owner of a job has heard of it, func_heavy does not begin for it.
LEMMA NoLateHeavy == ASSUME ~CreateMayFail PROVE SafeSpec => NoHeavyAfterReport
<1> DEFINE A == \A j \in Jobs :
                  outcome[j] # "none" /\ heavies'[j] # heavies[j] => heavies'[j] = 0
<1> USE DEF Move, shared, threads, blocks, mainVars
<1>1. ASSUME SafeInv, [Next]_vars PROVE [A]_vars
  <2>1. ASSUME UNCHANGED heavies PROVE A
    BY <2>1
  <2>2. ASSUME NEW j \in Jobs, heavies' = [heavies EXCEPT ![j] = 0] PROVE A
    BY <1>1, <2>2 DEF SafeInv, TypeInv, Types
  <2>3. ASSUME NEW t \in Threads, Worker(t) PROVE A
    <3>1. CASE Heavy(t)
      <4>1. cur[t] \in Carried
        BY <1>1, <3>1 DEF Heavy, SafeInv, TypeInv, HoldsWork, Carried
      <4>2. outcome[cur[t]] = "none"
        BY <1>1, <4>1 DEF SafeInv, TypeInv, Types, NoFreedWorkInUse, ReportedOnce, Carried
      <4>3. heavies' = [heavies EXCEPT ![cur[t]] = @ + 1] /\ heavies \in [Jobs -> Nat]
        BY <1>1, <3>1 DEF Heavy, SafeInv, TypeInv, Types
      <4> QED BY <4>2, <4>3
    <3>2. CASE ~Heavy(t)
      BY <2>1, <2>3, <3>2
         DEF Worker, Take, Put, Wake, Recheck, PutDummy, WakeDummy
    <3> QED BY <3>1, <3>2
  <2>4. ASSUME NEW j \in Jobs, Run(j) \/ RunNoMemory(j) PROVE A
    BY <2>2, <2>4 DEF Run, RunNoMemory
  <2>5. ASSUME NEW j \in Jobs, CancelQueued(j) \/ CancelTaken(j) \/ ReadJob(j) PROVE A
    BY <2>1, <2>5 DEF CancelQueued, CancelTaken, ReadJob
  <2>6. CASE \/ \E t \in Threads : ReadDummy(t)
             \/ Create \/ Count \/ CreateFails \/ Failed \/ Poll \/ Join \/ PipeEmpty
    BY <2>1, <2>6
       DEF ReadDummy, Create, Count, CreateFails, Failed, Poll, Join, PipeEmpty
  <2>7. CASE WaitLoadData \/ WaitShutdown \/ WaitCheck \/ SpuriousWakeup
    BY <2>1, <2>7 DEF WaitLoadData, WaitShutdown, Wait, WaitCheck, SpuriousWakeup
  <2>8. CASE Shutdown \/ Drain \/ Close
    BY <2>1, <2>8 DEF Shutdown, Drain, Close
  <2>9. CASE Stopped \/ UNCHANGED vars
    BY <2>9 DEF Stopped
  <2> QED BY <1>1, <2>3, <2>4, <2>5, <2>6, <2>7, <2>8, <2>9 DEF Next, Main
<1>2. SafeSpec => [][A]_vars
  BY <1>1, SafeInvariant, PTL DEF SafeSpec
<1> QED BY <1>2 DEF NoHeavyAfterReport

\* What the owner of a job hears is func_cancel exactly if it has cancelled it,
\* or evas_shutdown found it in the queue.
LEMMA RightReport == ASSUME ~CreateMayFail PROVE SafeSpec => ReportMatchesCancel
<1> DEFINE A == \A j \in Jobs :
                  outcome[j] = "none" /\ outcome'[j] \in {"end", "cancel"} /\ j \in live
                    => (outcome'[j] = "cancel" <=> j \in cancelled \union Range(workers))
<1> USE DEF Move, shared, threads, blocks, mainVars
<1>1. ASSUME SafeInv, [Next]_vars PROVE [A]_vars
  <2>1. ASSUME UNCHANGED outcome PROVE A
    BY <2>1
  <2>2. outcome \in [Jobs -> {"none", "end", "cancel", "twice"}]
    BY <1>1 DEF SafeInv, TypeInv, Types
  <2>3. ASSUME NEW t \in Threads, Worker(t) PROVE A
    BY <2>1, <2>3 DEF Worker, Take, Heavy, Put, Wake, Recheck, PutDummy, WakeDummy
  <2>4. ASSUME NEW j \in Jobs, Run(j) PROVE A
    BY <2>2, <2>4 DEF Run
  <2>5. ASSUME NEW j \in Jobs, CancelQueued(j) PROVE A
    <3>1. j \in Range(workers)
      BY <2>5 DEF CancelQueued, Range
    <3> QED BY <2>2, <2>5, <3>1 DEF CancelQueued, Report
  <2>6. ASSUME NEW j \in Jobs, ReadJob(j) PROVE A
    <3>1. j \in Range(pipe)
      BY <1>1, <2>6, TailFacts DEF ReadJob, SafeInv, TypeInv, Types
    <3>2. j \notin Range(workers)
      BY <1>1, <3>1 DEF SafeInv, NoFreedWorkInUse
    <3> QED BY <2>2, <2>6, <3>2 DEF ReadJob, Report
  <2>7. CASE Drain
    BY <2>2, <2>7 DEF Drain, Report
  <2>8. ASSUME NEW j \in Jobs, RunNoMemory(j) \/ CancelTaken(j) PROVE A
    BY <2>1, <2>8 DEF RunNoMemory, CancelTaken
  <2>9. CASE \/ \E t \in Threads : ReadDummy(t)
             \/ Create \/ Count \/ CreateFails \/ Poll \/ Join \/ PipeEmpty
    BY <2>1, <2>9 DEF ReadDummy, Create, Count, CreateFails, Poll, Join, PipeEmpty
  <2>10. CASE Failed
    BY <1>1, <2>10 DEF Failed, SafeInv, MainArgLive
  <2>11. CASE WaitLoadData \/ WaitShutdown \/ WaitCheck \/ SpuriousWakeup
    BY <2>1, <2>11 DEF WaitLoadData, WaitShutdown, Wait, WaitCheck, SpuriousWakeup
  <2>12. CASE Shutdown \/ Close
    BY <2>1, <2>12 DEF Shutdown, Close
  <2>13. CASE Stopped \/ UNCHANGED vars
    BY <2>13 DEF Stopped
  <2> QED BY <1>1, <2>3, <2>4, <2>5, <2>6, <2>7, <2>8, <2>9, <2>10, <2>11, <2>12, <2>13
          DEF Next, Main
<1>2. SafeSpec => [][A]_vars
  BY <1>1, SafeInvariant, PTL DEF SafeSpec
<1> QED BY <1>2 DEF ReportMatchesCancel

\* What the owner hears of a job is right, and nothing happens to the job after.
THEOREM FinalReport == ASSUME ~CreateMayFail PROVE SafeSpec => ReportIsFinal
BY NoLateHeavy, RightReport DEF ReportIsFinal

-----------------------------------------------------------------------------
(***************************************************************************)
(* EvasPreload implements PreloadJobs: every step of the threads and of    *)
(* the main thread is a step of the life of one job, or of none.           *)
(***************************************************************************)

\* What the mapping needs besides SafeInv. A flag is only set on a job that has
\* started; until the pipe is closed a job that is allocated is somewhere; and
\* after evas_shutdown has drained the queue nothing is queued again.
PlaceInv ==
  /\ fdOpen <=> mpc # "down"
  /\ mpc \in {"close", "down"} => workers = <<>>
  /\ cancelled \subseteq held
  /\ cancelled \cap Range(workers) = {}
  /\ fdOpen => live \subseteq Range(workers) \union Carried \union Range(pipe)

MapInv == SafeInv /\ PlaceInv

\* The initial state satisfies it.
LEMMA MapInit == Init => MapInv
<1> SUFFICES ASSUME Init PROVE PlaceInv
  BY SafeInit DEF MapInv
<1>1. Range(workers) = {}
  BY DEF Init, Range
<1> QED BY <1>1 DEF Init, PlaceInv

\* What is known of the variables in the following proofs.
LEMMA MapTypes ==
  ASSUME SafeInv
  PROVE  /\ workers \in Seq(Jobs) /\ pipe \in Seq(Jobs \union Threads)
         /\ tpc \in [Threads -> ThreadStates] /\ cur \in [Threads -> Jobs \union {None}]
         /\ NoRepeat(workers, Jobs) /\ NoRepeat(pipe, Jobs)
         /\ mpc \in MainStates /\ goal \in {"idle", "check", "drain"}
         /\ ret \in {"idle", "process"}
         /\ \A u \in Threads : tpc[u] \in {"heavy", "put"} <=> cur[u] # None
         /\ Range(workers) \subseteq Jobs /\ Carried \subseteq Jobs
         /\ Range(pipe) \subseteq Jobs \union Threads
BY ConstantsAssumption, RangeOfSeq
   DEF SafeInv, TypeInv, Types, HoldsWork, NoFreedWorkInUse, NoRepeat, Carried

-----------------------------------------------------------------------------
\* Where the works are after each step that moves one

\* A thread pops the head of the queue.
LEMMA TakeMoves ==
  ASSUME SafeInv, NEW t \in Threads, Take(t), workers # <<>>
  PROVE  \E j \in Jobs :
           /\ j \in Range(workers)
           /\ Range(workers') = Range(workers) \ {j} /\ Carried' = Carried \union {j}
           /\ UNCHANGED <<pipe, live, held, cancelled, fdOpen, mpc>>
<1> USE DEF Move, blocks, mainVars
<1> DEFINE j == Head(workers)
<1>1. /\ j \in Jobs /\ j \in Range(workers)
      /\ Range(workers) = Range(Tail(workers)) \union {j} /\ j \notin Range(Tail(workers))
  BY MapTypes, TailFacts
<1>2. workers' = Tail(workers) /\ cur' = [cur EXCEPT ![t] = j] /\ tpc[t] = "take"
  BY DEF Take
<1> HIDE DEF j
<1>3. cur[t] = None /\ j # None
  BY <1>1, <1>2, MapTypes, ConstantsAssumption
<1>4. Carried' = Carried \union {j}
  BY <1>1, <1>2, <1>3, MapTypes DEF Carried
<1> QED BY <1>1, <1>2, <1>4 DEF Take

\* A thread posts its work, or has nowhere to post it.
LEMMA PutMoves ==
  ASSUME ~CreateMayFail, SafeInv, NEW t \in Threads, Put(t)
  PROVE  \E j \in Jobs :
           /\ j \in Carried /\ Carried' = Carried \ {j}
           /\ Range(pipe') = IF fdOpen THEN Range(pipe) \union {j} ELSE Range(pipe)
           /\ UNCHANGED <<workers, live, held, cancelled, fdOpen, mpc>>
<1> USE DEF Move, blocks, mainVars
<1> DEFINE j == cur[t]
<1>1. /\ j \in Jobs /\ j \in Carried /\ cur' = [cur EXCEPT ![t] = None]
      /\ pipe' = IF fdOpen THEN Append(pipe, j) ELSE pipe
  BY MapTypes DEF Put, PutEvent, Carried
<1> HIDE DEF j
<1>2. Carried' = Carried \ {j}
  BY <1>1, MapTypes DEF SafeInv, NoFreedWorkInUse, Carried, j
<1>3. Range(Append(pipe, j)) = Range(pipe) \union {j}
  BY <1>1, MapTypes, AppendFacts
<1> QED BY <1>1, <1>2, <1>3 DEF Put

\* Every other step of a thread leaves the jobs where they are.
LEMMA ThreadMovesNothing ==
  ASSUME SafeInv, NEW t \in Threads, Worker(t), ~Put(t), ~(Take(t) /\ workers # <<>>)
  PROVE  /\ UNCHANGED <<workers, Carried, live, held, cancelled, fdOpen>>
         /\ Range(pipe') \cap Jobs = Range(pipe) \cap Jobs
         /\ mpc' = mpc \/ (mpc = "sleep" /\ mpc' = "process")
<1> USE ConstantsAssumption DEF Move, Broadcast, shared, blocks, mainVars
<1>1. /\ UNCHANGED <<workers, cur, live, held, cancelled, fdOpen>>
      /\ mpc' = mpc \/ (mpc = "sleep" /\ mpc' = "process")
      /\ pipe' = pipe \/ pipe' = Append(pipe, t)
  BY DEF Worker, Take, Heavy, Wake, Recheck, PutDummy, PutEvent, WakeDummy
<1>2. Carried' = Carried
  BY <1>1 DEF Carried
<1>3. Range(Append(pipe, t)) = Range(pipe) \union {t} /\ t \notin Jobs
  BY MapTypes, AppendFacts
<1> QED BY <1>1, <1>2, <1>3

\* A job is queued where it was nowhere before.
LEMMA RunMoves ==
  ASSUME MapInv, NEW j \in Jobs, Run(j)
  PROVE  /\ j \notin live \union held \union Range(workers) \union Carried \union Range(pipe)
         /\ Range(workers') = Range(workers) \union {j} /\ live' = live \union {j}
         /\ held \subseteq held'
         /\ UNCHANGED <<Carried, pipe, cancelled, fdOpen>>
         /\ mpc \in {"idle", "process"} /\ mpc' \in {"idle", "process", "create"}
<1> USE DEF threads, mainVars
<1>1. /\ j \notin live /\ j \notin Range(workers) /\ j \notin Range(pipe) /\ j \notin Carried
      /\ workers' = Append(workers, j) /\ live' = live \union {j} /\ held \subseteq held'
      /\ UNCHANGED <<pipe, cur, cancelled, fdOpen>>
      /\ mpc \in {"idle", "process"} /\ mpc' \in {"idle", "process", "create"}
  BY DEF Run, InUse, InCall, Carried
<1>2. Range(Append(workers, j)) = Range(workers) \union {j}
  BY MapTypes, AppendFacts DEF MapInv
<1>3. Carried' = Carried
  BY <1>1 DEF Carried
<1>4. held \subseteq live
  BY DEF MapInv, SafeInv, ReportedOnce
<1> QED BY <1>1, <1>2, <1>3, <1>4

\* A queued job is cancelled: it is nowhere after that.
LEMMA CancelMoves ==
  ASSUME MapInv, NEW j \in Jobs, CancelQueued(j)
  PROVE  /\ j \in Range(workers)
         /\ Range(workers') = Range(workers) \ {j}
         /\ live' = live \ {j} /\ held' = held \ {j}
         /\ UNCHANGED <<Carried, pipe, cancelled, fdOpen, mpc>>
         /\ mpc \in {"idle", "process"}
<1> USE DEF threads, mainVars
<1>1. PICK i \in DOMAIN workers : workers[i] = j /\ workers' = RemoveAt(workers, i)
  BY DEF CancelQueued
<1>2. /\ Range(workers) = Range(RemoveAt(workers, i)) \union {j}
      /\ j \notin Range(RemoveAt(workers, i)) /\ j \in Range(workers)
  BY <1>1, MapTypes, RemoveAtFacts DEF MapInv
<1>3. cancelled \ {j} = cancelled
  BY <1>2 DEF MapInv, PlaceInv
<1>4. Carried' = Carried
  BY DEF CancelQueued, Carried
<1> QED BY <1>1, <1>2, <1>3, <1>4 DEF CancelQueued, Release, InCall

\* The report of a job is read, which is nowhere after that.
LEMMA ReadMoves ==
  ASSUME MapInv, NEW j \in Jobs, ReadJob(j)
  PROVE  /\ j \in Range(pipe)
         /\ Range(pipe') = Range(pipe) \ {j}
         /\ live' = live \ {j} /\ held' = held \ {j} /\ cancelled' = cancelled \ {j}
         /\ UNCHANGED <<workers, Carried, fdOpen, mpc>>
         /\ mpc = "process"
<1> USE DEF threads, mainVars
<1>1. /\ Range(pipe) = Range(Tail(pipe)) \union {j} /\ j \notin Range(Tail(pipe))
      /\ j \in Range(pipe)
  BY MapTypes, TailFacts DEF ReadJob, MapInv
<1>2. Carried' = Carried
  BY DEF ReadJob, Carried
<1> QED BY <1>1, <1>2 DEF ReadJob, Release

\* evas_shutdown empties the queue.
LEMMA DrainMoves ==
  ASSUME MapInv, Drain
  PROVE  /\ workers' = <<>> /\ Range(workers') = {}
         /\ live' = live \ Range(workers) /\ held' = held \ Range(workers)
         /\ UNCHANGED <<Carried, pipe, cancelled, fdOpen>>
         /\ mpc = "drain" /\ mpc' = "close"
<1> USE DEF threads
<1>1. Range(workers') = {}
  BY DEF Drain, Range
<1>2. cancelled \ Range(workers) = cancelled
  BY DEF MapInv, PlaceInv
<1>3. Carried' = Carried
  BY DEF Drain, Carried
<1> QED BY <1>1, <1>2, <1>3 DEF Drain, Release

\* The other steps of the main thread, that of closing the pipe left out, leave
\* the jobs where they are.
LEMMA MainMovesNothing ==
  ASSUME MapInv, ~CreateMayFail,
         \/ \E t \in Threads : ReadDummy(t)
         \/ Create \/ Count \/ CreateFails \/ Failed
         \/ Poll \/ Join \/ PipeEmpty
         \/ WaitLoadData \/ WaitShutdown \/ WaitCheck \/ SpuriousWakeup
         \/ Shutdown
  PROVE  /\ UNCHANGED <<workers, Carried, live, cancelled, fdOpen>>
         /\ held \subseteq held'
         /\ Range(pipe') \cap Jobs = Range(pipe) \cap Jobs
         /\ mpc \notin {"close", "down"} /\ mpc' \notin {"close", "down"}
<1> USE ConstantsAssumption DEF shared, threads, blocks, mainVars, Move
<1>1. ASSUME UNCHANGED cur PROVE UNCHANGED Carried
  BY <1>1 DEF Carried
<1>2. ASSUME NEW t \in Threads, ReadDummy(t) PROVE Range(pipe') \cap Jobs = Range(pipe) \cap Jobs
  <2>1. Range(pipe) = Range(Tail(pipe)) \union {Head(pipe)}
    BY <1>2, MapTypes, TailFacts DEF ReadDummy, MapInv
  <2> QED BY <1>2, <2>1 DEF ReadDummy
<1>3. CASE \E t \in Threads : ReadDummy(t)
  BY <1>1, <1>2, <1>3 DEF ReadDummy
<1>4. CASE Create \/ Count
  BY <1>1, <1>4, MapTypes DEF Create, Count, Return, MapInv
<1>5. CASE CreateFails \/ Failed
  BY <1>5 DEF CreateFails, Failed, MapInv, SafeInv, MainArgLive
<1>6. CASE Poll \/ Join \/ PipeEmpty
  BY <1>1, <1>6, MapTypes DEF Poll, Join, PipeEmpty, MapInv
<1>7. CASE WaitLoadData \/ WaitShutdown \/ WaitCheck \/ SpuriousWakeup \/ Shutdown
  BY <1>1, <1>7 DEF WaitLoadData, WaitShutdown, Wait, WaitCheck, SpuriousWakeup, Shutdown
<1> QED BY <1>3, <1>4, <1>5, <1>6, <1>7

\* evas_async_events_shutdown closes the pipe when nothing is queued.
LEMMA CloseMoves ==
  ASSUME MapInv, Close
  PROVE  /\ UNCHANGED <<workers, Carried, pipe, live, held, cancelled>>
         /\ Range(workers) = {} /\ workers = <<>>
         /\ ~fdOpen' /\ mpc' = "down"
<1> USE DEF threads, blocks
<1>1. workers = <<>>
  BY DEF Close, MapInv, PlaceInv
<1>2. Carried' = Carried
  BY DEF Close, Carried
<1> QED BY <1>1, <1>2 DEF Close, Range

\* Every step keeps the invariant.
LEMMA MapStep ==
  ASSUME ~CreateMayFail PROVE MapInv /\ [Next]_vars => MapInv'
<1> SUFFICES ASSUME MapInv, [Next]_vars PROVE MapInv'
  OBVIOUS
<1>1. SafeInv /\ SafeInv' /\ held \subseteq live
  BY SafeStep DEF MapInv, SafeInv, ReportedOnce
<1>2. SUFFICES PlaceInv'
  BY <1>1 DEF MapInv
<1>3. workers = <<>> => Range(workers) = {}
  BY DEF Range
<1>4. ASSUME UNCHANGED <<workers, Carried, live, cancelled, fdOpen>>, held \subseteq held',
             Range(pipe') \cap Jobs = Range(pipe) \cap Jobs,
             mpc' = mpc \/ {mpc, mpc'} \cap {"close", "down"} = {}
      PROVE  PlaceInv'
  <2>1. live \subseteq Jobs
    BY <1>1 DEF SafeInv, TypeInv, Types
  <2> QED BY <1>4, <2>1 DEF MapInv, PlaceInv
<1>5. ASSUME NEW t \in Threads, Worker(t) PROVE PlaceInv'
  <2>1. CASE Take(t) /\ workers # <<>>
    <3>1. PICK j \in Jobs :
             /\ j \in Range(workers)
             /\ Range(workers') = Range(workers) \ {j} /\ Carried' = Carried \union {j}
             /\ UNCHANGED <<pipe, live, held, cancelled, fdOpen, mpc>>
      BY <1>1, <2>1, TakeMoves
    <3> QED BY <2>1, <3>1 DEF MapInv, PlaceInv
  <2>2. CASE Put(t)
    <3>1. PICK j \in Jobs :
             /\ j \in Carried /\ Carried' = Carried \ {j}
             /\ Range(pipe') = IF fdOpen THEN Range(pipe) \union {j} ELSE Range(pipe)
             /\ UNCHANGED <<workers, live, held, cancelled, fdOpen, mpc>>
      BY <1>1, <2>2, PutMoves
    <3> QED BY <3>1 DEF MapInv, PlaceInv
  <2>3. CASE ~Put(t) /\ ~(Take(t) /\ workers # <<>>)
    <3>1. /\ UNCHANGED <<workers, Carried, live, held, cancelled, fdOpen>>
          /\ Range(pipe') \cap Jobs = Range(pipe) \cap Jobs
          /\ mpc' = mpc \/ (mpc = "sleep" /\ mpc' = "process")
      BY <1>1, <1>5, <2>3, ThreadMovesNothing
    <3>2. mpc' = mpc \/ {mpc, mpc'} \cap {"close", "down"} = {}
      BY <3>1
    <3>3. held \subseteq held'
      BY <3>1
    <3> QED BY <1>4, <3>1, <3>2, <3>3
  <2> QED BY <2>1, <2>2, <2>3
<1>6. ASSUME NEW j \in Jobs, Run(j) PROVE PlaceInv'
  BY <1>1, <1>6, RunMoves DEF MapInv, PlaceInv
<1>7. ASSUME NEW j \in Jobs, CancelQueued(j) PROVE PlaceInv'
  BY <1>7, CancelMoves DEF MapInv, PlaceInv
<1>8. ASSUME NEW j \in Jobs, CancelTaken(j) PROVE PlaceInv'
  <2>1. /\ UNCHANGED <<workers, cur, pipe, live, held, fdOpen, mpc>>
        /\ cancelled' = cancelled \union {j}
        /\ j \in held /\ j \notin Range(workers)
    BY <1>8 DEF CancelTaken, shared, threads, mainVars, Range
  <2>2. Carried' = Carried
    BY <2>1 DEF Carried
  <2> QED BY <2>1, <2>2 DEF MapInv, PlaceInv
<1>9. ASSUME NEW j \in Jobs, ReadJob(j) PROVE PlaceInv'
  BY <1>9, ReadMoves DEF MapInv, PlaceInv
<1>10. CASE Drain
  BY <1>10, DrainMoves DEF MapInv, PlaceInv
<1>11. CASE Close
  BY <1>11, CloseMoves DEF MapInv, PlaceInv
<1>12. CASE \/ \E t \in Threads : ReadDummy(t)
            \/ Create \/ Count \/ CreateFails \/ Failed
            \/ Poll \/ Join \/ PipeEmpty
            \/ WaitLoadData \/ WaitShutdown \/ WaitCheck \/ SpuriousWakeup
            \/ Shutdown
  BY <1>4, <1>12, MainMovesNothing
<1>13. CASE Stopped \/ UNCHANGED vars
  <2>1. UNCHANGED vars
    BY <1>13 DEF Stopped
  <2>2. UNCHANGED <<workers, pipe, cur, live, held, cancelled, fdOpen, mpc>>
    BY <2>1 DEF vars, shared, threads, blocks, mainVars
  <2>3. Carried' = Carried
    BY <2>2 DEF Carried
  <2>4. held \subseteq held' /\ Range(pipe') \cap Jobs = Range(pipe) \cap Jobs
    BY <2>2
  <2> QED BY <1>4, <2>2, <2>3, <2>4
<1>14. \A j \in Jobs : ~RunNoMemory(j)
  BY DEF RunNoMemory
<1> QED BY <1>5, <1>6, <1>7, <1>8, <1>9, <1>10, <1>11, <1>12, <1>13, <1>14 DEF Next, Main

-----------------------------------------------------------------------------
\* The jobs of PreloadJobs

\* No job changes its place.
Stay == PJ!jobVars' = PJ!jobVars

\* A step that leaves the works where they are is a stuttering step.
LEMMA NothingMoved ==
  ASSUME UNCHANGED <<workers, Carried, live, cancelled, fdOpen>>,
         Range(pipe') \cap Jobs = Range(pipe) \cap Jobs
  PROVE  Stay
<1>1. \A j \in Jobs : Phase(j)' = Phase(j)
  BY DEF Phase
<1> QED BY <1>1 DEF Stay, PJ!jobVars

\* Each step of the pool is a step of PreloadJobs, or none.
LEMMA RefinesThread ==
  ASSUME ~CreateMayFail, MapInv, NEW t \in Threads, Worker(t) PROVE PJ!Next \/ Stay
<1>1. SafeInv
  BY DEF MapInv
<1>2. CASE Take(t) /\ workers # <<>>
  <2>1. PICK j \in Jobs :
           /\ j \in Range(workers)
           /\ Range(workers') = Range(workers) \ {j} /\ Carried' = Carried \union {j}
           /\ UNCHANGED <<pipe, live, cancelled, fdOpen>>
    BY <1>1, <1>2, TakeMoves
  <2>2. \A k \in Jobs : Phase(k)' = IF k = j THEN "running" ELSE Phase(k)
    BY <2>1 DEF Phase
  <2>3. Phase(j) = "queued"
    BY <2>1 DEF Phase
  <2>4. PJ!Start(j)
    BY <2>1, <2>2, <2>3 DEF PJ!Start
  <2> QED BY <2>4 DEF PJ!Next, PJ!JobStep
<1>3. CASE Put(t)
  <2>1. PICK j \in Jobs :
           /\ j \in Carried /\ Carried' = Carried \ {j}
           /\ Range(pipe') = IF fdOpen THEN Range(pipe) \union {j} ELSE Range(pipe)
           /\ UNCHANGED <<workers, live, cancelled, fdOpen>>
    BY <1>1, <1>3, PutMoves
  <2>2. j \notin Range(workers) /\ j \notin Range(pipe) /\ j \in live
    BY <1>1, <2>1 DEF SafeInv, NoFreedWorkInUse
  <2>3. \A k \in Jobs :
          Phase(k)' = IF k = j THEN IF fdOpen THEN "posted" ELSE "lost" ELSE Phase(k)
    BY <2>1, <2>2 DEF Phase
  <2>4. Phase(j) = "running"
    BY <2>1, <2>2 DEF Phase
  <2>5. PJ!Finish(j)
    BY <2>1, <2>3, <2>4 DEF PJ!Finish
  <2> QED BY <2>5 DEF PJ!Next, PJ!JobStep
<1>4. CASE ~Put(t) /\ ~(Take(t) /\ workers # <<>>)
  BY <1>1, <1>4, ThreadMovesNothing, NothingMoved
<1> QED BY <1>2, <1>3, <1>4

LEMMA RefinesCalls ==
  ASSUME MapInv, NEW j \in Jobs, Run(j) \/ CancelQueued(j) \/ CancelTaken(j) \/ ReadJob(j)
  PROVE  PJ!Next
<1>1. CASE Run(j)
  <2>1. Phase(j) = "idle" /\ \A k \in Jobs : Phase(k)' = IF k = j THEN "queued" ELSE Phase(k)
    BY <1>1, RunMoves DEF Phase
  <2>2. fdOpen
    BY <1>1, RunMoves DEF MapInv, PlaceInv
  <2>3. PJ!Submit(j)
    BY <1>1, <2>1, <2>2, RunMoves DEF PJ!Submit
  <2> QED BY <2>3 DEF PJ!Next, PJ!JobStep
<1>2. CASE CancelQueued(j)
  <2>1. j \notin Carried /\ j \notin Range(pipe)
    BY <1>2, CancelMoves DEF MapInv, SafeInv, NoFreedWorkInUse
  <2>2. Phase(j) = "queued" /\ \A k \in Jobs : Phase(k)' = IF k = j THEN "idle" ELSE Phase(k)
    BY <1>2, <2>1, CancelMoves DEF Phase
  <2>3. PJ!CancelQueued(j)
    BY <1>2, <2>2, CancelMoves DEF PJ!CancelQueued
  <2> QED BY <2>3 DEF PJ!Next, PJ!JobStep
<1>3. CASE CancelTaken(j)
  <2>1. /\ UNCHANGED <<workers, cur, pipe, live, fdOpen>>
        /\ cancelled' = cancelled \union {j}
        /\ j \in held /\ mpc \in {"idle", "process"} /\ j \notin Range(workers)
    BY <1>3 DEF CancelTaken, shared, threads, InCall, Range
  <2>2. Carried' = Carried
    BY <2>1 DEF Carried
  <2>3. j \in Carried \union Range(pipe)
    BY <2>1 DEF MapInv, PlaceInv, SafeInv, ReportedOnce
  <2>4. Phase(j) \in {"running", "posted"} /\ \A k \in Jobs : Phase(k)' = Phase(k)
    BY <2>1, <2>2, <2>3 DEF Phase
  <2>5. PJ!CancelLate(j)
    BY <2>1, <2>4 DEF PJ!CancelLate
  <2> QED BY <2>5 DEF PJ!Next, PJ!JobStep
<1>4. CASE ReadJob(j)
  <2>1. j \notin Carried /\ j \notin Range(workers)
    BY <1>4, ReadMoves DEF MapInv, SafeInv, NoFreedWorkInUse
  <2>2. Phase(j) = "posted" /\ \A k \in Jobs : Phase(k)' = IF k = j THEN "idle" ELSE Phase(k)
    BY <1>4, <2>1, ReadMoves DEF Phase
  <2>3. fdOpen
    BY <1>4, ReadMoves DEF MapInv, PlaceInv
  <2>4. PJ!Deliver(j)
    BY <1>4, <2>2, <2>3, ReadMoves DEF PJ!Deliver
  <2> QED BY <2>4 DEF PJ!Next, PJ!JobStep
<1> QED BY <1>1, <1>2, <1>3, <1>4

LEMMA RefinesShutdown == ASSUME MapInv, Drain \/ Close PROVE PJ!Next
<1>1. CASE Drain
  <2>1. Range(workers) \cap Carried = {} /\ Range(workers) \cap Range(pipe) = {}
    BY DEF MapInv, SafeInv, NoFreedWorkInUse
  <2>2. \A k \in Jobs : Phase(k)' = IF Phase(k) = "queued" THEN "idle" ELSE Phase(k)
    BY <1>1, <2>1, DrainMoves DEF Phase
  <2>3. PJ!CancelAllQueued
    BY <1>1, <2>2, DrainMoves DEF PJ!CancelAllQueued
  <2> QED BY <2>3 DEF PJ!Next
<1>2. CASE Close
  <2>1. \A k \in Jobs : Phase(k)' = Phase(k) /\ Phase(k) # "queued"
    BY <1>2, CloseMoves DEF Phase
  <2>2. PJ!Close
    BY <1>2, <2>1, CloseMoves DEF PJ!Close
  <2> QED BY <2>2 DEF PJ!Next
<1> QED BY <1>1, <1>2

\* The initial states are initial states of PreloadJobs.
LEMMA RefinesInit == Init => PJ!Init
<1> SUFFICES ASSUME Init PROVE PJ!Init
  OBVIOUS
<1>1. Range(workers) = {} /\ Range(pipe) = {} /\ Carried = {}
  BY DEF Init, Range, Carried
<1>2. \A j \in Jobs : Phase(j) = "idle"
  BY <1>1 DEF Init, Phase
<1> QED BY <1>2 DEF Init, PJ!Init

\* Every step is a step of PreloadJobs, or a stuttering step.
LEMMA RefinesStep ==
  ASSUME ~CreateMayFail PROVE MapInv /\ [Next]_vars => [PJ!Next]_(PJ!jobVars)
<1> SUFFICES ASSUME MapInv, [Next]_vars PROVE PJ!Next \/ Stay
  BY DEF Stay
<1>1. CASE \E t \in Threads : Worker(t)
  BY <1>1, RefinesThread
<1>2. CASE \E j \in Jobs : Run(j) \/ CancelQueued(j) \/ CancelTaken(j) \/ ReadJob(j)
  BY <1>2, RefinesCalls
<1>3. CASE Drain \/ Close
  BY <1>3, RefinesShutdown
<1>4. CASE \/ \E t \in Threads : ReadDummy(t)
           \/ Create \/ Count \/ CreateFails \/ Failed
           \/ Poll \/ Join \/ PipeEmpty
           \/ WaitLoadData \/ WaitShutdown \/ WaitCheck \/ SpuriousWakeup
           \/ Shutdown
  BY <1>4, MainMovesNothing, NothingMoved
<1>5. CASE Stopped \/ UNCHANGED vars
  <2>1. UNCHANGED vars
    BY <1>5 DEF Stopped
  <2>2. Carried' = Carried
    BY <2>1 DEF vars, threads, Carried
  <2> QED BY <2>1, <2>2, NothingMoved DEF vars, shared, blocks
<1>6. \A j \in Jobs : ~RunNoMemory(j)
  BY DEF RunNoMemory
<1> QED BY <1>1, <1>2, <1>3, <1>4, <1>5, <1>6 DEF Next, Main

\* The pool implements PreloadJobs, for any number of jobs and threads and any
\* size of the pipe, as long as allocations do not fail: a job that
\* evas_preload_thread_run accepted runs at most once and is then reported, as
\* cancelled if that came too late to unqueue it, whatever the threads, the
\* cancellations and evas_shutdown do.
THEOREM PoolImplementsJobs ==
  ASSUME ~CreateMayFail PROVE SafeSpec => ImplementsPreloadJobsSafely
<1>1. Init => MapInv /\ PJ!Init
  BY MapInit, RefinesInit
<1>2. MapInv /\ [Next]_vars => MapInv' /\ [PJ!Next]_(PJ!jobVars)
  BY MapStep, RefinesStep
<1> QED BY <1>1, <1>2, PTL DEF SafeSpec, ImplementsPreloadJobsSafely, PJ!SafeSpec
=============================================================================
