---------------------------- MODULE PreloadJobs ----------------------------
(***************************************************************************)
(* What evas_preload.c promises to the image cache, without its threads,   *)
(* its queue or its pipe: a job that evas_preload_thread_run accepted is    *)
(* executed at most once in the background and then reported exactly once   *)
(* to the main thread, by func_end, or by func_cancel if it was cancelled. *)
(***************************************************************************)
CONSTANT Jobs

VARIABLES
  phase,    \* [Jobs -> Phases]: how far a job has gone
  flagged,  \* the jobs whose cancellation came too late to unqueue them
  open      \* FALSE once evas_shutdown has run

jobVars == <<phase, flagged, open>>

Phases == {"idle", "queued", "running", "posted", "lost"}

TypeOK ==
  /\ phase \in [Jobs -> Phases]
  /\ flagged \subseteq Jobs
  /\ open \in BOOLEAN

Init ==
  /\ phase = [j \in Jobs |-> "idle"]
  /\ flagged = {}
  /\ open = TRUE

\* The caller hands the job over.
Submit(j) ==
  /\ open
  /\ phase[j] = "idle"
  /\ phase' = [phase EXCEPT ![j] = "queued"]
  /\ UNCHANGED <<flagged, open>>

\* A background thread picks the job up and runs func_heavy ...
Start(j) ==
  /\ phase[j] = "queued"
  /\ phase' = [phase EXCEPT ![j] = "running"]
  /\ UNCHANGED <<flagged, open>>

\* ... and posts its completion to the main thread, or, when Evas was shut
\* down meanwhile, has nowhere to post it.
Finish(j) ==
  /\ phase[j] = "running"
  /\ phase' = [phase EXCEPT ![j] = IF open THEN "posted" ELSE "lost"]
  /\ UNCHANGED <<flagged, open>>

\* Cancellation of a job that has not started: it never will.
CancelQueued(j) ==
  /\ phase[j] = "queued"
  /\ phase' = [phase EXCEPT ![j] = "idle"]
  /\ UNCHANGED <<flagged, open>>

\* Cancellation of a job that has started: only its report changes.
CancelLate(j) ==
  /\ phase[j] \in {"running", "posted"}
  /\ flagged' = flagged \union {j}
  /\ UNCHANGED <<phase, open>>

\* The main thread takes the report: func_cancel if flagged, else func_end.
Deliver(j) ==
  /\ open
  /\ phase[j] = "posted"
  /\ phase' = [phase EXCEPT ![j] = "idle"]
  /\ flagged' = flagged \ {j}
  /\ UNCHANGED open

\* evas_shutdown cancels what has not started and takes no report any more.
CancelAllQueued ==
  /\ phase' = [j \in Jobs |-> IF phase[j] = "queued" THEN "idle" ELSE phase[j]]
  /\ UNCHANGED <<flagged, open>>

Close ==
  /\ \A j \in Jobs : phase[j] # "queued"
  /\ open' = FALSE
  /\ UNCHANGED <<phase, flagged>>

JobStep(j) ==
  \/ Submit(j) \/ Start(j) \/ Finish(j)
  \/ CancelQueued(j) \/ CancelLate(j) \/ Deliver(j)

Next == (\E j \in Jobs : JobStep(j)) \/ CancelAllQueued \/ Close

SafeSpec == Init /\ [][Next]_jobVars

\* Threads run what is queued, and the main loop takes what is posted.
Fairness ==
  \A j \in Jobs : WF_jobVars(Start(j)) /\ WF_jobVars(Finish(j)) /\ WF_jobVars(Deliver(j))

Spec == SafeSpec /\ Fairness
=============================================================================
