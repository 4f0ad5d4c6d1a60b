------------------------------- MODULE WakeUp -------------------------------
(***************************************************************************)
(* How the workers learn of a new job (web/worker.py: worker_loop and      *)
(* _wait_for_work): one asyncio.Event, the nudge, shared by all of them,   *)
(* set by every upload and cleared by whichever worker ends a job, and a   *)
(* poll every _IDLE_WAIT_S seconds behind it.                              *)
(*                                                                         *)
(* An action is a stretch of the event loop between two suspensions.  The  *)
(* jobs are only counted: which one is claimed matters to JobService.      *)
(***************************************************************************)
EXTENDS Naturals

CONSTANTS
    Workers,     \* the coroutines of run_workers
    MaxUploads   \* bound: uploads that end

ASSUME WakeUpAssumption == Workers # {} /\ MaxUploads \in Nat

VARIABLES
    queue,     \* number of rows that are queued
    nudge,     \* app.state.nudge.is_set()
    pc,        \* pc[w]: where worker w is suspended
    uploads,   \* uploads that ended so far
    vain       \* vain[w]: polls in vain since w last slept, worked or was told

vars == <<queue, nudge, pc, uploads, vain>>

\* "ready": w is about to poll.  "arming": the task of nudge.wait() exists
\* and has not run yet.  "asleep": it waits for the event.  "backoff": w
\* sleeps after an exception, deaf to the nudge.
Places == {"ready", "arming", "asleep", "running", "backoff"}
EnoughVain == 3   \* bound: polls in vain are not counted beyond it

Init ==
    /\ queue = 0 /\ nudge = FALSE /\ uploads = 0
    /\ pc   = [w \in Workers |-> "ready"]
    /\ vain = [w \in Workers |-> 0]

-----------------------------------------------------------------------------

\* Mutant: the handler does not set the event.
UploadSilently ==
    /\ uploads < MaxUploads
    /\ uploads' = uploads + 1
    /\ queue' = queue + 1
    /\ UNCHANGED <<nudge, pc, vain>>

\* job_upload: the row becomes queued, and Event.set() completes the wait of
\* every worker that is asleep.
Upload ==
    /\ uploads < MaxUploads
    /\ uploads' = uploads + 1
    /\ queue' = queue + 1
    /\ nudge' = TRUE
    /\ pc' = [w \in Workers |-> IF pc[w] = "asleep" THEN "ready" ELSE pc[w]]
    /\ vain' = [w \in Workers |-> 0]

\* A queued row leaves the queue unclaimed: cancelled, or swept as too old.
Withdraw ==
    /\ queue > 0
    /\ queue' = queue - 1
    /\ UNCHANGED <<nudge, pc, uploads, vain>>

\* claim_next_job: a row, or the way to _wait_for_work.
Take(w) ==
    /\ queue > 0
    /\ queue' = queue - 1
    /\ pc' = [pc EXCEPT ![w] = "running"]
    /\ vain' = [vain EXCEPT ![w] = 0]
    /\ UNCHANGED uploads

FindNothing(w) ==
    /\ queue = 0
    /\ pc' = [pc EXCEPT ![w] = "arming"]
    /\ vain' = [vain EXCEPT ![w] = IF @ < EnoughVain THEN @ + 1 ELSE @]
    /\ UNCHANGED <<queue, uploads>>

Poll(w) ==
    /\ pc[w] = "ready"
    /\ Take(w) \/ FindNothing(w)
    /\ UNCHANGED nudge

\* Mutant: the event is cleared although the wait has not begun.
ArmClearing(w) ==
    /\ pc[w] = "arming"
    /\ pc' = [pc EXCEPT ![w] = "asleep"]
    /\ nudge' = FALSE
    /\ vain' = [vain EXCEPT ![w] = 0]
    /\ UNCHANGED <<queue, uploads>>

\* The task of nudge.wait() runs: it ends at once if the event is set.
Arm(w) ==
    /\ pc[w] = "arming"
    /\ IF nudge
       THEN pc' = [pc EXCEPT ![w] = "ready"] /\ UNCHANGED vain
       ELSE /\ pc' = [pc EXCEPT ![w] = "asleep"]
            /\ vain' = [vain EXCEPT ![w] = 0]
    /\ UNCHANGED <<queue, nudge, uploads>>

\* Mutant: asyncio.wait without its timeout.
NoTimeout(w) == FALSE

\* _IDLE_WAIT_S passes.
Timeout(w) ==
    /\ pc[w] = "asleep"
    /\ pc' = [pc EXCEPT ![w] = "ready"]
    /\ UNCHANGED <<queue, nudge, uploads, vain>>

\* process_one_job returns True: the worker clears the event, and polls again
\* without being suspended in between.
Finish(w) ==
    /\ pc[w] = "running"
    /\ nudge' = FALSE
    /\ Take(w) \/ FindNothing(w)

\* Mutant: the place misspelt.
FailMisspelt(w) ==
    /\ pc[w] = "running"
    /\ pc' = [pc EXCEPT ![w] = "back-off"]
    /\ UNCHANGED <<queue, nudge, uploads, vain>>

\* It raises instead, at once or later: the worker backs off for five seconds.
Fail(w) ==
    /\ pc[w] = "running"
    /\ pc' = [pc EXCEPT ![w] = "backoff"]
    /\ UNCHANGED <<queue, nudge, uploads, vain>>

Resume(w) ==
    /\ pc[w] = "backoff"
    /\ pc' = [pc EXCEPT ![w] = "ready"]
    /\ UNCHANGED <<queue, nudge, uploads, vain>>

Next ==
    \/ Upload \/ Withdraw
    \/ \E w \in Workers :
          \/ Poll(w) \/ Arm(w) \/ Timeout(w)
          \/ Finish(w) \/ Fail(w) \/ Resume(w)

Spec == Init /\ [][Next]_vars

\* The loop runs what is ready and serves its timers.  Nothing is asked of
\* the jobs that run: they may take for ever here.
LiveSpec ==
    /\ Spec
    /\ \A w \in Workers : WF_vars(Poll(w) \/ Arm(w)) /\ WF_vars(Timeout(w))

-----------------------------------------------------------------------------

TypeOK ==
    /\ queue \in Nat /\ uploads \in Nat
    /\ nudge \in BOOLEAN
    /\ pc \in [Workers -> Places]
    /\ vain \in [Workers -> 0 .. EnoughVain]

\* While a job is queued, some worker is on its way to look at the queue
\* without the help of the timer, although any worker may clear the event
\* that all of them wait for: at worst it first ends the job it runs.
NoLostWakeUp ==
    queue > 0 =>
        \/ \E w \in Workers : pc[w] \in {"ready", "running", "backoff"}
        \/ nudge /\ \E w \in Workers : pc[w] = "arming"

\* A worker that has nothing to do takes a queued job, however long the jobs
\* of the other workers run.
Free == {w \in Workers : pc[w] \notin {"running", "backoff"}}

FreeWorkerTakesJob == queue > 0 /\ Free # {} ~> queue = 0 \/ Free = {}

\* "A stale-set nudge just costs one extra non-blocking poll": a worker polls
\* in vain at most twice before it sleeps.
OneExtraPoll == \A w \in Workers : vain[w] <= 2

=============================================================================
