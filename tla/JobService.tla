----------------------------- MODULE JobService -----------------------------
(***************************************************************************)
(* The life of a job in the web service: the request handlers              *)
(* (web/routes.py), the analysis workers and the clean-up loop             *)
(* (web/worker.py), and the start-up and death of the process (web/app.py),*)
(* over the job store of module Jobs and the directory of each job.        *)
(*                                                                         *)
(* Handlers, worker coroutines and the clean-up share one event loop: code *)
(* between two awaits is atomic, and an action here is such a stretch.     *)
(* Two things run outside the loop and take steps of their own: the        *)
(* analysis subprocess of each worker and the thread that writes a report. *)
(***************************************************************************)
EXTENDS Jobs

CONSTANTS
    Workers,        \* the max_concurrent_jobs coroutines of run_workers
    Uploaders,      \* slots for PUT requests that may be in flight at once
    Cancellers,     \* slots for cancel requests in flight at once
    Judged,         \* the jobs created with a model_ref
    JudgeTimeout,   \* settings.llm_judge_total_timeout_s, in ticks
    WriteTime,      \* bound: ticks that writing a report takes
    NoJob

ASSUME ServiceAssumption ==
    /\ Judged \subseteq Jobs
    /\ NoJob \notin Jobs
    /\ JudgeTimeout \in Nat /\ WriteTime \in Nat

\* A row is kept for longer than an execution takes (in the defaults 12 h
\* against half an hour each for the analysis and for the judge): a job
\* cancelled or swept while a worker has it is not deleted under the worker.
ASSUME LateWritesAssumption == JobTimeout + JudgeTimeout + WriteTime <= Retention

VARIABLES
    up,       \* is the server process alive
    disk,     \* disk[j]: what DATA_DIR/<j> holds
    put,      \* put[c]: the job the PUT in slot c is streaming to
    fd,       \* fd[c]: what its open descriptor writes to (see Descriptor)
    cancel,   \* cancel[c]: the job a cancel request read as cancellable
    pc,       \* pc[w]: where worker w and its subprocess or thread are
    hold,     \* hold[w]: the job worker w claimed
    spent,    \* spent[w]: ticks since its current wait began
    broken    \* workers whose idle process pool has lost its process

requestVars == <<put, fd, cancel>>
workerVars  == <<pc, hold, spent, broken>>
vars == <<storeVars, up, disk, requestVars, workerVars>>

(***************************************************************************)
(* A directory: "dir" is the directory itself, "partial" an input.zip that *)
(* is not (or not only) one client's whole upload, "input" one that is.    *)
(***************************************************************************)
Files == {"dir", "partial", "input", "work", "report"}
Zip   == {"partial", "input"}

\* The file input.zip that this PUT alone has had open, one that another PUT
\* has had open too, or a file that no longer has a name.
Descriptor == {"none", "own", "shared", "unlinked"}

Analysis == {"submitted", "extracting", "analysing"}  \* the subprocess runs
Outcome  == {"analysed", "rejected", "crashed"}       \* its future is done
Wrapup   == {"judging", "writing", "written"}
Stages   == {"idle"} \cup Analysis \cup Outcome \cup Wrapup

Busy(w) == pc[w] # "idle"

ServiceInit ==
    /\ Init
    /\ up     = TRUE
    /\ disk   = [j \in Jobs |-> {}]
    /\ put    = [c \in Uploaders |-> NoJob]
    /\ fd     = [c \in Uploaders |-> "none"]
    /\ cancel = [c \in Cancellers |-> NoJob]
    /\ pc     = [w \in Workers |-> "idle"]
    /\ hold   = [w \in Workers |-> NoJob]
    /\ spent  = [w \in Workers |-> 0]
    /\ broken = {}

-----------------------------------------------------------------------------
(* Request handlers                                                        *)

\* Path.unlink(missing_ok=True) of input.zip, and shutil.rmtree: a PUT still
\* streaming keeps writing to a file that no longer has a name.
PutsTo(js) == {c \in Uploaders : put[c] \in js}
Orphaned(js) == [c \in Uploaders |->
                   IF c \in PutsTo(js) THEN "unlinked" ELSE fd[c]]
Close(c, fds) == [fds EXCEPT ![c] = "none"]

UnlinkZip(j) == disk' = [disk EXCEPT ![j] = @ \ Zip]
RemoveDir(j) == disk' = [disk EXCEPT ![j] = {}]

\* POST /jobs: the row, then the directory; mkdir may fail after the commit.
PostJob(j) ==
    /\ CreateJob(j)
    /\ \/ disk' = [disk EXCEPT ![j] = {"dir"}]
       \/ UNCHANGED disk
    /\ UNCHANGED <<up, requestVars, workerVars>>

\* PUT /jobs/{id}/upload up to the first await of stream_body_to_file: the
\* status is checked, and open("wb") truncates whatever input.zip there is,
\* under the descriptors of the PUTs already writing to it.
PutOpen(c, j) ==
    LET others == {d \in PutsTo({j}) : fd[d] \in {"own", "shared"}}
    IN  /\ put[c] = NoJob
        /\ status[j] = "awaiting_upload"
        /\ put'  = [put EXCEPT ![c] = j]
        /\ fd'   = [d \in Uploaders |->
                     CASE d \in others -> "shared"
                       [] d = c        -> IF others = {} THEN "own" ELSE "shared"
                       [] OTHER        -> fd[d]]
        /\ disk' = [disk EXCEPT ![j] = (@ \ Zip) \cup {"dir", "partial"}]
        /\ UNCHANGED <<storeVars, up, cancel, workerVars>>

\* Mutant: set_status(conn, id, "queued") in the place of mark_uploaded.
PutFinishAnyway(c) ==
    LET j == put[c]
    IN  /\ j # NoJob
        /\ put' = [put EXCEPT ![c] = NoJob]
        /\ SetStatus(j, "queued")
        /\ disk' = [disk EXCEPT ![j] = (@ \ Zip) \cup {"input"}]
        /\ fd' = Close(c, fd)
        /\ UNCHANGED <<up, cancel, workerVars>>

\* The last chunk, then mark_uploaded.  Bytes that two PUTs wrote over each
\* other may or may not be one of the uploads.
PutFinish(c) ==
    LET j == put[c]
    IN  /\ j # NoJob
        /\ put' = [put EXCEPT ![c] = NoJob]
        /\ \/ /\ MarkUploaded(j)
              /\ \/ /\ fd[c] \in {"own", "shared"}
                    /\ disk' = [disk EXCEPT ![j] = (@ \ Zip) \cup {"input"}]
                 \/ /\ fd[c] \in {"shared", "unlinked"}
                    /\ UNCHANGED disk
              /\ fd' = Close(c, fd)
           \/ /\ status[j] # "awaiting_upload"
              /\ UnlinkZip(j)
              /\ fd' = Close(c, Orphaned({j}))
              /\ UNCHANGED storeVars
        /\ UNCHANGED <<up, cancel, workerVars>>

\* The body exceeds max_upload_mb: stream_body_to_file unlinks the file.
PutOverflow(c) ==
    /\ put[c] # NoJob
    /\ put' = [put EXCEPT ![c] = NoJob]
    /\ UnlinkZip(put[c])
    /\ fd' = Close(c, Orphaned({put[c]}))
    /\ UNCHANGED <<storeVars, up, cancel, workerVars>>

\* Mutant: the end of the stream is taken for the end of the upload.
PutDisconnectQueues(c) ==
    /\ put[c] # NoJob
    /\ MarkUploaded(put[c])
    /\ put' = [put EXCEPT ![c] = NoJob]
    /\ fd'  = Close(c, fd)
    /\ UNCHANGED <<up, disk, cancel, workerVars>>

\* The client goes away: ClientDisconnect leaves the partial file behind.
PutDisconnect(c) ==
    /\ put[c] # NoJob
    /\ put' = [put EXCEPT ![c] = NoJob]
    /\ fd'  = Close(c, fd)
    /\ UNCHANGED <<storeVars, up, disk, cancel, workerVars>>

\* POST /jobs/{id}/cancel reads the row, then awaits the form.  (A row read
\* in any other status ends in a 409 and changes nothing.)
CancelRead(c, j) ==
    /\ cancel[c] = NoJob
    /\ status[j] \in {"queued", "awaiting_upload"}
    /\ cancel' = [cancel EXCEPT ![c] = j]
    /\ UNCHANGED <<storeVars, up, disk, put, fd, workerVars>>

\* Mutant: the status misspelt.
CancelCommitMisspelt(c) ==
    /\ cancel[c] # NoJob
    /\ cancel' = [cancel EXCEPT ![c] = NoJob]
    /\ SetStatus(cancel[c], "canceled")
    /\ RemoveDir(cancel[c])
    /\ fd' = Orphaned({cancel[c]})
    /\ UNCHANGED <<up, put, workerVars>>

\* The rest of the handler acts on the row as it was read.
CancelCommit(c) ==
    /\ cancel[c] # NoJob
    /\ cancel' = [cancel EXCEPT ![c] = NoJob]
    /\ SetStatus(cancel[c], "cancelled")
    /\ RemoveDir(cancel[c])
    /\ fd' = Orphaned({cancel[c]})
    /\ UNCHANGED <<up, put, workerVars>>

-----------------------------------------------------------------------------
(* A worker and its subprocess                                             *)

Goto(w, stage)   == /\ pc'    = [pc EXCEPT ![w] = stage]
                    /\ spent' = [spent EXCEPT ![w] = 0]
Proceed(w, stage) == /\ pc' = [pc EXCEPT ![w] = stage]
                     /\ UNCHANGED spent
Release(w) == Goto(w, "idle") /\ hold' = [hold EXCEPT ![w] = NoJob]

\* process_one_job: claim, then hand the analysis to the worker's pool.
Claim(w, j) ==
    /\ ~Busy(w) /\ w \notin broken
    /\ ClaimNextJob(j)
    /\ Goto(w, "submitted")
    /\ hold' = [hold EXCEPT ![w] = j]
    /\ UNCHANGED <<up, disk, requestVars, broken>>

\* The hand-over raises, before the try block: submit() on a broken pool, or
\* mp.Manager() unable to start.  worker_loop logs it and backs off.
ClaimLost(w, j) ==
    /\ ~Busy(w)
    /\ ClaimNextJob(j)
    /\ UNCHANGED <<up, disk, requestVars, workerVars>>

\* The kernel kills the process an idle pool keeps alive.
BreakIdlePool(w) ==
    /\ ~Busy(w)
    /\ broken' = broken \cup {w}
    /\ UNCHANGED <<storeVars, up, disk, requestVars, pc, hold, spent>>

\* validate_and_extract opens input.zip ...
OpenZip(w) ==
    /\ pc[w] = "submitted"
    /\ disk[hold[w]] \cap Zip # {}
    /\ Proceed(w, "extracting")
    /\ UNCHANGED <<storeVars, up, disk, requestVars, hold, broken>>

\* ... and writes work/, creating the directories it needs.
Extract(w) ==
    /\ pc[w] = "extracting"
    /\ disk' = [disk EXCEPT ![hold[w]] = @ \cup {"dir", "work"}]
    /\ Proceed(w, "analysing")
    /\ UNCHANGED <<storeVars, up, requestVars, hold, broken>>

\* run_analysis ends by writing the report, creating the directory as well.
Analyse(w) ==
    /\ pc[w] = "analysing"
    /\ disk' = [disk EXCEPT ![hold[w]] = @ \cup {"dir", "report"}]
    /\ Proceed(w, "analysed")
    /\ UNCHANGED <<storeVars, up, requestVars, hold, broken>>

\* The subprocess raises: no or no valid zip, limits, no submissions, an
\* internal error.  A zip is rejected before, during or after extraction.
Raise(w) ==
    /\ pc[w] \in Analysis
    /\ Proceed(w, "rejected")
    /\ \/ UNCHANGED disk
       \/ /\ pc[w] = "extracting"
          /\ disk' = [disk EXCEPT ![hold[w]] = @ \cup {"dir", "work"}]
    /\ UNCHANGED <<storeVars, up, requestVars, hold, broken>>

\* The subprocess dies (segfault, OOM killer).
CrashAnalysis(w) ==
    /\ pc[w] \in Analysis
    /\ Proceed(w, "crashed")
    /\ UNCHANGED <<storeVars, up, disk, requestVars, hold, broken>>

\* except UploadRejected / NoSubmissionsError / Exception / BrokenProcessPool.
\* The last one swaps in a fresh pool.
FailJob(w) ==
    /\ pc[w] \in {"rejected", "crashed"}
    /\ SetStatus(hold[w], "failed")
    /\ Release(w)
    /\ UNCHANGED <<up, disk, requestVars, broken>>

\* except TimeoutError: the subprocess and the JVMs are killed, and the pool
\* is replaced, before the row is failed.
TimeOut(w) ==
    /\ pc[w] \in Analysis
    /\ spent[w] >= JobTimeout
    /\ SetStatus(hold[w], "failed")
    /\ Release(w)
    /\ UNCHANGED <<up, disk, requestVars, broken>>

\* model_ref is set: the judge runs in a thread, under its own deadline.
StartJudge(w) ==
    /\ pc[w] = "analysed"
    /\ hold[w] \in Judged
    /\ Goto(w, "judging")
    /\ UNCHANGED <<storeVars, up, disk, requestVars, hold, broken>>

\* The judge ends; its failure only leaves a note in the report.
EndJudge(w) ==
    /\ pc[w] = "judging"
    /\ Goto(w, "writing")
    /\ UNCHANGED <<storeVars, up, disk, requestVars, hold, broken>>

\* The thread of write_excel_report rewrites the report.
WriteReport(w) ==
    /\ pc[w] = "writing"
    /\ disk' = [disk EXCEPT ![hold[w]] = @ \cup {"dir", "report"}]
    /\ Proceed(w, "written")
    /\ UNCHANGED <<storeVars, up, requestVars, hold, broken>>

\* Writing it raises (disk full, say), outside any try: worker_loop logs it.
WriteFails(w) ==
    /\ pc[w] = "writing"
    /\ Release(w)
    /\ UNCHANGED <<storeVars, up, disk, requestVars, broken>>

\* The end of process_one_job: whatever the row says by now, it is done; the
\* uploaded zip and the extracted tree go.
Completing(w) ==
    \/ pc[w] = "written"
    \/ pc[w] = "analysed" /\ hold[w] \notin Judged

\* Mutant: rmtree of the job's directory instead of its work tree.
CompleteRemovesAll(w) ==
    /\ Completing(w)
    /\ SetStatus(hold[w], "done")
    /\ RemoveDir(hold[w])
    /\ fd' = Orphaned({hold[w]})
    /\ Release(w)
    /\ UNCHANGED <<up, put, cancel, broken>>

Complete(w) ==
    LET j == hold[w]
    IN  /\ Completing(w)
        /\ SetStatus(j, "done")
        /\ disk' = [disk EXCEPT ![j] = @ \ (Zip \cup {"work"})]
        /\ fd' = Orphaned({j})
        /\ Release(w)
        /\ UNCHANGED <<up, put, cancel, broken>>

-----------------------------------------------------------------------------
(* The clean-up loop, the clock, and the process                           *)

\* _cleanup_once: the directories of expired rows and of uploads that never
\* came are removed together with what CleanupPass does to the rows.
CleanUp ==
    LET reaped == {j \in Jobs : Expired(j) \/ NeverUploaded(j)}
    IN  /\ CleanupPass
        /\ disk' = [j \in Jobs |-> IF j \in reaped THEN {} ELSE disk[j]]
        /\ fd'   = Orphaned(reaped)
        /\ UNCHANGED <<up, put, cancel, workerVars>>

\* How long a worker may sit in a stage: wait_for's timeout, the deadline of
\* the judge, and the time a report takes.
Limit(stage) ==
    CASE stage \in Analysis \cup Outcome -> JobTimeout
      [] stage = "judging"               -> JudgeTimeout
      [] OTHER                           -> WriteTime

\* The loop serves a timer that is due within the tick.
Tick ==
    /\ \A w \in Workers : Busy(w) => spent[w] < Limit(pc[w])
    /\ ClockTick
    /\ spent' = [w \in Workers |-> IF Busy(w) THEN spent[w] + 1 ELSE 0]
    /\ UNCHANGED <<up, disk, requestVars, pc, hold, broken>>

\* The process dies: requests, coroutines, subprocesses and threads with it.
Die ==
    /\ up'     = FALSE
    /\ put'    = [c \in Uploaders |-> NoJob]
    /\ fd'     = [c \in Uploaders |-> "none"]
    /\ cancel' = [c \in Cancellers |-> NoJob]
    /\ pc'     = [w \in Workers |-> "idle"]
    /\ hold'   = [w \in Workers |-> NoJob]
    /\ spent'  = [w \in Workers |-> 0]
    /\ broken' = {}

\* It may die between two awaits, where a handler only waits ...
Crash == Die /\ UNCHANGED <<storeVars, disk>>

\* ... or between a statement and the change of the directory next to it.
CrashInPostJob(j)   == Die /\ CreateJob(j) /\ UNCHANGED disk
CrashInCancel(c)    == /\ cancel[c] # NoJob
                       /\ Die
                       /\ SetStatus(cancel[c], "cancelled")
                       /\ UNCHANGED disk
CrashInComplete(w)  == /\ Completing(w)
                       /\ Die
                       /\ SetStatus(hold[w], "done")
                       /\ UNCHANGED disk
CrashInCleanUp(j)   == /\ Expired(j)
                       /\ Die
                       /\ disk' = [disk EXCEPT ![j] = {}]
                       /\ UNCHANGED storeVars
CrashInSweep        == /\ \E j \in Jobs : NeverUploaded(j)
                       /\ Die
                       /\ CleanupPass
                       /\ disk' = [j \in Jobs |-> IF Expired(j) THEN {} ELSE disk[j]]

\* The lifespan of app.py: reconcile_startup, then the workers start.
Start ==
    /\ up' = TRUE
    /\ ReconcileStartup
    /\ UNCHANGED <<disk, requestVars, workerVars>>

Handler ==
    \/ \E j \in Jobs : PostJob(j)
    \/ \E c \in Uploaders, j \in Jobs : PutOpen(c, j)
    \/ \E c \in Uploaders : PutFinish(c) \/ PutOverflow(c) \/ PutDisconnect(c)
    \/ \E c \in Cancellers, j \in Jobs : CancelRead(c, j)
    \/ \E c \in Cancellers : CancelCommit(c)

\* What moves a claimed job towards its end.
WorkerStep(w) ==
    \/ OpenZip(w) \/ Extract(w) \/ Analyse(w) \/ Raise(w) \/ CrashAnalysis(w)
    \/ FailJob(w) \/ TimeOut(w)
    \/ StartJudge(w) \/ EndJudge(w) \/ WriteReport(w) \/ WriteFails(w)
    \/ Complete(w)

Pickup(w) == \E j \in Jobs : Claim(w, j) \/ ClaimLost(w, j)

Death ==
    \/ Crash \/ CrashInSweep
    \/ \E j \in Jobs : CrashInPostJob(j) \/ CrashInCleanUp(j)
    \/ \E c \in Cancellers : CrashInCancel(c)
    \/ \E w \in Workers : CrashInComplete(w)

Next ==
    \/ up /\ Handler
    \/ up /\ \E w \in Workers : WorkerStep(w) \/ Pickup(w) \/ BreakIdlePool(w)
    \/ up /\ CleanUp
    \/ up /\ Death
    \/ ~up /\ Start
    \/ Tick

Spec == ServiceInit /\ [][Next]_vars

\* Nothing is asked of clients.  The clock runs, a stopped container is
\* started again, and the loop runs whatever is ready.  The clean-up is the
\* first thing cleanup_loop does in every life of the process, so it is not
\* put off for ever by restarts (SF).
Fairness ==
    /\ WF_vars(Tick)
    /\ WF_vars(~up /\ Start)
    /\ SF_vars(up /\ CleanUp)
    /\ \A w \in Workers : WF_vars(up /\ WorkerStep(w))

LiveSpec == Spec /\ Fairness

-----------------------------------------------------------------------------

TypeOK ==
    /\ StoreTypeOK
    /\ up \in BOOLEAN
    /\ disk \in [Jobs -> SUBSET Files]
    /\ put \in [Uploaders -> Jobs \cup {NoJob}]
    /\ fd \in [Uploaders -> Descriptor]
    /\ cancel \in [Cancellers -> Jobs \cup {NoJob}]
    /\ pc \in [Workers -> Stages]
    /\ hold \in [Workers -> Jobs \cup {NoJob}]
    /\ spent \in [Workers -> Nat]
    /\ broken \subseteq Workers

\* Two workers never hold the same job, and a held job cannot be claimed
\* again, whatever cancels, sweeps and uploads do to its row meanwhile: the
\* subprocesses of two workers would extract into the same directory.
OneHolder ==
    /\ \A v, w \in Workers : v # w /\ Busy(v) /\ Busy(w) => hold[v] # hold[w]
    /\ \A w \in Workers : Busy(w) =>
          status[hold[w]] \notin {"absent", "awaiting_upload", "queued"}

\* While PUTs of one job do not overlap, a job in the queue, and a running one
\* whose analysis has not read it yet, has its whole input.zip on disk: no
\* disconnect, retry, cancel, clean-up or restart takes it away.
InputIntact ==
    /\ \A j \in Jobs : status[j] = "queued" => "input" \in disk[j]
    /\ \A w \in Workers : pc[w] = "submitted" /\ status[hold[w]] = "running"
          => "input" \in disk[hold[w]]

\* A directory belongs to a row: the clean-up finds directories through rows
\* only, so one that a late report or extraction creates after the DELETE
\* would hold participants' data for ever.
NoOrphanDirectory == \A j \in Jobs : disk[j] # {} => InTable(j)

\* A job that becomes done, swept as too old meanwhile or not, has its report
\* on disk, and a done job keeps it for as long as it is retained; only a
\* cancel that overlaps the execution takes it away.
ReportKept ==
    [][\A j \in Jobs :
          /\ status'[j] = "done" /\ ~Expired(j)
          /\ status[j] \in {"running", "failed"} \/ "report" \in disk[j]
          => "report" \in disk'[j]]_vars

\* Every job ends, though workers die, lose it or never get to it.
EveryJobEnds == \A j \in Jobs : status[j] \in Active ~> status[j] \notin Active

\* Nothing of a job stays on disk for ever.
EverythingRemoved == \A j \in Jobs : disk[j] # {} ~> disk[j] = {}

\* The service uses the store only through its statements.
UsesStore == StoreSpec

-----------------------------------------------------------------------------
(* What the documents of the repository say of the program and the code    *)
(* does not do: each is refuted by a run of its own.                       *)

\* "cancelled desde queued o awaiting_upload": a running or finished job is
\* not cancelled.
CancelsOnlyWaiting ==
    [][\A j \in Jobs : status'[j] = "cancelled" /\ status[j] # "cancelled"
          => status[j] \in {"queued", "awaiting_upload"}]_vars

\* A PUT that flips the row to queued "must keep input.zip".
QueuedHasZip == \A j \in Jobs : status[j] = "queued" => disk[j] \cap Zip # {}

=============================================================================
