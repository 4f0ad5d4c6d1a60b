-------------------------------- MODULE Jobs --------------------------------
(***************************************************************************)
(* The job store: the rows of the `jobs' table (db.py) and every statement *)
(* the program runs against them (web/jobs.py, and the DELETE of           *)
(* worker._cleanup_once).  Each action is one SQLite write transaction, so *)
(* it is atomic for every connection.                                      *)
(*                                                                         *)
(* The callers are left completely free here: any of them may run any      *)
(* statement at any moment, in any order, on any row.  What this module    *)
(* shows is therefore what the statements guarantee by themselves, whoever *)
(* races with whom; JobService is the program that calls them.             *)
(*                                                                         *)
(* A timestamp is kept as an age, in ticks, that stops at MaxAge.  The     *)
(* code only ever compares a timestamp with `now - cutoff', so an age past *)
(* every cutoff need not grow.                                             *)
(***************************************************************************)
EXTENDS Naturals, FiniteSets

CONSTANTS
    Jobs,              \* the pool of job ids (uuid4: never used twice)
    Users,             \* the accounts
    Owner,             \* Owner[j]: the account that may draw id j from the pool
    MaxJobsPerUser,    \* settings.max_jobs_per_user
    RateLimitPerHour,  \* settings.rate_limit_per_hour
    Hour,              \* the window of the rate limit, in ticks
    JobTimeout,        \* settings.job_timeout_s, in ticks
    UploadTimeout,     \* settings.awaiting_upload_timeout_s, in ticks
    Retention,         \* settings.retention_h, in ticks
    MaxAge             \* bound: ages are not counted beyond it

VARIABLES
    status,    \* status[j]: the column, or "absent" / "deleted"
    created,   \* created[j]: ticks since created_at
    finished   \* finished[j]: ticks since finished_at, 0 while it is NULL

storeVars == <<status, created, finished>>

Active   == {"awaiting_upload", "queued", "running"}
Terminal == {"done", "failed", "cancelled"}
Status   == {"absent", "deleted"} \cup Active \cup Terminal
Ages     == 0 .. MaxAge

\* _STALE_TIMEOUT_MULTIPLIER * job_timeout_s
StaleAge == 3 * JobTimeout

ASSUME JobsAssumption ==
    /\ IsFiniteSet(Jobs)
    /\ Owner \in [Jobs -> Users]
    /\ MaxJobsPerUser \in Nat /\ RateLimitPerHour \in Nat
    /\ Hour \in Nat /\ JobTimeout \in Nat
    /\ UploadTimeout \in Nat /\ Retention \in Nat /\ MaxAge \in Nat
    \* the bound lies beyond every cutoff
    /\ MaxAge > Hour /\ MaxAge > 3 * JobTimeout
    /\ MaxAge > UploadTimeout /\ MaxAge > Retention

\* Finished rows outlive the window of the rate limit (12 h against 1 h in
\* the defaults); the limit counts rows, so it depends on this.
ASSUME RetentionAssumption == Hour <= Retention

InTable(j) == status[j] \in Active \cup Terminal
OwnedBy(o) == {j \in Jobs : Owner[j] = o}

\* The two SELECT COUNT( * ) of create_job.
RecentRows(o) == {j \in OwnedBy(o) : InTable(j) /\ created[j] < Hour}
ActiveRows(o) == {j \in OwnedBy(o) : status[j] \in Active}

Init ==
    /\ status   = [j \in Jobs |-> "absent"]
    /\ created  = [j \in Jobs |-> 0]
    /\ finished = [j \in Jobs |-> 0]

-----------------------------------------------------------------------------

\* Mutant: awaiting_upload left out of the statuses that count as active.
CreateJobForgetsAwaiting(j) ==
    /\ status[j] = "absent"
    /\ Cardinality(RecentRows(Owner[j])) < RateLimitPerHour
    /\ Cardinality({k \in ActiveRows(Owner[j]) : status[k] # "awaiting_upload"})
         < MaxJobsPerUser
    /\ status'  = [status EXCEPT ![j] = "awaiting_upload"]
    /\ created' = [created EXCEPT ![j] = 0]
    /\ UNCHANGED finished

\* create_job: both quota checks and the INSERT in one BEGIN IMMEDIATE.
CreateJob(j) ==
    /\ status[j] = "absent"
    /\ Cardinality(RecentRows(Owner[j])) < RateLimitPerHour
    /\ Cardinality(ActiveRows(Owner[j])) < MaxJobsPerUser
    /\ status'  = [status EXCEPT ![j] = "awaiting_upload"]
    /\ created' = [created EXCEPT ![j] = 0]
    /\ UNCHANGED finished

\* Mutant: the subquery also finds rows that are running.
ClaimNextJobAgain(j) ==
    /\ status[j] \in {"queued", "running"}
    /\ status' = [status EXCEPT ![j] = "running"]
    /\ UNCHANGED <<created, finished>>

\* claim_next_job: UPDATE ... WHERE id = (oldest queued) RETURNING *.  Rows
\* created within one tick may be handed out in either order.
ClaimNextJob(j) ==
    /\ status[j] = "queued"
    /\ \A k \in Jobs : status[k] = "queued" => created[k] <= created[j]
    /\ status' = [status EXCEPT ![j] = "running"]
    /\ UNCHANGED <<created, finished>>

\* Mutants: the status misspelt; the condition on the old status left out.
MarkUploadedMisspelt(j) ==
    /\ status[j] = "awaiting_upload"
    /\ status' = [status EXCEPT ![j] = "uploaded"]
    /\ UNCHANGED <<created, finished>>

MarkUploadedAnyway(j) ==
    /\ InTable(j)
    /\ status' = [status EXCEPT ![j] = "queued"]
    /\ UNCHANGED <<created, finished>>

\* mark_uploaded: the compare-and-set that ends an upload.
MarkUploaded(j) ==
    /\ status[j] = "awaiting_upload"
    /\ status' = [status EXCEPT ![j] = "queued"]
    /\ UNCHANGED <<created, finished>>

\* set_status(..., finished=True): no condition on the old status.  On a row
\* that is gone the UPDATE matches nothing.
SetStatus(j, s) ==
    IF InTable(j)
    THEN /\ status'   = [status EXCEPT ![j] = s]
         /\ finished' = [finished EXCEPT ![j] = 0]
         /\ UNCHANGED created
    ELSE UNCHANGED storeVars

\* reconcile_startup: whatever a dead process left half way is failed.
ReconcileStartup ==
    LET interrupted(j) == status[j] \in {"running", "awaiting_upload"}
    IN  /\ status' = [j \in Jobs |->
                        IF interrupted(j) THEN "failed" ELSE status[j]]
        /\ finished' = [j \in Jobs |->
                        IF interrupted(j) THEN 0 ELSE finished[j]]
        /\ UNCHANGED created

\* Mutants: expired as soon as finished; only finished analyses expire; the
\* sweep forgets running rows.
ExpiredAtOnce(j) == status[j] \in Terminal
ExpiredIfDone(j) == status[j] = "done" /\ finished[j] > Retention
TooOldInQueue(j) == status[j] = "queued" /\ created[j] > StaleAge

\* The WHERE clauses of _cleanup_once and of the two UPDATEs of sweep_stale.
Expired(j)       == status[j] \in Terminal /\ finished[j] > Retention
TooOld(j)        == status[j] \in {"queued", "running"} /\ created[j] > StaleAge
NeverUploaded(j) == status[j] = "awaiting_upload" /\ created[j] > UploadTimeout

\* The rows touched by one pass of _cleanup_once, which does not yield: the
\* expired ones are deleted, then sweep_stale fails the stale ones.
CleanupPass ==
    /\ status' = [j \in Jobs |->
                    CASE Expired(j)                    -> "deleted"
                      [] TooOld(j) \/ NeverUploaded(j) -> "failed"
                      [] OTHER                         -> status[j]]
    /\ finished' = [j \in Jobs |->
                    IF Expired(j) \/ TooOld(j) \/ NeverUploaded(j)
                    THEN 0 ELSE finished[j]]
    /\ UNCHANGED created

\* One tick of utcnow().
Older(age) == IF age < MaxAge THEN age + 1 ELSE age

ClockTick ==
    /\ created'  = [j \in Jobs |->
                      IF status[j] = "absent" THEN 0 ELSE Older(created[j])]
    /\ finished' = [j \in Jobs |->
                      IF status[j] \in Terminal THEN Older(finished[j]) ELSE 0]
    /\ UNCHANGED status

StoreNext ==
    \/ \E j \in Jobs : CreateJob(j)
    \/ \E j \in Jobs : ClaimNextJob(j)
    \/ \E j \in Jobs : MarkUploaded(j)
    \/ \E j \in Jobs, s \in Terminal : SetStatus(j, s)
    \/ ReconcileStartup
    \/ CleanupPass
    \/ ClockTick

StoreSpec == Init /\ [][StoreNext]_storeVars

-----------------------------------------------------------------------------

\* The shape of the table.
StoreTypeOK ==
    /\ status   \in [Jobs -> Status]
    /\ created  \in [Jobs -> Ages]
    /\ finished \in [Jobs -> Ages]

\* No account ever has more than max_jobs_per_user jobs waiting or running.
\* The check guards the INSERT only (jobs.create_job): it is enough because
\* no other statement, however raced, puts a row back among the active ones.
ActiveQuota ==
    \A o \in Users : Cardinality(ActiveRows(o)) <= MaxJobsPerUser

\* No account creates more than rate_limit_per_hour jobs in any hour, the ones
\* whose rows the clean-up has deleted meanwhile included: create_job counts
\* only the rows it finds, which is right only while deletion comes later.
JobsCreatedLastHour(o) ==
    {j \in OwnedBy(o) : status[j] # "absent" /\ created[j] < Hour}

RateLimit ==
    \A o \in Users :
        Cardinality(JobsCreatedLastHour(o)) <= RateLimitPerHour

\* The place of a status in the life of a job.
Rank(s) ==
    CASE s = "absent"          -> 0
      [] s = "awaiting_upload" -> 1
      [] s = "queued"          -> 2
      [] s = "running"         -> 3
      [] s \in Terminal        -> 4
      [] s = "deleted"         -> 5

\* A row only moves forward: a job that ended is never waiting, queued or
\* running again, and a claimed one is never handed out a second time,
\* although set_status does not look at the status it overwrites.
OnlyForward ==
    [][\A j \in Jobs : Rank(status[j]) <= Rank(status'[j])]_storeVars

=============================================================================
