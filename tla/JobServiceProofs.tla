-------------------------- MODULE JobServiceProofs --------------------------
(***************************************************************************)
(* Proofs about the service, for any numbers of jobs, workers and requests *)
(* and any timeouts: it uses the store only through the statements of      *)
(* module Jobs, so what JobsProofs shows of those holds of the service; no *)
(* job is ever in the hands of two workers; and the directory of a job     *)
(* holds what it should, when it should.                                   *)
(***************************************************************************)
EXTENDS JobService, JobsProofs

\* A worker that is busy has a job.
BusyHasJob == \A w \in Workers : Busy(w) => hold[w] \in Jobs

\* The part of the state outside the store.
ServiceTypeOK ==
    /\ up \in BOOLEAN
    /\ disk \in [Jobs -> SUBSET Files]
    /\ put \in [Uploaders -> Jobs \cup {NoJob}]
    /\ fd \in [Uploaders -> Descriptor]
    /\ cancel \in [Cancellers -> Jobs \cup {NoJob}]
    /\ pc \in [Workers -> Stages]
    /\ hold \in [Workers -> Jobs \cup {NoJob}]
    /\ spent \in [Workers -> Nat]
    /\ broken \subseteq Workers

\* The inductive invariant behind the refinement.
TypeInv == StoreTypeOK /\ ServiceTypeOK /\ BusyHasJob

LEMMA TypeInvInit == ServiceInit => TypeInv
<1> SUFFICES ASSUME ServiceInit PROVE TypeInv
  OBVIOUS
<1>1. StoreTypeOK
  BY StoreTypeInit DEF ServiceInit
<1>2. ServiceTypeOK /\ BusyHasJob
  BY DEF ServiceInit, ServiceTypeOK, BusyHasJob, Busy, Stages, Descriptor
<1>3. QED
  BY <1>1, <1>2 DEF TypeInv

-----------------------------------------------------------------------------
(* Every step of the service is one statement of the store, or none.       *)

Statement ==
    \/ \E j \in Jobs : CreateJob(j) \/ ClaimNextJob(j) \/ MarkUploaded(j)
    \/ \E j \in Jobs, s \in Terminal : SetStatus(j, s)
    \/ ReconcileStartup \/ CleanupPass

LEMMA HandlerUsesStore ==
    ASSUME TypeInv, Handler
    PROVE  [Statement]_storeVars
<1> USE DEF TypeInv, ServiceTypeOK
<1>1. ASSUME NEW j \in Jobs, PostJob(j)
      PROVE  Statement
  BY <1>1 DEF PostJob, Statement
<1>2. ASSUME NEW c \in Uploaders, NEW j \in Jobs, PutOpen(c, j)
      PROVE  UNCHANGED storeVars
  BY <1>2 DEF PutOpen
<1>3. ASSUME NEW c \in Uploaders, PutFinish(c)
      PROVE  [Statement]_storeVars
  <2>1. put[c] \in Jobs
    BY <1>3 DEF PutFinish
  <2>2. MarkUploaded(put[c]) \/ UNCHANGED storeVars
    BY <1>3 DEF PutFinish
  <2>3. QED
    BY <2>1, <2>2 DEF Statement
<1>4. ASSUME NEW c \in Uploaders, PutOverflow(c) \/ PutDisconnect(c)
      PROVE  UNCHANGED storeVars
  BY <1>4 DEF PutOverflow, PutDisconnect
<1>5. ASSUME NEW c \in Cancellers, NEW j \in Jobs, CancelRead(c, j)
      PROVE  UNCHANGED storeVars
  BY <1>5 DEF CancelRead
<1>6. ASSUME NEW c \in Cancellers, CancelCommit(c)
      PROVE  Statement
  <2>1. cancel[c] \in Jobs /\ SetStatus(cancel[c], "cancelled")
    BY <1>6 DEF CancelCommit
  <2>2. QED
    BY <2>1 DEF Statement, Terminal
<1>7. QED
  BY <1>1, <1>2, <1>3, <1>4, <1>5, <1>6 DEF Handler

LEMMA WorkerUsesStore ==
    ASSUME TypeInv, NEW w \in Workers,
           WorkerStep(w) \/ Pickup(w) \/ BreakIdlePool(w)
    PROVE  [Statement]_storeVars
<1> USE DEF TypeInv, ServiceTypeOK
<1>1. CASE Pickup(w)
  BY <1>1 DEF Pickup, Claim, ClaimLost, Statement
<1>2. CASE \/ OpenZip(w) \/ Extract(w) \/ Analyse(w) \/ Raise(w)
           \/ CrashAnalysis(w) \/ StartJudge(w) \/ EndJudge(w)
           \/ WriteReport(w) \/ WriteFails(w) \/ BreakIdlePool(w)
  BY <1>2 DEF OpenZip, Extract, Analyse, Raise, CrashAnalysis, StartJudge,
     EndJudge, WriteReport, WriteFails, BreakIdlePool
<1>3. CASE FailJob(w) \/ TimeOut(w)
  <2>1. hold[w] \in Jobs
    BY <1>3 DEF FailJob, TimeOut, BusyHasJob, Busy, Analysis
  <2>2. SetStatus(hold[w], "failed")
    BY <1>3 DEF FailJob, TimeOut
  <2>3. QED
    BY <2>1, <2>2 DEF Statement, Terminal
<1>4. CASE Complete(w)
  <2>1. hold[w] \in Jobs
    BY <1>4 DEF Complete, Completing, BusyHasJob, Busy
  <2>2. SetStatus(hold[w], "done")
    BY <1>4 DEF Complete
  <2>3. QED
    BY <2>1, <2>2 DEF Statement, Terminal
<1>5. QED
  BY <1>1, <1>2, <1>3, <1>4 DEF WorkerStep

LEMMA DeathUsesStore ==
    ASSUME TypeInv, Death
    PROVE  [Statement]_storeVars
<1> USE DEF TypeInv, ServiceTypeOK
<1>1. CASE Crash
  BY <1>1 DEF Crash
<1>2. ASSUME NEW j \in Jobs, CrashInPostJob(j) \/ CrashInCleanUp(j)
      PROVE  [Statement]_storeVars
  BY <1>2 DEF CrashInPostJob, CrashInCleanUp, Statement
<1>3. ASSUME NEW c \in Cancellers, CrashInCancel(c)
      PROVE  [Statement]_storeVars
  <2>1. cancel[c] \in Jobs /\ SetStatus(cancel[c], "cancelled")
    BY <1>3 DEF CrashInCancel
  <2>2. QED
    BY <2>1 DEF Statement, Terminal
<1>4. ASSUME NEW w \in Workers, CrashInComplete(w)
      PROVE  [Statement]_storeVars
  <2>1. hold[w] \in Jobs
    BY <1>4 DEF CrashInComplete, Completing, BusyHasJob, Busy
  <2>2. SetStatus(hold[w], "done")
    BY <1>4 DEF CrashInComplete
  <2>3. QED
    BY <2>1, <2>2 DEF Statement, Terminal
<1>5. CASE CrashInSweep
  BY <1>5 DEF CrashInSweep, Statement
<1>6. QED
  BY <1>1, <1>2, <1>3, <1>4, <1>5 DEF Death

\* Only the clock lets anything grow older.
LEMMA StepStatement == TypeInv /\ [Next]_vars => Tick \/ [Statement]_storeVars
<1> SUFFICES ASSUME TypeInv, [Next]_vars PROVE Tick \/ [Statement]_storeVars
  OBVIOUS
<1>1. CASE CleanUp \/ Start
  BY <1>1 DEF CleanUp, Start, Statement
<1>2. CASE UNCHANGED vars
  BY <1>2 DEF vars
<1>3. QED
  BY <1>1, <1>2, HandlerUsesStore, WorkerUsesStore, DeathUsesStore DEF Next

LEMMA StepUsesStore == TypeInv /\ [Next]_vars => [StoreNext]_storeVars
BY StepStatement DEF Statement, StoreNext, Tick

-----------------------------------------------------------------------------
(* The types.                                                              *)

\* Unlinking a file and closing a descriptor leave descriptors.
LEMMA DescriptorFacts ==
    ASSUME ServiceTypeOK, NEW js, NEW c \in Uploaders
    PROVE  /\ Orphaned(js) \in [Uploaders -> Descriptor]
           /\ Close(c, fd) \in [Uploaders -> Descriptor]
           /\ Close(c, Orphaned(js)) \in [Uploaders -> Descriptor]
BY DEF ServiceTypeOK, Orphaned, Close, Descriptor

LEMMA TypeInvHandler ==
    ASSUME TypeInv, Handler
    PROVE  ServiceTypeOK' /\ BusyHasJob'
<1> USE DEF TypeInv, ServiceTypeOK, BusyHasJob, Busy, workerVars, requestVars
<1>1. ASSUME NEW j \in Jobs, PostJob(j)
      PROVE  ServiceTypeOK' /\ BusyHasJob'
  BY <1>1 DEF PostJob, Files
<1>2. ASSUME NEW c \in Uploaders, NEW j \in Jobs, PutOpen(c, j)
      PROVE  ServiceTypeOK' /\ BusyHasJob'
  BY <1>2 DEF PutOpen, Files, Zip, Descriptor
<1>3. ASSUME NEW c \in Uploaders,
             PutFinish(c) \/ PutOverflow(c) \/ PutDisconnect(c)
      PROVE  ServiceTypeOK' /\ BusyHasJob'
  <2>1. put[c] \in Jobs
    BY <1>3 DEF PutFinish, PutOverflow, PutDisconnect
  <2>2. fd' \in [Uploaders -> Descriptor]
    BY <1>3, DescriptorFacts DEF PutFinish, PutOverflow, PutDisconnect
  <2>3. disk' \in [Jobs -> SUBSET Files]
    BY <1>3, <2>1 DEF PutFinish, PutOverflow, PutDisconnect, UnlinkZip, Files, Zip
  <2>4. put' = [put EXCEPT ![c] = NoJob] /\ UNCHANGED <<up, cancel, workerVars>>
    BY <1>3 DEF PutFinish, PutOverflow, PutDisconnect
  <2>5. QED
    BY <2>2, <2>3, <2>4
<1>4. ASSUME NEW c \in Cancellers, NEW j \in Jobs, CancelRead(c, j)
      PROVE  ServiceTypeOK' /\ BusyHasJob'
  BY <1>4 DEF CancelRead
<1>5. ASSUME NEW c \in Cancellers, CancelCommit(c)
      PROVE  ServiceTypeOK' /\ BusyHasJob'
  BY <1>5 DEF CancelCommit, RemoveDir, Orphaned, Descriptor
<1>6. QED
  BY <1>1, <1>2, <1>3, <1>4, <1>5 DEF Handler

LEMMA TypeInvWorker ==
    ASSUME TypeInv, NEW w \in Workers,
           WorkerStep(w) \/ Pickup(w) \/ BreakIdlePool(w)
    PROVE  ServiceTypeOK' /\ BusyHasJob'
<1> USE DEF TypeInv, ServiceTypeOK, BusyHasJob, Busy, workerVars, requestVars,
            Files, Zip, Goto, Proceed, Release
<1>1. CASE \E j \in Jobs : Claim(w, j)
  BY <1>1 DEF Claim, Stages, Analysis
<1>2. CASE \E j \in Jobs : ClaimLost(w, j)
  BY <1>2 DEF ClaimLost
<1>3. CASE OpenZip(w)
  BY <1>3 DEF OpenZip, Stages, Analysis
<1>4. CASE CrashAnalysis(w)
  BY <1>4 DEF CrashAnalysis, Stages, Analysis, Outcome
<1>5. CASE Extract(w) \/ Analyse(w) \/ Raise(w)
  <2>1. hold[w] \in Jobs
    BY <1>5 DEF Extract, Analyse, Raise, Analysis
  <2>2. disk' \in [Jobs -> SUBSET Files]
    BY <1>5, <2>1 DEF Extract, Analyse, Raise
  <2>3. \/ pc' = [pc EXCEPT ![w] = "analysing"]
        \/ pc' = [pc EXCEPT ![w] = "analysed"]
        \/ pc' = [pc EXCEPT ![w] = "rejected"]
    BY <1>5 DEF Extract, Analyse, Raise
  <2>4. UNCHANGED <<up, requestVars, hold, spent, broken>>
    BY <1>5 DEF Extract, Analyse, Raise
  <2>5. ServiceTypeOK'
    BY <2>2, <2>3, <2>4 DEF Stages, Analysis, Outcome
  <2>6. BusyHasJob'
    BY <2>1, <2>3, <2>4
  <2>7. QED
    BY <2>5, <2>6
<1>6. CASE FailJob(w) \/ TimeOut(w) \/ WriteFails(w)
  BY <1>6 DEF FailJob, TimeOut, WriteFails, Stages
<1>7. CASE StartJudge(w) \/ EndJudge(w) \/ WriteReport(w)
  BY <1>7 DEF StartJudge, EndJudge, WriteReport, Stages, Wrapup
<1>8. CASE Complete(w)
  BY <1>8 DEF Complete, Stages, Orphaned, Descriptor
<1>9. CASE BreakIdlePool(w)
  BY <1>9 DEF BreakIdlePool
<1>10. QED
  BY <1>1, <1>2, <1>3, <1>4, <1>5, <1>6, <1>7, <1>8, <1>9
     DEF WorkerStep, Pickup

LEMMA TypeInvDeath ==
    ASSUME TypeInv, Death
    PROVE  ServiceTypeOK' /\ BusyHasJob'
<1>1. ASSUME Die, disk' \in [Jobs -> SUBSET Files]
      PROVE  ServiceTypeOK' /\ BusyHasJob'
  BY <1>1 DEF Die, ServiceTypeOK, BusyHasJob, Busy, Stages, Descriptor
<1>2. Die /\ disk' \in [Jobs -> SUBSET Files]
  BY DEF Death, Crash, CrashInSweep, CrashInPostJob, CrashInCleanUp, CrashInCancel,
     CrashInComplete, TypeInv, ServiceTypeOK
<1>3. QED
  BY <1>1, <1>2

LEMMA TypeInvStep == TypeInv /\ [Next]_vars => TypeInv'
<1> SUFFICES ASSUME TypeInv, [Next]_vars PROVE TypeInv'
  OBVIOUS
<1>1. StoreTypeOK'
  BY StepUsesStore, StoreTypeStep DEF TypeInv
<1>2. ServiceTypeOK' /\ BusyHasJob'
  <2>1. CASE CleanUp
    BY <2>1 DEF CleanUp, TypeInv, ServiceTypeOK, BusyHasJob, Busy, workerVars,
       Orphaned, Descriptor
  <2>2. CASE Start
    BY <2>2 DEF Start, TypeInv, ServiceTypeOK, BusyHasJob, Busy, workerVars,
       requestVars
  <2>3. CASE Tick
    BY <2>3 DEF Tick, TypeInv, ServiceTypeOK, BusyHasJob, Busy, requestVars
  <2>4. CASE UNCHANGED vars
    BY <2>4 DEF vars, TypeInv, ServiceTypeOK, BusyHasJob, Busy, workerVars,
       requestVars
  <2>5. QED
    BY <2>1, <2>2, <2>3, <2>4, TypeInvHandler, TypeInvWorker, TypeInvDeath
       DEF Next
<1>3. QED
  BY <1>1, <1>2 DEF TypeInv

LEMMA TypeInvCorrect == Spec => []TypeInv
BY TypeInvInit, TypeInvStep, PTL DEF Spec

\* The types of the whole state.
THEOREM TypeCorrect == Spec => []TypeOK
<1>1. TypeInv => TypeOK
  BY DEF TypeInv, ServiceTypeOK, TypeOK
<1>2. QED
  BY <1>1, TypeInvCorrect, PTL

\* The service implements the store: every step, a crash inside a handler
\* included, is one of its statements or leaves the rows alone.
THEOREM ServiceUsesStore == Spec => UsesStore
<1>1. ServiceInit => Init
  BY DEF ServiceInit
<1>2. QED
  BY <1>1, StepUsesStore, TypeInvCorrect, PTL DEF Spec, UsesStore, StoreSpec

\* Hence the quotas of the store hold of the service.
THEOREM ServiceKeepsQuotas == Spec => [](ActiveQuota /\ RateLimit)
BY ServiceUsesStore, ActiveQuotaHolds, RateLimitHolds, PTL DEF UsesStore

\* And a row of the service only moves forward.
THEOREM ServiceOnlyForward == Spec => OnlyForward
BY ServiceUsesStore, RowsOnlyMoveForward DEF UsesStore

-----------------------------------------------------------------------------

\* The workers that take a new job in a step.
LEMMA HoldChanges ==
    ASSUME TypeInv, [Next]_vars, NEW w \in Workers, Busy(w)'
    PROVE  \/ Busy(w) /\ hold'[w] = hold[w]
           \/ \E j \in Jobs : /\ ClaimNextJob(j)
                              /\ hold' = [hold EXCEPT ![w] = j]
                              /\ \A v \in Workers : v # w => pc'[v] = pc[v]
<1> USE DEF Busy, TypeInv, ServiceTypeOK
<1>1. CASE UNCHANGED <<pc, hold>>
  BY <1>1
<1>2. CASE Handler \/ CleanUp \/ Start \/ Tick \/ UNCHANGED vars
  BY <1>1, <1>2 DEF Handler, PostJob, PutOpen, PutFinish, PutOverflow,
     PutDisconnect, CancelRead, CancelCommit, CleanUp, Start, Tick, vars,
     workerVars
<1>3. CASE Death
  <2>1. pc' = [v \in Workers |-> "idle"]
    BY <1>3 DEF Death, Crash, CrashInSweep, CrashInPostJob, CrashInCleanUp, CrashInCancel,
       CrashInComplete, Die
  <2>2. QED
    BY <2>1
<1>4. ASSUME NEW v \in Workers, NEW j \in Jobs, Claim(v, j)
      PROVE  \/ Busy(w) /\ hold'[w] = hold[w]
             \/ \E k \in Jobs : /\ ClaimNextJob(k)
                                /\ hold' = [hold EXCEPT ![w] = k]
                                /\ \A u \in Workers : u # w => pc'[u] = pc[u]
  <2>1. /\ ClaimNextJob(j)
        /\ hold' = [hold EXCEPT ![v] = j]
        /\ pc' = [pc EXCEPT ![v] = "submitted"]
    BY <1>4 DEF Claim, Goto
  <2>2. CASE v = w
    BY <2>1, <2>2
  <2>3. CASE v # w
    BY <2>1, <2>3
  <2>4. QED
    BY <2>2, <2>3
<1>5. ASSUME NEW v \in Workers, NEW j \in Jobs, ClaimLost(v, j)
      PROVE  UNCHANGED <<pc, hold>>
  BY <1>5 DEF ClaimLost, workerVars
<1>6. ASSUME NEW v \in Workers, WorkerStep(v) \/ BreakIdlePool(v)
      PROVE  Busy(w) /\ hold'[w] = hold[w]
  <2>1. CASE OpenZip(v) \/ Extract(v) \/ Analyse(v) \/ Raise(v) \/ CrashAnalysis(v)
    BY <2>1 DEF OpenZip, Extract, Analyse, Raise, CrashAnalysis, Proceed, Analysis
  <2>2. CASE StartJudge(v) \/ EndJudge(v) \/ WriteReport(v)
    BY <2>2 DEF StartJudge, EndJudge, WriteReport, Goto, Proceed
  <2>3. CASE FailJob(v) \/ TimeOut(v) \/ WriteFails(v) \/ Complete(v)
    BY <2>3 DEF FailJob, TimeOut, WriteFails, Complete, Release, Goto
  <2>4. CASE BreakIdlePool(v)
    BY <2>4 DEF BreakIdlePool
  <2>5. QED
    BY <1>6, <2>1, <2>2, <2>3, <2>4 DEF WorkerStep
<1>7. QED
  BY <1>1, <1>2, <1>3, <1>4, <1>5, <1>6 DEF Next, Pickup

LEMMA OneHolderStep ==
    TypeInv /\ OneHolder /\ [Next]_vars => OneHolder'
<1> SUFFICES ASSUME TypeInv, OneHolder, [Next]_vars PROVE OneHolder'
  OBVIOUS
<1> DEFINE Past(s) == s \notin {"absent", "awaiting_upload", "queued"}
<1>1. \A j \in Jobs : Past(status[j]) => Past(status'[j])
  BY StepUsesStore, RowMoves DEF TypeInv, Active, Terminal, Expired
<1>2. ASSUME NEW w \in Workers, Busy(w)'
      PROVE  Past(status'[hold'[w]])
  <2>1. CASE Busy(w) /\ hold'[w] = hold[w]
    BY <1>1, <2>1 DEF OneHolder, TypeInv, BusyHasJob
  <2>2. CASE \E j \in Jobs : /\ ClaimNextJob(j)
                             /\ hold' = [hold EXCEPT ![w] = j]
    BY <2>2 DEF ClaimNextJob, TypeInv, ServiceTypeOK, StoreTypeOK
  <2>3. QED
    BY <1>2, <2>1, <2>2, HoldChanges
<1>3. ASSUME NEW v \in Workers, NEW w \in Workers, v # w, Busy(v)', Busy(w)'
      PROVE  hold'[v] # hold'[w]
  <2>1. ASSUME NEW x \in Workers, NEW y \in Workers, x # y, Busy(x)', Busy(y)',
               NEW j \in Jobs, ClaimNextJob(j), hold' = [hold EXCEPT ![x] = j],
               \A u \in Workers : u # x => pc'[u] = pc[u]
        PROVE  hold'[x] # hold'[y]
    <3>1. hold'[x] = j /\ hold'[y] = hold[y] /\ Busy(y)
      BY <2>1 DEF TypeInv, ServiceTypeOK, Busy
    <3>2. status[j] = "queued" /\ Past(status[hold[y]])
      BY <2>1, <3>1 DEF ClaimNextJob, OneHolder
    <3>3. QED
      BY <3>1, <3>2
  <2>2. CASE Busy(v) /\ hold'[v] = hold[v] /\ Busy(w) /\ hold'[w] = hold[w]
    BY <1>3, <2>2 DEF OneHolder
  <2>3. CASE ~(Busy(v) /\ hold'[v] = hold[v])
    BY <1>3, <2>1, <2>3, HoldChanges
  <2>4. CASE ~(Busy(w) /\ hold'[w] = hold[w])
    BY <1>3, <2>1, <2>4, HoldChanges
  <2>5. QED
    BY <2>2, <2>3, <2>4
<1>4. QED
  BY <1>2, <1>3 DEF OneHolder

\* No job is ever held by two workers, and a held one cannot be claimed.
THEOREM OneHolderHolds == Spec => []OneHolder
<1>1. ServiceInit => OneHolder
  BY DEF ServiceInit, OneHolder, Busy
<1>2. QED
  BY <1>1, OneHolderStep, TypeInvCorrect, PTL DEF Spec

-----------------------------------------------------------------------------
(* The files of a job.  FileStep and RowStep say once what a step can do   *)
(* to a directory, and to a row because of one; that a directory never     *)
(* outlives its row, that the uploaded zip is there until the analysis has *)
(* read it, and that the report of a job that is done stays, follow.       *)

\* Why a file disappears, why one appears, and that a deletion leaves nothing.
FileStep(j) ==
    /\ \A f \in disk[j] \ disk'[j] :
          \/ status[j] = "absent" \/ status'[j] \in {"absent", "deleted", "cancelled"}
          \/ Expired(j) /\ \A w \in Workers : pc'[w] = "idle"
          \/ NeverUploaded(j) /\ status'[j] = "failed"
          \/ /\ f \in Zip
             /\ status[j] = "awaiting_upload" \/ \E c \in Uploaders : put[c] = j
          \/ f \in Zip \cup {"work"} /\ status'[j] \notin Active
    /\ \A f \in disk'[j] \ disk[j] :
          \/ status'[j] \in {"awaiting_upload", "queued"}
          \/ /\ status'[j] = status[j]
             /\ \E w \in Workers : Busy(w) /\ hold[w] = j
    /\ status'[j] = "deleted" /\ status[j] # "deleted" => disk'[j] = {}

\* Who queues a row, completes it, or fails one that had ended.
RowStep(j) ==
    /\ status'[j] = "queued" /\ status[j] # "queued" =>
          \E c \in Uploaders :
             /\ put[c] = j /\ put'[c] = NoJob
             /\ fd[c] = "own" => "input" \in disk'[j]
    /\ status'[j] = "done" /\ status[j] # "done" =>
          \E w \in Workers : /\ Completing(w) /\ hold[w] = j
                             /\ disk[j] \ disk'[j] \subseteq Zip \cup {"work"}
    /\ status'[j] = "failed" /\ status[j] \in {"done", "cancelled"} =>
          \E w \in Workers : Busy(w) /\ hold[w] = j /\ pc'[w] = "idle"

JobStep(j) == FileStep(j) /\ RowStep(j)

\* What a step of the service can do to a row.
LEMMA StepRows ==
    ASSUME TypeInv, [Next]_vars, NEW j \in Jobs
    PROVE  \/ status'[j] = status[j]
           \/ status[j] = "absent" /\ status'[j] = "awaiting_upload"
           \/ status[j] = "awaiting_upload" /\ status'[j] = "queued"
           \/ status[j] = "queued" /\ status'[j] = "running"
           \/ status[j] \in Active \cup Terminal /\ status'[j] \in Terminal
           \/ Expired(j) /\ status'[j] = "deleted"
<1>1. CreateJob(j) => status'[j] = "awaiting_upload"
  BY DEF CreateJob, TypeInv, StoreTypeOK
<1>2. QED
  BY <1>1, StepUsesStore, RowMoves DEF TypeInv

LEMMA SameFiles ==
    ASSUME NEW j \in Jobs, UNCHANGED disk, status'[j] = status[j]
    PROVE  JobStep(j)
BY DEF JobStep, FileStep, RowStep

LEMMA HandlerFiles ==
    ASSUME TypeInv, Handler, NEW j \in Jobs
    PROVE  JobStep(j)
<1> USE DEF TypeInv, ServiceTypeOK, StoreTypeOK
<1>1. ASSUME NEW k \in Jobs, PostJob(k)
      PROVE  JobStep(j)
  BY <1>1 DEF PostJob, CreateJob, JobStep, FileStep, RowStep
<1>2. ASSUME NEW c \in Uploaders, NEW k \in Jobs, PutOpen(c, k)
      PROVE  JobStep(j)
  BY <1>2 DEF PutOpen, storeVars, JobStep, FileStep, RowStep
<1>3. ASSUME NEW c \in Uploaders, PutFinish(c)
      PROVE  JobStep(j)
  <2> DEFINE k == put[c]
  <2>1. k \in Jobs /\ put' = [put EXCEPT ![c] = NoJob]
    BY <1>3 DEF PutFinish
  <2>2. CASE MarkUploaded(k)
    BY <1>3, <2>1, <2>2 DEF PutFinish, MarkUploaded, UnlinkZip, JobStep, FileStep, RowStep,
       Zip, Active
  <2>3. CASE UnlinkZip(k) /\ UNCHANGED storeVars
    BY <2>1, <2>3 DEF UnlinkZip, storeVars, JobStep, FileStep, RowStep
  <2>4. QED
    BY <1>3, <2>2, <2>3 DEF PutFinish
<1>4. ASSUME NEW c \in Uploaders, PutOverflow(c)
      PROVE  JobStep(j)
  BY <1>4 DEF PutOverflow, UnlinkZip, storeVars, JobStep, FileStep, RowStep
<1>5. ASSUME NEW c \in Cancellers, CancelCommit(c)
      PROVE  JobStep(j)
  <2>1. SetStatus(cancel[c], "cancelled") /\ RemoveDir(cancel[c])
    BY <1>5 DEF CancelCommit
  <2>2. QED
    BY <2>1 DEF SetStatus, RemoveDir, storeVars, InTable, Status, Active, Terminal, JobStep,
       FileStep, RowStep
<1>6. ASSUME \/ \E c \in Uploaders : PutDisconnect(c)
             \/ \E c \in Cancellers, k \in Jobs : CancelRead(c, k)
      PROVE  JobStep(j)
  BY <1>6, SameFiles DEF PutDisconnect, CancelRead, storeVars
<1>7. QED
  BY <1>1, <1>2, <1>3, <1>4, <1>5, <1>6 DEF Handler

LEMMA WorkerFiles ==
    ASSUME TypeInv, NEW w \in Workers, NEW j \in Jobs,
           WorkerStep(w) \/ Pickup(w) \/ BreakIdlePool(w)
    PROVE  JobStep(j)
<1> USE DEF TypeInv, ServiceTypeOK, StoreTypeOK
<1>1. CASE \/ OpenZip(w) \/ CrashAnalysis(w) \/ StartJudge(w) \/ EndJudge(w)
           \/ WriteFails(w) \/ BreakIdlePool(w)
  BY <1>1, SameFiles DEF OpenZip, CrashAnalysis, StartJudge, EndJudge, WriteFails,
     BreakIdlePool, storeVars
<1>2. CASE Extract(w) \/ Analyse(w) \/ Raise(w) \/ WriteReport(w)
  <2>1. /\ Busy(w) /\ status' = status
        /\ \/ disk' = disk
           \/ \E F : disk' = [disk EXCEPT ![hold[w]] = @ \cup F]
    BY <1>2 DEF Extract, Analyse, Raise, WriteReport, Busy, Analysis, storeVars
  <2>2. QED
    BY <2>1 DEF BusyHasJob, JobStep, FileStep, RowStep
<1>3. CASE Pickup(w)
  BY <1>3 DEF Pickup, Claim, ClaimLost, ClaimNextJob, JobStep, FileStep, RowStep
<1>4. CASE FailJob(w) \/ TimeOut(w)
  <2>1. /\ Busy(w) /\ hold[w] \in Jobs /\ UNCHANGED disk
        /\ SetStatus(hold[w], "failed") /\ pc'[w] = "idle"
    BY <1>4 DEF FailJob, TimeOut, BusyHasJob, Busy, Analysis, Release, Goto
  <2>2. QED
    BY <2>1 DEF SetStatus, storeVars, InTable, Active, Terminal, JobStep, FileStep, RowStep
<1>5. CASE Complete(w)
  <2>1. /\ Busy(w) /\ hold[w] \in Jobs /\ Completing(w)
        /\ SetStatus(hold[w], "done")
        /\ disk' = [disk EXCEPT ![hold[w]] = @ \ (Zip \cup {"work"})]
    BY <1>5 DEF Complete, Completing, BusyHasJob, Busy
  <2>2. QED
    BY <2>1 DEF SetStatus, storeVars, InTable, Active, Terminal, Zip, JobStep, FileStep, RowStep
<1>6. QED
  BY <1>1, <1>2, <1>3, <1>4, <1>5 DEF WorkerStep

\* What the pass of the clean-up does to a row.
LEMMA PassRows ==
    ASSUME StoreTypeOK, CleanupPass, NEW j \in Jobs
    PROVE  /\ Expired(j) => status'[j] = "deleted"
           /\ NeverUploaded(j) => status'[j] = "failed"
           /\ ~Expired(j) /\ status[j] # "deleted" => status'[j] # "deleted"
           /\ status'[j] \in {"queued", "done"} => status[j] = status'[j]
           /\ status[j] \in {"done", "cancelled"} => status'[j] # "failed"
BY DEF StoreTypeOK, CleanupPass, Expired, NeverUploaded, TooOld, Terminal

LEMMA DeathFiles ==
    ASSUME TypeInv, Death, NEW j \in Jobs
    PROVE  JobStep(j)
<1> USE DEF TypeInv, ServiceTypeOK, StoreTypeOK
<1>1. \A w \in Workers : pc'[w] = "idle"
  BY DEF Death, Crash, CrashInSweep, CrashInPostJob, CrashInCleanUp, CrashInCancel,
     CrashInComplete, Die
<1>2. CASE Crash
  BY <1>2, SameFiles DEF Crash, storeVars
<1>3. ASSUME NEW k \in Jobs, CrashInPostJob(k)
      PROVE  JobStep(j)
  BY <1>3 DEF CrashInPostJob, CreateJob, JobStep, FileStep, RowStep
<1>4. ASSUME NEW k \in Jobs, CrashInCleanUp(k)
      PROVE  JobStep(j)
  BY <1>1, <1>4 DEF CrashInCleanUp, storeVars, JobStep, FileStep, RowStep
<1>5. ASSUME NEW c \in Cancellers, CrashInCancel(c)
      PROVE  JobStep(j)
  <2>1. SetStatus(cancel[c], "cancelled") /\ UNCHANGED disk
    BY <1>5 DEF CrashInCancel
  <2>2. QED
    BY <2>1 DEF SetStatus, storeVars, JobStep, FileStep, RowStep
<1>6. ASSUME NEW w \in Workers, CrashInComplete(w)
      PROVE  JobStep(j)
  <2>1. SetStatus(hold[w], "done") /\ UNCHANGED disk /\ Completing(w)
    BY <1>6 DEF CrashInComplete
  <2>2. QED
    BY <2>1 DEF SetStatus, storeVars, JobStep, FileStep, RowStep
<1>7. CASE CrashInSweep
  <2>1. CleanupPass /\ disk'[j] = IF Expired(j) THEN {} ELSE disk[j]
    BY <1>7 DEF CrashInSweep
  <2>2. QED
    BY <1>1, <2>1, PassRows DEF JobStep, FileStep, RowStep
<1>8. QED
  BY <1>2, <1>3, <1>4, <1>5, <1>6, <1>7 DEF Death

LEMMA StepFiles ==
    ASSUME TypeInv, [Next]_vars, NEW j \in Jobs
    PROVE  JobStep(j)
<1>1. CASE CleanUp
  <2>1. CleanupPass /\ disk'[j] = IF Expired(j) \/ NeverUploaded(j) THEN {} ELSE disk[j]
    BY <1>1 DEF CleanUp
  <2>2. QED
    BY <2>1, PassRows DEF JobStep, FileStep, RowStep, TypeInv
<1>2. CASE Start
  BY <1>2 DEF Start, ReconcileStartup, JobStep, FileStep, RowStep, TypeInv, StoreTypeOK
<1>3. CASE Tick \/ UNCHANGED vars
  BY <1>3, SameFiles DEF Tick, ClockTick, vars, storeVars
<1>4. QED
  BY <1>1, <1>2, <1>3, HandlerFiles, WorkerFiles, DeathFiles DEF Next

-----------------------------------------------------------------------------
(* What a step does to a worker.                                           *)

Keeps(w) == pc'[w] = pc[w] /\ hold'[w] = hold[w] /\ spent'[w] = spent[w]

StageStep(w) ==
    \/ Keeps(w)
    \/ pc'[w] = "idle"
    \/ /\ pc'[w] = "submitted" /\ spent'[w] = 0
       /\ hold'[w] \in Jobs /\ ClaimNextJob(hold'[w])
    \/ /\ Tick /\ Busy(w) /\ spent[w] < Limit(pc[w])
       /\ pc'[w] = pc[w] /\ hold'[w] = hold[w] /\ spent'[w] = spent[w] + 1
    \/ /\ pc[w] \in Analysis
       /\ pc'[w] \in (Analysis \cup Outcome) \ {"submitted"}
       /\ hold'[w] = hold[w] /\ spent'[w] = spent[w]
       /\ pc'[w] = "analysed" => "report" \in disk'[hold[w]]
    \/ /\ <<pc[w], pc'[w]>> \in {<<"analysed", "judging">>, <<"judging", "writing">>}
       /\ hold'[w] = hold[w] /\ spent'[w] = 0
    \/ /\ pc[w] = "writing" /\ pc'[w] = "written"
       /\ hold'[w] = hold[w] /\ spent'[w] = spent[w]

LEMMA OwnStage ==
    ASSUME TypeInv, NEW w \in Workers,
           WorkerStep(w) \/ Pickup(w) \/ BreakIdlePool(w)
    PROVE  /\ StageStep(w)
           /\ \A v \in Workers : v # w => Keeps(v)
<1> USE DEF TypeInv, ServiceTypeOK, Keeps, StageStep, Goto, Proceed, Release
<1>1. CASE BreakIdlePool(w) \/ \E j \in Jobs : ClaimLost(w, j)
  BY <1>1 DEF BreakIdlePool, ClaimLost, workerVars
<1>2. ASSUME NEW j \in Jobs, Claim(w, j)
      PROVE  StageStep(w) /\ \A v \in Workers : v # w => Keeps(v)
  BY <1>2 DEF Claim
<1>3. CASE OpenZip(w) \/ CrashAnalysis(w) \/ Raise(w) \/ Extract(w)
  BY <1>3 DEF OpenZip, CrashAnalysis, Raise, Extract, Analysis, Outcome
<1>4. CASE Analyse(w)
  <2>1. hold[w] \in Jobs
    BY <1>4 DEF Analyse, BusyHasJob, Busy
  <2>2. QED
    BY <1>4, <2>1 DEF Analyse, Analysis, Outcome
<1>5. CASE StartJudge(w) \/ EndJudge(w) \/ WriteReport(w)
  BY <1>5 DEF StartJudge, EndJudge, WriteReport
<1>6. CASE FailJob(w) \/ TimeOut(w) \/ WriteFails(w) \/ Complete(w)
  BY <1>6 DEF FailJob, TimeOut, WriteFails, Complete
<1>7. QED
  BY <1>1, <1>2, <1>3, <1>4, <1>5, <1>6 DEF WorkerStep, Pickup

LEMMA StepStages ==
    ASSUME TypeInv, [Next]_vars, NEW w \in Workers
    PROVE  StageStep(w)
<1>1. CASE Handler \/ CleanUp \/ Start \/ UNCHANGED vars
  BY <1>1 DEF Handler, PostJob, PutOpen, PutFinish, PutOverflow, PutDisconnect, CancelRead,
     CancelCommit, CleanUp, Start, vars, workerVars, StageStep, Keeps
<1>2. CASE Tick
  BY <1>2 DEF Tick, StageStep, Busy
<1>3. CASE Death
  BY <1>3 DEF Death, Crash, CrashInSweep, CrashInPostJob, CrashInCleanUp, CrashInCancel,
     CrashInComplete, Die, StageStep
<1>4. ASSUME NEW v \in Workers, WorkerStep(v) \/ Pickup(v) \/ BreakIdlePool(v)
      PROVE  StageStep(w)
  BY <1>4, OwnStage DEF StageStep
<1>5. QED
  BY <1>1, <1>2, <1>3, <1>4 DEF Next

-----------------------------------------------------------------------------
(* No directory without a row.                                             *)

\* How long a job may have been with its worker before the current stage.
Before(stage) ==
    CASE stage \in Analysis \cup Outcome -> 0
      [] stage = "judging"               -> JobTimeout
      [] OTHER                           -> JobTimeout + JudgeTimeout

\* finished_at is set by what ends a job only.
NullUntilEnd == \A j \in Jobs : status[j] \notin Terminal => finished[j] = 0

\* The row of a job a worker has is in the table, even if a cancel or the sweep
\* has ended the job long ago: it has not ended for longer than the stages take.
HeldRow(w) ==
    Busy(w) => /\ InTable(hold[w])
               /\ finished[hold[w]] <= Before(pc[w]) + spent[w]
               /\ spent[w] <= Limit(pc[w])

OrphanInv == NullUntilEnd /\ (\A w \in Workers : HeldRow(w)) /\ NoOrphanDirectory

LEMMA StatementKeepsAges ==
    ASSUME StoreTypeOK, NullUntilEnd, [Statement]_storeVars, NEW j \in Jobs
    PROVE  finished'[j] <= finished[j] /\ (status'[j] \notin Terminal => finished'[j] = 0)
<1> USE JobsAssumption DEF StoreTypeOK, NullUntilEnd, Ages
<1>1. ASSUME NEW k \in Jobs, CreateJob(k) \/ ClaimNextJob(k) \/ MarkUploaded(k)
      PROVE  finished' = finished /\ (status'[j] = status[j] \/ status[j] \notin Terminal)
  BY <1>1 DEF CreateJob, ClaimNextJob, MarkUploaded, Terminal
<1>2. ASSUME NEW k \in Jobs, NEW s \in Terminal, SetStatus(k, s)
      PROVE  finished'[j] <= finished[j] /\ (status'[j] \notin Terminal => finished'[j] = 0)
  BY <1>2 DEF SetStatus, storeVars
<1>3. CASE ReconcileStartup
  BY <1>3 DEF ReconcileStartup, Terminal
<1>4. CASE CleanupPass
  BY <1>4 DEF CleanupPass, Terminal
<1>5. CASE UNCHANGED storeVars
  BY <1>5 DEF storeVars
<1>6. QED
  BY <1>1, <1>2, <1>3, <1>4, <1>5 DEF Statement

LEMMA TickAges ==
    ASSUME StoreTypeOK, Tick, NEW j \in Jobs
    PROVE  /\ finished'[j] <= finished[j] + 1
           /\ status'[j] \notin Terminal => finished'[j] = 0
BY JobsAssumption DEF StoreTypeOK, Tick, ClockTick, Older, Ages

\* A row in the hands of a worker is not old enough to be deleted.
LEMMA HeldNotExpired ==
    ASSUME TypeInv, NEW w \in Workers, HeldRow(w), Busy(w)
    PROVE  ~Expired(hold[w])
<1>1. hold[w] \in Jobs /\ finished[hold[w]] \in Nat /\ spent[w] \in Nat
  BY JobsAssumption DEF TypeInv, StoreTypeOK, Ages, ServiceTypeOK, BusyHasJob
<1>2. Before(pc[w]) + Limit(pc[w]) <= JobTimeout + JudgeTimeout + WriteTime
  BY JobsAssumption, ServiceAssumption DEF Before, Limit
<1>3. /\ Before(pc[w]) \in Nat /\ Limit(pc[w]) \in Nat
  BY JobsAssumption, ServiceAssumption DEF Before, Limit
<1>4. finished[hold[w]] <= Retention
  BY <1>1, <1>2, <1>3, LateWritesAssumption, JobsAssumption, ServiceAssumption DEF HeldRow
<1>5. QED
  BY <1>1, <1>4, JobsAssumption DEF Expired

\* Only a row that expired leaves the table.
LEMMA InTableStays ==
    ASSUME TypeInv, [Next]_vars, NEW j \in Jobs, InTable(j)
    PROVE  InTable(j)' \/ (Expired(j) /\ status'[j] = "deleted")
BY StepRows DEF TypeInv, InTable, Active, Terminal

LEMMA HeldRowStep ==
    ASSUME TypeInv, OrphanInv, [Next]_vars, NEW w \in Workers
    PROVE  HeldRow(w)'
<1> SUFFICES ASSUME Busy(w)'
             PROVE  /\ InTable(hold[w])'
                    /\ finished'[hold'[w]] <= Before(pc'[w]) + spent'[w]
                    /\ spent'[w] <= Limit(pc'[w])
  BY DEF HeldRow
<1> DEFINE j == hold[w]
<1>1. /\ \A k \in Jobs : finished[k] \in Nat /\ finished'[k] \in Nat
      /\ spent[w] \in Nat
      /\ JobTimeout \in Nat /\ JudgeTimeout \in Nat /\ WriteTime \in Nat
      /\ Before(pc[w]) \in Nat /\ Before(pc'[w]) \in Nat
  BY TypeInvStep, JobsAssumption, ServiceAssumption
     DEF TypeInv, StoreTypeOK, Ages, ServiceTypeOK, Before
<1>2. ASSUME hold'[w] \in Jobs, ClaimNextJob(hold'[w]), pc'[w] = "submitted", spent'[w] = 0
      PROVE  /\ InTable(hold[w])'
             /\ finished'[hold'[w]] <= Before(pc'[w]) + spent'[w]
             /\ spent'[w] <= Limit(pc'[w])
  <2>1. finished'[hold'[w]] = 0 /\ status'[hold'[w]] = "running"
    BY <1>2 DEF ClaimNextJob, OrphanInv, NullUntilEnd, Terminal, TypeInv, StoreTypeOK
  <2>2. QED
    BY <1>1, <1>2, <2>1 DEF InTable, Active, Limit, Analysis
<1>3. ASSUME Busy(w), hold'[w] = j
      PROVE  InTable(j)'
  BY <1>3, InTableStays, HeldNotExpired DEF OrphanInv, HeldRow, TypeInv, BusyHasJob
<1>4. ASSUME Busy(w)
      PROVE  j \in Jobs /\ finished[j] <= Before(pc[w]) + spent[w] /\ spent[w] <= Limit(pc[w])
  BY <1>4 DEF OrphanInv, HeldRow, TypeInv, BusyHasJob
<1>5. CASE Tick
  <2>1. /\ Busy(w) /\ pc'[w] = pc[w] /\ hold'[w] = j
        /\ spent'[w] = spent[w] + 1 /\ spent[w] < Limit(pc[w])
    BY <1>5 DEF Tick, Busy
  <2>2. finished'[j] <= finished[j] + 1
    BY <1>4, <1>5, <2>1, TickAges DEF TypeInv
  <2>3. Limit(pc[w]) \in Nat
    BY <1>1 DEF Limit
  <2>4. finished'[j] <= Before(pc[w]) + (spent[w] + 1)
    BY <1>1, <1>4, <2>1, <2>2
  <2>5. QED
    BY <1>1, <1>3, <2>1, <2>3, <2>4
<1>6. CASE ~Tick /\ Busy(w) /\ hold'[w] = j
  <2>1. finished'[j] <= finished[j]
    BY <1>4, <1>6, StepStatement, StatementKeepsAges DEF TypeInv, OrphanInv
  <2>2. /\ finished'[j] <= Before(pc[w]) + spent[w] /\ spent[w] <= Limit(pc[w])
        /\ finished'[j] \in Nat /\ InTable(j)'
    BY <1>1, <1>3, <1>4, <1>6, <2>1
  <2>3. CASE Keeps(w)
    BY <1>6, <2>2, <2>3 DEF Keeps
  <2>4. CASE /\ pc[w] \in Analysis /\ pc'[w] \in (Analysis \cup Outcome) \ {"submitted"}
             /\ spent'[w] = spent[w]
    <3>1. Before(pc'[w]) = Before(pc[w]) /\ Limit(pc'[w]) = Limit(pc[w])
      BY <2>4 DEF Before, Limit, Analysis, Outcome
    <3>2. QED
      BY <1>6, <2>2, <2>4, <3>1
  <2>5. CASE <<pc[w], pc'[w]>> \in {<<"analysed", "judging">>, <<"judging", "writing">>}
             /\ spent'[w] = 0
    <3>1. Before(pc'[w]) = Before(pc[w]) + Limit(pc[w])
      BY <1>1, <2>5 DEF Before, Limit, Analysis, Outcome
    <3>2. Limit(pc[w]) \in Nat /\ Limit(pc'[w]) \in Nat
      BY <1>1 DEF Limit
    <3>3. finished'[j] <= Before(pc'[w])
      BY <1>1, <2>2, <3>1, <3>2
    <3>4. QED
      BY <1>1, <1>6, <2>2, <2>5, <3>2, <3>3
  <2>6. CASE pc[w] = "writing" /\ pc'[w] = "written" /\ spent'[w] = spent[w]
    <3>1. Before(pc'[w]) = Before(pc[w]) /\ Limit(pc'[w]) = Limit(pc[w])
      BY <2>6 DEF Before, Limit, Analysis, Outcome
    <3>2. QED
      BY <1>6, <2>2, <2>6, <3>1
  <2>7. QED
    BY <1>2, <1>6, <2>3, <2>4, <2>5, <2>6, StepStages DEF StageStep, Busy
<1>7. QED
  BY <1>2, <1>5, <1>6, StepStages DEF StageStep, Keeps, Busy, Analysis

LEMMA OrphanInvStep == TypeInv /\ OrphanInv /\ [Next]_vars => OrphanInv'
<1> SUFFICES ASSUME TypeInv, OrphanInv, [Next]_vars PROVE OrphanInv'
  OBVIOUS
<1>1. NullUntilEnd'
  BY StepStatement, StatementKeepsAges, TickAges DEF NullUntilEnd, OrphanInv, TypeInv
<1>2. \A w \in Workers : HeldRow(w)'
  BY HeldRowStep
<1>3. ASSUME NEW j \in Jobs, disk'[j] # {}
      PROVE  InTable(j)'
  <2>1. FileStep(j)
    BY StepFiles DEF JobStep
  <2>2. CASE disk[j] # {}
    <3>1. InTable(j) /\ (InTable(j)' \/ status'[j] = "deleted")
      BY <2>2, InTableStays DEF OrphanInv, NoOrphanDirectory
    <3>2. status'[j] # "deleted"
      BY <1>3, <2>1, <3>1 DEF FileStep, InTable, Active, Terminal
    <3>3. QED
      BY <3>1, <3>2
  <2>3. CASE disk[j] = {}
    <3>1. PICK f : f \in disk'[j] \ disk[j]
      BY <1>3, <2>3
    <3>2. \/ status'[j] \in {"awaiting_upload", "queued"}
          \/ /\ status'[j] = status[j]
             /\ \E w \in Workers : Busy(w) /\ hold[w] = j
      BY <2>1, <3>1 DEF FileStep
    <3>3. QED
      BY <3>2 DEF OrphanInv, HeldRow, InTable, Active
  <2>4. QED
    BY <2>2, <2>3
<1>4. QED
  BY <1>1, <1>2, <1>3 DEF OrphanInv, NoOrphanDirectory

\* A directory never outlives its row, although a cancel or the sweep may end a
\* job that a worker goes on to extract, and to write a report for.
THEOREM NoOrphanDirectoryHolds == Spec => []NoOrphanDirectory
<1>1. ServiceInit => OrphanInv
  BY DEF ServiceInit, Init, OrphanInv, NullUntilEnd, HeldRow, Busy, NoOrphanDirectory
<1>2. OrphanInv => NoOrphanDirectory
  BY DEF OrphanInv
<1>3. QED
  BY <1>1, <1>2, OrphanInvStep, TypeInvCorrect, PTL DEF Spec

\* What was deleted stays deleted: neither the row nor anything in the directory
\* of the job ever comes back.
THEOREM DeletedForGood ==
    ASSUME NEW j \in Jobs
    PROVE  Spec => [](status[j] = "deleted" => [](status[j] = "deleted" /\ disk[j] = {}))
<1> DEFINE Deleted == status[j] = "deleted"
<1>1. TypeInv /\ Deleted /\ [Next]_vars => Deleted'
  BY StepRows DEF Active, Terminal, Expired
<1>2. NoOrphanDirectory /\ Deleted => disk[j] = {}
  BY DEF NoOrphanDirectory, InTable, Active, Terminal
<1>3. QED
  BY <1>1, <1>2, TypeInvCorrect, NoOrphanDirectoryHolds, PTL DEF Spec

-----------------------------------------------------------------------------
(* The input of a job.                                                     *)

\* No two PUTs of one job overlap.
PutsApart ==
    \A c, d \in Uploaders : put[c] # NoJob /\ put[c] = put[d] => c = d

\* What a step does to an upload.
PutStep(c) ==
    put'[c] # NoJob =>
      \/ /\ put[c] = NoJob /\ put'[c] \in Jobs
         /\ status[put'[c]] = "awaiting_upload" /\ status' = status
         /\ \/ fd'[c] = "own"
            \/ \E d \in Uploaders : d # c /\ put'[d] = put'[c]
      \/ /\ put'[c] = put[c]
         /\ \/ fd'[c] = fd[c]
            \/ \E d \in Uploaders : d # c /\ put[c] \in {put[d], put'[d]}
            \/ status'[put[c]] # "awaiting_upload"

LEMMA StepPuts ==
    ASSUME TypeInv, [Next]_vars, NEW c \in Uploaders
    PROVE  PutStep(c)
<1> USE DEF TypeInv, ServiceTypeOK, StoreTypeOK
<1>1. ASSUME UNCHANGED <<put, fd>>
      PROVE  PutStep(c)
  BY <1>1 DEF PutStep
<1>2. ASSUME NEW d \in Uploaders, NEW j \in Jobs, PutOpen(d, j)
      PROVE  PutStep(c)
  <2>1. put[d] = NoJob /\ put' = [put EXCEPT ![d] = j] /\ status[j] = "awaiting_upload"
    BY <1>2 DEF PutOpen
  <2>2. status' = status
    BY <1>2 DEF PutOpen, storeVars
  <2>3. CASE c = d
    <3>1. fd'[c] = "own" \/ \E e \in Uploaders : put[e] = j
      BY <1>2, <2>1, <2>3, ServiceAssumption DEF PutOpen, PutsTo
    <3>2. QED
      BY <2>1, <2>2, <2>3, <3>1, ServiceAssumption DEF PutStep
  <2>4. CASE c # d
    <3>1. fd'[c] = fd[c] \/ put[c] = j
      BY <1>2, <2>1, <2>4 DEF PutOpen, PutsTo
    <3>2. QED
      BY <2>1, <2>4, <3>1, ServiceAssumption DEF PutStep
  <2>5. QED
    BY <2>3, <2>4
<1>3. ASSUME NEW d \in Uploaders, PutFinish(d) \/ PutOverflow(d) \/ PutDisconnect(d)
      PROVE  PutStep(c)
  <2>1. /\ put' = [put EXCEPT ![d] = NoJob]
        /\ fd' \in {Close(d, fd), Close(d, Orphaned({put[d]}))}
    BY <1>3 DEF PutFinish, PutOverflow, PutDisconnect
  <2>2. CASE c = d
    BY <2>1, <2>2 DEF PutStep
  <2>3. CASE c # d
    <3>1. fd'[c] = fd[c] \/ put[c] = put[d]
      BY <2>1, <2>3 DEF Close, Orphaned, PutsTo
    <3>2. QED
      BY <2>1, <2>3, <3>1 DEF PutStep
  <2>4. QED
    BY <2>2, <2>3
\* Where a directory goes, so does the wait for its upload.
<1>4. ASSUME NEW js, put' = put, fd' = Orphaned(js), put[c] # NoJob,
             put[c] \in js => status'[put[c]] # "awaiting_upload"
      PROVE  PutStep(c)
  BY <1>4 DEF Orphaned, PutsTo, PutStep
<1>5. ASSUME NEW j \in Jobs, NEW s \in Terminal, SetStatus(j, s)
      PROVE  status'[j] # "awaiting_upload"
  BY <1>5 DEF SetStatus, storeVars, InTable, Active, Terminal
<1>6. ASSUME NEW d \in Cancellers, CancelCommit(d)
      PROVE  PutStep(c)
  <2>1. cancel[d] \in Jobs /\ SetStatus(cancel[d], "cancelled") /\ put' = put
        /\ fd' = Orphaned({cancel[d]})
    BY <1>6 DEF CancelCommit
  <2>2. QED
    BY <2>1, <1>4, <1>5 DEF Terminal, PutStep
<1>7. ASSUME NEW w \in Workers, Complete(w)
      PROVE  PutStep(c)
  <2>1. hold[w] \in Jobs /\ SetStatus(hold[w], "done") /\ put' = put
        /\ fd' = Orphaned({hold[w]})
    BY <1>7 DEF Complete, Completing, BusyHasJob, Busy
  <2>2. QED
    BY <2>1, <1>4, <1>5 DEF Terminal, PutStep
<1>8. CASE CleanUp
  <2> DEFINE reaped == {j \in Jobs : Expired(j) \/ NeverUploaded(j)}
  <2>1. CleanupPass /\ put' = put /\ fd' = Orphaned(reaped)
    BY <1>8 DEF CleanUp
  <2>2. \A j \in reaped : status'[j] # "awaiting_upload"
    BY <2>1, PassRows
  <2> HIDE DEF reaped
  <2>3. QED
    BY <2>1, <2>2, <1>4 DEF PutStep
<1>9. CASE Death
  BY <1>9 DEF Death, Crash, CrashInSweep, CrashInPostJob, CrashInCleanUp, CrashInCancel,
     CrashInComplete, Die, PutStep
<1>10. ASSUME NEW w \in Workers, WorkerStep(w) \/ Pickup(w) \/ BreakIdlePool(w), ~Complete(w)
       PROVE  UNCHANGED <<put, fd>>
  BY <1>10 DEF WorkerStep, OpenZip, Extract, Analyse, Raise, CrashAnalysis, FailJob,
     TimeOut, StartJudge, EndJudge, WriteReport, WriteFails, Pickup, Claim, ClaimLost,
     BreakIdlePool, requestVars
<1>11. CASE Tick \/ Start \/ UNCHANGED vars
  BY <1>1, <1>11 DEF Tick, Start, vars, requestVars
<1>12. ASSUME \/ \E j \in Jobs : PostJob(j)
              \/ \E d \in Cancellers, j \in Jobs : CancelRead(d, j)
       PROVE  UNCHANGED <<put, fd>>
  BY <1>12 DEF PostJob, CancelRead, requestVars
<1>13. QED
  BY <1>1, <1>2, <1>3, <1>6, <1>7, <1>8, <1>9, <1>10, <1>11, <1>12 DEF Next, Handler

\* A PUT still writes to the only input.zip of its job, or its job has ended:
\* a job is not queued under a PUT of its own.
PutInv ==
    \A c \in Uploaders : put[c] # NoJob =>
        /\ status[put[c]] \notin {"absent", "queued", "running"}
        /\ status[put[c]] = "awaiting_upload" => fd[c] = "own"

InputInv == PutInv /\ InputIntact

LEMMA PutInvStep ==
    ASSUME TypeInv, PutInv, PutsApart, PutsApart', [Next]_vars
    PROVE  PutInv'
<1> SUFFICES ASSUME NEW c \in Uploaders, put'[c] # NoJob
             PROVE  /\ status'[put'[c]] \notin {"absent", "queued", "running"}
                    /\ status'[put'[c]] = "awaiting_upload" => fd'[c] = "own"
  BY DEF PutInv
<1> USE ServiceAssumption DEF TypeInv, ServiceTypeOK
<1>1. PutStep(c)
  BY StepPuts
<1>2. CASE /\ put[c] = NoJob /\ status[put'[c]] = "awaiting_upload" /\ status' = status
           /\ fd'[c] = "own" \/ \E d \in Uploaders : d # c /\ put'[d] = put'[c]
  BY <1>2 DEF PutsApart
<1>3. CASE /\ put'[c] = put[c]
           /\ \/ fd'[c] = fd[c]
              \/ \E d \in Uploaders : d # c /\ put[c] \in {put[d], put'[d]}
              \/ status'[put[c]] # "awaiting_upload"
  <2> DEFINE j == put[c]
  <2>1. /\ j \in Jobs /\ put'[c] = j
        /\ status[j] \notin {"absent", "queued", "running"}
        /\ status[j] = "awaiting_upload" => fd[c] = "own"
    BY <1>3 DEF PutInv
  <2>2. status'[j] # "queued"
    <3>1. SUFFICES ASSUME status'[j] = "queued" PROVE FALSE
      OBVIOUS
    <3>2. PICK d \in Uploaders : put[d] = j /\ put'[d] = NoJob
      BY <2>1, <3>1, StepFiles DEF JobStep, RowStep
    <3>3. d # c
      BY <2>1, <3>2
    <3>4. QED
      BY <1>3, <3>2, <3>3 DEF PutsApart
  <2>3. /\ status'[j] \notin {"absent", "queued", "running"}
        /\ status'[j] = "awaiting_upload" => status[j] = "awaiting_upload"
    BY <2>1, <2>2, StepRows DEF Active, Terminal
  <2>4. fd'[c] = fd[c] \/ status'[j] # "awaiting_upload"
    BY <1>3, <2>1 DEF PutsApart
  <2>5. QED
    BY <2>1, <2>3, <2>4
<1>4. QED
  BY <1>1, <1>2, <1>3 DEF PutStep

LEMMA InputIntactStep ==
    ASSUME TypeInv, InputInv, PutsApart, PutsApart', [Next]_vars
    PROVE  InputIntact'
<1> USE DEF TypeInv, ServiceTypeOK
\* What is there stays, while the job waits or runs.
<1>1. ASSUME NEW j \in Jobs, status[j] \in {"queued", "running"}, "input" \in disk[j],
             status'[j] \in {"queued", "running"}
      PROVE  "input" \in disk'[j]
  <2>1. ~Expired(j) /\ ~NeverUploaded(j)
    BY <1>1 DEF Expired, NeverUploaded, Terminal
  <2>2. \A c \in Uploaders : put[c] # j
    BY <1>1, ServiceAssumption DEF InputInv, PutInv
  <2>3. QED
    BY <1>1, <2>1, <2>2, StepFiles DEF JobStep, FileStep, Active
<1>2. ASSUME NEW j \in Jobs, status'[j] = "queued"
      PROVE  "input" \in disk'[j]
  <2>1. CASE status[j] = "queued"
    BY <1>1, <1>2, <2>1 DEF InputInv, InputIntact
  <2>2. CASE status[j] # "queued"
    <3>1. PICK c \in Uploaders : put[c] = j /\ (fd[c] = "own" => "input" \in disk'[j])
      BY <1>2, <2>2, StepFiles DEF JobStep, RowStep
    <3>2. status[j] = "awaiting_upload"
      BY <1>2, <2>2, StepRows DEF Active, Terminal
    <3>3. fd[c] = "own"
      BY <3>1, <3>2, ServiceAssumption DEF InputInv, PutInv
    <3>4. QED
      BY <3>1, <3>3
  <2>3. QED
    BY <2>1, <2>2
<1>3. ASSUME NEW w \in Workers, pc'[w] = "submitted", status'[hold'[w]] = "running"
      PROVE  "input" \in disk'[hold'[w]]
  <2>1. CASE hold'[w] \in Jobs /\ ClaimNextJob(hold'[w])
    BY <1>1, <1>3, <2>1 DEF ClaimNextJob, InputInv, InputIntact
  <2>2. CASE pc[w] = "submitted" /\ hold'[w] = hold[w]
    <3>1. hold[w] \in Jobs
      BY <2>2 DEF BusyHasJob, Busy
    <3>2. status[hold[w]] \in {"queued", "running"}
      BY <1>3, <2>2, <3>1, StepRows DEF Active, Terminal
    <3>3. "input" \in disk[hold[w]]
      BY <2>2, <3>1, <3>2 DEF InputInv, InputIntact
    <3>4. QED
      BY <1>1, <1>3, <2>2, <3>1, <3>2, <3>3
  <2>3. QED
    BY <1>3, <2>1, <2>2, StepStages DEF StageStep, Keeps
<1>4. QED
  BY <1>2, <1>3 DEF InputIntact

\* For as long as PUTs of one job do not overlap, a queued job has its whole
\* zip, and so has a running one until its analysis opens it: a disconnect, a
\* retry, a cancel, a clean-up or a restart takes it from no such job.
THEOREM InputIntactHolds == Spec /\ []PutsApart => []InputIntact
<1>1. ServiceInit => InputInv
  BY DEF ServiceInit, Init, InputInv, PutInv, InputIntact
<1>2. TypeInv /\ InputInv /\ PutsApart /\ PutsApart' /\ [Next]_vars => InputInv'
  BY PutInvStep, InputIntactStep DEF InputInv
<1>3. InputInv => InputIntact
  BY DEF InputInv
<1>4. QED
  BY <1>1, <1>2, <1>3, TypeInvCorrect, PTL DEF Spec

-----------------------------------------------------------------------------
(* The report of a job.                                                    *)

\* A worker past the analysis has the report on disk, unless a cancel that
\* overlaps the execution removed it with the directory, or the row is gone.
ReportInv ==
    \A w \in Workers :
        pc[w] \in {"analysed"} \cup Wrapup /\ status[hold[w]] \in {"running", "failed"}
          => "report" \in disk[hold[w]]

LEMMA ReportInvStep == TypeInv /\ OneHolder /\ ReportInv /\ [Next]_vars => ReportInv'
<1> SUFFICES ASSUME TypeInv, OneHolder, ReportInv, [Next]_vars,
                    NEW w \in Workers, pc'[w] \in {"analysed"} \cup Wrapup,
                    status'[hold'[w]] \in {"running", "failed"}
             PROVE  "report" \in disk'[hold'[w]]
  BY DEF ReportInv
<1> USE DEF TypeInv, ServiceTypeOK
<1> DEFINE j == hold[w]
<1>1. /\ Busy(w) /\ hold'[w] = j
      /\ \/ "report" \in disk'[j]
         \/ pc[w] \in {"analysed"} \cup Wrapup
  BY StepStages DEF StageStep, Keeps, Busy, Wrapup, Analysis, Outcome
<1>2. CASE "report" \in disk'[j]
  BY <1>1, <1>2
<1>3. CASE pc[w] \in {"analysed"} \cup Wrapup
  <2>1. j \in Jobs /\ status[j] \notin {"absent", "awaiting_upload", "queued"}
    BY <1>1 DEF BusyHasJob, OneHolder
  <2>2. JobStep(j)
    BY <2>1, StepFiles
  <2>3. status[j] \notin {"done", "cancelled"}
    <3>1. SUFFICES ASSUME status[j] \in {"done", "cancelled"} PROVE FALSE
      OBVIOUS
    <3>2. status'[j] = "failed"
      BY <1>1, <2>1, <3>1, StepRows DEF Active, Terminal
    <3>3. PICK v \in Workers : Busy(v) /\ hold[v] = j /\ pc'[v] = "idle"
      BY <2>2, <3>1, <3>2 DEF JobStep, RowStep
    <3>4. v = w
      BY <1>1, <3>3 DEF OneHolder
    <3>5. QED
      BY <3>3, <3>4 DEF Wrapup
  <2>4. status[j] \in {"running", "failed"}
    BY <1>1, <2>1, <2>3, StepRows DEF Active, Terminal, StoreTypeOK, Status
  <2>5. "report" \in disk[j]
    BY <1>3, <2>4 DEF ReportInv
  <2>6. pc'[w] # "idle"
    BY DEF Wrapup
  <2>7. QED
    BY <1>1, <2>1, <2>2, <2>4, <2>5, <2>6
       DEF JobStep, FileStep, Zip, NeverUploaded
<1>4. QED
  BY <1>1, <1>2, <1>3

\* A job that becomes done has its report, and a done one keeps it for as long
\* as it is retained, unless a cancel overlaps the execution.
THEOREM ReportKeptHolds == Spec => ReportKept
<1>1. ServiceInit => ReportInv
  BY DEF ServiceInit, ReportInv, Wrapup
<1>2. ASSUME TypeInv, ReportInv, [Next]_vars, NEW j \in Jobs,
             status'[j] = "done", ~Expired(j),
             status[j] \in {"running", "failed"} \/ "report" \in disk[j]
      PROVE  "report" \in disk'[j]
  <2>1. JobStep(j)
    BY <1>2, StepFiles
  <2>2. CASE "report" \in disk[j]
    <3>1. status[j] # "absent"
      BY <1>2, StepRows DEF Active, Terminal
    <3>2. QED
      BY <1>2, <2>1, <2>2, <3>1 DEF JobStep, FileStep, Zip, NeverUploaded
  <2>3. CASE status[j] \in {"running", "failed"}
    <3>1. PICK w \in Workers : Completing(w) /\ hold[w] = j
                               /\ disk[j] \ disk'[j] \subseteq Zip \cup {"work"}
      BY <1>2, <2>1, <2>3 DEF JobStep, RowStep
    <3>2. "report" \in disk[j]
      BY <1>2, <2>3, <3>1 DEF ReportInv, Completing, Wrapup
    <3>3. QED
      BY <3>1, <3>2 DEF Zip
  <2>4. QED
    BY <1>2, <2>2, <2>3
<1>3. TypeInv /\ ReportInv /\ [Next]_vars =>
        [\A j \in Jobs :
            /\ status'[j] = "done" /\ ~Expired(j)
            /\ status[j] \in {"running", "failed"} \/ "report" \in disk[j]
            => "report" \in disk'[j]]_vars
  BY <1>2
<1>4. QED
  BY <1>1, <1>3, ReportInvStep, TypeInvCorrect, OneHolderHolds, PTL DEF Spec, ReportKept

=============================================================================
