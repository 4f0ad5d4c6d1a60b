----------------------------- MODULE JobsProofs -----------------------------
(***************************************************************************)
(* Proofs about the job store, for any set of ids and users and any limits.*)
(***************************************************************************)
EXTENDS Jobs, FiniteSetTheorems, TLAPS

\* The ids of a user, and any part of them, can be counted.
LEMMA OwnedFinite ==
    ASSUME NEW o, NEW S, S \subseteq OwnedBy(o)
    PROVE  IsFiniteSet(S) /\ Cardinality(S) \in Nat
<1>1. OwnedBy(o) \subseteq Jobs
  BY DEF OwnedBy
<1>2. IsFiniteSet(S)
  BY <1>1, FS_Subset, JobsAssumption
<1>3. QED
  BY <1>2, FS_CardinalityType

\* A set of a user's ids that only lost members is not larger.
LEMMA FewerIds ==
    ASSUME NEW o, NEW S, NEW T, T \subseteq OwnedBy(o), S \subseteq T
    PROVE  Cardinality(S) <= Cardinality(T)
BY OwnedFinite, FS_Subset

\* One more id adds at most one.
LEMMA OneMoreId ==
    ASSUME NEW o, NEW S, NEW T, NEW j, T \subseteq OwnedBy(o),
           S \subseteq T \cup {j}, S \subseteq OwnedBy(o)
    PROVE  Cardinality(S) <= Cardinality(T) + 1
<1>1. IsFiniteSet(T) /\ Cardinality(T) \in Nat
  BY OwnedFinite
<1>2. /\ IsFiniteSet(T \cup {j})
      /\ Cardinality(T \cup {j}) = IF j \in T THEN Cardinality(T)
                                              ELSE Cardinality(T) + 1
  BY <1>1, FS_AddElement
<1>3. Cardinality(S) <= Cardinality(T \cup {j})
  BY <1>2, FS_Subset
<1>4. Cardinality(S) \in Nat
  BY OwnedFinite
<1>5. QED
  BY <1>1, <1>2, <1>3, <1>4

-----------------------------------------------------------------------------

LEMMA StoreTypeInit == Init => StoreTypeOK
BY JobsAssumption DEF Init, StoreTypeOK, Status, Ages

LEMMA StoreTypeStep == StoreTypeOK /\ [StoreNext]_storeVars => StoreTypeOK'
<1> SUFFICES ASSUME StoreTypeOK, [StoreNext]_storeVars
             PROVE  StoreTypeOK'
  OBVIOUS
<1> USE JobsAssumption DEF StoreTypeOK, Status, Active, Terminal, Ages
<1>1. ASSUME NEW j \in Jobs, CreateJob(j)
      PROVE  StoreTypeOK'
  BY <1>1 DEF CreateJob
<1>2. ASSUME NEW j \in Jobs, ClaimNextJob(j)
      PROVE  StoreTypeOK'
  BY <1>2 DEF ClaimNextJob
<1>3. ASSUME NEW j \in Jobs, MarkUploaded(j)
      PROVE  StoreTypeOK'
  BY <1>3 DEF MarkUploaded
<1>4. ASSUME NEW j \in Jobs, NEW s \in Terminal, SetStatus(j, s)
      PROVE  StoreTypeOK'
  <2>1. CASE InTable(j)
    BY <1>4, <2>1 DEF SetStatus
  <2>2. CASE ~InTable(j)
    BY <1>4, <2>2 DEF SetStatus, storeVars
  <2>3. QED
    BY <2>1, <2>2
<1>5. CASE ReconcileStartup
  BY <1>5 DEF ReconcileStartup
<1>6. CASE CleanupPass
  BY <1>6 DEF CleanupPass
<1>7. CASE ClockTick
  BY <1>7 DEF ClockTick, Older
<1>8. CASE UNCHANGED storeVars
  BY <1>8 DEF storeVars
<1>9. QED
  BY <1>1, <1>2, <1>3, <1>4, <1>5, <1>6, <1>7, <1>8 DEF StoreNext

\* Every statement keeps the shape of the table.
THEOREM StoreTypeCorrect == StoreSpec => []StoreTypeOK
BY StoreTypeInit, StoreTypeStep, PTL DEF StoreSpec

-----------------------------------------------------------------------------

\* What one statement can do to one row.
LEMMA RowMoves ==
    ASSUME StoreTypeOK, [StoreNext]_storeVars, NEW j \in Jobs
    PROVE  \/ status'[j] = status[j]
           \/ status[j] = "absent" /\ CreateJob(j)
           \/ status[j] = "awaiting_upload" /\ status'[j] = "queued"
           \/ status[j] = "queued" /\ status'[j] = "running"
           \/ status[j] \in Active \cup Terminal /\ status'[j] \in Terminal
           \/ Expired(j) /\ status'[j] = "deleted"
<1> USE DEF StoreTypeOK, Active, Terminal
<1>1. ASSUME NEW k \in Jobs, CreateJob(k), k # j
      PROVE  status'[j] = status[j]
  BY <1>1 DEF CreateJob
<1>2. ASSUME NEW k \in Jobs, ClaimNextJob(k)
      PROVE  \/ status'[j] = status[j]
             \/ status[j] = "queued" /\ status'[j] = "running"
  BY <1>2 DEF ClaimNextJob
<1>3. ASSUME NEW k \in Jobs, MarkUploaded(k)
      PROVE  \/ status'[j] = status[j]
             \/ status[j] = "awaiting_upload" /\ status'[j] = "queued"
  BY <1>3 DEF MarkUploaded
<1>4. ASSUME NEW k \in Jobs, NEW s \in Terminal, SetStatus(k, s)
      PROVE  \/ status'[j] = status[j]
             \/ status[j] \in Active \cup Terminal /\ status'[j] \in Terminal
  BY <1>4 DEF SetStatus, InTable, storeVars
<1>5. ASSUME ReconcileStartup
      PROVE  \/ status'[j] = status[j]
             \/ status[j] \in Active \cup Terminal /\ status'[j] \in Terminal
  BY <1>5 DEF ReconcileStartup
<1>6. ASSUME CleanupPass
      PROVE  \/ status'[j] = status[j]
             \/ status[j] \in Active \cup Terminal /\ status'[j] \in Terminal
             \/ Expired(j) /\ status'[j] = "deleted"
  BY <1>6 DEF CleanupPass, TooOld, NeverUploaded
<1>7. ASSUME ClockTick \/ UNCHANGED storeVars
      PROVE  status'[j] = status[j]
  BY <1>7 DEF ClockTick, storeVars
<1>8. ASSUME CreateJob(j)
      PROVE  status[j] = "absent" /\ CreateJob(j)
  BY <1>8 DEF CreateJob
<1>9. QED
  BY <1>1, <1>2, <1>3, <1>4, <1>5, <1>6, <1>7, <1>8 DEF StoreNext

LEMMA RankValues ==
    /\ Rank("absent") = 0 /\ Rank("awaiting_upload") = 1
    /\ Rank("queued") = 2 /\ Rank("running") = 3
    /\ \A s \in Terminal : Rank(s) = 4
    /\ Rank("deleted") = 5
BY DEF Rank, Terminal

\* A row only moves forward, whatever the callers of the store do.
THEOREM RowsOnlyMoveForward == StoreSpec => OnlyForward
<1>1. ASSUME StoreTypeOK, [StoreNext]_storeVars
      PROVE  [\A j \in Jobs : Rank(status[j]) <= Rank(status'[j])]_storeVars
  <2>1. ASSUME NEW j \in Jobs
        PROVE  Rank(status[j]) <= Rank(status'[j])
    <3>1. status[j] \in Status
      BY <1>1 DEF StoreTypeOK
    <3>2. Rank(status[j]) \in 0 .. 5
      BY <3>1, RankValues DEF Status, Active
    <3>3. CASE status'[j] = status[j]
      BY <3>2, <3>3
    <3>4. CASE status[j] = "absent" /\ CreateJob(j)
      <4>1. status'[j] = "awaiting_upload"
        BY <1>1, <3>4 DEF CreateJob, StoreTypeOK
      <4>2. QED
        BY <3>4, <4>1, RankValues
    <3>5. CASE status[j] = "awaiting_upload" /\ status'[j] = "queued"
      BY <3>5, RankValues
    <3>6. CASE status[j] = "queued" /\ status'[j] = "running"
      BY <3>6, RankValues
    <3>7. CASE status[j] \in Active \cup Terminal /\ status'[j] \in Terminal
      BY <3>7, RankValues DEF Active
    <3>8. CASE Expired(j) /\ status'[j] = "deleted"
      BY <3>8, RankValues DEF Expired
    <3>9. QED
      BY <1>1, <3>3, <3>4, <3>5, <3>6, <3>7, <3>8, RowMoves
  <2>2. QED
    BY <2>1
<1>2. QED
  BY <1>1, StoreTypeCorrect, PTL DEF StoreSpec, OnlyForward

-----------------------------------------------------------------------------

LEMMA ActiveQuotaStep ==
    StoreTypeOK /\ ActiveQuota /\ [StoreNext]_storeVars => ActiveQuota'
<1> SUFFICES ASSUME StoreTypeOK, ActiveQuota, [StoreNext]_storeVars,
                    NEW o \in Users
             PROVE  Cardinality(ActiveRows(o)') <= MaxJobsPerUser
  BY DEF ActiveQuota
<1>1. ActiveRows(o) \subseteq OwnedBy(o) /\ ActiveRows(o)' \subseteq OwnedBy(o)
  BY DEF ActiveRows, OwnedBy
<1>2. /\ Cardinality(ActiveRows(o)) \in Nat
      /\ Cardinality(ActiveRows(o)') \in Nat
      /\ Cardinality(ActiveRows(o)) <= MaxJobsPerUser
  BY <1>1, OwnedFinite DEF ActiveQuota
<1>3. CASE \E j \in OwnedBy(o) : CreateJob(j)
  <2>1. PICK j \in OwnedBy(o) : CreateJob(j)
    BY <1>3
  <2>2. Cardinality(ActiveRows(o)) < MaxJobsPerUser
    BY <2>1 DEF CreateJob, OwnedBy
  <2>3. ActiveRows(o)' \subseteq ActiveRows(o) \cup {j}
    BY <2>1 DEF CreateJob, ActiveRows, OwnedBy, StoreTypeOK
  <2>4. Cardinality(ActiveRows(o)') <= Cardinality(ActiveRows(o)) + 1
    BY <1>1, <2>3, OneMoreId
  <2>5. QED
    BY <1>2, <2>2, <2>4, JobsAssumption
<1>4. CASE ~ \E j \in OwnedBy(o) : CreateJob(j)
  <2>1. ASSUME NEW j \in ActiveRows(o)'
        PROVE  j \in ActiveRows(o)
    <3>1. j \in OwnedBy(o) /\ j \in Jobs /\ status'[j] \in Active
      BY <2>1 DEF ActiveRows, OwnedBy
    <3>2. ~CreateJob(j)
      BY <3>1, <1>4
    <3>3. status[j] \in Active
      BY <3>1, <3>2, RowMoves DEF Active, Terminal
    <3>4. QED
      BY <3>1, <3>3 DEF ActiveRows
  <2>2. ActiveRows(o)' \subseteq ActiveRows(o)
    BY <2>1
  <2>3. QED
    BY <1>1, <1>2, <2>2, FewerIds, JobsAssumption
<1>5. QED
  BY <1>3, <1>4

\* The quota of active jobs holds in every interleaving of the statements.
THEOREM ActiveQuotaHolds == StoreSpec => []ActiveQuota
<1>1. Init => ActiveQuota
  <2>1. ASSUME Init, NEW o \in Users
        PROVE  Cardinality(ActiveRows(o)) <= MaxJobsPerUser
    <3>1. ActiveRows(o) = {}
      BY <2>1 DEF Init, ActiveRows, OwnedBy, Active
    <3>2. QED
      BY <3>1, FS_EmptySet, JobsAssumption
  <2>2. QED
    BY <2>1 DEF ActiveQuota
<1>2. QED
  BY <1>1, ActiveQuotaStep, StoreTypeCorrect, PTL DEF StoreSpec

-----------------------------------------------------------------------------

\* What deletion depends on: finished_at is never before created_at, so a row
\* that is gone was created longer ago than the retention.
DeletedIsOld ==
    \A j \in Jobs :
        /\ status[j] \in Terminal => finished[j] <= created[j]
        /\ status[j] = "deleted" => created[j] >= Hour

LEMMA DeletedIsOldStep ==
    StoreTypeOK /\ DeletedIsOld /\ [StoreNext]_storeVars => DeletedIsOld'
<1> SUFFICES ASSUME StoreTypeOK, DeletedIsOld, [StoreNext]_storeVars,
                    NEW j \in Jobs
             PROVE  /\ status'[j] \in Terminal => finished'[j] <= created'[j]
                    /\ status'[j] = "deleted" => created'[j] >= Hour
  BY DEF DeletedIsOld
<1> DEFINE Goal == /\ status'[j] \in Terminal => finished'[j] <= created'[j]
                   /\ status'[j] = "deleted" => created'[j] >= Hour
<1> USE JobsAssumption DEF Active, Terminal
<1>1. /\ status[j] \in Status /\ created[j] \in 0 .. MaxAge
      /\ finished[j] \in 0 .. MaxAge
      /\ status[j] \in Terminal => finished[j] <= created[j]
      /\ status[j] = "deleted" => created[j] >= Hour
  BY DEF StoreTypeOK, DeletedIsOld, Ages
<1>2. ASSUME NEW k \in Jobs, CreateJob(k)
      PROVE  Goal
  BY <1>1, <1>2 DEF CreateJob, StoreTypeOK
<1>3. ASSUME NEW k \in Jobs, ClaimNextJob(k)
      PROVE  Goal
  BY <1>1, <1>3 DEF ClaimNextJob, StoreTypeOK
<1>4. ASSUME NEW k \in Jobs, MarkUploaded(k)
      PROVE  Goal
  BY <1>1, <1>4 DEF MarkUploaded, StoreTypeOK
<1>5. ASSUME NEW k \in Jobs, NEW s \in Terminal, SetStatus(k, s)
      PROVE  Goal
  <2>1. CASE InTable(k)
    BY <1>1, <1>5, <2>1 DEF SetStatus, StoreTypeOK
  <2>2. CASE ~InTable(k)
    BY <1>1, <1>5, <2>2 DEF SetStatus, storeVars
  <2>3. QED
    BY <2>1, <2>2
<1>6. CASE ReconcileStartup
  BY <1>1, <1>6 DEF ReconcileStartup
<1>7. CASE CleanupPass
  <2>1. Expired(j) => created[j] >= Hour
    BY <1>1, RetentionAssumption DEF Expired
  <2>2. QED
    BY <1>1, <1>7, <2>1 DEF CleanupPass, TooOld, NeverUploaded
<1>8. CASE ClockTick
  BY <1>1, <1>8 DEF ClockTick, Older
<1>9. CASE UNCHANGED storeVars
  BY <1>1, <1>9 DEF storeVars
<1>10. QED
  BY <1>2, <1>3, <1>4, <1>5, <1>6, <1>7, <1>8, <1>9 DEF StoreNext

\* Time only makes a created job older.
LEMMA AgesGrow ==
    ASSUME StoreTypeOK, [StoreNext]_storeVars, NEW j \in Jobs,
           status[j] # "absent"
    PROVE  created[j] <= created'[j]
<1> USE JobsAssumption DEF StoreTypeOK, Ages
<1>1. ASSUME NEW k \in Jobs, CreateJob(k)
      PROVE  created[j] <= created'[j]
  BY <1>1 DEF CreateJob
<1>2. CASE ClockTick
  BY <1>2 DEF ClockTick, Older
<1>3. CASE UNCHANGED created
  BY <1>3
<1>4. QED
  BY <1>1, <1>2, <1>3 DEF StoreNext, storeVars, ClaimNextJob, MarkUploaded,
     SetStatus, ReconcileStartup, CleanupPass

LEMMA RateLimitStep ==
    StoreTypeOK /\ DeletedIsOld /\ RateLimit /\ [StoreNext]_storeVars
        => RateLimit'
<1> SUFFICES ASSUME StoreTypeOK, DeletedIsOld, RateLimit,
                    [StoreNext]_storeVars, NEW o \in Users
             PROVE  Cardinality(JobsCreatedLastHour(o)') <= RateLimitPerHour
  BY DEF RateLimit
<1> DEFINE Now == JobsCreatedLastHour(o)
           Next == JobsCreatedLastHour(o)'
<1>1. Now \subseteq OwnedBy(o) /\ Next \subseteq OwnedBy(o)
  BY DEF JobsCreatedLastHour, OwnedBy
<1>2. /\ Cardinality(Now) \in Nat /\ Cardinality(Next) \in Nat
      /\ Cardinality(Now) <= RateLimitPerHour
  BY <1>1, OwnedFinite DEF RateLimit
<1>3. \A j \in Next : j \in Now \/ CreateJob(j)
  <2> SUFFICES ASSUME NEW j \in Next, ~CreateJob(j)
               PROVE  j \in Now
    OBVIOUS
  <2>1. j \in OwnedBy(o) /\ j \in Jobs /\ status'[j] # "absent" /\ created'[j] < Hour
    BY DEF JobsCreatedLastHour, OwnedBy
  <2>2. status[j] # "absent"
    BY <2>1, RowMoves DEF Active, Terminal, Expired
  <2>3. created[j] <= created'[j] /\ created[j] \in Nat /\ created'[j] \in Nat
    BY <2>1, <2>2, AgesGrow, StoreTypeStep DEF StoreTypeOK, Ages
  <2>4. created[j] < Hour
    BY <2>1, <2>3, JobsAssumption
  <2>5. QED
    BY <2>1, <2>2, <2>4 DEF JobsCreatedLastHour
<1>4. CASE \E j \in OwnedBy(o) : CreateJob(j)
  <2>1. PICK j \in OwnedBy(o) : CreateJob(j)
    BY <1>4
  <2>2. Cardinality(RecentRows(o)) < RateLimitPerHour
    BY <2>1 DEF CreateJob, OwnedBy
  <2>3. Now = RecentRows(o)
    <3>1. ASSUME NEW k \in OwnedBy(o)
          PROVE  /\ k \in Jobs
                 /\ status[k] \in Status
                 /\ created[k] \in Nat
                 /\ status[k] = "deleted" => created[k] >= Hour
      BY DEF OwnedBy, StoreTypeOK, Ages, DeletedIsOld
    <3>2. QED
      BY <3>1, JobsAssumption
         DEF JobsCreatedLastHour, RecentRows, InTable, Status, Active, Terminal
  <2>4. Next \subseteq Now \cup {j}
    <3>1. ASSUME NEW k \in Next, k # j
          PROVE  ~CreateJob(k)
      <4>1. k \in Jobs /\ j \in Jobs
        BY <1>1 DEF OwnedBy
      <4>2. status'[k] = status[k] /\ status'[k] # "absent"
        BY <2>1, <3>1, <4>1 DEF CreateJob, StoreTypeOK, JobsCreatedLastHour
      <4>3. QED
        BY <4>2 DEF CreateJob
    <3>2. QED
      BY <1>3, <3>1
  <2>5. Cardinality(Next) <= Cardinality(Now) + 1
    BY <1>1, <2>4, OneMoreId
  <2>6. QED
    BY <1>2, <2>2, <2>3, <2>5, JobsAssumption
<1>5. CASE ~ \E j \in OwnedBy(o) : CreateJob(j)
  <2>1. Next \subseteq Now
    BY <1>1, <1>3, <1>5
  <2>2. Cardinality(Next) <= Cardinality(Now)
    BY <1>1, <2>1, FewerIds
  <2>3. QED
    BY <1>2, <2>2, JobsAssumption
<1>6. QED
  BY <1>4, <1>5

\* No hour sees more than RateLimitPerHour jobs of one account, deleted ones
\* included, for every retention that is not shorter than the hour.
THEOREM RateLimitHolds == StoreSpec => []RateLimit
<1>1. Init => DeletedIsOld
  BY DEF Init, DeletedIsOld, Terminal
<1>2. Init => RateLimit
  <2>1. ASSUME Init, NEW o \in Users
        PROVE  Cardinality(JobsCreatedLastHour(o)) <= RateLimitPerHour
    <3>1. JobsCreatedLastHour(o) = {}
      BY <2>1 DEF Init, JobsCreatedLastHour, OwnedBy
    <3>2. QED
      BY <3>1, FS_EmptySet, JobsAssumption
  <2>2. QED
    BY <2>1 DEF RateLimit
<1>3. QED
  BY <1>1, <1>2, DeletedIsOldStep, RateLimitStep, StoreTypeCorrect, PTL
     DEF StoreSpec

=============================================================================
