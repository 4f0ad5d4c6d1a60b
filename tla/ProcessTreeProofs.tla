--------------------------- MODULE ProcessTreeProofs ---------------------------
(***************************************************************************)
(* Proofs about the processes under a worker, for any number of jobs and   *)
(* of JVMs, and without any assumption on timeouts: the JVMs of a job that *)
(* came to an end by itself are gone, and one that was cut off leaves one. *)
(***************************************************************************)
EXTENDS ProcessTree, FiniteSetTheorems, TLAPS

\* A JVM that runs was started, for a job that was taken.
JvmsStarted ==
    /\ live \subseteq 1 .. started
    /\ \A v \in live : owner[v] \in 1 .. job

\* Two JVMs of one job never run at once.
OneEach == \A v, w \in live : owner[v] = owner[w] => v = w

\* What the place of the pool's process says of the JVMs of the current job.
PlaceInv ==
    /\ sub # "idle" => job \in Job /\ ended[job] = "no"
    /\ sub \in {"working", "returned", "raised"} =>
          \A v \in live : owner[v] # job
    /\ sub \in {"starting", "waiting"} =>
          \A v \in live : owner[v] = job => v = started

\* What the end of a job says of its JVMs.
EndInv ==
    /\ \A n \in Job : n > job => ended[n] = "no"
    /\ \A v \in live : ended[owner[v]] \notin {"returned", "raised"}

TreeInv == TypeOK /\ JvmsStarted /\ OneEach /\ PlaceInv /\ EndInv

LEMMA TreeInvInit == Init => TreeInv
  BY ProcessTreeAssumption
     DEF Init, TreeInv, TypeOK, JvmsStarted, OneEach, PlaceInv, EndInv, Job, Jvm,
         Ends, Places, Working

-----------------------------------------------------------------------------
(* The steps                                                               *)

LEMMA StartJobKeeps == TreeInv /\ StartJob => TreeInv'
  BY ProcessTreeAssumption
     DEF StartJob, TreeInv, TypeOK, JvmsStarted, OneEach, PlaceInv, EndInv, Job, Jvm,
         Places, Working

\* Fewer JVMs, whatever the queue holds.
LEMMA FewerJvms ==
    ASSUME TreeInv, live' \subseteq live, pushed' \subseteq Jvm, known' \subseteq Jvm,
           UNCHANGED <<job, ended, sub, started, owner>>
    PROVE  TreeInv'
  BY DEF TreeInv, TypeOK, JvmsStarted, OneEach, PlaceInv, EndInv, Job, Jvm

\* The job ends, and of its own accord only when none of its JVMs runs.
LEMMA EndKeeps ==
    ASSUME TreeInv, NEW how \in Ends, End(how), sub # "idle", live' \subseteq live,
           how \in {"returned", "raised"} => \A v \in live : owner[v] # job
    PROVE  TreeInv'
  <1>1. job \in Job /\ ended' = [ended EXCEPT ![job] = how]
    BY DEF TreeInv, PlaceInv, End
  <1>2. TypeOK'
    BY <1>1 DEF TreeInv, TypeOK, End, Places
  <1>3. JvmsStarted' /\ OneEach' /\ PlaceInv'
    BY DEF TreeInv, TypeOK, JvmsStarted, OneEach, PlaceInv, End, Jvm
  <1>4. EndInv'
    <2>1. \A n \in Job : n > job => ended'[n] = "no"
      BY <1>1, ProcessTreeAssumption DEF TreeInv, TypeOK, EndInv, Job
    <2>2. ASSUME NEW v \in live' PROVE ended'[owner[v]] \notin {"returned", "raised"}
      <3>1. v \in live /\ owner[v] \in Job
        BY <2>2, ProcessTreeAssumption DEF TreeInv, TypeOK, JvmsStarted, Job, Jvm
      <3>2. QED
        BY <1>1, <3>1 DEF TreeInv, TypeOK, EndInv
    <2>3. QED
      BY <2>1, <2>2 DEF EndInv, End
  <1>5. QED
    BY <1>2, <1>3, <1>4 DEF TreeInv

LEMMA StartJvmKeeps == TreeInv /\ StartJvm => TreeInv'
  <1> SUFFICES ASSUME TreeInv, StartJvm PROVE TreeInv'
    OBVIOUS
  <1>1. /\ started + 1 \in Jvm /\ started' = started + 1
        /\ job \in Job /\ ended[job] = "no"
        /\ sub' = "starting"
        /\ live' = live \cup {started + 1}
        /\ UNCHANGED <<job, ended, pushed, known>>
    BY ProcessTreeAssumption DEF TreeInv, TypeOK, PlaceInv, StartJvm, Jvm, Working
  <1>2. /\ owner'[started + 1] = job
        /\ \A v \in live : owner'[v] = owner[v]
        /\ owner' \in [Jvm -> 0 .. MaxJobs]
    BY <1>1, ProcessTreeAssumption DEF TreeInv, TypeOK, JvmsStarted, StartJvm, Jvm, Job
  <1>3. \A v \in live : owner[v] # job
    BY DEF TreeInv, PlaceInv, StartJvm
  <1>4. TypeOK'
    BY <1>1, <1>2, ProcessTreeAssumption DEF TreeInv, TypeOK, Jvm, Places, Working
  <1>5. JvmsStarted'
    BY <1>1, <1>2, ProcessTreeAssumption DEF TreeInv, TypeOK, JvmsStarted, Job
  <1>6. OneEach'
    BY <1>1, <1>2, <1>3 DEF TreeInv, OneEach
  <1>7. PlaceInv'
    BY <1>1, <1>2, <1>3 DEF PlaceInv
  <1>8. EndInv'
    BY <1>1, <1>2 DEF TreeInv, EndInv
  <1>9. QED
    BY <1>4, <1>5, <1>6, <1>7, <1>8 DEF TreeInv

\* The process moves on: to where it has no JVM, only if it has none.
LEMMA PlaceKeeps ==
    ASSUME TreeInv, sub \in Working, sub' \in Places \ {"idle"},
           sub' \in {"working", "returned", "raised"} => \A v \in live' : owner[v] # job,
           sub' \in {"starting", "waiting"} => sub \in {"starting", "waiting"},
           live' \subseteq live, pushed' \subseteq Jvm,
           UNCHANGED <<job, ended, started, owner, known>>
    PROVE  TreeInv'
  BY DEF TreeInv, TypeOK, JvmsStarted, OneEach, PlaceInv, EndInv, Working, Places, Jvm, Job

LEMMA TreeInvStep == TreeInv /\ [Next]_vars => TreeInv'
  <1> SUFFICES ASSUME TreeInv, [Next]_vars PROVE TreeInv'
    OBVIOUS
  <1>1. CASE Drain \/ JvmEnds \/ UNCHANGED vars
    BY <1>1, FewerJvms DEF TreeInv, TypeOK, Drain, JvmEnds, vars
  <1>2. CASE Collect
    BY <1>2, EndKeeps DEF TreeInv, PlaceInv, Collect, Ends
  <1>3. CASE Broken
    BY <1>3, EndKeeps DEF Broken, Ends
  <1>4. CASE TimeOut
    BY <1>4, EndKeeps DEF TimeOut, Ends, Working
  <1>5. CASE Report
    <2>1. pushed' \subseteq Jvm /\ sub' = "waiting" /\ sub = "starting"
      BY <1>5 DEF TreeInv, TypeOK, Report
    <2>2. QED
      BY <1>5, <2>1, PlaceKeeps DEF Report, Working, Places
  <1>6. CASE JvmEnded
    BY <1>6, PlaceKeeps DEF TreeInv, TypeOK, PlaceInv, JvmEnded, Working, Places
  <1>7. CASE JvmTimeout
    BY <1>7, PlaceKeeps DEF TreeInv, TypeOK, PlaceInv, JvmTimeout, Working, Places
  <1>8. CASE Return
    BY <1>8, PlaceKeeps DEF TreeInv, TypeOK, PlaceInv, Return, Working, Places
  <1>9. CASE Killed
    BY <1>9, PlaceKeeps DEF TreeInv, TypeOK, Killed, Working, Places
  <1>10. QED
    BY <1>1, <1>2, <1>3, <1>4, <1>5, <1>6, <1>7, <1>8, <1>9, StartJobKeeps,
       StartJvmKeeps DEF Next

LEMMA TreeInvCorrect == Spec => []TreeInv
  BY TreeInvInit, TreeInvStep, PTL DEF Spec

-----------------------------------------------------------------------------

\* The types of the state.
THEOREM TypeCorrect == Spec => []TypeOK
  <1>1. TreeInv => TypeOK
    BY DEF TreeInv
  <1>2. QED
    BY <1>1, TreeInvCorrect, PTL

\* Once a job has returned or raised none of its JVMs runs, and of a job that
\* was cut off (its time was up, its process was killed) one at most.
THEOREM FewJvmsHolds == Spec => []FewJvms
  <1>1. ASSUME TreeInv PROVE FewJvms
    <2>1. ASSUME NEW n \in Job, ended[n] \in {"returned", "raised"}
          PROVE  LiveOf(n) = {}
      BY <1>1, <2>1 DEF TreeInv, EndInv, LiveOf
    <2>2. ASSUME NEW n \in Job PROVE Cardinality(LiveOf(n)) <= 1
      <3>1. CASE LiveOf(n) = {}
        BY <3>1, FS_EmptySet
      <3>2. ASSUME NEW v \in LiveOf(n) PROVE Cardinality(LiveOf(n)) <= 1
        <4>1. LiveOf(n) = {v}
          BY <1>1, <3>2 DEF TreeInv, OneEach, LiveOf
        <4>2. QED
          BY <4>1, FS_Singleton
      <3>3. QED
        BY <3>1, <3>2
    <2>3. QED
      BY <2>1, <2>2 DEF FewJvms
  <1>2. QED
    BY <1>1, TreeInvCorrect, PTL

=============================================================================
