---------------------------- MODULE ProcessTree ----------------------------
(***************************************************************************)
(* The processes under one worker: the coroutine process_one_job, the only *)
(* process of its pool, the JVM that this process starts for each JPlag    *)
(* invocation in a process group of its own, and the queue through which   *)
(* the coroutine learns the group's id (web/worker.py, jplag.run_jplag).   *)
(*                                                                         *)
(* Two layers kill a JVM that hangs: communicate(timeout=...) inside the   *)
(* subprocess, and the coroutine when the whole job times out.             *)
(*                                                                         *)
(* Jobs and JVMs are numbered in the order they start; a number is not     *)
(* reused, so the kernel handing out an old process-group id again is not  *)
(* modelled.                                                               *)
(***************************************************************************)
EXTENDS Naturals, FiniteSets

CONSTANTS
    MaxJobs,   \* bound: jobs that this worker runs
    MaxJvms    \* bound: JVMs that are started

ASSUME ProcessTreeAssumption == MaxJobs \in Nat /\ MaxJvms \in Nat

VARIABLES
    job,      \* number of the last job the coroutine took
    ended,    \* ended[n]: how job n ended
    sub,      \* where the pool's process is
    started,  \* number of the last JVM
    owner,    \* owner[v]: the job JVM v was started for
    live,     \* the JVMs that run
    pushed,   \* ids in the progress queue
    known     \* jvm_pgids, the ids the coroutine has drained

vars == <<job, ended, sub, started, owner, live, pushed, known>>

Job  == 1 .. MaxJobs
Jvm  == 1 .. MaxJvms

\* "starting": the JVM runs and its id is not reported yet; "waiting": in
\* communicate(); "returned" and "raised": the future is done.
Working == {"working", "starting", "waiting"}
Places  == {"idle", "returned", "raised", "dead"} \cup Working
Ends    == {"no", "returned", "raised", "broken", "timeout"}

Init ==
    /\ job = 0 /\ started = 0
    /\ ended = [n \in Job |-> "no"]
    /\ owner = [v \in Jvm |-> 0]
    /\ sub = "idle"
    /\ live = {} /\ pushed = {} /\ known = {}

-----------------------------------------------------------------------------
(* The coroutine                                                           *)

\* process_one_job hands the analysis to the pool, with a queue of its own.
StartJob ==
    /\ sub = "idle"
    /\ job < MaxJobs
    /\ job' = job + 1
    /\ sub' = "working"
    /\ pushed' = {} /\ known' = {}
    /\ UNCHANGED <<ended, started, owner, live>>

\* _drain_progress, every _DRAIN_INTERVAL_S.
Drain ==
    /\ sub # "idle" /\ pushed # {}
    /\ known' = known \cup pushed
    /\ pushed' = {}
    /\ UNCHANGED <<job, ended, sub, started, owner, live>>

End(how) ==
    /\ ended' = [ended EXCEPT ![job] = how]
    /\ sub' = "idle"
    /\ UNCHANGED <<job, started, owner, pushed, known>>

\* The future has a result or an exception; the process serves the next job.
Collect ==
    /\ sub \in {"returned", "raised"}
    /\ End(sub)
    /\ UNCHANGED live

\* Mutant: the end misspelt.
BrokenMisspelt ==
    /\ sub = "dead"
    /\ End("crashed")
    /\ UNCHANGED live

\* BrokenProcessPool: a fresh pool, and nobody looks after the JVM.
Broken ==
    /\ sub = "dead"
    /\ End("broken")
    /\ UNCHANGED live

\* The job times out: killpg on every id drained so far, then the pool's
\* process is killed and replaced.
TimeOut ==
    /\ sub \in Working
    /\ live' = live \ known
    /\ End("timeout")

-----------------------------------------------------------------------------
(* The pool's process (run_jplag in _analyze_sync) and its JVM             *)

StartJvm ==
    /\ sub = "working"
    /\ started < MaxJvms
    /\ started' = started + 1
    /\ live' = live \cup {started'}
    /\ owner' = [owner EXCEPT ![started'] = job]
    /\ sub' = "starting"
    /\ UNCHANGED <<job, ended, pushed, known>>

\* on_subprocess: the id goes into the queue.  If the JVM is gone already,
\* getpgid fails and nothing is reported.
Report ==
    /\ sub = "starting"
    /\ sub' = "waiting"
    /\ pushed' = pushed \cup ({started} \cap live)
    /\ UNCHANGED <<job, ended, started, owner, live, known>>

\* communicate() returns: the JVM has ended.
JvmEnded ==
    /\ sub = "waiting"
    /\ started \notin live
    /\ sub' = "working"
    /\ UNCHANGED <<job, ended, started, owner, live, pushed, known>>

\* Mutants: communicate() without its timeout; a JVM that exceeds it is left
\* to itself.
JvmTimeoutOff == FALSE

JvmTimeoutLeaves ==
    /\ sub = "waiting"
    /\ started \in live
    /\ sub' = "raised"
    /\ UNCHANGED <<job, ended, started, owner, live, pushed, known>>

\* TimeoutExpired: the group is killed, and JplagTimeout fails the analysis.
JvmTimeout ==
    /\ sub = "waiting"
    /\ started \in live
    /\ live' = live \ {started}
    /\ sub' = "raised"
    /\ UNCHANGED <<job, ended, started, owner, pushed, known>>

\* The rest of the analysis returns, or raises; Popen and what surrounds it
\* raise only while no JVM runs.
Return ==
    /\ sub = "working"
    /\ sub' \in {"returned", "raised"}
    /\ UNCHANGED <<job, ended, started, owner, live, pushed, known>>

\* The kernel kills the process.
Killed ==
    /\ sub \in Working
    /\ sub' = "dead"
    /\ UNCHANGED <<job, ended, started, owner, live, pushed, known>>

\* A JVM ends by itself, if it ever does.
JvmEnds ==
    /\ \E v \in live : live' = live \ {v}
    /\ UNCHANGED <<job, ended, sub, started, owner, pushed, known>>

Next ==
    \/ StartJob \/ Drain \/ Collect \/ Broken \/ TimeOut
    \/ StartJvm \/ Report \/ JvmEnded \/ JvmTimeout \/ Return \/ Killed
    \/ JvmEnds

Spec == Init /\ [][Next]_vars

\* Layer (a) alone: the subprocess runs and serves its own timeout.  Nothing
\* is asked of a JVM, nor of the timeout of the whole job.
LiveSpec ==
    /\ Spec
    /\ WF_vars(Collect) /\ WF_vars(Broken) /\ WF_vars(Report)
    /\ WF_vars(JvmEnded) /\ WF_vars(JvmTimeout)
    /\ WF_vars(Return)

-----------------------------------------------------------------------------

TypeOK ==
    /\ job \in 0 .. MaxJobs /\ started \in 0 .. MaxJvms
    /\ ended \in [Job -> Ends]
    /\ owner \in [Jvm -> 0 .. MaxJobs]
    /\ sub \in Places
    /\ live \subseteq Jvm /\ pushed \subseteq Jvm /\ known \subseteq Jvm

LiveOf(n) == {v \in live : owner[v] = n}

\* A job whose analysis came to an end by itself leaves no JVM behind, and
\* one that was cut off leaves one at most: the JVMs of a worker cannot pile
\* up faster than its jobs fail.
FewJvms ==
    \A n \in Job :
        /\ ended[n] \in {"returned", "raised"} => LiveOf(n) = {}
        /\ Cardinality(LiveOf(n)) <= 1

\* A job whose JVM hangs ends without the timeout of the whole job.
JvmHangEndsJob == sub \in Working ~> sub \notin Working

=============================================================================
