------------------------------- MODULE Judge -------------------------------
(***************************************************************************)
(* The LLM judge: the batches that the jobs hand to llm_run.run_judge, the *)
(* thread pool they share (app.state.llm_pool), the daily budget in the    *)
(* table llm_usage, and the deadline of each batch.                        *)
(*                                                                         *)
(* Each batch is a thread of its own (worker.py: asyncio.to_thread), each  *)
(* call another one; the provider may answer late, wrongly or never.       *)
(***************************************************************************)
EXTENDS Naturals, FiniteSets

CONSTANTS
    Batches,       \* the jobs that reach the judge
    MaxRows,       \* bound: rows of a job's report
    MaxItems,      \* settings.llm_max_submissions_per_job
    Concurrency,   \* settings.llm_concurrency, the width of the pool
    Cap,           \* settings.llm_max_calls_per_day
    LastDay        \* bound: midnights seen

ASSUME JudgeAssumption ==
    /\ IsFiniteSet(Batches)
    /\ MaxRows \in Nat /\ MaxItems \in Nat
    /\ Concurrency \in Nat \ {0}
    /\ Cap \in Nat /\ LastDay \in Nat

VARIABLES
    phase,     \* phase[b]: where the thread of batch b is
    rows,      \* rows[b]: len(data.main_rows), the rows of the report
    unread,    \* unread[b]: the selected rows whose source could not be read
    items,     \* items[b]: len(items), the other selected rows
    counted,   \* counted[b]: items charged to the budget so far
    stopped,   \* stopped[b]: _CapState.hit
    call,      \* call[b][i]: the future of item i
    result,    \* result[b][i]: its JudgeResult
    note,      \* note[b]: llm_partial_note
    day,       \* the day of utcnow()
    calls,     \* llm_usage.calls of that day
    requests   \* the POSTs that left, as <<<<b, i>>, n>>; for the properties only

selection == <<rows, unread, items>>
batchVars == <<phase, selection, counted, stopped, note>>
vars == <<batchVars, call, result, day, calls, requests>>

Items    == 1 .. MaxRows
Phase    == {"new", "counting", "waiting", "closing", "done"}
InThread == {"first", "sleeping", "second"}
Answers  == {"scored", "unparsed", "error"}
Calls    == {"none", "pending", "cancelled"} \cup InThread \cup Answers
Results  == {"none", "deadline"} \cup Answers
Notes    == {"none", "partial", "failed", "cap", "deadline", "crashed"}

\* The calls that occupy a thread of the pool, whoever still waits for them.
Busy == {c \in Batches \X Items : call[c[1]][c[2]] \in InThread}

Allowed(b) == 1 .. counted[b]

Init ==
    /\ phase   = [b \in Batches |-> "new"]
    /\ rows    = [b \in Batches |-> 0]
    /\ unread  = [b \in Batches |-> 0]
    /\ items   = [b \in Batches |-> 0]
    /\ counted = [b \in Batches |-> 0]
    /\ stopped = [b \in Batches |-> FALSE]
    /\ call    = [b \in Batches |-> [i \in Items |-> "none"]]
    /\ result  = [b \in Batches |-> [i \in Items |-> "none"]]
    /\ note    = [b \in Batches |-> "none"]
    /\ day = 0 /\ calls = 0 /\ requests = {}

-----------------------------------------------------------------------------
(* The thread of a batch                                                   *)

\* _run_judge of a report with n rows: all of them are picked, or only the
\* suspicious ones when there are too many; of those picked, the ones whose
\* source cannot be read are passed over in silence.
Partial(b) == rows[b] > MaxItems

Select(b, n, suspicious, bad) ==
    LET picked == IF n > MaxItems THEN suspicious ELSE n
    IN  /\ phase[b] = "new"
        /\ bad <= picked
        /\ phase'  = [phase EXCEPT ![b] = "counting"]
        /\ rows'   = [rows EXCEPT ![b] = n]
        /\ unread' = [unread EXCEPT ![b] = bad]
        /\ items'  = [items EXCEPT ![b] = picked - bad]
        /\ UNCHANGED <<counted, stopped, note, call, result, day, calls, requests>>

\* Mutant: the UPDATE without its condition on calls.
CountUnchecked(b) ==
    /\ phase[b] = "counting"
    /\ counted[b] < items[b] /\ ~stopped[b]
    /\ calls'   = calls + 1
    /\ counted' = [counted EXCEPT ![b] = @ + 1]
    /\ UNCHANGED <<phase, selection, stopped, note, call, result, day, requests>>

\* on_call = _daily_cap_ok: one conditional UPDATE charges one item.
Count(b) ==
    /\ phase[b] = "counting"
    /\ counted[b] < items[b] /\ ~stopped[b]
    /\ IF calls < Cap
       THEN /\ calls'   = calls + 1
            /\ counted' = [counted EXCEPT ![b] = @ + 1]
            /\ UNCHANGED stopped
       ELSE /\ stopped' = [stopped EXCEPT ![b] = TRUE]
            /\ UNCHANGED <<calls, counted>>
    /\ UNCHANGED <<phase, selection, note, call, result, day, requests>>

\* The backend is gone, or the UPDATE raises (database locked): _run_judge
\* ends before any call, and process_one_job writes the reason into the note.
JudgeFails(b) ==
    /\ \/ phase[b] = "new"
       \/ phase[b] = "counting" /\ counted[b] < items[b] /\ ~stopped[b]
    /\ phase' = [phase EXCEPT ![b] = "done"]
    /\ note'  = [note EXCEPT ![b] = "crashed"]
    /\ UNCHANGED <<selection, counted, stopped, call, result,
                   day, calls, requests>>

\* Mutant: reaching the cap leaves no note.
NoteWithoutCap(b, timedOut, results) ==
    IF timedOut THEN "deadline"
    ELSE IF Partial(b) THEN "partial"
    ELSE IF \E i \in Items : results[i] = "error" THEN "failed"
    ELSE "none"

\* The note _run_judge leaves: the cap hides the deadline, which hides the
\* partial selection, which hides the calls that failed.
Note(b, timedOut, results) ==
    IF stopped[b] THEN "cap"
    ELSE IF timedOut THEN "deadline"
    ELSE IF Partial(b) THEN "partial"
    ELSE IF \E i \in Items : results[i] = "error" THEN "failed"
    ELSE "none"

Finish(b, timedOut, results) ==
    /\ result' = [result EXCEPT ![b] = results]
    /\ note'   = [note EXCEPT ![b] = Note(b, timedOut, results)]

\* Everything is counted: submit the allowed items to the pool, and wait.
Submit(b) ==
    /\ phase[b] = "counting"
    /\ counted[b] = items[b] \/ stopped[b]
    /\ call' = [call EXCEPT ![b] =
                  [i \in Items |-> IF i \in Allowed(b) THEN "pending" ELSE "none"]]
    /\ IF counted[b] = 0
       THEN /\ phase' = [phase EXCEPT ![b] = "done"]
            /\ Finish(b, FALSE, [i \in Items |-> "none"])
       ELSE /\ phase' = [phase EXCEPT ![b] = "waiting"]
            /\ UNCHANGED <<result, note>>
    /\ UNCHANGED <<selection, counted, stopped, day, calls, requests>>

\* futures_wait returns: everything is done, or the deadline has passed and
\* what is not done is given up.
AllAnswered(b) == \A i \in Allowed(b) : call[b][i] \in Answers

Collect(b) ==
    /\ phase[b] = "waiting"
    /\ AllAnswered(b)
    /\ phase' = [phase EXCEPT ![b] = "closing"]
    /\ Finish(b, FALSE, call[b])
    /\ UNCHANGED <<selection, counted, stopped, call, day, calls, requests>>

\* Mutants: what the deadline cut off gets no result; the running calls are
\* waited for, as pool.shutdown(wait=True) would.
ExpireDropsPending(b) ==
    /\ phase[b] = "waiting"
    /\ ~AllAnswered(b)
    /\ phase' = [phase EXCEPT ![b] = "closing"]
    /\ Finish(b, TRUE, [i \in Items |->
                          IF call[b][i] \in Answers THEN call[b][i] ELSE "none"])
    /\ UNCHANGED <<selection, counted, stopped, call, day, calls, requests>>

ExpireWaits(b) ==
    /\ phase[b] = "waiting"
    /\ ~AllAnswered(b)
    /\ \A i \in Items : call[b][i] \notin InThread
    /\ phase' = [phase EXCEPT ![b] = "closing"]
    /\ Finish(b, TRUE, [i \in Items |->
                          IF call[b][i] = "pending" THEN "deadline" ELSE call[b][i]])
    /\ UNCHANGED <<selection, counted, stopped, call, day, calls, requests>>

Expire(b) ==
    /\ phase[b] = "waiting"
    /\ ~AllAnswered(b)
    /\ phase' = [phase EXCEPT ![b] = "closing"]
    /\ Finish(b, TRUE, [i \in Items |->
                          IF i \in Allowed(b) /\ call[b][i] \notin Answers
                          THEN "deadline" ELSE call[b][i]])
    /\ UNCHANGED <<selection, counted, stopped, call, day, calls, requests>>

\* Mutants: the status misspelt; the calls given up are left in the queue.
CloseMisspelt(b) ==
    /\ phase[b] = "closing"
    /\ phase' = [phase EXCEPT ![b] = "done"]
    /\ call'  = [call EXCEPT ![b] =
                   [i \in Items |-> IF @[i] = "pending" THEN "canceled" ELSE @[i]]]
    /\ UNCHANGED <<selection, counted, stopped, note, result,
                   day, calls, requests>>

CloseWithoutCancel(b) ==
    /\ phase[b] = "closing"
    /\ phase' = [phase EXCEPT ![b] = "done"]
    /\ UNCHANGED <<selection, counted, stopped, note, call, result,
                   day, calls, requests>>

\* future.cancel() on what was not done, then client.close().  Only a call
\* still waiting for a thread can be cancelled.
Close(b) ==
    /\ phase[b] = "closing"
    /\ phase' = [phase EXCEPT ![b] = "done"]
    /\ call'  = [call EXCEPT ![b] =
                   [i \in Items |-> IF @[i] = "pending" THEN "cancelled" ELSE @[i]]]
    /\ UNCHANGED <<selection, counted, stopped, note, result,
                   day, calls, requests>>

-----------------------------------------------------------------------------
(* The threads of the pool: judge_one                                      *)

Move(b, i, to) == call' = [call EXCEPT ![b][i] = to]

\* client.post: one more request for item i.
PostsOf(b, i) == {r \in requests : r[1] = <<b, i>>}
Post(b, i) == requests' = requests \cup {<< <<b, i>>, Cardinality(PostsOf(b, i)) + 1 >>}

\* A thread is free: the first POST goes out.  The pool starts calls in the
\* order of submission; any order is allowed here.
StartCall(b, i) ==
    /\ call[b][i] = "pending"
    /\ Cardinality(Busy) < Concurrency
    /\ Move(b, i, "first") /\ Post(b, i)
    /\ UNCHANGED <<batchVars, result, day, calls>>

\* Mutant: the retry may be retried (`attempt == 1` is forgotten).
RetryForEver(b, i) ==
    /\ call[b][i] \in {"first", "second"}
    /\ Move(b, i, "sleeping")
    /\ UNCHANGED <<batchVars, result, day, calls, requests>>

\* 429 or 5xx to the first POST: sleep for Retry-After, then try again.
RetryLater(b, i) ==
    /\ call[b][i] = "first"
    /\ Move(b, i, "sleeping")
    /\ UNCHANGED <<batchVars, result, day, calls, requests>>

\* The second POST; it raises if the batch has closed its client meanwhile.
Retry(b, i) ==
    /\ call[b][i] = "sleeping"
    /\ IF phase[b] = "done"
       THEN Move(b, i, "error") /\ UNCHANGED requests
       ELSE Move(b, i, "second") /\ Post(b, i)
    /\ UNCHANGED <<batchVars, result, day, calls>>

\* Mutant: the thread itself records its result.
AnswerRecords(b, i, a) ==
    /\ call[b][i] \in {"first", "second"}
    /\ Move(b, i, a)
    /\ result' = [result EXCEPT ![b][i] = a]
    /\ UNCHANGED <<batchVars, day, calls, requests>>

\* An answer that _parse accepts or not, an HTTP error, or a timeout.
Answer(b, i, a) ==
    /\ call[b][i] \in {"first", "second"}
    /\ Move(b, i, a)
    /\ UNCHANGED <<batchVars, result, day, calls, requests>>

\* Midnight: the budget is a new row of llm_usage.
NewDay ==
    /\ day < LastDay
    /\ day' = day + 1
    /\ calls' = 0
    /\ UNCHANGED <<batchVars, call, result, requests>>

BatchStep(b) ==
    \/ Count(b) \/ JudgeFails(b)
    \/ Submit(b) \/ Collect(b) \/ Expire(b) \/ Close(b)

Next ==
    \/ \E b \in Batches, n \in 0 .. MaxRows :
          \E suspicious, bad \in 0 .. n : Select(b, n, suspicious, bad)
    \/ \E b \in Batches : BatchStep(b)
    \/ \E b \in Batches, i \in Items :
          \/ StartCall(b, i) \/ RetryLater(b, i) \/ Retry(b, i)
          \/ \E a \in Answers : Answer(b, i, a)
    \/ NewDay

Spec == Init /\ [][Next]_vars

\* The thread of a batch runs, and its deadline passes; nothing is asked of
\* the provider or of the pool.
LiveSpec == Spec /\ \A b \in Batches : WF_vars(BatchStep(b))

-----------------------------------------------------------------------------

TypeOK ==
    /\ phase   \in [Batches -> Phase]
    /\ rows    \in [Batches -> 0 .. MaxRows]
    /\ unread  \in [Batches -> 0 .. MaxRows]
    /\ items   \in [Batches -> 0 .. MaxRows]
    /\ counted \in [Batches -> 0 .. MaxRows]
    /\ stopped \in [Batches -> BOOLEAN]
    /\ call    \in [Batches -> [Items -> Calls]]
    /\ result  \in [Batches -> [Items -> Results]]
    /\ note    \in [Batches -> Notes]
    /\ day \in Nat /\ calls \in Nat
    /\ requests \subseteq (Batches \X Items) \X Nat

\* A finished batch has a result for every item it charged to the budget and
\* for no other, although futures end, are cancelled or are left running
\* while run_judge collects them.
OneResultPerItem ==
    \A b \in Batches : phase[b] = "done" /\ note[b] # "crashed" =>
        \A i \in Items : result[b][i] # "none" <=> i \in Allowed(b)

\* Scores are those the provider gave before the deadline: a late answer
\* never turns into a result after the report was written.
ResultsFrozen ==
    [][\A b \in Batches : phase[b] = "done" => result'[b] = result[b]]_vars

\* The items that batches racing for the daily budget ever hand to the pool
\* are no more than the budgets of the days that have begun.
Submitted == {c \in Batches \X Items : call[c[1]][c[2]] # "none"}

WithinBudget == Cardinality(Submitted) <= Cap * (day + 1)

\* A batch that has ended sends nothing more: what waited for a thread was
\* cancelled, and a retry finds the client closed.
SilentWhenDone ==
    [][\A b \in Batches, i \in Items :
          phase[b] = "done" /\ call'[b][i] # call[b][i]
          => call'[b][i] \notin {"first", "second"}]_vars

\* The budget charges items, not requests: a retry is not counted.  Still the
\* provider never sees more than two requests per call of the budgets of the
\* days that have begun, whichever batches race, retry after a midnight or
\* give up their calls (_daily_cap_ok charges before judge_one sends).
TwicePerCharge == Cardinality(requests) <= 2 * (Cap * (day + 1))

\* The only rows that a report without a note has and the judge has not
\* answered for are those whose source could not be read: one note stands for
\* the selection, the calls that failed, the budget and the deadline, which
\* hide each other.  (An answer that was not understood is an answer.)
Answered(b) == {i \in Items : result[b][i] \in {"scored", "unparsed"}}

GapsAreNoted ==
    \A b \in Batches : phase[b] = "done" /\ note[b] = "none" =>
        Cardinality(Answered(b)) = rows[b] - unread[b]

\* A batch ends although the provider never answers and no thread is free.
BatchEnds == \A b \in Batches : phase[b] = "counting" ~> phase[b] = "done"

=============================================================================
