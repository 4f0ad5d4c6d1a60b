---------------------------- MODULE JudgeProofs ----------------------------
(***************************************************************************)
(* Theorems about Judge, for any number of batches and any width of the    *)
(* pool, budget and limits.                                                *)
(*                                                                         *)
(* Three facts carry everything: where the thread of a batch stands says   *)
(* which of its calls and results may exist (PhaseInv), the items charged  *)
(* so far fit in the budgets of the days that began (BudgetInv), and where *)
(* a call stands says which requests it may have sent (PostsInv).          *)
(***************************************************************************)
EXTENDS Judge, FiniteSetTheorems, TLAPS

\* selection only groups variables, and Partial names a comparison of two.
USE DEF selection, Partial

PhaseInv(b) ==
    /\ counted[b] <= items[b]
    /\ ~Partial(b) => items[b] + unread[b] = rows[b]
    /\ phase[b] = "new" => counted[b] = 0
    /\ phase[b] # "done" => note[b] # "crashed"
    /\ phase[b] \in {"new", "counting"} \/ note[b] = "crashed" =>
          \A i \in Items : call[b][i] = "none"
    /\ phase[b] \in {"waiting", "closing"} =>
          \A i \in Items : call[b][i] # "cancelled"
    /\ phase[b] = "done" => \A i \in Items : call[b][i] # "pending"
    /\ phase[b] \in {"waiting", "closing", "done"} /\ note[b] # "crashed" =>
          /\ counted[b] = items[b] \/ stopped[b]
          /\ \A i \in Items : call[b][i] # "none" <=> i \in Allowed(b)
    /\ phase[b] \in {"closing", "done"} /\ note[b] # "crashed" =>
          /\ \A i \in Items : result[b][i] # "none" <=> i \in Allowed(b)
          /\ note[b] = "none" =>
                /\ ~stopped[b] /\ ~Partial(b)
                /\ \A i \in Items : result[b][i] \notin {"deadline", "error"}

\* TypeOK but for requests, whose numbers follow from the calls (PostsInv).
CoreTypeOK ==
    /\ phase   \in [Batches -> Phase]
    /\ rows    \in [Batches -> 0 .. MaxRows]
    /\ unread  \in [Batches -> 0 .. MaxRows]
    /\ items   \in [Batches -> 0 .. MaxRows]
    /\ counted \in [Batches -> 0 .. MaxRows]
    /\ stopped \in [Batches -> BOOLEAN]
    /\ call    \in [Batches -> [Items -> Calls]]
    /\ result  \in [Batches -> [Items -> Results]]
    /\ note    \in [Batches -> Notes]
    /\ day \in Nat /\ calls \in Nat

IInv == CoreTypeOK /\ \A b \in Batches : PhaseInv(b)

\* The items charged to the budget of some day.
Charged == {c \in Batches \X Items : c[2] <= counted[c[1]]}

BudgetInv ==
    /\ calls <= Cap
    /\ Cardinality(Charged) <= Cap * day + calls

-----------------------------------------------------------------------------

\* A note never claims a crash that did not happen, and none is written only
\* when there is nothing to tell.
LEMMA NoteValues ==
    ASSUME NEW b \in Batches, CoreTypeOK, NEW timedOut \in BOOLEAN,
           NEW results \in [Items -> Results]
    PROVE  /\ Note(b, timedOut, results) \in Notes \ {"crashed"}
           /\ Note(b, timedOut, results) = "none" =>
                /\ ~stopped[b] /\ ~Partial(b) /\ ~timedOut
                /\ \A i \in Items : results[i] # "error"
  BY DEF Note, Notes, CoreTypeOK

LEMMA InitIInv == Init => IInv
  <1> SUFFICES ASSUME Init PROVE IInv
    OBVIOUS
  <1>1. CoreTypeOK
    BY JudgeAssumption DEF Init, CoreTypeOK, Phase, Calls, Results, Notes, InThread, Answers
  <1>2. \A b \in Batches : PhaseInv(b)
    BY DEF Init, PhaseInv
  <1> QED
    BY <1>1, <1>2 DEF IInv

-----------------------------------------------------------------------------
(* The thread of a batch preserves IInv: one lemma per action              *)

\* What an action of b leaves of the other batches.
LEMMA OthersKeep ==
    ASSUME NEW c \in Batches, PhaseInv(c),
           phase'[c] = phase[c], items'[c] = items[c],
           rows'[c] = rows[c], unread'[c] = unread[c], counted'[c] = counted[c],
           stopped'[c] = stopped[c], note'[c] = note[c],
           call'[c] = call[c], result'[c] = result[c]
    PROVE  PhaseInv(c)'
  BY DEF PhaseInv, Allowed

LEMMA SelectKeeps ==
    ASSUME IInv, NEW b \in Batches, NEW n \in 0 .. MaxRows,
           NEW suspicious \in 0 .. n, NEW bad \in 0 .. n, Select(b, n, suspicious, bad)
    PROVE  IInv'
  <1> USE JudgeAssumption
  <1>1. CoreTypeOK'
    BY DEF IInv, CoreTypeOK, Select, Phase
  <1>2. PhaseInv(b)'
    BY DEF IInv, CoreTypeOK, PhaseInv, Select, Phase, Allowed
  <1>3. ASSUME NEW c \in Batches, c # b PROVE PhaseInv(c)'
    BY <1>3, OthersKeep DEF IInv, CoreTypeOK, Select
  <1>4. QED
    BY <1>1, <1>2, <1>3 DEF IInv

LEMMA CountKeeps ==
    ASSUME IInv, NEW b \in Batches, Count(b)
    PROVE  IInv'
  <1> USE JudgeAssumption
  <1>1. CoreTypeOK'
    <2>1. counted[b] \in 0 .. MaxRows /\ items[b] \in 0 .. MaxRows /\ calls \in Nat
      BY DEF IInv, CoreTypeOK
    <2>2. CASE calls < Cap
      <3>1. counted[b] + 1 \in 0 .. MaxRows /\ calls + 1 \in Nat
        BY <2>1 DEF Count
      <3>2. counted' \in [Batches -> 0 .. MaxRows] /\ calls' \in Nat
        BY <2>2, <3>1 DEF IInv, CoreTypeOK, Count
      <3>3. QED
        BY <2>2, <3>2 DEF IInv, CoreTypeOK, Count
    <2>3. CASE ~(calls < Cap)
      BY <2>3 DEF IInv, CoreTypeOK, Count
    <2>4. QED
      BY <2>2, <2>3
  <1>2. PhaseInv(b)'
    BY DEF IInv, CoreTypeOK, PhaseInv, Count, Phase, Allowed
  <1>3. ASSUME NEW c \in Batches, c # b PROVE PhaseInv(c)'
    BY <1>3, OthersKeep DEF IInv, CoreTypeOK, Count
  <1>4. QED
    BY <1>1, <1>2, <1>3 DEF IInv

LEMMA JudgeFailsKeeps ==
    ASSUME IInv, NEW b \in Batches, JudgeFails(b)
    PROVE  IInv'
  <1> USE JudgeAssumption
  <1>1. CoreTypeOK'
    BY DEF IInv, CoreTypeOK, JudgeFails, Phase, Notes
  <1>2. PhaseInv(b)'
    BY DEF IInv, CoreTypeOK, PhaseInv, JudgeFails, Phase, Notes, Allowed
  <1>3. ASSUME NEW c \in Batches, c # b PROVE PhaseInv(c)'
    BY <1>3, OthersKeep DEF IInv, CoreTypeOK, JudgeFails
  <1>4. QED
    BY <1>1, <1>2, <1>3 DEF IInv

LEMMA SubmitKeeps ==
    ASSUME IInv, NEW b \in Batches, Submit(b)
    PROVE  IInv'
  <1> USE JudgeAssumption
  <1> DEFINE none == [i \in Items |-> "none"]
  <1>1. none \in [Items -> Results] /\ \A i \in Items : none[i] = "none"
    BY DEF Results
  <1> HIDE DEF none
  <1>2. /\ call'[b] \in [Items -> Calls]
        /\ \A i \in Items :
              call'[b][i] = IF i \in Allowed(b) THEN "pending" ELSE "none"
        /\ call' = [call EXCEPT ![b] = call'[b]]
    BY DEF IInv, CoreTypeOK, Submit, Calls
  <1>3. CASE counted[b] = 0
    <2>1. /\ phase' = [phase EXCEPT ![b] = "done"]
          /\ result' = [result EXCEPT ![b] = none]
          /\ note' = [note EXCEPT ![b] = Note(b, FALSE, none)]
      BY <1>3 DEF Submit, Finish, none
    <2>2. Allowed(b) = {}
      BY <1>3 DEF Allowed
    <2>3. /\ Note(b, FALSE, none) \in Notes \ {"crashed"}
          /\ Note(b, FALSE, none) = "none" =>
               /\ ~stopped[b] /\ ~Partial(b)
               /\ \A i \in Items : none[i] # "error"
      BY <1>1, NoteValues DEF IInv
    <2>4. CoreTypeOK'
      <3>1. result' \in [Batches -> [Items -> Results]]
        BY <1>1, <2>1 DEF IInv, CoreTypeOK
      <3>2. call' \in [Batches -> [Items -> Calls]]
        BY <1>2 DEF IInv, CoreTypeOK
      <3>3. phase' \in [Batches -> Phase] /\ note' \in [Batches -> Notes]
        BY <2>1, <2>3 DEF IInv, CoreTypeOK, Phase
      <3>4. QED
        BY <3>1, <3>2, <3>3 DEF IInv, CoreTypeOK, Submit
    <2>5. PhaseInv(b)'
      <3>1. /\ phase'[b] = "done" /\ note'[b] = Note(b, FALSE, none)
            /\ result'[b] = none
            /\ UNCHANGED <<selection, counted, stopped>>
        BY <2>1 DEF IInv, CoreTypeOK, Submit
      <3>2. /\ counted[b] <= items[b]
            /\ ~Partial(b) => items[b] + unread[b] = rows[b]
            /\ counted[b] = items[b] \/ stopped[b]
        BY DEF IInv, PhaseInv, Submit
      <3>3. /\ Allowed(b)' = {}
            /\ \A i \in Items : call'[b][i] = "none"
        BY <1>2, <2>2, <3>1 DEF Allowed
      <3>4. note'[b] # "crashed"
        BY <2>3, <3>1
      <3>5. note'[b] = "none" => ~stopped[b] /\ ~Partial(b)
        BY <2>3, <3>1
      <3>6. \A i \in Items : result'[b][i] = "none"
        BY <1>1, <3>1
      <3> QED
        BY <1>3, <3>1, <3>2, <3>3, <3>4, <3>5, <3>6 DEF PhaseInv
    <2>6. ASSUME NEW c \in Batches, c # b PROVE PhaseInv(c)'
      BY <2>1, <2>6, <1>2, OthersKeep DEF IInv, CoreTypeOK, Submit
    <2>7. QED
      BY <2>4, <2>5, <2>6 DEF IInv
  <1>4. CASE counted[b] # 0
    <2>1. phase' = [phase EXCEPT ![b] = "waiting"] /\ UNCHANGED <<result, note>>
      BY <1>4 DEF Submit
    <2>2. CoreTypeOK'
      <3>1. call' \in [Batches -> [Items -> Calls]]
        BY <1>2 DEF IInv, CoreTypeOK
      <3>2. phase' \in [Batches -> Phase]
        BY <2>1 DEF IInv, CoreTypeOK, Phase
      <3>3. QED
        BY <2>1, <3>1, <3>2 DEF IInv, CoreTypeOK, Submit
    <2>3. PhaseInv(b)'
      BY <1>2, <2>1 DEF IInv, CoreTypeOK, PhaseInv, Submit, Allowed
    <2>4. ASSUME NEW c \in Batches, c # b PROVE PhaseInv(c)'
      BY <2>1, <2>4, <1>2, OthersKeep DEF IInv, CoreTypeOK, Submit
    <2>5. QED
      BY <2>2, <2>3, <2>4 DEF IInv
  <1>5. QED
    BY <1>3, <1>4

\* Collect and Expire: the results a batch that waits ends with.
LEMMA FinishKeeps ==
    ASSUME IInv, NEW b \in Batches, phase[b] = "waiting",
           phase' = [phase EXCEPT ![b] = "closing"],
           NEW timedOut \in BOOLEAN, NEW results \in [Items -> Results],
           \A i \in Items : results[i] # "none" <=> i \in Allowed(b),
           ~timedOut => \A i \in Items : results[i] # "deadline",
           Finish(b, timedOut, results),
           UNCHANGED <<selection, counted, stopped, call, day, calls, requests>>
    PROVE  IInv'
  <1>1. /\ Note(b, timedOut, results) \in Notes \ {"crashed"}
        /\ Note(b, timedOut, results) = "none" =>
             /\ ~stopped[b] /\ ~Partial(b) /\ ~timedOut
             /\ \A i \in Items : results[i] # "error"
    BY NoteValues DEF IInv
  <1>2. /\ result' = [result EXCEPT ![b] = results]
        /\ note' = [note EXCEPT ![b] = Note(b, timedOut, results)]
    BY DEF Finish
  <1>3. CoreTypeOK'
    BY <1>1, <1>2 DEF IInv, CoreTypeOK, Phase
  <1>4. PhaseInv(b)'
    BY <1>1, <1>2 DEF IInv, CoreTypeOK, PhaseInv, Allowed
  <1>5. ASSUME NEW c \in Batches, c # b PROVE PhaseInv(c)'
    BY <1>2, <1>5, OthersKeep DEF IInv, CoreTypeOK
  <1>6. QED
    BY <1>3, <1>4, <1>5 DEF IInv

LEMMA CollectKeeps ==
    ASSUME IInv, NEW b \in Batches, Collect(b)
    PROVE  IInv'
  <1>1. phase[b] = "waiting" /\ note[b] # "crashed"
    BY DEF Collect, IInv, PhaseInv
  <1>2. \A i \in Items : call[b][i] # "none" <=> i \in Allowed(b)
    BY <1>1 DEF IInv, PhaseInv
  <1>3. \A i \in Items : call[b][i] \in Answers \cup {"none"}
    BY <1>2 DEF Collect, AllAnswered
  <1>4. call[b] \in [Items -> Results]
    BY <1>3 DEF IInv, CoreTypeOK, Results
  <1>5. \A i \in Items : call[b][i] # "deadline"
    BY <1>3 DEF Answers
  <1>6. QED
    BY <1>1, <1>2, <1>4, <1>5, FinishKeeps DEF Collect

LEMMA ExpireKeeps ==
    ASSUME IInv, NEW b \in Batches, Expire(b)
    PROVE  IInv'
  <1> DEFINE results == [i \in Items |->
                           IF i \in Allowed(b) /\ call[b][i] \notin Answers
                           THEN "deadline" ELSE call[b][i]]
  <1>1. phase[b] = "waiting" /\ note[b] # "crashed"
    BY DEF Expire, IInv, PhaseInv
  <1>2. \A i \in Items : call[b][i] # "none" <=> i \in Allowed(b)
    BY <1>1 DEF IInv, PhaseInv
  <1>3. \A i \in Items : results[i] # "none" <=> i \in Allowed(b)
    BY <1>2
  <1>4. results \in [Items -> Results]
    BY <1>2 DEF Results
  <1>5. /\ phase' = [phase EXCEPT ![b] = "closing"]
        /\ Finish(b, TRUE, results)
        /\ UNCHANGED <<selection, counted, stopped, call, day, calls, requests>>
    BY DEF Expire
  <1> HIDE DEF results
  <1>6. QED
    BY <1>1, <1>3, <1>4, <1>5, FinishKeeps

LEMMA CloseKeeps ==
    ASSUME IInv, NEW b \in Batches, Close(b)
    PROVE  IInv'
  <1>1. /\ call'[b] \in [Items -> Calls]
        /\ \A i \in Items :
              call'[b][i] = IF call[b][i] = "pending" THEN "cancelled" ELSE call[b][i]
        /\ call' = [call EXCEPT ![b] = call'[b]]
    BY DEF IInv, CoreTypeOK, Close, Calls
  <1>2. CoreTypeOK'
    BY <1>1 DEF IInv, CoreTypeOK, Close, Phase
  <1>3. PhaseInv(b)'
    BY <1>1 DEF IInv, CoreTypeOK, PhaseInv, Close, Allowed
  <1>4. ASSUME NEW c \in Batches, c # b PROVE PhaseInv(c)'
    BY <1>1, <1>4, OthersKeep DEF IInv, CoreTypeOK, Close
  <1>5. QED
    BY <1>2, <1>3, <1>4 DEF IInv

\* A thread of the pool only moves a call that was submitted.
LEMMA MoveKeeps ==
    ASSUME IInv, NEW b \in Batches, NEW i \in Items,
           NEW to \in Calls \ {"none", "pending", "cancelled"},
           call[b][i] \notin {"none", "cancelled"},
           Move(b, i, to),
           UNCHANGED <<batchVars, result, day, calls>>
    PROVE  IInv'
  <1>1. /\ call' \in [Batches -> [Items -> Calls]]
        /\ \A k \in Items :
              call'[b][k] = IF k = i THEN to ELSE call[b][k]
        /\ \A c \in Batches : c # b => call'[c] = call[c]
    BY DEF IInv, CoreTypeOK, Move
  <1>2. CoreTypeOK'
    BY <1>1 DEF IInv, CoreTypeOK, batchVars
  <1>3. PhaseInv(b)'
    BY <1>1 DEF IInv, CoreTypeOK, PhaseInv, batchVars, Allowed
  <1>4. ASSUME NEW c \in Batches, c # b PROVE PhaseInv(c)'
    BY <1>1, <1>4, OthersKeep DEF IInv, batchVars
  <1>5. QED
    BY <1>2, <1>3, <1>4 DEF IInv

LEMMA ThreadKeeps ==
    ASSUME IInv, NEW b \in Batches, NEW i \in Items,
           \/ StartCall(b, i) \/ RetryLater(b, i) \/ Retry(b, i)
           \/ \E a \in Answers : Answer(b, i, a)
    PROVE  IInv'
  <1> USE DEF Calls, InThread, Answers
  <1>1. CASE StartCall(b, i)
    BY <1>1, MoveKeeps DEF StartCall
  <1>2. CASE RetryLater(b, i)
    BY <1>2, MoveKeeps DEF RetryLater
  <1>3. CASE Retry(b, i)
    <2>1. CASE phase[b] = "done"
      BY <1>3, <2>1, MoveKeeps DEF Retry
    <2>2. CASE phase[b] # "done"
      BY <1>3, <2>2, MoveKeeps DEF Retry
    <2>3. QED
      BY <2>1, <2>2
  <1>4. ASSUME NEW a \in Answers, Answer(b, i, a) PROVE IInv'
    BY <1>4, MoveKeeps DEF Answer
  <1>5. QED
    BY <1>1, <1>2, <1>3, <1>4

LEMMA StepKeepsIInv == IInv /\ [Next]_vars => IInv'
  <1> SUFFICES ASSUME IInv, [Next]_vars PROVE IInv'
    OBVIOUS
  <1>1. ASSUME NEW b \in Batches, NEW n \in 0 .. MaxRows,
               NEW suspicious \in 0 .. n, NEW bad \in 0 .. n, Select(b, n, suspicious, bad)
        PROVE  IInv'
    BY <1>1, SelectKeeps
  <1>2. ASSUME NEW b \in Batches, BatchStep(b) PROVE IInv'
    BY <1>2, CountKeeps, JudgeFailsKeeps, SubmitKeeps, CollectKeeps,
       ExpireKeeps, CloseKeeps DEF BatchStep
  <1>3. ASSUME NEW b \in Batches, NEW i \in Items,
               \/ StartCall(b, i) \/ RetryLater(b, i) \/ Retry(b, i)
               \/ \E a \in Answers : Answer(b, i, a)
        PROVE  IInv'
    BY <1>3, ThreadKeeps
  <1>4. CASE NewDay
    <2>1. \A c \in Batches : PhaseInv(c)'
      BY <1>4, OthersKeep DEF IInv, NewDay, batchVars
    <2>2. CoreTypeOK'
      BY <1>4 DEF IInv, CoreTypeOK, NewDay, batchVars
    <2>3. QED
      BY <2>1, <2>2 DEF IInv
  <1>5. CASE UNCHANGED vars
    <2>1. \A c \in Batches : PhaseInv(c)'
      BY <1>5, OthersKeep DEF IInv, vars, batchVars
    <2>2. CoreTypeOK'
      BY <1>5 DEF IInv, CoreTypeOK, vars, batchVars
    <2>3. QED
      BY <2>1, <2>2 DEF IInv
  <1>6. QED
    BY <1>1, <1>2, <1>3, <1>4, <1>5 DEF Next

LEMMA IInvHolds == Spec => []IInv
  BY InitIInv, StepKeepsIInv, PTL DEF Spec

-----------------------------------------------------------------------------
(* The theorems that follow from IInv alone                                *)

\* A finished batch has a result for exactly the items it charged.
THEOREM OneResultHolds == Spec => []OneResultPerItem
  <1>1. IInv => OneResultPerItem
    BY DEF IInv, PhaseInv, OneResultPerItem
  <1>2. QED
    BY <1>1, IInvHolds, PTL

\* A report without a note has an answer of the model for every row whose
\* source could be read.
THEOREM GapsAreAlwaysNoted == Spec => []GapsAreNoted
  <1>1. IInv => GapsAreNoted
    <2> SUFFICES ASSUME IInv, NEW b \in Batches, phase[b] = "done", note[b] = "none"
                 PROVE  Cardinality(Answered(b)) = rows[b] - unread[b]
      BY DEF GapsAreNoted
    <2>1. /\ ~stopped[b] /\ ~Partial(b) /\ counted[b] = items[b]
          /\ \A i \in Items : result[b][i] # "none" <=> i \in Allowed(b)
          /\ \A i \in Items : result[b][i] \notin {"deadline", "error"}
          /\ items[b] + unread[b] = rows[b]
      BY DEF IInv, PhaseInv
    <2>2. /\ \A i \in Items : result[b][i] \in Results
          /\ items[b] \in 0 .. MaxRows /\ unread[b] \in Nat /\ rows[b] \in Nat
      BY JudgeAssumption DEF IInv, CoreTypeOK
    <2>3. Answered(b) = 1 .. items[b]
      <3>1. 1 .. items[b] \subseteq Items
        BY <2>2, JudgeAssumption DEF Items
      <3>2. \A i \in Items : result[b][i] \in {"scored", "unparsed"} <=> i \in 1 .. items[b]
        BY <2>1, <2>2 DEF Allowed, Results, Answers
      <3>3. QED
        BY <3>1, <3>2 DEF Answered
    <2>4. Cardinality(1 .. items[b]) = items[b]
      <3>1. items[b] \in Nat
        BY <2>2
      <3>2. IF 1 > items[b] THEN items[b] = 0 ELSE items[b] - 1 + 1 = items[b]
        BY <3>1
      <3>3. QED
        BY <3>1, <3>2, FS_Interval
    <2>5. QED
      BY <2>1, <2>2, <2>3, <2>4
  <1>2. QED
    BY <1>1, IInvHolds, PTL

\* After the batch has ended, none of its calls is sent or sent again.
THEOREM SilentWhenDoneHolds == Spec => SilentWhenDone
  <1>1. ASSUME IInv, Next, NEW b \in Batches, NEW i \in Items,
               phase[b] = "done", call'[b][i] # call[b][i]
        PROVE  call'[b][i] \notin {"first", "second"}
    <2>1. call[b][i] # "pending" /\ call \in [Batches -> [Items -> Calls]]
      BY <1>1 DEF IInv, PhaseInv, CoreTypeOK
    <2>2. ASSUME NEW c \in Batches, NEW n \in 0 .. MaxRows,
                 NEW suspicious \in 0 .. n, NEW bad \in 0 .. n, Select(c, n, suspicious, bad)
          PROVE  call' = call
      BY <2>2 DEF Select
    <2>3. ASSUME NEW c \in Batches, BatchStep(c)
          PROVE  c = b \/ call'[b] = call[b]
      BY <2>1, <2>3
      DEF BatchStep, Count, JudgeFails, Submit, Collect, Expire, Close
    <2>4. ASSUME BatchStep(b) PROVE call' = call
      BY <1>1, <2>4
      DEF BatchStep, Count, JudgeFails, Submit, Collect, Expire, Close
    <2>5. ASSUME NEW c \in Batches, NEW k \in Items,
                 \/ StartCall(c, k) \/ RetryLater(c, k) \/ Retry(c, k)
                 \/ \E a \in Answers : Answer(c, k, a)
          PROVE  call'[b][i] \notin {"first", "second"}
      <3>1. c = b /\ k = i
        BY <1>1, <2>1, <2>5 DEF StartCall, RetryLater, Retry, Answer, Move
      <3>2. CASE StartCall(b, i)
        BY <2>1, <3>2 DEF StartCall
      <3>3. CASE RetryLater(b, i)
        BY <2>1, <3>3 DEF RetryLater, Move
      <3>4. CASE Retry(b, i)
        BY <1>1, <2>1, <3>4 DEF Retry, Move
      <3>5. ASSUME NEW a \in Answers, Answer(b, i, a)
            PROVE  call'[b][i] \notin {"first", "second"}
        BY <2>1, <3>5 DEF Answer, Move, Answers
      <3>6. QED
        BY <2>5, <3>1, <3>2, <3>3, <3>4, <3>5
    <2>6. ASSUME NewDay PROVE call' = call
      BY <2>6 DEF NewDay
    <2>7. QED
      BY <1>1, <2>2, <2>3, <2>4, <2>5, <2>6 DEF Next
  <1>2. IInv /\ [Next]_vars =>
          [\A b \in Batches, i \in Items :
              phase[b] = "done" /\ call'[b][i] # call[b][i]
              => call'[b][i] \notin {"first", "second"}]_vars
    BY <1>1
  <1>3. QED
    BY <1>2, IInvHolds, PTL DEF Spec, SilentWhenDone

-----------------------------------------------------------------------------
(* The daily budget and the pool                                           *)

LEMMA ChargedIsFinite ==
    ASSUME CoreTypeOK
    PROVE  IsFiniteSet(Charged) /\ Cardinality(Charged) \in Nat
  <1>1. IsFiniteSet(Batches) /\ IsFiniteSet(Items)
    BY JudgeAssumption, FS_Interval DEF Items
  <1>2. IsFiniteSet(Batches \X Items)
    BY <1>1, FS_Product
  <1>3. Charged \subseteq Batches \X Items
    BY DEF Charged
  <1>4. QED
    BY <1>2, <1>3, FS_Subset, FS_CardinalityType

\* Only Count adds to Charged, one item, and pays for it.
LEMMA CountPays ==
    ASSUME IInv, NEW b \in Batches, Count(b)
    PROVE  \/ Charged' = Charged /\ calls' = calls
           \/ /\ calls < Cap /\ calls' = calls + 1
              /\ Cardinality(Charged') \in Nat
              /\ Cardinality(Charged') <= Cardinality(Charged) + 1
  <1> DEFINE new == <<b, counted[b] + 1>>
  <1>1. CASE calls < Cap
    <2>1. /\ calls' = calls + 1
          /\ counted'[b] = counted[b] + 1
          /\ \A c \in Batches : c # b => counted'[c] = counted[c]
          /\ counted \in [Batches -> 0 .. MaxRows]
      BY <1>1 DEF Count, IInv, CoreTypeOK
    <2>2. Charged' \subseteq Charged \cup {new}
      <3>1. SUFFICES ASSUME NEW c \in Batches, NEW i \in Items,
                            i <= counted'[c], <<c, i>> # new
                     PROVE  i <= counted[c]
        BY DEF Charged
      <3>2. i \in Nat /\ counted[c] \in Nat
        BY <2>1, JudgeAssumption DEF Items
      <3>3. QED
        BY <2>1, <3>1, <3>2
    <2> HIDE DEF new
    <2>3. /\ IsFiniteSet(Charged \cup {new})
          /\ Cardinality(Charged \cup {new}) <= Cardinality(Charged) + 1
      <3>1. IsFiniteSet(Charged) /\ Cardinality(Charged) \in Nat
        BY ChargedIsFinite DEF IInv
      <3>2. /\ IsFiniteSet(Charged \cup {new})
            /\ Cardinality(Charged \cup {new})
                 = IF new \in Charged THEN Cardinality(Charged) ELSE Cardinality(Charged) + 1
        BY <3>1, FS_AddElement
      <3>3. QED
        BY <3>1, <3>2
    <2>4. /\ Cardinality(Charged') <= Cardinality(Charged \cup {new})
          /\ Cardinality(Charged') \in Nat
          /\ Cardinality(Charged \cup {new}) \in Nat
      BY <2>2, <2>3, FS_Subset, FS_CardinalityType
    <2>5. QED
      BY <1>1, <2>1, <2>3, <2>4, ChargedIsFinite DEF IInv
  <1>2. CASE ~(calls < Cap)
    BY <1>2 DEF Count, Charged
  <1>3. QED
    BY <1>1, <1>2

LEMMA BudgetStep == IInv /\ BudgetInv /\ [Next]_vars => BudgetInv'
  <1> SUFFICES ASSUME IInv, BudgetInv, [Next]_vars PROVE BudgetInv'
    OBVIOUS
  <1>1. /\ Cardinality(Charged) \in Nat
        /\ calls \in Nat /\ day \in Nat /\ Cap \in Nat
    BY ChargedIsFinite, JudgeAssumption DEF IInv, CoreTypeOK
  <1>2. CASE UNCHANGED <<counted, day, calls>>
    BY <1>2 DEF BudgetInv, Charged
  <1>3. ASSUME NEW b \in Batches, Count(b) PROVE BudgetInv'
    <2>1. day' = day
      BY <1>3 DEF Count
    <2>2. CASE Charged' = Charged /\ calls' = calls
      BY <2>1, <2>2 DEF BudgetInv
    <2>3. CASE /\ calls < Cap /\ calls' = calls + 1
               /\ Cardinality(Charged') \in Nat
               /\ Cardinality(Charged') <= Cardinality(Charged) + 1
      BY <1>1, <2>1, <2>3 DEF BudgetInv
    <2>4. QED
      BY <1>3, <2>2, <2>3, CountPays
  <1>4. CASE NewDay
    <2>1. Charged' = Charged /\ calls' = 0 /\ day' = day + 1
      BY <1>4 DEF NewDay, batchVars, Charged
    <2>2. Cap * (day + 1) = Cap * day + Cap
      BY <1>1
    <2>3. Cap * day \in Nat
      BY <1>1
    <2>4. QED
      BY <1>1, <2>1, <2>2, <2>3 DEF BudgetInv
  <1>5. ASSUME NEW b \in Batches, BatchStep(b), ~Count(b) PROVE BudgetInv'
    BY <1>2, <1>5 DEF BatchStep, JudgeFails, Submit, Collect, Expire, Close
  <1>6. ASSUME NEW b \in Batches, NEW i \in Items,
               \/ StartCall(b, i) \/ RetryLater(b, i) \/ Retry(b, i)
               \/ \E a \in Answers : Answer(b, i, a)
        PROVE  BudgetInv'
    BY <1>2, <1>6 DEF StartCall, RetryLater, Retry, Answer, batchVars
  <1>7. ASSUME NEW b \in Batches, NEW n \in 0 .. MaxRows,
               NEW suspicious \in 0 .. n, NEW bad \in 0 .. n, Select(b, n, suspicious, bad)
        PROVE  BudgetInv'
    BY <1>2, <1>7 DEF Select
  <1>8. CASE UNCHANGED vars
    BY <1>2, <1>8 DEF vars, batchVars
  <1>9. QED
    BY <1>3, <1>4, <1>5, <1>6, <1>7, <1>8 DEF Next

\* Racing batches never submit more than the budgets of the days begun.
THEOREM WithinBudgetHolds == Spec => []WithinBudget
  <1>1. Init => BudgetInv
    <2> SUFFICES ASSUME Init PROVE BudgetInv
      OBVIOUS
    <2>1. Charged = {}
      BY JudgeAssumption DEF Init, Charged, Items
    <2>2. Cardinality(Charged) = 0
      BY <2>1, FS_EmptySet
    <2>3. QED
      BY <2>2, JudgeAssumption DEF Init, BudgetInv
  <1>2. IInv /\ BudgetInv => WithinBudget
    <2> SUFFICES ASSUME IInv, BudgetInv PROVE WithinBudget
      OBVIOUS
    <2>1. Submitted \subseteq Charged
      <3>1. SUFFICES ASSUME NEW b \in Batches, NEW i \in Items, call[b][i] # "none"
                     PROVE  i <= counted[b]
        BY DEF Submitted, Charged
      <3>2. phase[b] \in {"waiting", "closing", "done"} /\ note[b] # "crashed"
        BY <3>1 DEF IInv, CoreTypeOK, Phase, PhaseInv
      <3>3. QED
        BY <3>1, <3>2, JudgeAssumption DEF IInv, CoreTypeOK, PhaseInv, Allowed
    <2>2. /\ Cardinality(Submitted) <= Cardinality(Charged)
          /\ Cardinality(Submitted) \in Nat /\ Cardinality(Charged) \in Nat
      BY <2>1, ChargedIsFinite, FS_Subset, FS_CardinalityType DEF IInv
    <2>3. Cap * (day + 1) = Cap * day + Cap /\ Cap * day \in Nat
      BY JudgeAssumption DEF IInv, CoreTypeOK
    <2>4. QED
      BY <2>2, <2>3, JudgeAssumption DEF IInv, CoreTypeOK, BudgetInv, WithinBudget
  <1>3. QED
    BY <1>1, <1>2, BudgetStep, IInvHolds, PTL DEF Spec

\* A report that is written keeps its scores: an answer that comes later, or a
\* batch that closes late, changes the result of no batch that is done.
THEOREM ResultsFrozenHolds == Spec => ResultsFrozen
  <1>1. ASSUME IInv, [Next]_vars, NEW b \in Batches, phase[b] = "done"
        PROVE  result'[b] = result[b]
    <2>1. ASSUME NEW c \in Batches, Submit(c) \/ Collect(c) \/ Expire(c)
          PROVE  result'[b] = result[b]
      <3>1. phase[c] # "done"
        BY <2>1 DEF Submit, Collect, Expire
      <3>2. \/ UNCHANGED result
            \/ \E r : result' = [result EXCEPT ![c] = r]
        BY <2>1 DEF Submit, Collect, Expire, Finish
      <3>3. QED
        BY <1>1, <3>1, <3>2 DEF IInv, CoreTypeOK
    <2>2. ASSUME NEW c \in Batches, Count(c) \/ JudgeFails(c) \/ Close(c)
          PROVE  UNCHANGED result
      BY <2>2 DEF Count, JudgeFails, Close
    <2>3. ASSUME NEW c \in Batches, NEW i \in Items,
                 \/ StartCall(c, i) \/ RetryLater(c, i) \/ Retry(c, i)
                 \/ \E a \in Answers : Answer(c, i, a)
          PROVE  UNCHANGED result
      BY <2>3 DEF StartCall, RetryLater, Retry, Answer
    <2>4. ASSUME NEW c \in Batches, NEW n \in 0 .. MaxRows,
                 NEW suspicious \in 0 .. n, NEW bad \in 0 .. n, Select(c, n, suspicious, bad)
          PROVE  UNCHANGED result
      BY <2>4 DEF Select
    <2>5. CASE NewDay \/ UNCHANGED vars
      BY <2>5 DEF NewDay, vars
    <2>6. QED
      BY <1>1, <2>1, <2>2, <2>3, <2>4, <2>5 DEF Next, BatchStep
  <1>2. IInv /\ [Next]_vars
          => [\A b \in Batches : phase[b] = "done" => result'[b] = result[b]]_vars
    BY <1>1
  <1>3. QED
    BY <1>2, IInvHolds, PTL DEF Spec, ResultsFrozen

-----------------------------------------------------------------------------
(* The requests                                                            *)

\* No call that has not left the queue has sent anything, and a second request
\* is the last.
PostsInv ==
    /\ requests \subseteq (Batches \X Items) \X {1, 2}
    /\ \A b \in Batches, i \in Items :
          /\ call[b][i] \in {"none", "pending", "cancelled"} => PostsOf(b, i) = {}
          /\ call[b][i] \in {"first", "sleeping"} => PostsOf(b, i) \subseteq {<< <<b, i>>, 1 >>}

\* What one more request of a call is.
LEMMA PostAdds ==
    ASSUME PostsInv, NEW b \in Batches, NEW i \in Items, Post(b, i),
           call[b][i] \in {"pending", "sleeping"}
    PROVE  \E n \in {1, 2} :
             /\ call[b][i] = "pending" => n = 1
             /\ requests' = requests \cup {<< <<b, i>>, n >>}
  <1> DEFINE n == Cardinality(PostsOf(b, i)) + 1
  <1>1. requests' = requests \cup {<< <<b, i>>, n >>}
    BY DEF Post
  <1>2. CASE call[b][i] = "pending"
    <2>1. n = 1
      BY <1>2, FS_EmptySet DEF PostsInv
    <2>2. QED
      BY <1>1, <2>1
  <1>3. CASE call[b][i] = "sleeping"
    <2>1. PostsOf(b, i) = {} \/ PostsOf(b, i) = {<< <<b, i>>, 1 >>}
      BY <1>3 DEF PostsInv
    <2>2. n \in {1, 2}
      <3>1. Cardinality({}) = 0
        BY FS_EmptySet
      <3>2. Cardinality({<< <<b, i>>, 1 >>}) = 1
        BY FS_Singleton
      <3>3. QED
        BY <2>1, <3>1, <3>2
    <2> HIDE DEF n
    <2>3. QED
      BY <1>1, <1>3, <2>2
  <1>4. QED
    BY <1>2, <1>3

\* Steps that send nothing: a call that is moved moves away from the start.
LEMMA PostsKept ==
    ASSUME PostsInv, UNCHANGED requests,
           \A b \in Batches, i \in Items :
              \/ call'[b][i] = call[b][i]
              \/ /\ call[b][i] \in {"none", "pending"}
                 /\ call'[b][i] \in {"none", "pending", "cancelled"}
              \/ call[b][i] = "first" /\ call'[b][i] = "sleeping"
              \/ call'[b][i] \in Answers \cup {"second"}
    PROVE  PostsInv'
  BY DEF PostsInv, PostsOf, Answers

\* Steps that send one request.
LEMMA PostsGrow ==
    ASSUME IInv, PostsInv, NEW b \in Batches, NEW i \in Items,
           \/ call[b][i] = "pending" /\ Move(b, i, "first") /\ Post(b, i)
           \/ call[b][i] = "sleeping" /\ Move(b, i, "second") /\ Post(b, i)
    PROVE  PostsInv'
  <1>1. PICK n \in {1, 2} : /\ call[b][i] = "pending" => n = 1
                            /\ requests' = requests \cup {<< <<b, i>>, n >>}
    BY PostAdds
  <1>2. requests' \subseteq (Batches \X Items) \X {1, 2}
    BY <1>1 DEF PostsInv
  <1>3. /\ call'[b][i] = IF call[b][i] = "pending" THEN "first" ELSE "second"
        /\ \A c \in Batches, k \in Items :
              <<c, k>> # <<b, i>> => call'[c][k] = call[c][k]
    BY DEF IInv, CoreTypeOK, Move
  <1>4. ASSUME NEW c \in Batches, NEW k \in Items, <<c, k>> # <<b, i>>
        PROVE  PostsOf(c, k)' = PostsOf(c, k)
    BY <1>1, <1>4 DEF PostsOf
  <1>5. call[b][i] = "pending" => PostsOf(b, i)' = {<< <<b, i>>, 1 >>}
    BY <1>1 DEF PostsInv, PostsOf
  <1>6. ASSUME NEW c \in Batches, NEW k \in Items
        PROVE  /\ call'[c][k] \in {"none", "pending", "cancelled"} => PostsOf(c, k)' = {}
               /\ call'[c][k] \in {"first", "sleeping"} =>
                    PostsOf(c, k)' \subseteq {<< <<c, k>>, 1 >>}
    <2>1. CASE <<c, k>> # <<b, i>>
      BY <1>3, <1>4, <2>1 DEF PostsInv
    <2>2. CASE c = b /\ k = i
      BY <1>3, <1>5, <2>2
    <2>3. QED
      BY <2>1, <2>2
  <1>7. QED
    BY <1>2, <1>6 DEF PostsInv

LEMMA PostsStep == IInv /\ PostsInv /\ [Next]_vars => PostsInv'
  <1> SUFFICES ASSUME IInv, PostsInv, [Next]_vars PROVE PostsInv'
    OBVIOUS
  <1>0. call \in [Batches -> [Items -> Calls]]
    BY DEF IInv, CoreTypeOK
  <1>1. CASE UNCHANGED <<call, requests>>
    BY <1>1, PostsKept
  <1>2. ASSUME NEW b \in Batches, Submit(b) PROVE PostsInv'
    <2>1. \A i \in Items : call[b][i] = "none"
      BY <1>2 DEF IInv, PhaseInv, Submit
    <2>2. QED
      BY <1>0, <1>2, <2>1, PostsKept DEF Submit
  <1>3. ASSUME NEW b \in Batches, Close(b) PROVE PostsInv'
    BY <1>0, <1>3, PostsKept DEF Close
  <1>4. ASSUME NEW b \in Batches, BatchStep(b), ~Submit(b), ~Close(b) PROVE PostsInv'
    BY <1>1, <1>4 DEF BatchStep, Count, JudgeFails, Collect, Expire
  <1>5. ASSUME NEW b \in Batches, NEW i \in Items, StartCall(b, i) PROVE PostsInv'
    BY <1>5, PostsGrow DEF StartCall
  <1>6. ASSUME NEW b \in Batches, NEW i \in Items, RetryLater(b, i) PROVE PostsInv'
    BY <1>0, <1>6, PostsKept DEF RetryLater, Move
  <1>7. ASSUME NEW b \in Batches, NEW i \in Items, Retry(b, i) PROVE PostsInv'
    <2>1. CASE phase[b] = "done"
      BY <1>0, <1>7, <2>1, PostsKept DEF Retry, Move, Answers
    <2>2. CASE phase[b] # "done"
      BY <1>7, <2>2, PostsGrow DEF Retry
    <2>3. QED
      BY <2>1, <2>2
  <1>8. ASSUME NEW b \in Batches, NEW i \in Items, NEW a \in Answers, Answer(b, i, a)
        PROVE  PostsInv'
    BY <1>0, <1>8, PostsKept DEF Answer, Move
  <1>9. ASSUME NEW b \in Batches, NEW n \in 0 .. MaxRows,
               NEW suspicious \in 0 .. n, NEW bad \in 0 .. n, Select(b, n, suspicious, bad)
        PROVE  PostsInv'
    BY <1>1, <1>9 DEF Select
  <1>10. CASE NewDay \/ UNCHANGED vars
    BY <1>1, <1>10 DEF NewDay, vars
  <1>11. QED
    BY <1>2, <1>3, <1>4, <1>5, <1>6, <1>7, <1>8, <1>9, <1>10 DEF Next

LEMMA PostsHold == Spec => []PostsInv
  <1>1. Init => PostsInv
    BY DEF Init, PostsInv, PostsOf
  <1>2. QED
    BY <1>1, PostsStep, IInvHolds, PTL DEF Spec

\* Every variable keeps its type.
THEOREM JudgeTypeCorrect == Spec => []TypeOK
  <1>1. IInv /\ PostsInv => TypeOK
    <2>1. PostsInv => requests \subseteq (Batches \X Items) \X Nat
      BY DEF PostsInv
    <2>2. IInv => CoreTypeOK
      BY DEF IInv
    <2>3. QED
      BY <2>1, <2>2 DEF CoreTypeOK, TypeOK
  <1>2. QED
    BY <1>1, IInvHolds, PostsHold, PTL

\* Retries included, the provider sees no more than two requests for each call
\* that the budgets of the days begun allow.
THEOREM TwicePerChargeHolds == Spec => []TwicePerCharge
  <1>1. IInv /\ PostsInv /\ WithinBudget => TwicePerCharge
    <2> SUFFICES ASSUME IInv, PostsInv, WithinBudget PROVE TwicePerCharge
      OBVIOUS
    <2>1. requests \subseteq Submitted \X {1, 2}
      <3>1. SUFFICES ASSUME NEW b \in Batches, NEW i \in Items, PostsOf(b, i) # {}
                     PROVE  <<b, i>> \in Submitted
        BY DEF PostsInv, PostsOf
      <3>2. call[b][i] # "none"
        BY <3>1 DEF PostsInv
      <3>3. QED
        BY <3>2 DEF Submitted
    <2>2. IsFiniteSet(Submitted) /\ Cardinality(Submitted) \in Nat
      <3>1. IsFiniteSet(Batches \X Items)
        <4>1. IsFiniteSet(Batches) /\ IsFiniteSet(Items)
          BY JudgeAssumption, FS_Interval DEF Items
        <4>2. QED
          BY <4>1, FS_Product
      <3>2. Submitted \subseteq Batches \X Items
        BY DEF Submitted
      <3>3. QED
        BY <3>1, <3>2, FS_Subset, FS_CardinalityType
    <2>3. IsFiniteSet({1, 2}) /\ Cardinality({1, 2}) = 2
      <3>1. IsFiniteSet({1}) /\ Cardinality({1}) = 1
        BY FS_Singleton
      <3>2. /\ IsFiniteSet({1} \cup {2})
            /\ Cardinality({1} \cup {2}) = Cardinality({1}) + 1
        <4>1. 2 \notin {1}
          OBVIOUS
        <4>2. QED
          BY <3>1, <4>1, FS_AddElement
      <3>3. {1, 2} = {1} \cup {2}
        OBVIOUS
      <3>4. QED
        BY <3>1, <3>2, <3>3
    <2>4. /\ Cardinality(requests) <= Cardinality(Submitted) * 2
          /\ Cardinality(requests) \in Nat
      <3>1. /\ IsFiniteSet(Submitted \X {1, 2})
            /\ Cardinality(Submitted \X {1, 2}) = Cardinality(Submitted) * 2
        BY <2>2, <2>3, FS_Product
      <3>2. QED
        BY <2>1, <3>1, FS_Subset, FS_CardinalityType
    <2> DEFINE budget == Cap * (day + 1)
    <2>5. budget \in Nat
      BY JudgeAssumption DEF IInv, CoreTypeOK
    <2>6. Cardinality(Submitted) <= budget
      BY DEF WithinBudget
    <2> HIDE DEF budget
    <2>7. Cardinality(requests) <= 2 * budget
      BY <2>2, <2>4, <2>5, <2>6
    <2>8. QED
      BY <2>7 DEF budget, TwicePerCharge
  <1>2. QED
    BY <1>1, IInvHolds, PostsHold, WithinBudgetHolds, PTL

=============================================================================
