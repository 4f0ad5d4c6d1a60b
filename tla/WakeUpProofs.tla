---------------------------- MODULE WakeUpProofs ----------------------------
(***************************************************************************)
(* Theorems about WakeUp, for any number of workers and uploads.           *)
(***************************************************************************)
EXTENDS WakeUp, TLAPS

LEMMA WakeUpTypeStep == TypeOK /\ [Next]_vars => TypeOK'
  <1> SUFFICES ASSUME TypeOK, [Next]_vars PROVE TypeOK'
    OBVIOUS
  <1> USE DEF TypeOK, Places, EnoughVain
  <1>1. CASE Upload
    BY <1>1 DEF Upload
  <1>2. CASE Withdraw
    BY <1>2 DEF Withdraw
  <1>3. ASSUME NEW w \in Workers, Take(w), nudge' \in BOOLEAN
        PROVE  TypeOK'
    BY <1>3 DEF Take
  <1>4. ASSUME NEW w \in Workers, FindNothing(w), nudge' \in BOOLEAN
        PROVE  TypeOK'
    <2>1. vain' \in [Workers -> 0 .. EnoughVain]
      BY <1>4 DEF FindNothing
    <2>2. pc' \in [Workers -> Places]
      BY <1>4 DEF FindNothing
    <2>3. QED
      BY <1>4, <2>1, <2>2 DEF FindNothing
  <1>5. ASSUME NEW w \in Workers, Poll(w) \/ Finish(w) PROVE TypeOK'
    BY <1>3, <1>4, <1>5 DEF Poll, Finish
  <1>6. ASSUME NEW w \in Workers, Arm(w) \/ Timeout(w) PROVE TypeOK'
    BY <1>6 DEF Arm, Timeout
  <1>7. ASSUME NEW w \in Workers, Fail(w) \/ Resume(w) PROVE TypeOK'
    BY <1>7 DEF Fail, Resume
  <1>8. CASE UNCHANGED vars
    BY <1>8 DEF vars
  <1>9. QED
    BY <1>1, <1>2, <1>5, <1>6, <1>7, <1>8 DEF Next

\* Every variable keeps its type.
THEOREM WakeUpTypeCorrect == Spec => []TypeOK
  <1>1. Init => TypeOK
    <2> SUFFICES ASSUME Init PROVE TypeOK
      OBVIOUS
    <2>1. pc \in [Workers -> Places]
      BY DEF Init, Places
    <2>2. vain \in [Workers -> 0 .. EnoughVain]
      BY DEF Init, EnoughVain
    <2>3. QED
      BY <2>1, <2>2 DEF Init, TypeOK
  <1>2. QED
    BY <1>1, WakeUpTypeStep, PTL DEF Spec

LEMMA NoLostWakeUpStep ==
    TypeOK /\ NoLostWakeUp /\ [Next]_vars => NoLostWakeUp'
  <1> SUFFICES ASSUME TypeOK, NoLostWakeUp, [Next]_vars, queue' > 0
               PROVE  \/ \E w \in Workers : pc'[w] \in {"ready", "running", "backoff"}
                      \/ nudge' /\ \E w \in Workers : pc'[w] = "arming"
    BY DEF NoLostWakeUp
  <1> DEFINE Looks(p) == \E w \in Workers : p[w] \in {"ready", "running", "backoff"}
  \* After an upload the event is set and nobody sleeps.
  <1>1. CASE Upload
    <2>1. PICK w \in Workers : TRUE
      BY WakeUpAssumption
    <2>2. pc'[w] \in Places \ {"asleep"} /\ nudge'
      BY <1>1, <2>1 DEF Upload, TypeOK, Places
    <2>3. QED
      BY <2>2 DEF Places
  <1>2. CASE Withdraw
    BY <1>2 DEF Withdraw, NoLostWakeUp, TypeOK
  \* Whoever finds nothing leaves nothing behind: the queue is empty.
  <1>3. ASSUME NEW w \in Workers, Poll(w) \/ Finish(w) PROVE Looks(pc')
    <2>1. Take(w)
      BY <1>3 DEF Poll, Finish, FindNothing
    <2>2. pc'[w] = "running"
      BY <2>1 DEF Take, TypeOK
    <2>3. QED
      BY <2>2
  \* Whoever falls asleep saw the event clear, so another worker is about.
  <1>4. ASSUME NEW w \in Workers, Arm(w)
        PROVE  Looks(pc')
    <2>1. CASE nudge
      BY <1>4, <2>1 DEF Arm, TypeOK
    <2>2. CASE ~nudge
      <3>1. PICK v \in Workers : pc[v] \in {"ready", "running", "backoff"}
        BY <1>4, <2>2 DEF NoLostWakeUp, Arm
      <3>2. v # w /\ pc'[v] = pc[v]
        BY <1>4, <2>2, <3>1 DEF Arm, TypeOK
      <3>3. QED
        BY <3>1, <3>2
    <2>3. QED
      BY <2>1, <2>2
  <1>5. ASSUME NEW w \in Workers, Timeout(w) \/ Fail(w) \/ Resume(w)
        PROVE  Looks(pc')
    <2>1. pc'[w] \in {"ready", "backoff"}
      BY <1>5 DEF Timeout, Fail, Resume, TypeOK
    <2>2. QED
      BY <2>1
  <1>6. CASE UNCHANGED vars
    BY <1>6 DEF vars, NoLostWakeUp
  <1>7. QED
    BY <1>1, <1>2, <1>3, <1>4, <1>5, <1>6 DEF Next

\* A queued job never waits for workers that all sleep.
THEOREM NoLostWakeUpHolds == Spec => []NoLostWakeUp
  <1>1. Init => NoLostWakeUp
    BY DEF Init, NoLostWakeUp
  <1>2. QED
    BY <1>1, NoLostWakeUpStep, WakeUpTypeCorrect, PTL DEF Spec

=============================================================================
