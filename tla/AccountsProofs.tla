--------------------------- MODULE AccountsProofs ---------------------------
(***************************************************************************)
(* Theorems about Accounts, for any accounts, addresses and bounds.        *)
(***************************************************************************)
EXTENDS Accounts, FiniteSetTheorems, SequenceTheorems, TLAPS

-----------------------------------------------------------------------------
(* Types *)

StateTypeOK ==
    /\ accounts \in SUBSET Users /\ disabled \in SUBSET Users
    /\ password \in [Users -> 0 .. MaxPassword]
    /\ version \in [Users -> 0 .. MaxVersion]
    /\ mustChange \in [Users -> BOOLEAN]
    /\ sessions \in SUBSET Session /\ expired \in SUBSET Ids
    /\ loop \in Loop /\ (loop.user = NoOne <=> loop.at = "idle")
    /\ cli \in Cli /\ (cli.user = NoOne <=> cli.at = "idle")
    /\ form \in [Requests -> Users \cup {NoOne}]
    /\ visit \in [Requests -> 0 .. MaxSessions]
    /\ done \in [Users -> 0 .. MaxPassword]

LEMMA TypeParts == TypeOK <=> StateTypeOK /\ ThrottleTypeOK
  BY DEF TypeOK, StateTypeOK

\* Rows come at the end and age together, so that the stale ones are the first.
OldestFirst ==
    \A k \in Keys : \A i, j \in 1 .. Failures(k) :
        i <= j => attempts[k][j] <= attempts[k][i]

ThrottleInv == ThrottleTypeOK /\ OldestFirst

LEMMA RowAges ==
    ASSUME ThrottleTypeOK, NEW k \in Keys
    PROVE  Failures(k) \in Nat /\ \A i \in 1 .. Failures(k) : attempts[k][i] \in 0 .. Window
  <1>1. attempts[k] \in Seq(0 .. Window)
    BY DEF ThrottleTypeOK
  <1>2. QED
    BY <1>1, LenProperties, ElementOfSeq DEF Failures

\* What the DELETE takes away is the first rows, and all that a tick would take
\* out of the window.
LEMMA StaleFirst ==
    ASSUME ThrottleInv, NEW k \in Keys
    PROVE  /\ Failures(k) \in Nat /\ Stale(k) \in 0 .. Failures(k)
           /\ \A i \in 1 .. Failures(k) : Stale(k) < i => attempts[k][i] < Window
  <1> DEFINE n == Failures(k)
             stale == {i \in 1 .. n : attempts[k][i] = Window}
  <1>1. n \in Nat /\ \A i \in 1 .. n : attempts[k][i] \in 0 .. Window
    BY RowAges DEF ThrottleInv
  <1>2. \A i, j \in 1 .. n : i <= j => attempts[k][j] <= attempts[k][i]
    BY DEF ThrottleInv, OldestFirst
  <1>3. Stale(k) = Cardinality(stale)
    BY DEF Stale
  <1> HIDE DEF n
  <1>4. IsFiniteSet(1 .. n) /\ Cardinality(1 .. n) = n
    BY <1>1, FS_Interval
  <1>5. stale \subseteq 1 .. n
    OBVIOUS
  <1>6. IsFiniteSet(stale) /\ Cardinality(stale) \in Nat /\ Cardinality(stale) <= n
    BY <1>4, <1>5, FS_Subset, FS_CardinalityType
  <1>7. ASSUME NEW i \in 1 .. n, Cardinality(stale) < i
        PROVE  attempts[k][i] < Window
    <2>1. SUFFICES ASSUME attempts[k][i] = Window PROVE FALSE
      BY <1>1, ThrottleAssumption
    <2>2. 1 .. i \subseteq stale
      <3>1. SUFFICES ASSUME NEW j \in 1 .. i PROVE j \in 1 .. n /\ attempts[k][j] = Window
        OBVIOUS
      <3>2. j \in 1 .. n /\ j <= i
        BY <1>1
      <3>3. attempts[k][i] <= attempts[k][j]
        BY <1>2, <3>2
      <3>4. QED
        BY <1>1, <2>1, <3>2, <3>3, ThrottleAssumption
    <2>3. Cardinality(1 .. i) = i
      <3>1. i \in Int /\ 1 <= i
        BY <1>1
      <3>2. QED
        BY <3>1, FS_Interval
    <2>4. i <= Cardinality(stale)
      BY <1>6, <2>2, <2>3, FS_Subset
    <2>5. QED
      BY <1>1, <1>6, <1>7, <2>4
  <1>8. QED
    BY <1>1, <1>3, <1>6, <1>7 DEF n

\* A tick drops the stale rows and lets the others grow older by one.
LEMMA AgeRows ==
    ASSUME ThrottleInv, Age, NEW k \in Keys
    PROVE  /\ attempts'[k] \in Seq(0 .. Window)
           /\ Failures(k)' = Failures(k) - Stale(k)
           /\ \A i \in 1 .. Failures(k)' : attempts'[k][i] = attempts[k][i + Stale(k)] + 1
  <1> DEFINE n == Failures(k)
             d == Stale(k)
             aged == [i \in 1 .. n - d |-> attempts[k][i + d] + 1]
  <1>1. n \in Nat /\ d \in 0 .. n /\ \A i \in 1 .. n : d < i => attempts[k][i] < Window
    BY StaleFirst
  <1>2. \A i \in 1 .. n : attempts[k][i] \in 0 .. Window
    BY RowAges DEF ThrottleInv
  <1>3. attempts'[k] = aged
    BY DEF Age
  <1> HIDE DEF n, d
  <1>4. n - d \in Nat /\ \A i \in 1 .. n - d : i + d \in 1 .. n /\ d < i + d
    BY <1>1
  <1>5. ASSUME NEW i \in 1 .. n - d PROVE attempts[k][i + d] + 1 \in 0 .. Window
    BY <1>1, <1>2, <1>4, ThrottleAssumption
  <1>6. aged \in Seq(0 .. Window) /\ Len(aged) = n - d
    <2>1. aged \in [1 .. n - d -> 0 .. Window]
      BY <1>5
    <2>2. aged \in Seq(0 .. Window)
      BY <1>4, <2>1, SeqDef
    <2>3. DOMAIN aged = 1 .. n - d
      OBVIOUS
    <2> HIDE DEF aged
    <2>4. Len(aged) \in Nat /\ DOMAIN aged = 1 .. Len(aged)
      BY <2>2, LenProperties
    <2>5. Len(aged) = n - d
      BY <1>4, <2>3, <2>4
    <2>6. QED
      BY <2>2, <2>5
  <1>7. QED
    BY <1>3, <1>6 DEF Failures, n, d

\* One row more, the youngest.
LEMMA FailureRows ==
    ASSUME ThrottleInv, NEW ip, NEW u, RecordFailure(ip, u), NEW k \in Keys
    PROVE  \/ attempts'[k] = attempts[k]
           \/ /\ k \in {ip, u}
              /\ attempts'[k] \in Seq(0 .. Window)
              /\ Failures(k)' = Failures(k) + 1 /\ Failures(k) \in Nat
              /\ \A i \in 1 .. Failures(k) : attempts'[k][i] = attempts[k][i]
              /\ attempts'[k][Failures(k) + 1] = 0
  <1> DEFINE s == attempts[k]
  <1>1. s \in Seq(0 .. Window) /\ 0 \in 0 .. Window
    BY ThrottleAssumption DEF ThrottleInv, ThrottleTypeOK
  <1>2. attempts'[k] = s \/ (k \in {ip, u} /\ attempts'[k] = Append(s, 0))
    BY DEF RecordFailure
  <1> HIDE DEF s
  <1>3. /\ Append(s, 0) \in Seq(0 .. Window) /\ Len(s) \in Nat
        /\ Len(Append(s, 0)) = Len(s) + 1
        /\ \A i \in 1 .. Len(s) : Append(s, 0)[i] = s[i]
        /\ Append(s, 0)[Len(s) + 1] = 0
    BY <1>1
  <1>4. QED
    BY <1>2, <1>3 DEF Failures, s

LEMMA ThrottleStep ==
    ASSUME ThrottleInv,
           \/ UNCHANGED attempts
           \/ Age
           \/ \E ip \in Ips, u \in Users : RecordFailure(ip, u)
    PROVE  ThrottleInv'
  <1> USE DEF ThrottleInv
  <1>1. CASE UNCHANGED attempts
    BY <1>1 DEF ThrottleTypeOK, OldestFirst, Failures
  <1>2. CASE Age
    <2>1. ThrottleTypeOK'
      BY <1>2, AgeRows DEF ThrottleTypeOK, Age
    <2>2. ASSUME NEW k \in Keys, NEW i \in 1 .. Failures(k)', NEW j \in 1 .. Failures(k)',
                 i <= j
          PROVE  attempts'[k][j] <= attempts'[k][i]
      <3> DEFINE n == Failures(k)
                 d == Stale(k)
      <3>1. n \in Nat /\ d \in 0 .. n /\ Failures(k)' = n - d
        BY <1>2, StaleFirst, AgeRows
      <3>2. /\ attempts'[k][i] = attempts[k][i + d] + 1
            /\ attempts'[k][j] = attempts[k][j + d] + 1
        BY <1>2, AgeRows
      <3>3. /\ \A x \in 1 .. n : attempts[k][x] \in 0 .. Window
            /\ \A x, y \in 1 .. n : x <= y => attempts[k][y] <= attempts[k][x]
        BY RowAges DEF OldestFirst
      <3> HIDE DEF n, d
      <3>4. i + d \in 1 .. n /\ j + d \in 1 .. n /\ i + d <= j + d
        BY <2>2, <3>1
      <3>5. attempts[k][j + d] <= attempts[k][i + d]
        BY <3>3, <3>4
      <3>6. attempts[k][j + d] \in Nat /\ attempts[k][i + d] \in Nat
        BY <3>3, <3>4
      <3>7. QED
        BY <3>2, <3>5, <3>6
    <2>3. QED
      BY <2>1, <2>2 DEF OldestFirst
  <1>3. ASSUME NEW ip \in Ips, NEW u \in Users, RecordFailure(ip, u)
        PROVE  ThrottleInv'
    <2>1. ThrottleTypeOK'
      BY <1>3, FailureRows DEF ThrottleTypeOK, RecordFailure
    <2>2. ASSUME NEW k \in Keys, NEW i \in 1 .. Failures(k)', NEW j \in 1 .. Failures(k)',
                 i <= j
          PROVE  attempts'[k][j] <= attempts'[k][i]
      <3>1. \A x \in 1 .. Failures(k) : attempts[k][x] \in 0 .. Window
        BY RowAges
      <3>2. CASE attempts'[k] = attempts[k]
        BY <2>2, <3>2 DEF OldestFirst, Failures
      <3>3. CASE /\ Failures(k)' = Failures(k) + 1 /\ Failures(k) \in Nat
                 /\ \A x \in 1 .. Failures(k) : attempts'[k][x] = attempts[k][x]
                 /\ attempts'[k][Failures(k) + 1] = 0
        BY <2>2, <3>1, <3>3 DEF OldestFirst
      <3>4. QED
        BY <1>3, <3>2, <3>3, FailureRows
    <2>3. QED
      BY <2>1, <2>2 DEF OldestFirst
  <1>4. QED
    BY <1>1, <1>2, <1>3

\* No count grows but by a login that found it below the limit.
LEMMA GuessBoundStep ==
    ASSUME ThrottleInv, GuessBound,
           \/ UNCHANGED attempts
           \/ Age
           \/ \E ip \in Ips, u \in Users : Admitted(ip, u) /\ RecordFailure(ip, u)
    PROVE  GuessBound'
  <1>1. CASE UNCHANGED attempts
    BY <1>1 DEF GuessBound, Failures
  <1>2. ASSUME Age, NEW k \in Keys PROVE Failures(k)' <= Limit
    <2>1. /\ Failures(k) \in Nat /\ Stale(k) \in 0 .. Failures(k)
          /\ Failures(k)' = Failures(k) - Stale(k)
      BY <1>2, StaleFirst, AgeRows
    <2>2. QED
      BY <2>1, ThrottleAssumption DEF GuessBound
  <1>3. ASSUME NEW ip \in Ips, NEW u \in Users, Admitted(ip, u), RecordFailure(ip, u),
               NEW k \in Keys
        PROVE  Failures(k)' <= Limit
    <2>1. CASE attempts'[k] = attempts[k]
      BY <2>1 DEF GuessBound, Failures
    <2>2. CASE k \in {ip, u} /\ Failures(k)' = Failures(k) + 1 /\ Failures(k) \in Nat
      BY <1>3, <2>2, ThrottleAssumption DEF Admitted
    <2>3. QED
      BY <1>3, <2>1, <2>2, FailureRows
  <1>4. QED
    BY <1>1, <1>2, <1>3 DEF GuessBound

LEMMA StepTypes ==
    ASSUME StateTypeOK, [Next]_vars
    PROVE  StateTypeOK'
  <1> USE DEF StateTypeOK, users, waiting
  <1> DEFINE LoopOK(l) == l \in Loop /\ (l.user = NoOne <=> l.at = "idle")
             CliOK(c)  == c \in Cli /\ (c.user = NoOne <=> c.at = "idle")
  <1>0. 0 \in 0 .. MaxPassword
    BY AccountsAssumption
  <1>a. LoopOK(IdleLoop) /\ CliOK(IdleCli)
    BY AccountsAssumption DEF IdleLoop, IdleCli, Serving, Running, Loop, Cli
  <1>b. ASSUME loop.at # "idle" PROVE loop.user \in Users
    BY <1>b DEF Loop
  <1>c. ASSUME cli.at # "idle" PROVE cli.user \in Users
    BY <1>c DEF Cli
  \* The loop begins to act for somebody, or goes on for the same account.
  <1>d. ASSUME NEW u \in Users, NEW c \in BOOLEAN,
               NEW at \in {"logout", "update", "read"}, NEW n \in 0 .. MaxPassword
        PROVE  LoopOK(Serving(at, u, c, n))
    BY AccountsAssumption DEF Serving, Loop
  <1>e. ASSUME loop.at # "idle", NEW at \in {"bump", "read", "insert"}
        PROVE  LoopOK([loop EXCEPT !.at = at])
    BY <1>e DEF Loop
  <1>1. CASE ReadVersion
    <2>1. version[loop.user] \in 0 .. MaxVersion /\ password[loop.user] \in 0 .. MaxPassword
      BY <1>1, <1>b DEF ReadVersion
    <2>2. LoopOK(loop')
      BY <1>1, <2>1 DEF ReadVersion, Loop
    <2>3. QED
      BY <1>1, <2>2 DEF ReadVersion
  <1>2. CASE InsertSession
    <2>1. PICK i \in Ids :
            sessions' = sessions \cup {Issued(i)}
      BY <1>2 DEF InsertSession
    <2>2. Issued(i) \in Session
      BY <1>2, <1>b DEF InsertSession, Issued, Session, Loop
    <2>3. QED
      BY <1>2, <1>a, <2>1, <2>2 DEF InsertSession
  <1>3. CASE LogoutBump
    <2>1. version' \in [Users -> 0 .. MaxVersion]
      BY <1>3, <1>b, AccountsAssumption DEF LogoutBump, BumpTokenVersion
    <2>2. QED
      BY <1>3, <1>a, <2>1 DEF LogoutBump, BumpTokenVersion
  <1>4. CASE PasswordUpdate
    <2>1. password' \in [Users -> 0 .. MaxPassword] /\ mustChange' \in [Users -> BOOLEAN]
      BY <1>4, <1>b, AccountsAssumption DEF PasswordUpdate
    <2>2. LoopOK(loop')
      BY <1>4, <1>e DEF PasswordUpdate
    <2>3. QED
      BY <1>4, <2>1, <2>2 DEF PasswordUpdate
  <1>5. CASE PasswordBump
    <2>1. version' \in [Users -> 0 .. MaxVersion]
      BY <1>5, <1>b, AccountsAssumption DEF PasswordBump, BumpTokenVersion
    <2>2. LoopOK(loop')
      BY <1>5, <1>e DEF PasswordBump
    <2>3. QED
      BY <1>5, <2>1, <2>2 DEF PasswordBump, BumpTokenVersion
  <1>6. ASSUME NEW ip \in Ips, NEW u \in Users, NEW n \in 0 .. MaxPassword, Login(ip, u, n)
        PROVE  StateTypeOK'
    <2>1. UNCHANGED loop \/ loop' = Serving("read", u, FALSE, n)
      BY <1>6 DEF Login
    <2>2. LoopOK(Serving("read", u, FALSE, n))
      BY <1>d
    <2>3. LoopOK(loop')
      BY <2>1, <2>2
    <2>4. QED
      BY <1>6, <2>3 DEF Login
  <1>7. ASSUME NEW s \in sessions, Logout(s) PROVE StateTypeOK'
    <2>1. s.user \in Users
      BY DEF Session
    <2>2. LoopOK(loop')
      BY <1>0, <1>7, <1>d, <2>1 DEF Logout
    <2>3. QED
      BY <1>7, <2>2 DEF Logout
  <1>8. ASSUME NEW q \in Requests, NEW s \in sessions, PasswordOpen(q, s) \/ Gate(q, s)
        PROVE  StateTypeOK'
    <2>1. s.user \in Users /\ s.id \in 0 .. MaxSessions
      BY DEF Session, Ids
    <2>2. CASE PasswordOpen(q, s)
      BY <2>1, <2>2 DEF PasswordOpen
    <2>3. CASE Gate(q, s)
      BY <2>1, <2>3 DEF Gate
    <2>4. QED
      BY <1>8, <2>2, <2>3
  <1>9. ASSUME NEW q \in Requests, NEW n \in 0 .. MaxPassword, PasswordForm(q, n)
        PROVE  StateTypeOK'
    <2>1. form[q] \in Users
      BY <1>9 DEF PasswordForm
    <2>2. LoopOK(loop')
      <3>1. UNCHANGED loop \/ loop' = Serving("update", form[q], TRUE, n)
        BY <1>9 DEF PasswordForm
      <3>2. LoopOK(Serving("update", form[q], TRUE, n))
        BY <1>d, <2>1
      <3>3. QED
        BY <3>1, <3>2
    <2>3. form' \in [Requests -> Users \cup {NoOne}]
      BY <1>9 DEF PasswordForm
    <2>4. QED
      BY <1>9, <2>2, <2>3 DEF PasswordForm
  <1>10. ASSUME NEW q \in Requests, Handle(q) PROVE StateTypeOK'
    BY <1>10, AccountsAssumption DEF Handle
  <1>11. ASSUME NEW at \in {"add", "disable", "enable", "reset"}, NEW u \in Users, Command(at, u)
         PROVE  StateTypeOK'
    <2>1. CliOK(Running(at, u))
      BY AccountsAssumption DEF Running, Cli
    <2>2. QED
      BY <1>11, <2>1 DEF Command
  <1>12. CASE CliAdd
    BY <1>12, <1>a, <1>c DEF CliAdd
  <1>13. CASE CliSetDisabled
    BY <1>13, <1>a, <1>c DEF CliSetDisabled
  <1>14. CASE CliReset
    <2>1. /\ cli.user \in Users
          /\ password[cli.user] + 1 \in 0 .. MaxPassword
      BY <1>14, <1>c, AccountsAssumption DEF CliReset
    <2>2. /\ password' \in [Users -> 0 .. MaxPassword]
          /\ mustChange' \in [Users -> BOOLEAN]
      BY <1>14, <2>1 DEF CliReset
    <2>3. CliOK(cli')
      BY <1>14, <2>1, AccountsAssumption DEF CliReset, Cli
    <2>4. QED
      BY <1>14, <2>2, <2>3 DEF CliReset
  <1>15. CASE CliBump
    <2>1. cli.user \in Users /\ cli.number \in 0 .. MaxPassword
      BY <1>15, <1>c DEF CliBump, Cli
    <2>2. version' \in [Users -> 0 .. MaxVersion]
      BY <1>15, <2>1, AccountsAssumption DEF CliBump, BumpTokenVersion
    <2>3. QED
      BY <1>15, <1>a, <2>1, <2>2 DEF CliBump, BumpTokenVersion
  <1>16. ASSUME NEW s \in sessions, Expire(s) PROVE StateTypeOK'
    BY <1>16 DEF Expire, Session
  <1>17. CASE Tick
    BY <1>17 DEF Tick
  <1>18. CASE ServerDies
    BY <1>18, <1>a, AccountsAssumption DEF ServerDies
  <1>19. CASE CliDies
    BY <1>19, <1>a DEF CliDies
  <1>20. CASE UNCHANGED vars
    BY <1>20 DEF vars
  <1>21. QED
    BY <1>1, <1>2, <1>3, <1>4, <1>5, <1>6, <1>7, <1>8, <1>9, <1>10, <1>11, <1>12,
       <1>13, <1>14, <1>15, <1>16, <1>17, <1>18, <1>19, <1>20
       DEF Next, ServerStep, CliStep


\* The steps that touch the table of failures.
LEMMA AttemptSteps ==
    ASSUME [Next]_vars
    PROVE  \/ UNCHANGED attempts
           \/ Age
           \/ \E ip \in Ips, u \in Users : Admitted(ip, u) /\ RecordFailure(ip, u)
  BY DEF Next, ServerStep, CliStep, vars, ReadVersion, InsertSession, Login, Logout,
         LogoutBump, PasswordOpen, PasswordForm, PasswordUpdate, PasswordBump, Gate,
         Handle, Command, CliAdd, CliSetDisabled, CliReset, CliBump, Expire, Tick,
         ServerDies, CliDies

LEMMA TypesHold == Spec => [](StateTypeOK /\ ThrottleInv)
  <1>1. Init => StateTypeOK /\ ThrottleInv
    <2> SUFFICES ASSUME Init PROVE StateTypeOK /\ ThrottleInv
      OBVIOUS
    <2>1. ThrottleInv
      BY DEF Init, ThrottleInit, ThrottleInv, ThrottleTypeOK, OldestFirst, Failures
    <2>2. StateTypeOK
      BY AccountsAssumption
         DEF Init, StateTypeOK, IdleLoop, IdleCli, Serving, Running, Loop, Cli
    <2>3. QED
      BY <2>1, <2>2
  <1>2. StateTypeOK /\ ThrottleInv /\ [Next]_vars => (StateTypeOK /\ ThrottleInv)'
    BY StepTypes, AttemptSteps, ThrottleStep
  <1>3. QED
    BY <1>1, <1>2, PTL DEF Spec

\* Every variable keeps its type, and no row of the throttle is older than the
\* window.
THEOREM AccountsTypeCorrect == Spec => []TypeOK
  <1>1. StateTypeOK /\ ThrottleInv => TypeOK
    BY TypeParts DEF ThrottleInv
  <1>2. QED
    BY <1>1, TypesHold, PTL

\* Whatever the order of logins, ticks and everything else, no address and no
\* name ever has more failures within the window than the limit.
THEOREM GuessBoundHolds == Spec => []GuessBound
  <1>1. Init => GuessBound
    BY ThrottleAssumption DEF Init, ThrottleInit, GuessBound, Failures
  <1>2. ThrottleInv /\ GuessBound /\ [Next]_vars => GuessBound'
    BY AttemptSteps, GuessBoundStep
  <1>3. QED
    BY <1>1, <1>2, TypesHold, PTL DEF Spec

-----------------------------------------------------------------------------
(* What a step can be.  The statements that write the tables, and the gate, *)
(* are the steps that matter; every other step is quiet.                    *)

\* Whoever acts, waits or holds a session has an account; accounts are never
\* deleted.
OwnersExist ==
    /\ \A s \in sessions : s.user \in accounts
    /\ loop.user \in accounts \cup {NoOne}
    /\ \A q \in Requests : form[q] \in accounts \cup {NoOne}

\* The loop or the command takes up something new, or gives up.
Quiet ==
    /\ UNCHANGED <<users, sessions, done>>
    /\ \/ UNCHANGED loop
       \/ /\ loop'.at # "insert" /\ (loop'.at = "read" => ~loop'.change)
          /\ loop'.user \in accounts \cup {NoOne}
          /\ loop'.at \in {"idle", "logout"} \/ loop'.base = password[loop'.user]
    /\ expired \subseteq expired'
    /\ UNCHANGED cli \/ cli'.at # "bump"
    /\ \A q \in Requests : form'[q] \in accounts \cup {NoOne}
    /\ \A q \in Requests : visit'[q] \in {0, visit[q]}

Statement ==
    \/ ReadVersion \/ InsertSession \/ LogoutBump \/ PasswordUpdate \/ PasswordBump
    \/ CliAdd \/ CliSetDisabled \/ CliReset \/ CliBump
    \/ \E q \in Requests, s \in sessions : Gate(q, s)

LEMMA Moves ==
    ASSUME StateTypeOK, OwnersExist, [Next]_vars
    PROVE  Statement \/ Quiet
  <1> USE DEF users, waiting
  <1>1. ASSUME NEW ip \in Ips, NEW u \in Users, NEW n \in 0 .. MaxPassword, Login(ip, u, n)
        PROVE  Quiet
    BY <1>1 DEF Login, Quiet, Authenticates, Serving, OwnersExist
  <1>2. ASSUME NEW s \in sessions, Logout(s) PROVE Quiet
    BY <1>2 DEF Logout, Quiet, Serving, OwnersExist
  <1>3. ASSUME NEW q \in Requests, NEW s \in sessions, PasswordOpen(q, s) PROVE Quiet
    BY <1>3 DEF PasswordOpen, Quiet, OwnersExist, StateTypeOK
  <1>4. ASSUME NEW q \in Requests, NEW n \in 0 .. MaxPassword, PasswordForm(q, n)
        PROVE  Quiet
    <2>1. form[q] \in accounts
      BY <1>4 DEF PasswordForm, OwnersExist
    <2>2. UNCHANGED loop \/ loop' = Serving("update", form[q], TRUE, password[form[q]])
      BY <1>4 DEF PasswordForm, Authenticates
    <2>3. \A r \in Requests : form'[r] \in accounts \cup {NoOne}
      BY <1>4 DEF PasswordForm, OwnersExist, StateTypeOK
    <2>4. QED
      BY <1>4, <2>1, <2>2, <2>3 DEF PasswordForm, Quiet, Serving
  <1>5. ASSUME NEW q \in Requests, Handle(q) PROVE Quiet
    BY <1>5 DEF Handle, Quiet, OwnersExist, StateTypeOK
  <1>6. ASSUME NEW at \in {"add", "disable", "enable", "reset"}, NEW u \in Users, Command(at, u)
        PROVE  Quiet
    BY <1>6 DEF Command, Quiet, Running, OwnersExist
  <1>7. ASSUME NEW s \in sessions, Expire(s) PROVE Quiet
    BY <1>7 DEF Expire, Quiet, OwnersExist
  <1>8. CASE Tick
    BY <1>8 DEF Tick, Quiet, OwnersExist
  <1>9. CASE ServerDies
    BY <1>9 DEF ServerDies, Quiet, IdleLoop, Serving
  <1>10. CASE CliDies
    BY <1>10 DEF CliDies, Quiet, IdleCli, Running, OwnersExist
  <1>11. CASE UNCHANGED vars
    BY <1>11 DEF vars, Quiet, OwnersExist
  <1>12. QED
    BY <1>1, <1>2, <1>3, <1>4, <1>5, <1>6, <1>7, <1>8, <1>9, <1>10, <1>11
       DEF Next, ServerStep, CliStep, Statement

LEMMA OwnersStep ==
    ASSUME StateTypeOK, OwnersExist, [Next]_vars
    PROVE  OwnersExist'
  <1> USE DEF users, waiting, OwnersExist
  <1>1. CASE Quiet
    BY <1>1 DEF Quiet
  <1>2. CASE InsertSession
    <2>1. loop.user \in accounts
      BY <1>2 DEF InsertSession, StateTypeOK
    <2>2. \A s \in sessions' : s \in sessions \/ s.user = loop.user
      BY <1>2 DEF InsertSession, Issued
    <2>3. QED
      BY <1>2, <2>1, <2>2 DEF InsertSession, IdleLoop, Serving
  <1>3. CASE ReadVersion \/ PasswordUpdate \/ PasswordBump
    <2>1. loop'.user = loop.user
      BY <1>3 DEF ReadVersion, PasswordUpdate, PasswordBump, StateTypeOK, Loop
    <2>2. QED
      BY <1>3, <2>1 DEF ReadVersion, PasswordUpdate, PasswordBump, BumpTokenVersion
  <1>4. CASE LogoutBump
    BY <1>4 DEF LogoutBump, BumpTokenVersion, IdleLoop, Serving
  <1>5. CASE CliAdd
    BY <1>5 DEF CliAdd
  <1>6. CASE CliSetDisabled \/ CliReset \/ CliBump
    BY <1>6 DEF CliSetDisabled, CliReset, CliBump, BumpTokenVersion
  <1>7. ASSUME NEW q \in Requests, NEW s \in sessions, Gate(q, s) PROVE OwnersExist'
    BY <1>7 DEF Gate
  <1>8. QED
    BY <1>1, <1>2, <1>3, <1>4, <1>5, <1>6, <1>7, Moves DEF Statement

-----------------------------------------------------------------------------
(* Versions: a revocation is final because token_version only grows.        *)

\* bump_token_version leaves every version of the account behind.
LEMMA BumpGrows ==
    ASSUME StateTypeOK, NEW u \in Users, BumpTokenVersion(u)
    PROVE  /\ version'[u] = version[u] + 1
           /\ \A v \in Users : v # u => version'[v] = version[v]
           /\ \A v \in Users : version[v] \in Nat /\ version'[v] \in Nat
  BY AccountsAssumption DEF BumpTokenVersion, StateTypeOK

\* The three statements that bump, for the account they bump.
Bumps(u) ==
    /\ u \in Users
    /\ \/ (LogoutBump \/ PasswordBump) /\ loop.user = u
       \/ CliBump /\ cli.user = u

LEMMA BumpersBump ==
    ASSUME StateTypeOK, NEW u, Bumps(u)
    PROVE  BumpTokenVersion(u) /\ UNCHANGED <<sessions, expired, waiting>>
  BY DEF Bumps, LogoutBump, PasswordBump, CliBump

LEMMA BumpersExist ==
    ASSUME StateTypeOK, LogoutBump \/ PasswordBump \/ CliBump
    PROVE  \E u \in Users : Bumps(u)
  BY DEF StateTypeOK, Bumps, Loop, Cli, LogoutBump, PasswordBump, CliBump

LEMMA SessionTypes ==
    ASSUME StateTypeOK, NEW s \in sessions
    PROVE  /\ s.id \in Nat /\ s.id # 0 /\ s.user \in Users
           /\ s.version \in Nat /\ s.base \in Nat /\ s.seen \in Nat
  BY AccountsAssumption DEF StateTypeOK, Session, Ids

LEMMA StampsStep ==
    ASSUME StateTypeOK, OwnersExist, StampsBehind, [Next]_vars
    PROVE  StampsBehind'
  <1> USE DEF users, waiting, StampsBehind
  <1>1. CASE Quiet
    BY <1>1 DEF Quiet
  <1>2. CASE InsertSession
    <2>1. PICK i \in Ids :
            /\ Fresh(i)
            /\ sessions' = sessions \cup {Issued(i)}
      BY <1>2 DEF InsertSession
    <2>2. \A s \in sessions : s.id # i
      BY <2>1, SessionTypes DEF Fresh, Ids
    <2>3. \A s, t \in sessions' : s.id = t.id => s = t
      BY <2>1, <2>2 DEF Issued
    <2>4. \A s \in sessions' : s.version <= version[s.user]
      BY <1>2, <2>1 DEF InsertSession, Issued
    <2>5. QED
      BY <1>2, <2>3, <2>4 DEF InsertSession, IdleLoop, Serving
  <1>3. CASE ReadVersion
    <2>1. /\ loop'.user = loop.user /\ loop'.version = version[loop.user]
          /\ version[loop.user] \in Nat
      BY <1>3, AccountsAssumption DEF ReadVersion, StateTypeOK, Loop
    <2>2. QED
      BY <1>3, <2>1 DEF ReadVersion
  <1>4. ASSUME NEW u \in Users, Bumps(u) PROVE StampsBehind'
    <2>1. /\ \A v \in Users : version[v] <= version'[v]
          /\ \A v \in Users : version[v] \in Nat /\ version'[v] \in Nat
      BY <1>4, BumpersBump, BumpGrows
    <2>2. \A s \in sessions : s.version <= version'[s.user]
      BY <2>1, SessionTypes
    <2>3. loop'.at = "insert" => UNCHANGED loop
      BY <1>4 DEF Bumps, LogoutBump, PasswordBump, CliBump, IdleLoop, Serving, StateTypeOK, Loop
    <2>4. loop.at = "insert" => loop.user \in Users /\ loop.version \in Nat
      BY DEF StateTypeOK, Loop
    <2>5. loop'.at = "insert" => loop'.version <= version'[loop'.user]
      BY <2>1, <2>3, <2>4
    <2>6. QED
      BY <1>4, <2>2, <2>5, BumpersBump
  <1>5. CASE PasswordUpdate
    BY <1>5 DEF PasswordUpdate, StateTypeOK, Loop
  <1>6. CASE CliAdd \/ CliSetDisabled \/ CliReset
    BY <1>6 DEF CliAdd, CliSetDisabled, CliReset
  <1>7. ASSUME NEW q \in Requests, NEW s \in sessions, Gate(q, s) PROVE StampsBehind'
    BY <1>7 DEF Gate
  <1>8. QED
    BY <1>1, <1>2, <1>3, <1>4, <1>5, <1>6, <1>7, Moves, BumpersExist DEF Statement



-----------------------------------------------------------------------------
(* Resets *)

\* What makes the first half of ResetReaches inductive: a version that is still the account's
\* was read after its last completed reset, also by the handler that has read
\* it and has not inserted its row yet.
ResetInv ==
    /\ \A u \in Users : done[u] <= password[u]
    /\ cli.at = "bump" => cli.number <= password[cli.user]
    /\ \A s \in sessions : s.version = version[s.user] => s.seen >= done[s.user]
    /\ loop.at = "insert" /\ loop.version = version[loop.user] => loop.seen >= done[loop.user]

LEMMA NumberTypes ==
    ASSUME StateTypeOK
    PROVE  /\ \A u \in Users : password[u] \in Nat /\ done[u] \in Nat /\ version[u] \in Nat
           /\ cli.number \in Nat /\ loop.base \in Nat
           /\ loop.seen \in Nat /\ loop.version \in Nat
           /\ cli.at # "idle" => cli.user \in Users
           /\ loop.at # "idle" => loop.user \in Users
  BY AccountsAssumption DEF StateTypeOK, Loop, Cli

LEMMA ResetStep ==
    ASSUME StateTypeOK, OwnersExist, StampsBehind, ResetInv, [Next]_vars
    PROVE  ResetInv'
  <1> USE DEF users, waiting, ResetInv
  <1>1. CASE Quiet
    BY <1>1 DEF Quiet
  <1>2. CASE InsertSession
    <2>1. \A s \in sessions' : \/ s \in sessions
                               \/ /\ s.user = loop.user /\ s.version = loop.version
                                  /\ s.seen = loop.seen
      BY <1>2 DEF InsertSession, Issued
    <2>2. \A s \in sessions' : s.version = version[s.user] => s.seen >= done[s.user]
      BY <1>2, <2>1 DEF InsertSession
    <2>3. QED
      BY <1>2, <2>2 DEF InsertSession, IdleLoop, Serving
  <1>3. CASE ReadVersion
    <2>1. loop'.user = loop.user /\ loop'.seen = password[loop.user] /\ loop.user \in Users
      BY <1>3, NumberTypes DEF ReadVersion, StateTypeOK, Loop
    <2>2. loop'.seen >= done[loop'.user]
      BY <2>1, NumberTypes
    <2>3. QED
      BY <1>3, <2>2 DEF ReadVersion
  <1>4. ASSUME NEW u \in Users, Bumps(u), UNCHANGED password,
               done' \in [Users -> 0 .. MaxPassword],
               \A v \in Users : v # u => done'[v] = done[v],
               \A v \in Users : done'[v] <= password[v],
               cli'.at = "bump" => UNCHANGED cli
        PROVE  ResetInv'
    <2>1. /\ version'[u] = version[u] + 1
          /\ \A v \in Users : v # u => version'[v] = version[v]
      BY <1>4, BumpersBump, BumpGrows
    <2>2. sessions' = sessions
      BY <1>4, BumpersBump
    <2>3. \A s \in sessions : s.user = u => s.version # version'[s.user]
      BY <2>1, SessionTypes, NumberTypes DEF StampsBehind
    <2>4. \A s \in sessions' : s.version = version'[s.user] => s.seen >= done'[s.user]
      BY <1>4, <2>1, <2>2, <2>3, SessionTypes
    <2>5. loop'.at = "insert" => UNCHANGED loop
      BY <1>4 DEF Bumps, LogoutBump, PasswordBump, CliBump, IdleLoop, Serving, StateTypeOK, Loop
    <2>6. loop.at = "insert" /\ loop.user = u => loop.version # version'[loop.user]
      BY <2>1, NumberTypes DEF StampsBehind
    <2>7. loop'.at = "insert" /\ loop'.version = version'[loop'.user]
            => loop'.seen >= done'[loop'.user]
      BY <1>4, <2>1, <2>5, <2>6, NumberTypes
    <2>8. QED
      BY <1>4, <2>4, <2>7
  <1>5. CASE LogoutBump \/ PasswordBump
    <2>1. UNCHANGED <<password, done, cli>>
      BY <1>5 DEF LogoutBump, PasswordBump, BumpTokenVersion
    <2>2. PICK u \in Users : Bumps(u)
      BY <1>5, BumpersExist
    <2>3. QED
      BY <1>4, <2>1, <2>2 DEF StateTypeOK
  <1>6. CASE CliBump
    <2>1. /\ cli.user \in Users /\ UNCHANGED password /\ cli'.at # "bump"
          /\ done' = [done EXCEPT ![cli.user] = cli.number]
          /\ cli.number <= password[cli.user]
      BY <1>6, NumberTypes DEF CliBump, BumpTokenVersion, IdleCli, Running
    <2>2. done' \in [Users -> 0 .. MaxPassword]
      BY <2>1 DEF StateTypeOK, Cli
    <2>3. QED
      BY <1>4, <1>6, <2>1, <2>2 DEF Bumps, StateTypeOK
  <1>7. CASE PasswordUpdate
    <2>1. /\ loop.user \in Users
          /\ password' = [password EXCEPT ![loop.user] = @ + 1]
          /\ UNCHANGED <<version, sessions, cli, done>> /\ loop'.at # "insert"
      BY <1>7, NumberTypes DEF PasswordUpdate, StateTypeOK, Loop
    <2>2. \A u \in Users : password[u] <= password'[u] /\ password'[u] \in Nat
      BY <2>1, NumberTypes DEF StateTypeOK
    <2>3. \A u \in Users : done'[u] <= password'[u]
      BY <2>1, <2>2, NumberTypes
    <2>4. cli'.at = "bump" => cli'.number <= password'[cli'.user]
      BY <2>1, <2>2, NumberTypes
    <2>5. QED
      BY <2>1, <2>3, <2>4
  <1>8. CASE CliReset
    <2>1. /\ cli.user \in Users
          /\ password' = [password EXCEPT ![cli.user] = @ + 1]
          /\ UNCHANGED <<version, sessions, loop, done>>
          /\ cli'.user = cli.user /\ cli'.number = password[cli.user] + 1
      BY <1>8, NumberTypes DEF CliReset, StateTypeOK, Cli
    <2>2. /\ \A u \in Users : password[u] <= password'[u] /\ password'[u] \in Nat
          /\ password'[cli.user] = password[cli.user] + 1
      BY <2>1, NumberTypes DEF StateTypeOK
    <2>3. \A u \in Users : done'[u] <= password'[u]
      BY <2>1, <2>2, NumberTypes
    <2>4. cli'.number <= password'[cli'.user]
      BY <2>1, <2>2, NumberTypes
    <2>5. QED
      BY <2>1, <2>3, <2>4
  <1>9. CASE CliAdd \/ CliSetDisabled
    BY <1>9 DEF CliAdd, CliSetDisabled, IdleCli, Running
  <1>10. ASSUME NEW q \in Requests, NEW s \in sessions, Gate(q, s) PROVE ResetInv'
    BY <1>10 DEF Gate
  <1>11. QED
    BY <1>1, <1>2, <1>3, <1>5, <1>6, <1>7, <1>8, <1>9, <1>10, Moves DEF Statement

\* What makes the second half inductive: a live session issued on a password
\* older than the last completed reset has no rival, neither in the table nor
\* in the handler in execution.
Late(s) == s.version = version[s.user] /\ s.base < done[s.user]

InFlight(u) ==
    /\ loop.user = u /\ loop.base < done[u]
    /\ \/ loop.at \in {"update", "bump", "read"}
       \/ loop.at = "insert" /\ loop.version = version[u]

EscapeInv ==
    /\ \A s, t \in sessions : Late(s) /\ Late(t) /\ s.user = t.user => s = t
    /\ \A s \in sessions : Late(s) => ~InFlight(s.user)

\* Steps that change no session, no version and no completed reset.
LEMMA EscapeKept ==
    ASSUME EscapeInv, UNCHANGED <<sessions, version, done>>,
           \A u \in Users : InFlight(u)' => InFlight(u),
           \A s \in sessions : s.user \in Users
    PROVE  EscapeInv'
  BY DEF EscapeInv, Late

LEMMA EscapeStep ==
    ASSUME StateTypeOK, OwnersExist, StampsBehind, ResetInv, EscapeInv, [Next]_vars
    PROVE  EscapeInv'
  <1> USE DEF users, waiting
  <1>0. \A s \in sessions : s.user \in Users
    BY SessionTypes
  <1>1. CASE Quiet
    <2>1. UNCHANGED <<sessions, version, done, password>>
      BY <1>1 DEF Quiet
    <2>2. ASSUME NEW u \in Users, InFlight(u)' PROVE InFlight(u)
      <3>1. CASE UNCHANGED loop
        BY <2>1, <2>2, <3>1 DEF InFlight
      <3>2. CASE /\ loop'.at # "insert"
                 /\ loop'.at \in {"idle", "logout"} \/ loop'.base = password[loop'.user]
        <4>1. loop'.user = u /\ loop'.base = password[u] /\ loop'.base < done[u]
          BY <2>1, <2>2, <3>2 DEF InFlight
        <4>2. QED
          BY <4>1, NumberTypes DEF ResetInv
      <3>3. QED
        BY <1>1, <3>1, <3>2 DEF Quiet
    <2>3. QED
      BY <1>0, <2>1, <2>2, EscapeKept
  <1>2. CASE InsertSession
    <2>1. PICK i \in Ids : sessions' = sessions \cup {Issued(i)}
      BY <1>2 DEF InsertSession
    <2>2. /\ UNCHANGED <<version, done>> /\ loop.at = "insert"
          /\ \A u \in Users : ~InFlight(u)'
      BY <1>2 DEF InsertSession, IdleLoop, Serving, InFlight
    <2>3. \A s \in sessions : Late(s)' = Late(s)
      BY <2>2 DEF Late
    <2>4. ASSUME NEW row \in sessions', row \notin sessions, Late(row)'
          PROVE  row.user = loop.user /\ InFlight(loop.user)
      <3>1. /\ row.user = loop.user /\ row.version = loop.version
            /\ row.base = loop.base
        BY <2>1, <2>4 DEF Issued
      <3>2. row.version = version[row.user] /\ row.base < done[row.user]
        BY <2>2, <2>4 DEF Late
      <3>3. QED
        BY <2>2, <3>1, <3>2 DEF InFlight
    <2>5. \A s, t \in sessions' : s \notin sessions /\ t \notin sessions => s = t
      BY <2>1
    <2>6. ASSUME NEW s \in sessions', NEW t \in sessions', Late(s)', Late(t)', s.user = t.user
          PROVE  s = t
      <3>1. CASE s \in sessions /\ t \in sessions
        BY <2>3, <2>6, <3>1 DEF EscapeInv
      <3>2. CASE s \in sessions /\ t \notin sessions
        BY <2>3, <2>4, <2>6, <3>2 DEF EscapeInv
      <3>3. CASE s \notin sessions /\ t \in sessions
        BY <2>3, <2>4, <2>6, <3>3 DEF EscapeInv
      <3>4. QED
        BY <2>5, <3>1, <3>2, <3>3
    <2>7. \A s \in sessions' : s.user \in Users
      BY StepTypes, SessionTypes DEF StateTypeOK, Session
    <2>8. QED
      BY <2>2, <2>6, <2>7 DEF EscapeInv
  <1>3. CASE ReadVersion \/ PasswordUpdate
    <2>1. /\ loop'.user = loop.user /\ loop'.base = loop.base
          /\ loop.at \in {"update", "read"}
          /\ UNCHANGED <<sessions, version, done>>
      BY <1>3 DEF ReadVersion, PasswordUpdate, StateTypeOK, Loop
    <2>2. QED
      BY <1>0, <2>1, EscapeKept DEF InFlight
  <1>4. ASSUME NEW u \in Users, Bumps(u), \A v \in Users : v # u => done'[v] = done[v],
               \A v \in Users : v # u /\ InFlight(v)' => InFlight(v)
        PROVE  EscapeInv'
    <2>1. /\ version'[u] = version[u] + 1
          /\ \A v \in Users : v # u => version'[v] = version[v]
      BY <1>4, BumpersBump, BumpGrows
    <2>2. sessions' = sessions
      BY <1>4, BumpersBump
    <2>3. \A s \in sessions : s.user = u => s.version # version'[s.user]
      BY <2>1, SessionTypes, NumberTypes DEF StampsBehind
    <2>4. \A s \in sessions : Late(s)' => s.user # u /\ Late(s)
      BY <1>0, <1>4, <2>1, <2>3 DEF Late
    <2>5. QED
      BY <1>0, <1>4, <2>2, <2>4 DEF EscapeInv
  <1>5. CASE LogoutBump \/ PasswordBump
    <2>1. PICK u \in Users : Bumps(u) /\ loop.user = u
      <3>1. loop.user \in Users
        BY <1>5, NumberTypes DEF LogoutBump, PasswordBump
      <3>2. QED
        BY <1>5, <3>1 DEF Bumps
    <2>2. UNCHANGED done
      BY <1>5 DEF LogoutBump, PasswordBump
    <2>3. loop'.user \in {u, NoOne}
      BY <1>5, <2>1 DEF LogoutBump, PasswordBump, IdleLoop, Serving, StateTypeOK, Loop
    <2>4. \A v \in Users : v # u => ~InFlight(v)'
      BY <2>3, AccountsAssumption DEF InFlight
    <2>5. QED
      BY <1>4, <2>1, <2>2, <2>4
  <1>6. CASE CliBump
    <2>1. /\ cli.user \in Users /\ UNCHANGED loop
          /\ done' = [done EXCEPT ![cli.user] = cli.number]
      BY <1>6, NumberTypes DEF CliBump
    <2>2. Bumps(cli.user)
      BY <1>6, <2>1 DEF Bumps
    <2>3. \A v \in Users : v # cli.user => done'[v] = done[v] /\ version'[v] = version[v]
      BY <2>1, <2>2, BumpersBump, BumpGrows DEF StateTypeOK
    <2>4. \A v \in Users : v # cli.user /\ InFlight(v)' => InFlight(v)
      BY <2>1, <2>3 DEF InFlight
    <2>5. QED
      BY <1>4, <2>1, <2>2, <2>3, <2>4
  <1>7. CASE CliAdd \/ CliSetDisabled \/ CliReset
    <2>1. UNCHANGED <<sessions, version, done, loop>>
      BY <1>7 DEF CliAdd, CliSetDisabled, CliReset
    <2>2. QED
      BY <1>0, <2>1, EscapeKept DEF InFlight
  <1>8. ASSUME NEW q \in Requests, NEW s \in sessions, Gate(q, s) PROVE EscapeInv'
    <2>1. UNCHANGED <<sessions, version, done, loop>>
      BY <1>8 DEF Gate
    <2>2. QED
      BY <1>0, <2>1, EscapeKept DEF InFlight
  <1>9. QED
    BY <1>1, <1>2, <1>3, <1>5, <1>6, <1>7, <1>8, Moves DEF Statement

-----------------------------------------------------------------------------
(* The gate *)

\* The session a request passed the gate with exists: the row of a new session
\* is never the one that a request waits with.
GateInv == \A q \in Requests : visit[q] # 0 => \E s \in sessions : s.id = visit[q]

LEMMA GateStep ==
    ASSUME StateTypeOK, OwnersExist, GateInv, [Next]_vars
    PROVE  GateInv'
  <1> USE DEF users, waiting, GateInv
  <1>1. CASE Quiet
    BY <1>1 DEF Quiet
  <1>2. CASE InsertSession
    BY <1>2 DEF InsertSession
  <1>3. CASE ReadVersion \/ LogoutBump \/ PasswordUpdate \/ PasswordBump
    BY <1>3 DEF ReadVersion, LogoutBump, PasswordUpdate, PasswordBump
  <1>4. CASE CliAdd \/ CliSetDisabled \/ CliReset \/ CliBump
    BY <1>4 DEF CliAdd, CliSetDisabled, CliReset, CliBump
  <1>5. ASSUME NEW q \in Requests, NEW s \in sessions, Gate(q, s) PROVE GateInv'
    BY <1>5 DEF Gate, StateTypeOK
  <1>6. QED
    BY <1>1, <1>2, <1>3, <1>4, <1>5, Moves DEF Statement

\* What a step can do to a window that is open after it.
Allowed(q, s) ==
    \/ Open(q, s) /\ done'[s.user] = done[s.user]
    \/ cli.user = s.user /\ (CliReset \/ CliSetDisabled)

\* One case per step that writes; a step that writes none of what Open reads
\* opens nothing.
LEMMA OpensByCommand ==
    ASSUME StateTypeOK, OwnersExist, StampsBehind, GateInv, [Next]_vars,
           NEW q \in Requests, NEW s \in sessions', Open(q, s)'
    PROVE  Allowed(q, s)
  <1> USE DEF users, waiting
  <1>1. visit'[q] = s.id /\ Loads(s)' /\ mustChange'[s.user]
    BY DEF Open
  <1>2. CASE s \in sessions /\ expired \subseteq expired'
             /\ UNCHANGED <<users, done>> /\ visit[q] = s.id
    BY <1>1, <1>2 DEF Allowed, Open, Loads, NotRevoked
  <1>3. CASE Quiet
    <2>1. s \in sessions /\ s.id # 0
      BY <1>3, SessionTypes DEF Quiet
    <2>2. visit'[q] \in {0, visit[q]} /\ expired \subseteq expired'
          /\ UNCHANGED <<users, done>>
      BY <1>3 DEF Quiet
    <2>3. QED
      BY <1>1, <1>2, <2>1, <2>2
  <1>4. CASE InsertSession
    <2>1. PICK i \in Ids : Fresh(i) /\ sessions' = sessions \cup {Issued(i)}
      BY <1>4 DEF InsertSession
    <2>2. visit[q] = s.id /\ UNCHANGED <<users, done, expired>>
      BY <1>1, <1>4 DEF InsertSession
    <2>3. s \in sessions
      <3>1. SUFFICES ASSUME s = Issued(i) PROVE FALSE
        BY <2>1
      <3>2. s.id = i /\ i # 0
        BY <3>1 DEF Issued, Ids
      <3>3. \A t \in sessions : t.id # i
        BY <2>1, SessionTypes DEF Fresh, Ids
      <3>4. QED
        BY <2>2, <3>2, <3>3 DEF GateInv
    <2>4. QED
      BY <1>2, <2>2, <2>3
  <1>5. CASE ReadVersion
    BY <1>1, <1>2, <1>5 DEF ReadVersion
  <1>6. ASSUME NEW u \in Users, Bumps(u), UNCHANGED <<mustChange, disabled>>,
               \A v \in Users : v # u => done'[v] = done[v]
        PROVE  Allowed(q, s)
    <2>1. /\ version'[u] = version[u] + 1
          /\ \A v \in Users : v # u => version'[v] = version[v]
          /\ UNCHANGED <<sessions, expired, visit>>
      BY <1>6, BumpersBump, BumpGrows
    <2>2. s \in sessions /\ s.user \in Users
      BY <2>1, SessionTypes
    <2>3. s.user = u => s.version # version'[s.user]
      BY <2>1, <2>2, SessionTypes, NumberTypes DEF StampsBehind
    <2>4. s.user # u
      BY <1>1, <2>3 DEF Loads, NotRevoked
    <2>5. QED
      BY <1>1, <1>6, <2>1, <2>2, <2>4 DEF Allowed, Open, Loads, NotRevoked
  <1>7. CASE LogoutBump \/ PasswordBump
    <2>1. UNCHANGED <<mustChange, disabled, done>>
      BY <1>7 DEF LogoutBump, PasswordBump, BumpTokenVersion
    <2>2. QED
      BY <1>6, <1>7, <2>1, BumpersExist
  <1>8. CASE CliBump
    <2>1. /\ cli.user \in Users /\ UNCHANGED <<mustChange, disabled>>
          /\ done' = [done EXCEPT ![cli.user] = cli.number]
      BY <1>8, NumberTypes DEF CliBump, BumpTokenVersion
    <2>2. Bumps(cli.user)
      BY <1>8, <2>1 DEF Bumps
    <2>3. QED
      BY <1>6, <2>1, <2>2 DEF StateTypeOK
  <1>9. CASE PasswordUpdate
    <2>1. /\ s \in sessions /\ loop.user \in Users
          /\ mustChange' = [mustChange EXCEPT ![loop.user] = FALSE]
          /\ UNCHANGED <<version, disabled, expired, visit, done>>
      BY <1>9, NumberTypes DEF PasswordUpdate
    <2>2. s.user # loop.user /\ mustChange[s.user]
      BY <1>1, <2>1, SessionTypes DEF StateTypeOK
    <2>3. QED
      BY <1>1, <2>1, <2>2 DEF Allowed, Open, Loads, NotRevoked
  <1>10. CASE CliReset
    <2>1. /\ cli.at = "reset" /\ s \in sessions
          /\ mustChange' = [mustChange EXCEPT ![cli.user] = TRUE]
          /\ UNCHANGED <<version, disabled, expired, visit, done>>
      BY <1>10 DEF CliReset
    <2>2. s.user # cli.user => mustChange[s.user]
      BY <1>1, <2>1, SessionTypes DEF StateTypeOK
    <2>3. QED
      BY <1>1, <1>10, <2>1, <2>2 DEF Allowed, Open, Loads, NotRevoked
  <1>11. CASE CliAdd
    \* The new account has no session yet.
    <2>1. /\ cli.user \notin accounts /\ s \in sessions
          /\ \E must \in BOOLEAN : mustChange' = [mustChange EXCEPT ![cli.user] = must]
          /\ UNCHANGED <<version, disabled, expired, visit, done>>
      BY <1>11 DEF CliAdd
    <2>2. s.user # cli.user
      BY <2>1 DEF OwnersExist
    <2>3. mustChange[s.user]
      BY <1>1, <2>1, <2>2, SessionTypes DEF StateTypeOK
    <2>4. QED
      BY <1>1, <2>1, <2>3 DEF Allowed, Open, Loads, NotRevoked
  <1>12. CASE CliSetDisabled
    <2>1. /\ s \in sessions
          /\ \/ disabled \subseteq disabled'
             \/ cli.at = "enable" /\ disabled' = disabled \ {cli.user}
          /\ UNCHANGED <<version, mustChange, expired, visit, done>>
      BY <1>12 DEF CliSetDisabled
    <2>2. QED
      BY <1>1, <1>12, <2>1 DEF Allowed, Open, Loads, NotRevoked
  <1>13. ASSUME NEW r \in Requests, NEW t \in sessions, Gate(r, t) PROVE Allowed(q, s)
    <2>1. /\ ~(Loads(t) /\ mustChange[t.user]) /\ visit' = [visit EXCEPT ![r] = t.id]
          /\ s \in sessions /\ UNCHANGED <<users, expired, done>>
      BY <1>13 DEF Gate
    <2>2. CASE r = q
      <3>1. s = t
        BY <1>1, <2>1, <2>2 DEF StateTypeOK, StampsBehind
      <3>2. Loads(s) /\ mustChange[s.user]
        BY <1>1, <2>1 DEF Loads, NotRevoked
      <3>3. QED
        BY <2>1, <3>1, <3>2
    <2>3. CASE r # q
      BY <1>1, <1>2, <2>1, <2>3 DEF StateTypeOK
    <2>4. QED
      BY <2>2, <2>3
  <1>14. QED
    BY <1>3, <1>4, <1>5, <1>7, <1>8, <1>9, <1>10, <1>11, <1>12, <1>13, Moves DEF Statement

-----------------------------------------------------------------------------
(* Password changes *)

\* From bump_token_version on, the handler of a password change finds no live
\* session of its account.
ChangeInv ==
    loop.change /\ loop.at \in {"read", "insert"} =>
        \A s \in sessions : s.user = loop.user => s.version # version[loop.user]

LEMMA ChangeStep ==
    ASSUME StateTypeOK, OwnersExist, StampsBehind, ChangeInv, [Next]_vars
    PROVE  ChangeInv'
  <1> USE DEF users, waiting, ChangeInv
  <1>1. CASE Quiet
    BY <1>1 DEF Quiet
  <1>2. CASE InsertSession
    BY <1>2 DEF InsertSession, IdleLoop, Serving
  <1>3. CASE ReadVersion
    <2>1. loop'.user = loop.user /\ loop'.change = loop.change
      BY <1>3 DEF ReadVersion, StateTypeOK, Loop
    <2>2. QED
      BY <1>3, <2>1 DEF ReadVersion
  <1>4. ASSUME NEW u \in Users, Bumps(u) PROVE ChangeInv'
    <2>1. /\ version'[u] = version[u] + 1
          /\ \A v \in Users : v # u => version'[v] = version[v]
      BY <1>4, BumpersBump, BumpGrows
    <2>2. sessions' = sessions
      BY <1>4, BumpersBump
    <2>3. \A s \in sessions : s.user = u => s.version # version'[s.user]
      BY <2>1, SessionTypes, NumberTypes DEF StampsBehind
    <2>4. CASE PasswordBump
      BY <1>4, <2>2, <2>3, <2>4 DEF Bumps, PasswordBump, StateTypeOK, Loop, CliBump, LogoutBump
    <2>5. CASE LogoutBump
      BY <2>5 DEF LogoutBump, IdleLoop, Serving
    <2>6. CASE CliBump
      BY <2>1, <2>2, <2>3, <2>6, NumberTypes DEF CliBump
    <2>7. QED
      BY <1>4, <2>4, <2>5, <2>6 DEF Bumps
  <1>5. CASE PasswordUpdate
    BY <1>5 DEF PasswordUpdate, StateTypeOK, Loop
  <1>6. CASE CliAdd \/ CliSetDisabled \/ CliReset
    BY <1>6 DEF CliAdd, CliSetDisabled, CliReset
  <1>7. ASSUME NEW q \in Requests, NEW s \in sessions, Gate(q, s) PROVE ChangeInv'
    BY <1>7 DEF Gate
  <1>8. QED
    BY <1>1, <1>2, <1>3, <1>4, <1>5, <1>6, <1>7, Moves, BumpersExist DEF Statement

-----------------------------------------------------------------------------
(* The inductive invariant, and what follows from it *)

IInv ==
    /\ StateTypeOK /\ OwnersExist /\ StampsBehind
    /\ ResetInv /\ EscapeInv /\ GateInv /\ ChangeInv

LEMMA InvInit == Init => IInv
  <1> SUFFICES ASSUME Init PROVE IInv
    OBVIOUS
  <1>1. StateTypeOK
    BY AccountsAssumption
       DEF Init, StateTypeOK, IdleLoop, IdleCli, Serving, Running, Loop, Cli
  <1>2. /\ sessions = {} /\ loop.at = "idle" /\ loop.user = NoOne /\ cli.at = "idle"
        /\ form = [q \in Requests |-> NoOne] /\ visit = [q \in Requests |-> 0]
    BY DEF Init, IdleLoop, IdleCli, Serving, Running
  <1>3. OwnersExist /\ StampsBehind /\ ChangeInv /\ GateInv /\ EscapeInv
    BY <1>2 DEF OwnersExist, StampsBehind, ChangeInv, GateInv, EscapeInv
  <1>4. \A u \in Users : done[u] <= password[u]
    BY DEF Init
  <1>5. ResetInv
    BY <1>2, <1>4 DEF ResetInv
  <1>6. QED
    BY <1>1, <1>3, <1>5 DEF IInv

LEMMA InvStep == IInv /\ [Next]_vars => IInv'
  <1> SUFFICES ASSUME IInv, [Next]_vars PROVE IInv'
    OBVIOUS
  <1> USE DEF IInv
  <1>1. StateTypeOK' /\ OwnersExist' /\ StampsBehind'
    BY StepTypes, OwnersStep, StampsStep
  <1>2. ResetInv' /\ EscapeInv' /\ GateInv' /\ ChangeInv'
    BY ResetStep, EscapeStep, GateStep, ChangeStep
  <1>3. QED
    BY <1>1, <1>2

LEMMA Invariant == Spec => []IInv
  BY InvInit, InvStep, PTL DEF Spec

\* No two sessions share an id, and none is ahead of its account.
THEOREM StampsStayBehind == Spec => []StampsBehind
  <1>1. IInv => StampsBehind
    BY DEF IInv
  <1>2. QED
    BY <1>1, Invariant, PTL

\* After a completed reset no session lives whose version was read before it,
\* and of those that were authenticated on an older password at most one does:
\* that of the request which was between authenticate and its SELECT.
THEOREM ResetsReach == Spec => []ResetReaches
  <1>1. IInv => ResetReaches
    <2> SUFFICES ASSUME IInv PROVE ResetReaches
      OBVIOUS
    <2>1. \A s \in sessions : NotRevoked(s) => s.seen >= done[s.user]
      BY DEF IInv, ResetInv, NotRevoked
    <2>2. \A s \in sessions : Escaped(s) => Late(s)
      BY DEF Escaped, Late, NotRevoked
    <2>3. QED
      BY <2>1, <2>2 DEF IInv, EscapeInv, ResetReaches
  <1>2. QED
    BY <1>1, Invariant, PTL

\* Between the gate and the handler, only the UPDATE of a reset and that of an
\* enable make a request pass for an account that must change its password,
\* and the end of a reset takes it back.
THEOREM GateIsHeld == Spec => GateHolds
  <1> DEFINE Act == \A q \in Requests : \A s \in sessions' :
                       Open(q, s)' =>
                          \/ Open(q, s) /\ done'[s.user] = done[s.user]
                          \/ cli.user = s.user /\ (CliReset \/ CliSetDisabled)
  <1>1. IInv /\ [Next]_vars => Act
    BY OpensByCommand DEF IInv, Allowed
  <1>2. Act => [Act]_vars
    OBVIOUS
  <1>3. QED
    BY <1>1, <1>2, Invariant, PTL DEF Spec, GateHolds

\* The session that a password change issues is the only one of its account.
THEOREM ChangesLeaveOne == Spec => ChangeLeavesOne
  <1> DEFINE Act == loop.at = "insert" /\ loop.change
                      => \A s \in sessions' : s \notin sessions => Alone(s)'
  <1>1. IInv /\ [Next]_vars => Act
    <2> SUFFICES ASSUME IInv, [Next]_vars, loop.at = "insert", loop.change,
                        NEW s \in sessions', s \notin sessions,
                        NEW t \in sessions', t.user = s.user, NotRevoked(t)'
                 PROVE  t = s
      BY DEF Alone
    <2>1. InsertSession
      <3>1. sessions' # sessions
        OBVIOUS
      <3>2. \A q \in Requests, r \in sessions : ~Gate(q, r)
        BY <3>1 DEF Gate
      <3>3. ~Quiet
        BY <3>1 DEF Quiet
      <3>4. ~(ReadVersion \/ LogoutBump \/ PasswordUpdate \/ PasswordBump)
        BY <3>1 DEF ReadVersion, LogoutBump, PasswordUpdate, PasswordBump
      <3>5. ~(CliAdd \/ CliSetDisabled \/ CliReset \/ CliBump)
        BY <3>1 DEF CliAdd, CliSetDisabled, CliReset, CliBump
      <3>6. QED
        BY <3>2, <3>3, <3>4, <3>5, Moves DEF IInv, Statement
    <2>2. s.user = loop.user /\ version' = version
      BY <2>1 DEF InsertSession, Issued, users
    <2>3. t \notin sessions
      BY <2>2 DEF IInv, ChangeInv, NotRevoked
    <2>4. QED
      BY <2>1, <2>3 DEF InsertSession
  <1>2. Act => [Act]_vars
    OBVIOUS
  <1>3. QED
    BY <1>1, Invariant, PTL DEF Spec, ChangeLeavesOne

-----------------------------------------------------------------------------
(* Accounts implements Sessions *)

\* Where the sessions of the program are in those of Sessions.
Mapping ==
    /\ \A s \in sessions :
          /\ OwnerOf(s.id) = s.user
          /\ Stage(s.id) = IF NotRevoked(s) THEN "live" ELSE "ended"
    /\ \A i \in Ids : (\A s \in sessions : s.id # i) =>
          OwnerOf(i) = NoOne /\ Stage(i) = "new"

LEMMA Mapped == StampsBehind => Mapping
  <1> SUFFICES ASSUME StampsBehind PROVE Mapping
    OBVIOUS
  <1>1. ASSUME NEW s \in sessions
        PROVE  /\ OwnerOf(s.id) = s.user
               /\ Stage(s.id) = IF NotRevoked(s) THEN "live" ELSE "ended"
    <2>1. RowOf(s.id) = {s}
      BY DEF StampsBehind, RowOf
    <2>2. (CHOOSE r \in {s} : TRUE) = s
      OBVIOUS
    <2>3. QED
      BY <2>1, <2>2 DEF OwnerOf, Stage
  <1>2. ASSUME NEW i \in Ids, \A s \in sessions : s.id # i
        PROVE  OwnerOf(i) = NoOne /\ Stage(i) = "new"
    <2>1. RowOf(i) = {}
      BY <1>2 DEF RowOf
    <2>2. QED
      BY <2>1 DEF OwnerOf, Stage
  <1>3. QED
    BY <1>1, <1>2 DEF Mapping

LEMMA MappedNext == StampsBehind' => Mapping'
  BY Mapped, PTL

\* The state of Sessions.
StageMap == [i \in Ids |-> Stage(i)]
OwnerMap == [i \in Ids |-> OwnerOf(i)]

LEMMA MappedIssue ==
    ASSUME StateTypeOK, StateTypeOK', Mapping, Mapping', InsertSession
    PROVE  \E i \in Ids, u \in Users :
             /\ StageMap[i] = "new"
             /\ \E g \in {"live", "ended"} : StageMap' = [StageMap EXCEPT ![i] = g]
             /\ OwnerMap' = [OwnerMap EXCEPT ![i] = u]
  <1>1. PICK i \in Ids : Fresh(i) /\ sessions' = sessions \cup {Issued(i)}
    BY DEF InsertSession
  <1>2. /\ loop.user \in Users /\ UNCHANGED <<expired, version>>
        /\ Issued(i) \in sessions' /\ Issued(i).id = i /\ Issued(i).user = loop.user
    BY <1>1, NumberTypes DEF InsertSession, Issued, users
  <1>3. \A s \in sessions : s.id # i
    BY <1>1, SessionTypes DEF Fresh, Ids
  <1>4. Stage(i) = "new"
    BY <1>3 DEF Mapping
  <1>5. OwnerOf(i)' = loop.user /\ Stage(i)' \in {"live", "ended"}
    <2>1. PICK row \in sessions' : row.id = i /\ row.user = loop.user
      BY <1>2
    <2>2. /\ OwnerOf(row.id)' = row.user
          /\ Stage(row.id)' = IF NotRevoked(row)' THEN "live" ELSE "ended"
      BY <2>1 DEF Mapping
    <2>3. row.id = i /\ row.user = loop.user
      BY <2>1
    <2>4. QED
      BY <2>2, <2>3
  <1>6. ASSUME NEW j \in Ids, j # i PROVE Stage(j)' = Stage(j) /\ OwnerOf(j)' = OwnerOf(j)
    <2>1. RowOf(j)' = RowOf(j)
      BY <1>1, <1>2, <1>6 DEF RowOf
    <2>2. \A s \in RowOf(j) : NotRevoked(s)' = NotRevoked(s)
      BY <1>2 DEF NotRevoked
    <2>3. QED
      BY <2>1, <2>2 DEF Stage, OwnerOf
  <1>7. StageMap' = [StageMap EXCEPT ![i] = Stage(i)']
    BY <1>6 DEF StageMap
  <1>8. OwnerMap' = [OwnerMap EXCEPT ![i] = loop.user]
    BY <1>5, <1>6 DEF OwnerMap
  <1>9. StageMap[i] = "new"
    BY <1>4 DEF StageMap
  <1>10. QED
    BY <1>2, <1>5, <1>7, <1>8, <1>9

LEMMA MappedRevoke ==
    ASSUME StateTypeOK, StampsBehind, Mapping, Mapping', NEW u \in Users, Bumps(u)
    PROVE  /\ StageMap' = [i \in Ids |-> IF StageMap[i] = "live" /\ OwnerMap[i] = u
                                         THEN "ended" ELSE StageMap[i]]
           /\ OwnerMap' = OwnerMap
  <1>1. /\ version'[u] = version[u] + 1
        /\ \A v \in Users : v # u => version'[v] = version[v]
    BY BumpersBump, BumpGrows
  <1>2. UNCHANGED <<sessions, expired>>
    BY BumpersBump
  <1>3. ASSUME NEW s \in sessions
        PROVE  NotRevoked(s)' <=> NotRevoked(s) /\ s.user # u
    <2>1. s.user \in Users /\ s.version \in Nat /\ s.version <= version[s.user]
      BY SessionTypes DEF StampsBehind
    <2>2. CASE s.user = u
      BY <1>1, <2>1, <2>2, NumberTypes DEF NotRevoked
    <2>3. CASE s.user # u
      BY <1>1, <1>2, <2>1, <2>3 DEF NotRevoked
    <2>4. QED
      BY <2>2, <2>3
  <1>4. ASSUME NEW i \in Ids
        PROVE  /\ OwnerOf(i)' = OwnerOf(i)
               /\ Stage(i)' = IF Stage(i) = "live" /\ OwnerOf(i) = u
                              THEN "ended" ELSE Stage(i)
    <2>1. CASE \A s \in sessions : s.id # i
      BY <1>2, <2>1 DEF Mapping
    <2>2. ASSUME NEW s \in sessions, s.id = i
          PROVE  /\ OwnerOf(i) = s.user /\ OwnerOf(i)' = s.user
                 /\ Stage(i) = IF NotRevoked(s) THEN "live" ELSE "ended"
                 /\ Stage(i)' = IF NotRevoked(s)' THEN "live" ELSE "ended"
      BY <1>2, <2>2 DEF Mapping
    <2>3. ASSUME NEW s \in sessions, s.id = i
          PROVE  /\ OwnerOf(i)' = OwnerOf(i)
                 /\ Stage(i)' = IF Stage(i) = "live" /\ OwnerOf(i) = u
                                THEN "ended" ELSE Stage(i)
      BY <1>3, <2>2, <2>3
    <2>4. QED
      BY <2>1, <2>3
  <1>5. QED
    BY <1>4 DEF StageMap, OwnerMap

LEMMA MappedExpire ==
    ASSUME StateTypeOK, Mapping, Mapping', StampsBehind, NEW s \in sessions, Expire(s)
    PROVE  /\ OwnerMap' = OwnerMap
           /\ \/ StageMap' = StageMap
              \/ /\ StageMap[s.id] = "live"
                 /\ StageMap' = [StageMap EXCEPT ![s.id] = "ended"]
  <1>1. /\ UNCHANGED <<version, sessions>> /\ expired' = expired \cup {s.id}
        /\ s.id \in Ids
    BY DEF Expire, users, StateTypeOK, Session
  <1>2. ASSUME NEW i \in Ids, i # s.id
        PROVE  Stage(i)' = Stage(i)
    <2>1. RowOf(i)' = RowOf(i)
      BY <1>1 DEF RowOf
    <2>2. \A r \in RowOf(i) : NotRevoked(r)' = NotRevoked(r)
      BY <1>1, <1>2 DEF NotRevoked, RowOf
    <2>3. QED
      BY <2>1, <2>2 DEF Stage
  <1>3. \A i \in Ids : OwnerOf(i)' = OwnerOf(i)
    BY <1>1 DEF OwnerOf, RowOf
  <1>4. Stage(s.id)' = "ended" /\ Stage(s.id) \in {"live", "ended"}
    BY <1>1 DEF Mapping, NotRevoked
  <1>5. StageMap' = [StageMap EXCEPT ![s.id] = "ended"]
    BY <1>1, <1>2, <1>4 DEF StageMap
  <1>6. StageMap[s.id] = "live" \/ StageMap' = StageMap
    BY <1>1, <1>2, <1>4 DEF StageMap
  <1>7. OwnerMap' = OwnerMap
    BY <1>3 DEF OwnerMap
  <1>8. QED
    BY <1>5, <1>6, <1>7

\* The sessions of the program are those of Sessions: a session that was ended
\* by its time or by a revocation is never honoured again, and one UPDATE of
\* bump_token_version ends all those of its account.
THEOREM ImplementsSessions == Spec => RefinesSessions
  <1> DEFINE PVars == <<StageMap, OwnerMap>>
  <1>1. Init => StageMap = [i \in Ids |-> "new"] /\ OwnerMap = [i \in Ids |-> NoOne]
    <2> SUFFICES ASSUME Init
                 PROVE  \A i \in Ids : Stage(i) = "new" /\ OwnerOf(i) = NoOne
      BY DEF StageMap, OwnerMap
    <2>1. \A i \in Ids : RowOf(i) = {}
      BY DEF Init, RowOf
    <2>2. QED
      BY <2>1 DEF Stage, OwnerOf
  <1>2. IInv /\ IInv' /\ [Next]_vars => [Promise!Next]_PVars
    <2> SUFFICES ASSUME IInv, IInv', [Next]_vars PROVE [Promise!Next]_PVars
      OBVIOUS
    <2>1. StateTypeOK /\ StateTypeOK' /\ StampsBehind /\ Mapping /\ Mapping'
      BY Mapped, MappedNext DEF IInv
    <2>2. CASE InsertSession
      BY <2>1, <2>2, MappedIssue DEF Promise!Next, Promise!Issue, StageMap, OwnerMap
    <2>3. ASSUME NEW u \in Users, Bumps(u) PROVE Promise!Next
      BY <2>1, <2>3, MappedRevoke DEF Promise!Next, Promise!Revoke, StageMap, OwnerMap
    <2>4. ASSUME NEW s \in sessions, Expire(s) PROVE Promise!Next \/ UNCHANGED PVars
      <3>1. s.id \in Ids
        BY <2>1 DEF StateTypeOK, Session
      <3>2. QED
        BY <2>1, <2>4, <3>1, MappedExpire
           DEF Promise!Next, Promise!Expire, StageMap, OwnerMap
    <2>5. ASSUME UNCHANGED <<sessions, expired, version>> PROVE UNCHANGED PVars
      BY <2>5 DEF StageMap, OwnerMap, Stage, OwnerOf, RowOf, NotRevoked
    <2>6. CASE LogoutBump \/ PasswordBump \/ CliBump
      BY <2>1, <2>3, <2>6, BumpersExist
    <2>7. ASSUME ~InsertSession, ~(LogoutBump \/ PasswordBump \/ CliBump),
                 \A s \in sessions : ~Expire(s)
          PROVE  UNCHANGED <<sessions, expired, version>>
      BY <2>7 DEF Next, ServerStep, CliStep, vars, users, ReadVersion, Login, Logout,
             PasswordOpen, PasswordForm, PasswordUpdate, Gate,
             Handle, Command, CliAdd, CliSetDisabled, CliReset, Tick,
             ServerDies, CliDies
    <2>8. QED
      BY <2>2, <2>4, <2>5, <2>6, <2>7
  <1>3. QED
    BY <1>1, <1>2, Invariant, PTL
       DEF Spec, RefinesSessions, Promise!Spec, Promise!Init, StageMap, OwnerMap

=============================================================================
