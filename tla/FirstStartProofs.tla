-------------------------- MODULE FirstStartProofs --------------------------
(***************************************************************************)
(* Theorems about FirstStart and the migrations it runs, for any number of *)
(* processes, migrations and statements, and any number of deaths.         *)
(***************************************************************************)
EXTENDS FirstStart, TLAPS

-----------------------------------------------------------------------------
(* What a step does to the schema *)

Migrates(p) == Begin(p) \/ Statement(p) \/ SetVersion(p)

\* A process is gone: it was refused, died, or its command ended.
Stops(p) ==
    /\ proc' = [proc EXCEPT ![p] = Off]
    /\ UNCHANGED <<objects, userVersion>>

LEMMA SchemaMoves ==
    ASSUME [Next]_vars
    PROVE  \/ \E p \in Processes : Migrates(p) \/ Stops(p)
           \/ UNCHANGED <<objects, userVersion, proc>>
  <1> USE DEF mvars, Processes
  <1>1. ASSUME NEW p \in Processes, Migration(p)
        PROVE  Migrates(p) \/ Stops(p)
    BY <1>1 DEF Migration, MigrateStep, Migrates, Refused, Stops
  <1>2. ASSUME NEW c \in Commands, NEW n \in Names, AddCheck(c, n)
        PROVE  Stops(c) \/ UNCHANGED <<objects, userVersion, proc>>
    BY <1>2 DEF AddCheck, Stops
  <1>3. ASSUME NEW c \in Commands, AddInsert(c) \/ CommandDies(c) PROVE Stops(c)
    BY <1>3 DEF AddInsert, CommandDies, Die, Stops
  <1>4. ASSUME ServerDies PROVE Stops(Server)
    BY <1>4 DEF ServerDies, Die, Stops
  <1>5. ASSUME \/ Handler \/ SetupForm
               \/ \E q \in Requests : SetupOpen(q) \/ SetupReject(q)
                                      \/ \E n \in Names : SetupAccept(q, n)
               \/ UNCHANGED vars
        PROVE  UNCHANGED <<objects, userVersion, proc>>
    BY <1>5 DEF Handler, SetupWrite, SetupInsert, SetupUnlink, SetupForm, SetupOpen,
                SetupReject, SetupAccept, vars
  <1>6. QED
    BY <1>1, <1>2, <1>3, <1>4, <1>5 DEF Next

-----------------------------------------------------------------------------
(* The invariant.  A process that is not inside a migration may hold a      *)
(* version that is out of date; one that is inside holds the version on     *)
(* disk, and everything it has executed so far is there.                    *)

SchemaType ==
    /\ objects \in SUBSET Object
    /\ userVersion \in 0 .. Latest
    /\ proc \in [Processes -> Process]

Places ==
    \A p \in Processes :
        /\ Migrating(p) => /\ proc[p].index <= userVersion /\ proc[p].index < Latest
                           /\ proc[p].next \in 1 .. Statements[proc[p].index + 1] + 1
        /\ proc[p].at = "up" => userVersion = Latest

InsideIsCurrent ==
    \A p \in Processes : Inside(p) =>
        /\ proc[p].index = userVersion
        /\ \A j \in 1 .. proc[p].next - 1 : <<userVersion, j>> \in objects

SchemaInv ==
    SchemaType /\ Places /\ InsideIsCurrent /\ OneMigrates /\ VersionTruthful

LEMMA StatementTypes ==
    ASSUME NEW m \in Nat, m < Latest
    PROVE  Statements[m + 1] \in Nat /\ Statements[m + 1] > 0
  BY MigrateAssumption DEF Latest

LEMMA LatestType == Latest \in Nat
  BY MigrateAssumption DEF Latest

LEMMA ObjectOfScript ==
    ASSUME NEW m \in 0 .. Latest - 1, NEW j \in Script(m)
    PROVE  <<m, j>> \in Object
  <1>1. <<m, j>> \in {m} \X Script(m)
    OBVIOUS
  <1>2. QED
    BY <1>1 DEF Object

LEMMA SchemaInit == Init => SchemaInv
  <1> SUFFICES ASSUME Init PROVE SchemaInv
    OBVIOUS
  <1> USE DEF Init, MigrateInit
  <1>1. \A p \in Processes : proc[p] = Off
    OBVIOUS
  <1>2. SchemaType
    BY LatestType DEF SchemaType, Off, Process
  <1>3. Places /\ InsideIsCurrent /\ OneMigrates
    BY <1>1 DEF Places, InsideIsCurrent, OneMigrates, Inside, Migrating, Off
  <1>4. VersionTruthful
    <2> SUFFICES ASSUME NEW m \in 0 .. Latest - 1, NEW j \in Script(m)
                 PROVE  /\ m < userVersion => <<m, j>> \in objects
                        /\ m > userVersion => <<m, j>> \notin objects
      BY DEF VersionTruthful
    <2>1. <<m, j>> \in Object
      BY ObjectOfScript
    <2>2. QED
      BY <2>1, LatestType
  <1>5. QED
    BY <1>2, <1>3, <1>4 DEF SchemaInv

LEMMA StopsStep ==
    ASSUME SchemaInv, NEW p \in Processes, Stops(p)
    PROVE  SchemaInv'
  <1> USE DEF SchemaInv, Stops
  <1>1. \A r \in Processes : proc'[r] = IF r = p THEN Off ELSE proc[r]
    BY DEF SchemaType
  <1>2. SchemaType'
    BY LatestType DEF SchemaType, Off, Process
  <1>3. \A r \in Processes : Migrating(r)' => Migrating(r) /\ proc'[r] = proc[r]
    BY <1>1 DEF Migrating, Off
  <1>4. Places'
    BY <1>1, <1>3 DEF Places, Off
  <1>5. \A r \in Processes : Inside(r)' => Inside(r) /\ proc'[r] = proc[r]
    BY <1>3 DEF Inside
  <1>6. InsideIsCurrent' /\ OneMigrates'
    BY <1>5 DEF InsideIsCurrent, OneMigrates
  <1>7. VersionTruthful'
    BY DEF VersionTruthful
  <1>8. QED
    BY <1>2, <1>4, <1>6, <1>7

LEMMA BeginStep ==
    ASSUME SchemaInv, NEW p \in Processes, Begin(p)
    PROVE  SchemaInv'
  <1> USE DEF SchemaInv
  <1>1. /\ \A r \in Processes : proc'[r] = IF r = p THEN Proceed(userVersion) ELSE proc[r]
        /\ UNCHANGED <<objects, userVersion>> /\ userVersion \in 0 .. Latest
    BY DEF Begin, SchemaType
  <1>2. Proceed(userVersion) \in Process
    BY <1>1, LatestType DEF Proceed, Process
  <1>3. SchemaType'
    BY <1>1, <1>2 DEF SchemaType, Begin
  <1>4. Places'
    <2>1. userVersion < Latest => Statements[userVersion + 1] \in Nat
      BY <1>1, StatementTypes, LatestType
    <2>2. QED
      BY <1>1, <2>1, LatestType DEF Places, Proceed, Migrating
  <1>5. \A r \in Processes : Inside(r)' => r # p /\ Inside(r) /\ proc'[r] = proc[r]
    BY <1>1 DEF Inside, Migrating, Proceed
  <1>6. InsideIsCurrent' /\ OneMigrates' /\ VersionTruthful'
    BY <1>1, <1>5 DEF InsideIsCurrent, OneMigrates, VersionTruthful
  <1>7. QED
    BY <1>3, <1>4, <1>6

LEMMA StatementStep ==
    ASSUME SchemaInv, NEW p \in Processes, Statement(p)
    PROVE  SchemaInv'
  <1> USE DEF SchemaInv
  <1> DEFINE i == proc[p].index
             k == proc[p].next
  <1>1. /\ proc[p] \in Process /\ i \in 0 .. Latest - 1 /\ i <= userVersion
        /\ k \in Script(i) /\ k \in Nat \ {0} /\ k <= Statements[i + 1]
        /\ <<i, k>> \notin objects /\ objects' = objects \cup {<<i, k>>}
        /\ userVersion' = userVersion /\ userVersion \in 0 .. Latest
    BY LatestType
       DEF Statement, InScript, Migrating, Pending, Script, Places, SchemaType, Process
  <1>2. /\ \A r \in Processes : r # p => proc'[r] = proc[r]
        /\ proc'[p].at = "migrating" /\ proc'[p].index = i /\ proc'[p].next = k + 1
        /\ proc' \in [Processes -> Process]
    <2>1. proc' = [proc EXCEPT ![p] = [proc[p] EXCEPT !.next = k + 1]]
      BY DEF Statement, SchemaType
    <2>2. [proc[p] EXCEPT !.next = k + 1] \in Process
      BY <1>1 DEF Process
    <2>3. proc[p].at = "migrating"
      BY DEF Statement, InScript, Migrating
    <2>4. QED
      BY <1>1, <2>1, <2>2, <2>3 DEF SchemaType, Process
  \* The statement was not executed yet, so it is not of a finished migration.
  <1>3. i = userVersion
    BY <1>1 DEF VersionTruthful
  <1>4. ASSUME NEW r \in Processes, Inside(r) PROVE r = p
    <2>1. r # p => k # 1
      BY <1>1, <1>3, <1>4 DEF InsideIsCurrent, Inside, SchemaType, Process
    <2>2. k # 1 => Inside(p)
      BY <1>1 DEF Inside, Statement, InScript
    <2>3. QED
      BY <1>4, <2>1, <2>2 DEF OneMigrates
  <1>5. \A r \in Processes : Inside(r)' => r = p
    BY <1>2, <1>4 DEF Inside, Migrating
  <1>6. SchemaType'
    BY <1>1, <1>2, ObjectOfScript DEF SchemaType
  <1>7. Places'
    BY <1>1, <1>2, StatementTypes, LatestType DEF Places, Migrating, Script
  <1>8. InsideIsCurrent'
    <2>1. \A j \in 1 .. k : j = k \/ j \in 1 .. k - 1
      BY <1>1
    <2>2. k # 1 => \A j \in 1 .. k - 1 : <<userVersion, j>> \in objects
      BY <1>1 DEF InsideIsCurrent, Inside, Statement, InScript
    <2>3. \A j \in 1 .. k : <<userVersion, j>> \in objects'
      BY <1>1, <1>3, <2>1, <2>2
    <2>4. QED
      BY <1>1, <1>2, <1>3, <1>5, <2>3 DEF InsideIsCurrent
  <1>9. OneMigrates'
    BY <1>5 DEF OneMigrates
  <1>10. VersionTruthful'
    BY <1>1, <1>3 DEF VersionTruthful
  <1>11. QED
    BY <1>6, <1>7, <1>8, <1>9, <1>10

LEMMA SetVersionStep ==
    ASSUME SchemaInv, NEW p \in Processes, SetVersion(p)
    PROVE  SchemaInv'
  <1> USE DEF SchemaInv
  <1> DEFINE i == proc[p].index
             k == proc[p].next
  <1>1. /\ i \in 0 .. Latest - 1 /\ k = Statements[i + 1] + 1 /\ Statements[i + 1] \in Nat \ {0}
        /\ userVersion' = i + 1 /\ objects' = objects
        /\ \A r \in Processes : proc'[r] = IF r = p THEN Proceed(i + 1) ELSE proc[r]
    <2>1. i \in 0 .. Latest - 1 /\ k \in 1 .. Statements[i + 1] + 1 /\ k \notin Script(i)
      BY LatestType DEF SetVersion, Migrating, Places, SchemaType, Process
    <2>2. Statements[i + 1] \in Nat \ {0}
      BY <2>1, StatementTypes, LatestType
    <2>3. QED
      BY <2>1, <2>2 DEF SetVersion, Script, SchemaType
  \* It has executed the whole script.
  <1>2. Inside(p)
    BY <1>1 DEF Inside, SetVersion
  <1>3. i = userVersion /\ \A j \in Script(i) : <<i, j>> \in objects
    BY <1>1, <1>2 DEF InsideIsCurrent, Script
  <1>4. \A r \in Processes : ~Inside(r)'
    BY <1>1, <1>2 DEF OneMigrates, Inside, Migrating, Proceed
  <1>5. Proceed(i + 1) \in Process
    BY <1>1, LatestType DEF Proceed, Process
  <1>6. SchemaType'
    BY <1>1, <1>5, LatestType DEF SchemaType, SetVersion
  <1>7. Places'
    <2>1. i + 1 < Latest => Statements[(i + 1) + 1] \in Nat
      BY <1>1, StatementTypes, LatestType
    <2>2. ASSUME NEW r \in Processes, r # p
          PROVE  /\ Migrating(r)' => /\ proc'[r].index <= userVersion'
                                     /\ proc'[r].index < Latest
                                     /\ proc'[r].next \in 1 .. Statements[proc'[r].index + 1] + 1
                 /\ proc'[r].at # "up"
      <3>1. userVersion < Latest /\ userVersion' = userVersion + 1
        BY <1>1, <1>3, LatestType
      <3>2. proc'[r] = proc[r] /\ proc[r].index \in Nat /\ userVersion \in Nat
        BY <1>1, <2>2, LatestType DEF SchemaType, Process
      <3>3. QED
        BY <3>1, <3>2, LatestType DEF Places, Migrating
    <2>3. /\ Migrating(p)' => /\ proc'[p].index <= userVersion'
                              /\ proc'[p].index < Latest
                              /\ proc'[p].next \in 1 .. Statements[proc'[p].index + 1] + 1
          /\ proc'[p].at = "up" => userVersion' = Latest
      BY <1>1, <2>1, LatestType DEF Proceed, Migrating
    <2>4. QED
      BY <2>2, <2>3 DEF Places
  <1>8. InsideIsCurrent' /\ OneMigrates'
    BY <1>4 DEF InsideIsCurrent, OneMigrates
  <1>9. VersionTruthful'
    BY <1>1, <1>3 DEF VersionTruthful
  <1>10. QED
    BY <1>6, <1>7, <1>8, <1>9

LEMMA SchemaStep == SchemaInv /\ [Next]_vars => SchemaInv'
  <1> SUFFICES ASSUME SchemaInv, [Next]_vars PROVE SchemaInv'
    OBVIOUS
  <1>1. ASSUME NEW p \in Processes, Migrates(p) PROVE SchemaInv'
    BY <1>1, BeginStep, StatementStep, SetVersionStep DEF Migrates
  <1>2. ASSUME NEW p \in Processes, Stops(p) PROVE SchemaInv'
    BY <1>2, StopsStep
  <1>3. CASE UNCHANGED <<objects, userVersion, proc>>
    BY <1>3 DEF SchemaInv, SchemaType, Places, InsideIsCurrent, OneMigrates,
                VersionTruthful, Inside, Migrating
  <1>4. QED
    BY <1>1, <1>2, <1>3, SchemaMoves

\* Although migrate() takes no lock, two processes are never inside a migration
\* at once, the version on disk tells the truth about the schema, and whoever
\* has come through migrate() finds the whole of it, whatever died before.
THEOREM SchemaIsSound == Spec => []SchemaSound
  <1>1. SchemaInv => SchemaSound
    <2> SUFFICES ASSUME SchemaInv PROVE UpMeansComplete
      BY DEF SchemaInv, SchemaSound
    <2>1. ASSUME NEW p \in Processes, proc[p].at = "up", NEW m \in 0 .. Latest - 1
          PROVE  m < userVersion
      BY <2>1, LatestType DEF SchemaInv, Places
    <2>2. QED
      BY <2>1 DEF SchemaInv, UpMeansComplete, VersionTruthful
  <1>2. QED
    BY <1>1, SchemaInit, SchemaStep, PTL DEF Spec

-----------------------------------------------------------------------------

\* Set-up never adds an account to one that is there, whichever commands run
\* between its check and its INSERT.
THEOREM SetupComesFirst == Spec => SetupIsFirst
  <1> DEFINE Act == users' # users => (users = {} \/ \A u \in users' \ users : u.by = "add")
  <1>1. [Next]_vars => Act
    <2> SUFFICES ASSUME [Next]_vars, users' # users, users # {}
                 PROVE  \A u \in users' \ users : u.by = "add"
      OBVIOUS
    <2>1. \E c \in Commands : AddInsert(c)
      BY DEF Next, vars, fvars, Migration, Handler, SetupForm, SetupWrite, SetupInsert,
             SetupUnlink, SetupOpen, SetupReject, SetupAccept, AddCheck, CommandDies,
             ServerDies
    <2>2. QED
      BY <2>1 DEF AddInsert
  <1>2. QED
    BY <1>1, PTL DEF Spec, SetupIsFirst

=============================================================================
