------------------------------- MODULE Migrate -------------------------------
(***************************************************************************)
(* migrate() of web/db.py, run by every process that opens the database:   *)
(* the server when it starts and each dmoj-manage-users command.           *)
(*                                                                         *)
(* The version is read once.  A migration is a script whose statements     *)
(* (CREATE TABLE, CREATE INDEX, ALTER TABLE) commit one by one, and each   *)
(* of them raises if what it creates is there already; PRAGMA user_version *)
(* follows when the script is through.                                     *)
(***************************************************************************)
EXTENDS Integers, Sequences

CONSTANTS
    Server, Commands,   \* the processes
    Statements,         \* Statements[m + 1]: how many statements _migration_m has
    MaxDeaths           \* bound: deaths of a process

ASSUME MigrateAssumption ==
    /\ Server \notin Commands
    /\ Statements \in Seq(Nat \ {0})
    /\ MaxDeaths \in Nat

VARIABLES
    objects,      \* <<m, j>>: the j-th statement of _migration_m was executed
    userVersion,  \* PRAGMA user_version
    proc,         \* proc[p]: where process p is
    deaths

mvars == <<objects, userVersion, proc, deaths>>

Processes  == {Server} \cup Commands
Latest     == Len(Statements)
Script(m)  == 1 .. Statements[m + 1]
Object     == UNION {{m} \X Script(m) : m \in 0 .. Latest - 1}

\* index, next: the migration and the statement it is about to execute.
Process == [at : {"off", "migrating", "up"}, index : 0 .. Latest, next : Nat]
Off     == [at |-> "off", index |-> 0, next |-> 1]

\* The disk holds no database, or that of an earlier release.
MigrateInit ==
    /\ userVersion \in 0 .. Latest
    /\ objects = {o \in Object : o[1] < userVersion}
    /\ proc = [p \in Processes |-> Off]
    /\ deaths = 0

\* After a PRAGMA, or at once: the enumeration of _MIGRATIONS goes on or ends.
Proceed(v) == [at |-> IF v = Latest THEN "up" ELSE "migrating", index |-> v, next |-> 1]

\* The process starts, connects and reads the version.
Begin(p) ==
    /\ proc[p].at = "off"
    /\ proc' = [proc EXCEPT ![p] = Proceed(userVersion)]
    /\ UNCHANGED <<objects, userVersion, deaths>>

Migrating(p) == proc[p].at = "migrating"
InScript(p)  == Migrating(p) /\ proc[p].next \in Script(proc[p].index)
Pending(p)   == <<proc[p].index, proc[p].next>>

\* Mutant: CREATE ... IF NOT EXISTS.
StatementIfNotExists(p) ==
    /\ InScript(p)
    /\ objects' = objects \cup {Pending(p)}
    /\ proc' = [proc EXCEPT ![p].next = @ + 1]
    /\ UNCHANGED <<userVersion, deaths>>

Statement(p) ==
    /\ InScript(p)
    /\ Pending(p) \notin objects
    /\ objects' = objects \cup {Pending(p)}
    /\ proc' = [proc EXCEPT ![p].next = @ + 1]
    /\ UNCHANGED <<userVersion, deaths>>

\* Mutant: the statement is tried again until it works.
RefusedRetries(p) ==
    /\ InScript(p)
    /\ Pending(p) \in objects
    /\ UNCHANGED mvars

\* "already exists", "duplicate column name": the exception ends the process.
Refused(p) ==
    /\ InScript(p)
    /\ Pending(p) \in objects
    /\ proc' = [proc EXCEPT ![p] = Off]
    /\ UNCHANGED <<objects, userVersion, deaths>>

SetVersion(p) ==
    /\ Migrating(p)
    /\ proc[p].next \notin Script(proc[p].index)
    /\ userVersion' = proc[p].index + 1
    /\ proc' = [proc EXCEPT ![p] = Proceed(@.index + 1)]
    /\ UNCHANGED <<objects, deaths>>

MigrateStep(p) == Statement(p) \/ Refused(p) \/ SetVersion(p)

Die(p) ==
    /\ proc[p].at # "off"
    /\ deaths < MaxDeaths
    /\ deaths' = deaths + 1
    /\ proc' = [proc EXCEPT ![p] = Off]
    /\ UNCHANGED <<objects, userVersion>>

-----------------------------------------------------------------------------

MigrateTypeOK ==
    /\ objects \in SUBSET Object
    /\ userVersion \in 0 .. Latest
    /\ proc \in [Processes -> Process]
    /\ deaths \in 0 .. MaxDeaths

\* p has executed a part of the script it is in.
Inside(p) == Migrating(p) /\ proc[p].next > 1

\* No two processes are ever inside a migration, although no lock is taken:
\* the first statement of a script fails for every process but one, and it
\* goes on failing until the version is written.
OneMigrates == \A p, r \in Processes : Inside(p) /\ Inside(r) => p = r

\* A version on disk vouches for every statement of the migrations before it,
\* and for none of those after it.
VersionTruthful ==
    \A m \in 0 .. Latest - 1 :
        /\ m < userVersion => \A j \in Script(m) : <<m, j>> \in objects
        /\ m > userVersion => \A j \in Script(m) : <<m, j>> \notin objects

\* A process serves, or runs its command, on the complete schema only.
UpMeansComplete ==
    \A p \in Processes : proc[p].at = "up" =>
        \A m \in 0 .. Latest - 1 : \A j \in Script(m) : <<m, j>> \in objects

\* What every process relies on that runs migrate(): nobody else changes the
\* schema meanwhile, the version tells the truth, and whoever is through finds
\* all of it there.
SchemaSound == OneMigrates /\ VersionTruthful /\ UpMeansComplete

\* A migration was begun and the process that ran it is gone: from now on
\* every start finds the first statement of that script done already.
Torn == /\ userVersion < Latest
        /\ \E j \in Script(userVersion) : <<userVersion, j>> \in objects
        /\ \A p \in Processes : ~Inside(p)

=============================================================================
