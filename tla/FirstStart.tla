----------------------------- MODULE FirstStart -----------------------------
(***************************************************************************)
(* The first start of an installation: the server and the command migrate  *)
(* the database (Migrate), then either of them creates the first account:  *)
(* the server through the page /setup (web/routes.py: setup_form,          *)
(* setup_submit), guarded by a token in a file; the command by add.        *)
(*                                                                         *)
(* The server runs one stretch of a handler at a time; its statements and  *)
(* its writes to the token file are steps.                                 *)
(***************************************************************************)
EXTENDS Migrate

CONSTANTS
    Names,      \* user names
    Requests,   \* slots of POST /setup requests
    Nobody      \* no user name

ASSUME FirstStartAssumption == Nobody \notin Names

VARIABLES
    users,    \* rows of the table users: [name, by]
    token,    \* DATA_DIR/setup_token: "none", "empty" or "set"
    loop,     \* the stretch of the server in execution
    posts,    \* posts[q]: q found no users and now sends its form
    adding    \* adding[c]: the name command c found free and prompts for

fvars == <<users, token, loop, posts, adding>>
vars  == <<mvars, fvars>>

Account == [name : Names, by : {"setup", "add"}]
Loop    == [at : {"idle", "write", "insert", "unlink"}, name : Names \cup {Nobody}]
Idle    == [at |-> "idle", name |-> Nobody]

Init ==
    /\ MigrateInit
    /\ users = {} /\ token = "none" /\ loop = Idle
    /\ posts = [q \in Requests |-> FALSE]
    /\ adding = [c \in Commands |-> Nobody]

Taken(n) == \E u \in users : u.name = n
Ready == proc[Server].at = "up" /\ loop.at = "idle"

\* setup_form: no users and no token file; open with O_EXCL creates it ...
SetupForm ==
    /\ Ready
    /\ users = {} /\ token = "none"
    /\ token' = "empty"
    /\ loop' = [Idle EXCEPT !.at = "write"]
    /\ UNCHANGED <<mvars, users, posts, adding>>

\* ... and os.write fills it.
SetupWrite ==
    /\ loop.at = "write"
    /\ token' = "set"
    /\ loop' = Idle
    /\ UNCHANGED <<mvars, users, posts, adding>>

\* setup_submit up to its await.
SetupOpen(q) ==
    /\ Ready
    /\ users = {} /\ ~posts[q]
    /\ posts' = [posts EXCEPT ![q] = TRUE]
    /\ UNCHANGED <<mvars, users, token, loop, adding>>

\* setup_submit after the await: 403 or 422 ...
SetupReject(q) ==
    /\ Ready
    /\ posts[q]
    /\ posts' = [posts EXCEPT ![q] = FALSE]
    /\ UNCHANGED <<mvars, users, token, loop, adding>>

\* ... or the file holds the token of the form.
SetupAccept(q, n) ==
    /\ Ready
    /\ posts[q] /\ token = "set"
    /\ posts' = [posts EXCEPT ![q] = FALSE]
    /\ loop' = [at |-> "insert", name |-> n]
    /\ UNCHANGED <<mvars, users, token, adding>>

\* Mutant: the INSERT has no WHERE NOT EXISTS.
SetupInsertAlways ==
    /\ loop.at = "insert"
    /\ ~Taken(loop.name)
    /\ users' = users \cup {[name |-> loop.name, by |-> "setup"]}
    /\ loop' = [Idle EXCEPT !.at = "unlink"]
    /\ UNCHANGED <<mvars, token, posts, adding>>

\* INSERT ... WHERE NOT EXISTS (SELECT 1 FROM users).
SetupInsert ==
    /\ loop.at = "insert"
    /\ IF users = {}
       THEN /\ users' = {[name |-> loop.name, by |-> "setup"]}
            /\ loop' = [Idle EXCEPT !.at = "unlink"]
       ELSE /\ loop' = Idle
            /\ UNCHANGED users
    /\ UNCHANGED <<mvars, token, posts, adding>>

SetupUnlink ==
    /\ loop.at = "unlink"
    /\ token' = "none"
    /\ loop' = Idle
    /\ UNCHANGED <<mvars, users, posts, adding>>

-----------------------------------------------------------------------------
(* dmoj-manage-users add *)

\* _user_exists: the command ends, or prompts for a password.
AddCheck(c, n) ==
    /\ proc[c].at = "up" /\ adding[c] = Nobody
    /\ IF Taken(n)
       THEN /\ proc' = [proc EXCEPT ![c] = Off]
            /\ UNCHANGED adding
       ELSE /\ adding' = [adding EXCEPT ![c] = n]
            /\ UNCHANGED proc
    /\ UNCHANGED <<objects, userVersion, deaths, users, token, loop, posts>>

\* The INSERT, which raises when the name was taken meanwhile; the command ends.
AddInsert(c) ==
    /\ proc[c].at = "up" /\ adding[c] # Nobody
    /\ users' = IF Taken(adding[c]) THEN users
                ELSE users \cup {[name |-> adding[c], by |-> "add"]}
    /\ proc' = [proc EXCEPT ![c] = Off]
    /\ adding' = [adding EXCEPT ![c] = Nobody]
    /\ UNCHANGED <<objects, userVersion, deaths, token, loop, posts>>

-----------------------------------------------------------------------------

Migration(p) == (Begin(p) \/ MigrateStep(p)) /\ UNCHANGED fvars

ServerDies ==
    /\ Die(Server)
    /\ loop' = Idle
    /\ posts' = [q \in Requests |-> FALSE]
    /\ UNCHANGED <<users, token, adding>>

CommandDies(c) ==
    /\ Die(c)
    /\ adding' = [adding EXCEPT ![c] = Nobody]
    /\ UNCHANGED <<users, token, loop, posts>>

Handler == SetupWrite \/ SetupInsert \/ SetupUnlink

Next ==
    \/ \E p \in Processes : Migration(p)
    \/ Handler \/ SetupForm
    \/ \E q \in Requests : SetupOpen(q) \/ SetupReject(q) \/ \E n \in Names : SetupAccept(q, n)
    \/ \E c \in Commands : AddInsert(c) \/ CommandDies(c) \/ \E n \in Names : AddCheck(c, n)
    \/ ServerDies

Spec == Init /\ [][Next]_vars

\* The server is started again whenever it stopped, a process that runs goes
\* on, and somebody keeps trying: opens the page, and in the end submits the
\* form with the token that is in the file.
Fairness ==
    /\ WF_vars(Begin(Server) /\ UNCHANGED fvars)
    /\ \A p \in Processes : WF_vars(MigrateStep(p) /\ UNCHANGED fvars)
    /\ WF_vars(Handler) /\ WF_vars(SetupForm)
    /\ WF_vars(\E q \in Requests : SetupOpen(q))
    /\ SF_vars(\E q \in Requests, n \in Names : SetupAccept(q, n))

LiveSpec == Spec /\ Fairness

-----------------------------------------------------------------------------

\* /setup creates the first account or none, and creates no second one, though
\* a command adds accounts between the check and the INSERT, several forms
\* wait at once, and a death can leave the used token on the disk.
SetupIsFirst == [][users' # users => (users = {} \/ \A u \in users' \ users : u.by = "add")]_vars

\* A death after the file was created and before the token was written.
TokenLost == token = "empty" /\ loop.at # "write"

\* Processes that fail because of one another never keep an installation from
\* its first account, and no order of their steps damages it: only a death
\* inside a migration does, or one between the creation of the token file and
\* the write to it (migrate; setup_form asks no more than whether the file
\* exists).
InstallationEnds == <>(users # {} \/ (deaths > 0 /\ (Torn \/ TokenLost)))

=============================================================================
