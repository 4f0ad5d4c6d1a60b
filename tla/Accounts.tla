------------------------------ MODULE Accounts ------------------------------
(***************************************************************************)
(* Accounts and sessions: web/auth.py, the handlers of login, logout and   *)
(* password change (web/routes.py), the gate (web/app.py) and the command  *)
(* dmoj-manage-users (users_cli.py), a process of its own.                 *)
(*                                                                         *)
(* The server runs one stretch of a handler at a time, from an await to    *)
(* the next; its SQL statements are steps, because the command may run     *)
(* its own between any two of them.  Every statement commits by itself.    *)
(*                                                                         *)
(* Passwords are numbered: the n-th password an account was given is n,    *)
(* and whoever sets one picks one that was not in use before.              *)
(***************************************************************************)
EXTENDS Throttle

CONSTANTS
    NoOne,         \* no account
    Requests,      \* slots of requests that wait across an await
    MaxSessions,   \* bound: sessions issued
    MaxVersion,    \* bound: values of token_version
    MaxPassword    \* bound: passwords given to one account

ASSUME AccountsAssumption ==
    /\ NoOne \notin Users
    /\ MaxSessions \in Nat /\ MaxVersion \in Nat /\ MaxPassword \in Nat

VARIABLES
    \* the table users; its columns where there is no row are not read
    accounts,    \* the names that have a row
    password,    \* password[u]: number of the password behind password_hash
    mustChange,  \* mustChange[u]: must_change_password
    version,     \* version[u]: token_version
    disabled,    \* the accounts with disabled = 1
    \* the table sessions
    sessions,    \* its rows
    expired,     \* ids whose expires_at has passed
    \* the server
    loop,        \* the stretch in execution
    form,        \* form[q]: who passed require_user and now sends the password form
    visit,       \* visit[q]: the session with which q passed the gate, or 0
    \* the command
    cli,
    done         \* done[u]: number of the password of the last reset that completed

users == <<accounts, password, mustChange, version, disabled>>
waiting == <<form, visit>>
vars == <<users, sessions, expired, loop, waiting, cli, done, attempts>>

Ids == 1 .. MaxSessions    \* uuids, in the order of their creation

\* A row of the table sessions.  Two fields are remembered for the properties
\* only: base is the password that authenticate accepted for it, seen the one in
\* force when its token_version was read.
Session == [id : Ids, user : Users, version : 0 .. MaxVersion,
            base : 0 .. MaxPassword, seen : 0 .. MaxPassword]

\* at: the next statement of the handler.  change: password_submit, not login.
Loop == [at : {"idle", "logout", "update", "bump", "read", "insert"},
         user : Users \cup {NoOne}, change : BOOLEAN,
         version : 0 .. MaxVersion,
         base : 0 .. MaxPassword, seen : 0 .. MaxPassword]

\* at: the next statement of the command.  number: the password it has set.
Cli == [at : {"idle", "add", "disable", "enable", "reset", "bump"},
        user : Users \cup {NoOne}, number : 0 .. MaxPassword]

Serving(at, u, change, base) ==
    [at |-> at, user |-> u, change |-> change, version |-> 0, base |-> base, seen |-> 0]
Running(at, u) == [at |-> at, user |-> u, number |-> 0]

IdleLoop == Serving("idle", NoOne, FALSE, 0)
IdleCli  == Running("idle", NoOne)

\* load_session: the JOIN of the row with its account.
NotRevoked(s) == s.id \notin expired /\ s.version = version[s.user]
Loads(s) == NotRevoked(s) /\ s.user \notin disabled

Init ==
    /\ accounts \in SUBSET Users
    /\ password = [u \in Users |-> 0] /\ version = [u \in Users |-> 0]
    /\ mustChange \in [Users -> BOOLEAN] /\ \A u \in Users \ accounts : ~mustChange[u]
    /\ disabled = {}
    /\ sessions = {} /\ expired = {}
    /\ loop = IdleLoop /\ cli = IdleCli
    /\ form = [q \in Requests |-> NoOne] /\ visit = [q \in Requests |-> 0]
    /\ done = [u \in Users |-> 0]
    /\ ThrottleInit

-----------------------------------------------------------------------------
(* auth.py *)

\* authenticate: the account exists, is enabled, and the hash is of this password.
Authenticates(u, number) ==
    u \in accounts /\ u \notin disabled /\ password[u] = number

\* Mutant: the session that asks is revoked by setting its version back.
BumpTokenVersionBack(u) ==
    /\ version' = [version EXCEPT ![u] = IF @ = 1 THEN 0 ELSE 1]
    /\ UNCHANGED <<accounts, password, mustChange, disabled>>

\* bump_token_version, one UPDATE.
BumpTokenVersion(u) ==
    /\ version[u] < MaxVersion
    /\ version' = [version EXCEPT ![u] = @ + 1]
    /\ UNCHANGED <<accounts, password, mustChange, disabled>>

\* create_session, first statement: SELECT token_version.
ReadVersion ==
    /\ loop.at = "read"
    /\ loop' = [loop EXCEPT !.at = "insert", !.version = version[loop.user],
                            !.seen = password[loop.user]]
    /\ UNCHANGED <<users, sessions, expired, waiting, cli, done, attempts>>

\* The id of the next session.
Fresh(i) ==
    /\ \A s \in sessions : s.id < i
    /\ \A j \in 1 .. (i - 1) : \E s \in sessions : s.id = j

\* The row that the handler in execution inserts under that id.
Issued(i) == [id |-> i, user |-> loop.user, version |-> loop.version,
              base |-> loop.base, seen |-> loop.seen]

\* create_session, second statement: the INSERT; the handler then answers.
InsertSession ==
    /\ loop.at = "insert"
    /\ \E i \in Ids :
        /\ Fresh(i)
        /\ sessions' = sessions \cup {Issued(i)}
    /\ loop' = IdleLoop
    /\ UNCHANGED <<users, expired, waiting, cli, done, attempts>>

-----------------------------------------------------------------------------
(* routes.py and the gate of app.py *)

\* login_submit up to the outcome of authenticate; nothing else writes
\* login_attempts, so that the statements up to there are one step.
Login(ip, u, number) ==
    /\ loop.at = "idle"
    /\ Admitted(ip, u)
    /\ IF Authenticates(u, number)
       THEN /\ loop' = Serving("read", u, FALSE, number)
            /\ UNCHANGED attempts
       ELSE /\ RecordFailure(ip, u)
            /\ UNCHANGED loop
    /\ UNCHANGED <<users, sessions, expired, waiting, cli, done>>

\* logout, after its form: load_session finds the account.
Logout(s) ==
    /\ loop.at = "idle"
    /\ Loads(s)
    /\ loop' = Serving("logout", s.user, FALSE, 0)
    /\ UNCHANGED <<users, sessions, expired, waiting, cli, done, attempts>>

LogoutBump ==
    /\ loop.at = "logout"
    /\ BumpTokenVersion(loop.user)
    /\ loop' = IdleLoop
    /\ UNCHANGED <<sessions, expired, waiting, cli, done, attempts>>

\* password_submit up to its await: require_user.
PasswordOpen(q, s) ==
    /\ loop.at = "idle"
    /\ form[q] = NoOne /\ visit[q] = 0
    /\ Loads(s)
    /\ form' = [form EXCEPT ![q] = s.user]
    /\ UNCHANGED <<users, sessions, expired, loop, visit, cli, done, attempts>>

\* password_submit after the await: the form is refused, or its old password
\* authenticates.
PasswordForm(q, number) ==
    /\ loop.at = "idle"
    /\ form[q] # NoOne
    /\ form' = [form EXCEPT ![q] = NoOne]
    /\ \/ UNCHANGED loop
       \/ /\ Authenticates(form[q], number)
          /\ loop' = Serving("update", form[q], TRUE, number)
    /\ UNCHANGED <<users, sessions, expired, visit, cli, done, attempts>>

\* Mutant: password_submit keeps the other sessions of the account.
PasswordUpdateKeepsSessions ==
    /\ loop.at = "update"
    /\ password[loop.user] < MaxPassword
    /\ password' = [password EXCEPT ![loop.user] = @ + 1]
    /\ mustChange' = [mustChange EXCEPT ![loop.user] = FALSE]
    /\ loop' = [loop EXCEPT !.at = "read"]
    /\ UNCHANGED <<accounts, version, disabled, sessions, expired, waiting, cli, done, attempts>>

PasswordUpdate ==
    /\ loop.at = "update"
    /\ password[loop.user] < MaxPassword
    /\ password' = [password EXCEPT ![loop.user] = @ + 1]
    /\ mustChange' = [mustChange EXCEPT ![loop.user] = FALSE]
    /\ loop' = [loop EXCEPT !.at = "bump"]
    /\ UNCHANGED <<accounts, version, disabled, sessions, expired, waiting, cli, done, attempts>>

PasswordBump ==
    /\ loop.at = "bump"
    /\ BumpTokenVersion(loop.user)
    /\ loop' = [loop EXCEPT !.at = "read"]
    /\ UNCHANGED <<sessions, expired, waiting, cli, done, attempts>>

\* Mutant: the gate does not look at must_change_password.
GateOpen(q, s) ==
    /\ loop.at = "idle"
    /\ form[q] = NoOne /\ visit[q] = 0
    /\ visit' = [visit EXCEPT ![q] = s.id]
    /\ UNCHANGED <<users, sessions, expired, loop, form, cli, done, attempts>>

\* _security_and_gate lets a request for an ordinary page through, also one
\* whose session does not load: require_user is to answer that one.
Gate(q, s) ==
    /\ loop.at = "idle"
    /\ form[q] = NoOne /\ visit[q] = 0
    /\ ~(Loads(s) /\ mustChange[s.user])
    /\ visit' = [visit EXCEPT ![q] = s.id]
    /\ UNCHANGED <<users, sessions, expired, loop, form, cli, done, attempts>>

\* call_next scheduled the handler, and its require_user loads the session
\* once more: the request is served, or redirected to the login.
Handle(q) ==
    /\ loop.at = "idle"
    /\ visit[q] # 0
    /\ visit' = [visit EXCEPT ![q] = 0]
    /\ UNCHANGED <<users, sessions, expired, loop, form, cli, done, attempts>>

-----------------------------------------------------------------------------
(* users_cli.py *)

\* A command begins: main, and _user_exists.  add and reset then prompt.
Command(at, u) ==
    /\ cli.at = "idle"
    /\ (at = "add") <=> (u \notin accounts)
    /\ cli' = Running(at, u)
    /\ UNCHANGED <<users, sessions, expired, loop, waiting, done, attempts>>

\* _cmd_add: the INSERT.
CliAdd ==
    /\ cli.at = "add"
    /\ cli.user \notin accounts
    /\ accounts' = accounts \cup {cli.user}
    /\ \E must \in BOOLEAN : mustChange' = [mustChange EXCEPT ![cli.user] = must]
    /\ cli' = IdleCli
    /\ UNCHANGED <<password, version, disabled, sessions, expired, loop, waiting, done, attempts>>

\* _set_disabled: the UPDATE.
CliSetDisabled ==
    /\ \/ cli.at = "disable" /\ disabled' = disabled \cup {cli.user}
       \/ cli.at = "enable" /\ disabled' = disabled \ {cli.user}
    /\ cli' = IdleCli
    /\ UNCHANGED <<accounts, password, mustChange, version,
                   sessions, expired, loop, waiting, done, attempts>>

\* _cmd_reset_password: the UPDATE of the hash ...
CliReset ==
    /\ cli.at = "reset"
    /\ password[cli.user] < MaxPassword
    /\ password' = [password EXCEPT ![cli.user] = @ + 1]
    /\ mustChange' = [mustChange EXCEPT ![cli.user] = TRUE]
    /\ cli' = [cli EXCEPT !.at = "bump", !.number = password[cli.user] + 1]
    /\ UNCHANGED <<accounts, version, disabled, sessions, expired, loop, waiting, done, attempts>>

\* Mutant: the reset does not revoke.
CliBumpDropped ==
    /\ cli.at = "bump"
    /\ done' = [done EXCEPT ![cli.user] = cli.number]
    /\ cli' = IdleCli
    /\ UNCHANGED <<users, sessions, expired, loop, waiting, attempts>>

\* ... and bump_token_version.
CliBump ==
    /\ cli.at = "bump"
    /\ BumpTokenVersion(cli.user)
    /\ done' = [done EXCEPT ![cli.user] = cli.number]
    /\ cli' = IdleCli
    /\ UNCHANGED <<sessions, expired, loop, waiting, attempts>>

-----------------------------------------------------------------------------
(* time, and deaths *)

\* expires_at of a session passes.
Expire(s) ==
    /\ s.id \notin expired
    /\ expired' = expired \cup {s.id}
    /\ UNCHANGED <<users, sessions, loop, waiting, cli, done, attempts>>

Tick ==
    /\ Age
    /\ UNCHANGED <<users, sessions, expired, loop, waiting, cli, done>>

\* The server dies and is started again: the statements it ran stay.
ServerDies ==
    /\ loop' = IdleLoop
    /\ form' = [q \in Requests |-> NoOne] /\ visit' = [q \in Requests |-> 0]
    /\ UNCHANGED <<users, sessions, expired, cli, done, attempts>>

\* The command is interrupted, or a statement of it raises.
CliDies ==
    /\ cli.at # "idle"
    /\ cli' = IdleCli
    /\ UNCHANGED <<users, sessions, expired, loop, waiting, done, attempts>>

ServerStep ==
    \/ ReadVersion \/ InsertSession \/ LogoutBump \/ PasswordUpdate \/ PasswordBump
    \/ \E ip \in Ips, u \in Users, n \in 0 .. MaxPassword : Login(ip, u, n)
    \/ \E s \in sessions : Logout(s)
    \/ \E q \in Requests, s \in sessions : PasswordOpen(q, s) \/ Gate(q, s)
    \/ \E q \in Requests, n \in 0 .. MaxPassword : PasswordForm(q, n)
    \/ \E q \in Requests : Handle(q)

CliStep ==
    \/ \E at \in {"add", "disable", "enable", "reset"}, u \in Users : Command(at, u)
    \/ CliAdd \/ CliSetDisabled \/ CliReset \/ CliBump

Next ==
    \/ ServerStep
    \/ CliStep
    \/ \E s \in sessions : Expire(s)
    \/ Tick
    \/ ServerDies \/ CliDies

Spec == Init /\ [][Next]_vars

\* Time passes.  Nothing else is asked for.
LiveSpec == Spec /\ WF_vars(Tick)

-----------------------------------------------------------------------------

TypeOK ==
    /\ accounts \in SUBSET Users /\ disabled \in SUBSET Users
    /\ password \in [Users -> 0 .. MaxPassword]
    /\ version \in [Users -> 0 .. MaxVersion]
    /\ mustChange \in [Users -> BOOLEAN]
    /\ sessions \in SUBSET Session /\ expired \in SUBSET Ids
    /\ loop \in Loop /\ (loop.user = NoOne <=> loop.at = "idle")
    /\ cli \in Cli /\ (cli.user = NoOne <=> cli.at = "idle")
    /\ form \in [Requests -> Users \cup {NoOne}]
    /\ visit \in [Requests -> 0 .. MaxSessions]
    /\ done \in [Users -> 0 .. MaxPassword]
    /\ ThrottleTypeOK

\* Ids are unique, and no session is ahead of its account: every version that
\* was copied, by a row or by the handler in execution, was the account's.
StampsBehind ==
    /\ \A s, t \in sessions : s.id = t.id => s = t
    /\ \A s \in sessions : s.version <= version[s.user]
    /\ loop.at = "insert" => loop.version <= version[loop.user]

\* A completed reset locks out whoever held the old password, but for the one
\* request that the server had in execution: no session survives whose version
\* was read before, also if its row was inserted after; and of the live sessions
\* issued on an older password there is at most one, that of the handler which
\* stood between authenticate and the SELECT of create_session
\* (_cmd_reset_password: the UPDATE, then bump_token_version).
Escaped(s) == NotRevoked(s) /\ s.base < done[s.user]

ResetReaches ==
    /\ \A s \in sessions : NotRevoked(s) => s.seen >= done[s.user]
    /\ \A s, t \in sessions : Escaped(s) /\ Escaped(t) /\ s.user = t.user => s = t

\* The handler behind the gate would serve an account that must change its
\* password.  Only two statements of the command, run between the gate and the
\* handler, can bring that about, the UPDATE of a reset and that of an enable;
\* a reset that completes ends it (_security_and_gate, then require_user).
Open(q, s) == visit[q] = s.id /\ Loads(s) /\ mustChange[s.user]

GateHolds ==
    [][\A q \in Requests : \A s \in sessions' : Open(q, s)' =>
          \/ Open(q, s) /\ done'[s.user] = done[s.user]
          \/ cli.user = s.user /\ (CliReset \/ CliSetDisabled)]_vars

\* The session a password change issues is, at that moment, the only one its
\* account has left, whatever the command did meanwhile (password_submit).
Alone(s) == \A t \in sessions : (t.user = s.user /\ NotRevoked(t)) => t = s
ChangeLeavesOne ==
    [][loop.at = "insert" /\ loop.change
         => \A s \in sessions' : s \notin sessions => Alone(s)']_vars

\* A login that is refused for too many failures is not refused for ever,
\* however many clients go on trying (check_login_throttle raises before
\* authenticate, so that a refused login is no new failure).
ThrottleEnds == \A k \in Keys : []<>(Failures(k) < Limit)

\* The sessions of the program are those of Sessions: nothing revives one, and
\* one UPDATE ends all those of an account (load_session, bump_token_version).
RowOf(i) == {s \in sessions : s.id = i}
Stage(i) == IF RowOf(i) = {} THEN "new"
            ELSE IF \E s \in RowOf(i) : NotRevoked(s) THEN "live" ELSE "ended"
OwnerOf(i) == IF RowOf(i) = {} THEN NoOne ELSE (CHOOSE s \in RowOf(i) : TRUE).user

Promise == INSTANCE Sessions WITH
    Owners <- Users,
    stage  <- [i \in Ids |-> Stage(i)],
    owner  <- [i \in Ids |-> OwnerOf(i)]

RefinesSessions == Promise!Spec

=============================================================================
