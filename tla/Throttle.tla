------------------------------ MODULE Throttle ------------------------------
(***************************************************************************)
(* The table login_attempts (web/auth.py): one row per failed login and    *)
(* key, where a login has two keys, its address and its user name.         *)
(*                                                                         *)
(* Rows are counted by their age in ticks.  The code deletes the rows       *)
(* older than the window before it counts, so that here a row goes away    *)
(* with the tick that takes it out of the window.                          *)
(***************************************************************************)
EXTENDS Naturals, Sequences, FiniteSets

CONSTANTS
    Ips,         \* addresses of clients
    Users,       \* user names, with or without an account
    Limit,       \* login_max_attempts
    Window       \* _ATTEMPT_WINDOW, in ticks

ASSUME ThrottleAssumption ==
    /\ Ips \cap Users = {}
    /\ Limit \in Nat \ {0}
    /\ Window \in Nat

VARIABLE attempts   \* attempts[k]: the ages of the rows of key k, the oldest first

Keys == Ips \cup Users

ThrottleTypeOK == attempts \in [Keys -> Seq(0 .. Window)]

ThrottleInit == attempts = [k \in Keys |-> <<>>]

\* SELECT COUNT(*) ... WHERE key = k.
Failures(k) == Len(attempts[k])

\* Mutant: check_login_throttle looks at the address alone.
AdmittedByIp(ip, u) == Failures(ip) < Limit /\ u \in Keys

\* check_login_throttle, one transaction: both counts are below the limit.
Admitted(ip, u) == Failures(ip) < Limit /\ Failures(u) < Limit

\* record_login_failure: a row for either key.
RecordFailure(ip, u) ==
    attempts' = [k \in Keys |->
        IF k \in {ip, u} THEN Append(attempts[k], 0) ELSE attempts[k]]

\* The rows that the next tick takes out of the window; they are the first ones.
Stale(k) == Cardinality({i \in 1 .. Failures(k) : attempts[k][i] = Window})

\* Mutants: check_login_throttle counts without the DELETE of the stale rows;
\* the window is one tick longer than the ages that are kept.
AgeNever == attempts' = attempts

AgeTooLong ==
    attempts' = [k \in Keys |-> [i \in 1 .. Failures(k) |-> attempts[k][i] + 1]]

\* Time passes: _shift(utcnow(), -_ATTEMPT_WINDOW) leaves the oldest rows behind.
Age ==
    attempts' = [k \in Keys |->
        [i \in 1 .. Failures(k) - Stale(k) |-> attempts[k][i + Stale(k)] + 1]]

-----------------------------------------------------------------------------

\* Whatever the order of the logins, from one address or against one name
\* no more than login_max_attempts passwords fail within any window
\* (check_login_throttle before authenticate, record_login_failure after).
GuessBound == \A k \in Keys : Failures(k) <= Limit

=============================================================================
