------------------------------ MODULE Sessions ------------------------------
(***************************************************************************)
(* What the sessions table promises to the rest of the service: a session  *)
(* is issued once, to one account; it ends when it expires, or together    *)
(* with every other session of its account when the account is revoked;    *)
(* and one that has ended is never honoured again.  (web/auth.py, from its *)
(* docstrings: "a valid, unexpired, non-revoked session", "Invalidate      *)
(* every existing session".)  Accounts.tla implements it.                  *)
(***************************************************************************)
CONSTANTS
    Ids,       \* session ids
    Owners,    \* accounts
    NoOne      \* the owner of an id that was not issued yet

VARIABLES
    stage,     \* stage[i] of session i: "new", "live" or "ended"
    owner      \* owner[i]: the account it was issued to

\* Sessions that would be honoured now.
Honoured == {i \in Ids : stage[i] = "live"}

Init ==
    /\ stage = [i \in Ids |-> "new"]
    /\ owner = [i \in Ids |-> NoOne]

\* A session may be born ended: its account was revoked while it was issued.
Issue(i, u) ==
    /\ stage[i] = "new"
    /\ \E s \in {"live", "ended"} : stage' = [stage EXCEPT ![i] = s]
    /\ owner' = [owner EXCEPT ![i] = u]

Expire(i) ==
    /\ stage[i] = "live"
    /\ stage' = [stage EXCEPT ![i] = "ended"]
    /\ UNCHANGED owner

\* All the sessions of u end in one step.
Revoke(u) ==
    /\ stage' = [i \in Ids |->
                    IF stage[i] = "live" /\ owner[i] = u THEN "ended" ELSE stage[i]]
    /\ UNCHANGED owner

Next ==
    \/ \E i \in Ids, u \in Owners : Issue(i, u)
    \/ \E i \in Ids : Expire(i)
    \/ \E u \in Owners : Revoke(u)

Spec == Init /\ [][Next]_<<stage, owner>>

=============================================================================
