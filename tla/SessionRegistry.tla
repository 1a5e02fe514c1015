------------------------- MODULE SessionRegistry -------------------------
(***************************************************************************)
(* What the session component promises, with no caches, clocks, workers or *)
(* locks: a session token is opened once, for one user, and closed once.   *)
(* A closed token is never open again and never changes hands.             *)
(***************************************************************************)
CONSTANTS Users,   \* user ids the database has handed out
          Tokens,  \* session tokens CreateTokenFromId can draw
          NoUser   \* the id 0, "return user ID or 0 on fail"

VARIABLES open,    \* the user a token is open for, NoUser when it is not
          used     \* tokens that have been opened at least once

vars == <<open, used>>

TypeOK ==
    /\ open \in [Tokens -> Users \cup {NoUser}]
    /\ used \subseteq Tokens

Init ==
    /\ open = [t \in Tokens |-> NoUser]
    /\ used = {}

Open(t, u) ==
    /\ t \notin used
    /\ open' = [open EXCEPT ![t] = u]
    /\ used' = used \cup {t}

Close(t) ==
    /\ open[t] # NoUser
    /\ open' = [open EXCEPT ![t] = NoUser]
    /\ UNCHANGED used

Next == \E t \in Tokens : Close(t) \/ \E u \in Users : Open(t, u)

Spec == Init /\ [][Next]_vars
==========================================================================
