--------------------------- MODULE MCUserAccounts ---------------------------
(* Accounts in three parts whose state spaces add up: what exists is signed *)
(* in to and changed, nobody is registered yet, a password is reset.  Time  *)
(* passes between calls; a restart within one leaves the table as one after *)
(* it does.  A fault takes the place of a minute.                           *)
EXTENDS UserAccounts

VARIABLE part

vars == <<pc, codeVars, accountVars, part>>

First(S) == CHOOSE x \in S : TRUE
User(m, p) == [email |-> m, username |-> First(Names), password |-> p]

\* First(Mails) alone is registered twice at once.
Init ==
    /\ pc = Idle /\ now = 0 /\ NoCodes
    /\ \/ part = "changes" /\ \E p \in Passwords : AccountsStart(<<User(First(Mails), p)>>)
       \/ part = "registering" /\ AccountsStart(<<>>)
       \/ part = "resets" /\ \E n \in Mails \ {First(Mails)}, p \in Passwords :
                                 AccountsStart(<<User(First(Mails), p), User(n, p)>>)

\* Nobody registers once two registrations of the mail have overlapped, nor resets while a
\* password is in doubt.
Call(th) ==
    \/ part = "changes" /\ (Signs(th, First(Mails)) \/ Changes(th))
    \/ part = "registering" /\ (Signs(th, First(Mails)) \/ (overlapped = {} /\ Registers(th, First(Mails), First(Names))))
    \/ part = "resets" /\ (Signs(th, First(Mails)) \/ (doubted = {} /\ \E m \in Mails : Resets(th, m)))

Next ==
    /\ UNCHANGED part
    /\ \/ \E th \in Threads : Call(th) \/ AccountStep(th)
       \/ pc = Idle /\ AccountsRestart
       \/ pc = Idle /\ part # "changes" /\ CodesClock /\ UNCHANGED <<pc, accountVars>>
    /\ now' + account_faults' <= MaxTime

Spec == Init /\ [][Next]_vars

Symmetry == {f @@ g : f \in Permutations(Threads), g \in Permutations(Passwords)}
=============================================================================
