-------------------------- MODULE MCServerInvites --------------------------
(* The counters of the rate limiter, joining with an invite, and creating   *)
(* and listing invites, for TLC: parts whose state spaces add up.  No hour  *)
(* passes while invites are used, restarts come between the calls; neither *)
(* time nor a restart comes between creating and listing invites.          *)
EXTENDS ServerInvites, TLC

VARIABLE part

\* Those who may create invites, and one who may not.
Keepers == Inviters \cup {CHOOSE u \in Users \ Inviters : TRUE}

vars == <<pc, limitVars, abuseVars, inviteVars, part>>

Init ==
    /\ LimitsInit
    /\ AbuseInit
    /\ \/ part \in {"limits", "keeping"} /\ InvitesStart(<<>>)
       \/ part = "joins" /\ \E s \in Servers, uses \in AskedUses, lifetime \in AskedExpiry :
                                 InvitesStart(<<Invite(s, uses, lifetime)>>)
    /\ \A th \in Threads : key[th] = CHOOSE k \in Keys : TRUE

Next ==
    /\ UNCHANGED part
    /\ \/ part = "limits" /\ LimitsNext /\ UNCHANGED <<abuseVars, inviteVars>>
       \/ part = "joins" /\ \/ \E th \in Threads :
                                   \/ InviteStep(th)
                                   \/ \E u \in Users : Joins(th, u)
                                   \/ \E u \in Inviters : Deletes(th, u)
                            \/ Clock
                            \/ ~BusyIn(InviteOps) /\ InvitesRestart
       \/ part = "keeping" /\ \E th \in Threads :
                                 \/ InviteStep(th)
                                 \/ \E u \in Keepers : Keeping(th, u)
                                 \/ \E u \in Inviters : Deletes(th, u)

Spec == Init /\ [][Next]_vars

\* A count that failed allows one invite more and nothing else; where attempts were
\* forgotten no ban is claimed.
Counted == ~miscounted /\ forgot = {}

Symmetry == {f @@ g @@ h : f \in Permutations(Threads), g \in Permutations(Servers), h \in Permutations(Users \ Inviters)}
=============================================================================
