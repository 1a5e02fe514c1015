---------------------------- MODULE MailedCodes ----------------------------
(***************************************************************************)
(* The codes that are sent by mail: registrations that wait for theirs     *)
(* (FEmailVerificationManager) and tokens to reset a password              *)
(* (FPasswordResetManager).  Each operation is one critical section.       *)
(* Codes are drawn at random, so two may be the same.                      *)
(***************************************************************************)
EXTENDS Integers

CONSTANTS Mails, Passwords, Names, Codes,
          CodeAliveTimeMins, TimeInMinsForTokenToBeAlive,
          MaxTime \* bound: minutes

ASSUME MailedCodesAssumption ==
    {CodeAliveTimeMins, TimeInMinsForTokenToBeAlive, MaxTime} \subseteq Nat

VARIABLES
    now,
    MailToPendingRegistration, \* mail -> what was submitted, its code and when that expires
    TokenToStructureMap,       \* token -> mail and expiry
    issued                     \* history, since the start: mails a token was made for

codeVars == <<now, MailToPendingRegistration, TokenToStructureMap, issued>>

NoPending == [code |-> 0, username |-> 0, password |-> 0, expires |-> 0]
NoToken == [mail |-> 0, expires |-> 0]

NoCodes ==
    /\ MailToPendingRegistration = [m \in Mails |-> NoPending]
    /\ TokenToStructureMap = [c \in Codes |-> NoToken]
    /\ issued = {}

\* A registration replaces one of the same mail that waits.
GenerateVerificationCode(mail, username, password, code) ==
    /\ MailToPendingRegistration' = [MailToPendingRegistration EXCEPT ![mail] =
           [code |-> code, username |-> username, password |-> password, expires |-> now + CodeAliveTimeMins]]
    /\ UNCHANGED <<now, TokenToStructureMap, issued>>

CodeValid(mail, code) ==
    MailToPendingRegistration[mail].code = code /\ MailToPendingRegistration[mail].expires > now

\* Only the registration that has this code.
ConsumeCode(mail, code) ==
    /\ MailToPendingRegistration' = [MailToPendingRegistration EXCEPT ![mail] = IF @.code = code THEN NoPending ELSE @]
    /\ UNCHANGED <<now, TokenToStructureMap, issued>>

\* A token drawn twice belongs to the mail it was drawn for last.
GenerateResetToken(mail, token) ==
    /\ TokenToStructureMap' = [TokenToStructureMap EXCEPT ![token] =
           [mail |-> mail, expires |-> now + TimeInMinsForTokenToBeAlive]]
    /\ issued' = issued \cup {mail}
    /\ UNCHANGED <<now, MailToPendingRegistration>>

\* Whatever its expiry says.
ResetTokenValid(mail, token) == TokenToStructureMap[token].mail = mail

AsyncCleanupExpired ==
    /\ MailToPendingRegistration' = [m \in Mails |->
           IF MailToPendingRegistration[m].expires < now THEN NoPending ELSE MailToPendingRegistration[m]]
    /\ UNCHANGED <<now, TokenToStructureMap, issued>>

AsyncCleanupTokens ==
    /\ TokenToStructureMap' = [c \in Codes |->
           IF TokenToStructureMap[c].expires < now THEN NoToken ELSE TokenToStructureMap[c]]
    /\ UNCHANGED <<now, MailToPendingRegistration, issued>>

Minute == now < MaxTime /\ now' = now + 1 /\ UNCHANGED <<MailToPendingRegistration, TokenToStructureMap, issued>>

CodesClock == AsyncCleanupExpired \/ AsyncCleanupTokens \/ Minute

Pending == [code : Codes, username : Names, password : Passwords, expires : Nat]
Token == [mail : Mails, expires : Nat]

\* What the two maps and the clock may hold.
MailedCodesTypeOK ==
    /\ now \in 0..MaxTime
    /\ MailToPendingRegistration \in [Mails -> Pending \cup {NoPending}]
    /\ TokenToStructureMap \in [Codes -> Token \cup {NoToken}]
    /\ issued \subseteq Mails
=============================================================================
