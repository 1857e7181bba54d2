----------------------- MODULE AccessAndDeliveryProofs -----------------------
(***************************************************************************)
(* Theorems about two components, Access and InvoiceDelivery, which share  *)
(* nothing but this file.                                                  *)
(*                                                                         *)
(* Access: what the checks of every request promise holds for any number   *)
(* of requests in progress and of sessions, links and challenges.  The     *)
(* invariant AccessInv says what a request that has read the account still *)
(* has in hand (RequestsFit, PasswordsMatch), that whoever closes the      *)
(* account leaves it inactive, and that what was spent is no longer good.  *)
(*                                                                         *)
(* InvoiceDelivery: any number of senders and cycles, any payment          *)
(* requests, totals, revisions and fault budgets.  The e-mail queue that   *)
(* is composed here is EmailQueue over the documents of the invoice, so    *)
(* what EmailQueueProofs shows of its steps is used as it stands (E); only *)
(* an edit, which cancels queued rows, is no step of the queue.  The       *)
(* invariant DeliveryInv adds to E's that a call of sendInvoice knows its  *)
(* document, that the content is no newer than the revision, and the       *)
(* properties themselves.                                                  *)
(***************************************************************************)
EXTENDS Access, InvoiceDelivery, SumProofs

-----------------------------------------------------------------------------
(* Access.                                                                 *)

AccountRows ==
    [status : States, active : BOOLEAN, deleted : BOOLEAN, role : {"staff", "admin"},
     version : 1..MaxVersion, password : 0..MaxVersion, reset : BOOLEAN, compromised : BOOLEAN,
     mfa : BOOLEAN, fails : Nat, locked : BOOLEAN]
Fields == {"at", "version", "password", "fails", "session", "arg"}

AccessSteps == {"enable staff", "enable admin", "disable staff", "disable admin"}

ArgFits(step, arg) ==
    /\ step \in {"end links", "new link", "force reset", "revoke, then link"} => arg \in {"PASSWORD_RESET", "INVITE"}
    /\ step \in {"end challenges", "new challenge", "require setup"} => arg \in {"SETUP", "VERIFY"}
    /\ step \in AccessSteps \cup {"end access", "end all access", "set state"} => arg \in States

\* What a request has in hand fits the step it is at.
RowFits(held) ==
    /\ DOMAIN held = Fields
    /\ held.version \in 0..MaxVersion /\ held.password \in 0..MaxVersion /\ held.fails \in Nat
    /\ held.session \in SessionIds \cup {0}
    /\ ArgFits(held.at, held.arg)
    /\ held.at \in {"open session", "revoke, then open"} => held.version >= 1
    /\ held.password # 0 => held.at = "open session"

RequestsFit == DOMAIN req = Requests /\ \A r \in Requests : RowFits(req[r])

\* A password that is still to open a session, and one that has, is of the
\* version it was read with.
OfItsVersion(x, held) ==
    /\ x.version <= held.version
    /\ x.password # 0 /\ x.version = held.version => held.deleted \/ x.password = held.password

PasswordsMatch ==
    /\ account.password <= account.version
    /\ \A s \in sessions : OfItsVersion(s, account)
    /\ \A r \in Requests : OfItsVersion(req[r], account)

BarredIsInactive == barred => ~account.active

\* What has been spent is behind the last step, or no longer a code.
SpentIsGone ==
    /\ \A p \in TotpSteps : spent[p] > 0 => p <= totp.lastStep
    /\ \A p \in totp.codes : spent[p] = 0

AccessInv ==
    /\ AccessTypeOK /\ RequestsFit /\ PasswordsMatch
    /\ BarredIsInactive /\ EarlierLinksAreDead
    /\ SpentIsGone /\ ProofsAreSpentOnce
-----------------------------------------------------------------------------
(* Which actions change what.                                                *)

\* What can change the users held
LEMMA AccountFrame ==
    ASSUME AccessNext
    PROVE  \/ UNCHANGED account \/ LockEnds
           \/ \E state \in States, compromised \in BOOLEAN : TransitionAccount(state, compromised)
           \/ \E role \in {"staff", "admin"}, active \in BOOLEAN : UpdateUser(role, active)
           \/ \E r \in Requests :
                 \/ LoginFailed(r) \/ RequireSetup(r) \/ ClearFailures(r)
                 \/ \E c \in challenges : ConfirmChallengeSetup(r, c)
                 \/ ChangePassword(r) \/ ConfirmEnrolment(r) \/ DisableMfa(r)
                 \/ \E l \in links : SetPassword(r, l)
                 \/ \E role \in {"staff", "admin"}, active \in BOOLEAN : WriteAccess(r, role, active)
                 \/ SetState(r) \/ ForceReset(r) \/ RaiseVersion(r) \/ DeleteUser(r)
<1>1. ASSUME AtOnce PROVE \/ UNCHANGED account \/ LockEnds
                          \/ \E state \in States, compromised \in BOOLEAN : TransitionAccount(state, compromised)
                          \/ \E role \in {"staff", "admin"}, active \in BOOLEAN : UpdateUser(role, active)
  BY <1>1 DEF AtOnce, BeginChallengeSetup, EndSession, RevokeInvitation, States, Closed
<1>2. ASSUME NEW r \in Requests, SignIn(r)
      PROVE  \/ UNCHANGED account \/ LoginFailed(r) \/ RequireSetup(r) \/ ClearFailures(r)
             \/ \E c \in challenges : ConfirmChallengeSetup(r, c)
  BY <1>2 DEF SignIn, LoginRead, EndChallenges, NewChallenge, OpenSession, LoadUser, RevokeThenOpen, VerifyLogin
<1>3. ASSUME NEW r \in Requests, SignedIn(r)
      PROVE  \/ UNCHANGED account \/ ChangePassword(r) \/ ConfirmEnrolment(r)
             \/ DisableMfa(r)
  BY <1>3 DEF SignedIn, Ask, RevokeSessions, BeginEnrolment, MarkStepUp, NewCodes, EndOthers, VerifyStepUp
<1>4. ASSUME NEW r \in Requests, Link(r)
      PROVE  \/ UNCHANGED account \/ \E l \in links : SetPassword(r, l)
  BY <1>4 DEF Link, RequestPasswordReset, ResendInvitation, EndLinks, NewLink
<1>5. ASSUME NEW r \in Requests, Administer(r)
      PROVE  \/ UNCHANGED account \/ \E role \in {"staff", "admin"}, active \in BOOLEAN : WriteAccess(r, role, active)
             \/ SetState(r) \/ ForceReset(r) \/ RaiseVersion(r) \/ DeleteUser(r)
  BY <1>5 DEF Administer, ReadAccess, RevokeAccess, ReadForReset, RevokeThenLink, ForceRevoke, EndDeleted
<1>6. ASSUME NEW r \in Requests, Abandon(r)
      PROVE  \/ UNCHANGED account
  BY <1>6 DEF Abandon
<1> QED BY <1>1, <1>2, <1>3, <1>4, <1>5, <1>6 DEF AccessNext

\* What can change the links
LEMMA LinksFrame ==
    ASSUME AccessNext
    PROVE  \/ UNCHANGED links
           \/ \E state \in States, compromised \in BOOLEAN : TransitionAccount(state, compromised)
           \/ \E role \in {"staff", "admin"}, active \in BOOLEAN : UpdateUser(role, active)
           \/ \E r \in Requests :
                 \/ EndLinks(r) \/ NewLink(r) \/ \E l \in links : SetPassword(r, l)
                 \/ RevokeAccess(r) \/ EndDeleted(r)
<1>1. ASSUME AtOnce PROVE \/ UNCHANGED links
                          \/ \E state \in States, compromised \in BOOLEAN : TransitionAccount(state, compromised)
                          \/ \E role \in {"staff", "admin"}, active \in BOOLEAN : UpdateUser(role, active)
  BY <1>1 DEF AtOnce, LockEnds, BeginChallengeSetup, EndSession, RevokeInvitation, States, Closed
<1>2. ASSUME NEW r \in Requests, SignIn(r)
      PROVE  \/ UNCHANGED links
  BY <1>2 DEF SignIn, LoginRead, LoginFailed, RequireSetup, EndChallenges, NewChallenge, OpenSession, ClearFailures, LoadUser, RevokeThenOpen, ConfirmChallengeSetup, VerifyLogin
<1>3. ASSUME NEW r \in Requests, SignedIn(r)
      PROVE  \/ UNCHANGED links
  BY <1>3 DEF SignedIn, Ask, ChangePassword, RevokeSessions, BeginEnrolment, ConfirmEnrolment, MarkStepUp, NewCodes, DisableMfa, EndOthers, VerifyStepUp
<1>4. ASSUME NEW r \in Requests, Link(r)
      PROVE  \/ UNCHANGED links \/ EndLinks(r) \/ NewLink(r)
             \/ \E l \in links : SetPassword(r, l)
  BY <1>4 DEF Link, RequestPasswordReset, ResendInvitation
<1>5. ASSUME NEW r \in Requests, Administer(r)
      PROVE  \/ UNCHANGED links \/ RevokeAccess(r) \/ EndDeleted(r)
  BY <1>5 DEF Administer, ReadAccess, WriteAccess, SetState, ReadForReset, ForceReset, RevokeThenLink, ForceRevoke, RaiseVersion, DeleteUser
<1>6. ASSUME NEW r \in Requests, Abandon(r)
      PROVE  \/ UNCHANGED links
  BY <1>6 DEF Abandon
<1> QED BY <1>1, <1>2, <1>3, <1>4, <1>5, <1>6 DEF AccessNext

\* What can close or reopen the account
LEMMA BarredFrame ==
    ASSUME AccessNext
    PROVE  \/ UNCHANGED barred
           \/ \E state \in States, compromised \in BOOLEAN : TransitionAccount(state, compromised)
           \/ \E role \in {"staff", "admin"}, active \in BOOLEAN : UpdateUser(role, active)
           \/ \E r \in Requests :
                 \/ \E l \in links : SetPassword(r, l)
                 \/ \E role \in {"staff", "admin"}, active \in BOOLEAN : WriteAccess(r, role, active)
                 \/ RevokeAccess(r)
<1>1. ASSUME AtOnce PROVE \/ UNCHANGED barred
                          \/ \E state \in States, compromised \in BOOLEAN : TransitionAccount(state, compromised)
                          \/ \E role \in {"staff", "admin"}, active \in BOOLEAN : UpdateUser(role, active)
  BY <1>1 DEF AtOnce, LockEnds, BeginChallengeSetup, EndSession, RevokeInvitation, States, Closed
<1>2. ASSUME NEW r \in Requests, SignIn(r)
      PROVE  \/ UNCHANGED barred
  BY <1>2 DEF SignIn, LoginRead, LoginFailed, RequireSetup, EndChallenges, NewChallenge, OpenSession, ClearFailures, LoadUser, RevokeThenOpen, ConfirmChallengeSetup, VerifyLogin
<1>3. ASSUME NEW r \in Requests, SignedIn(r)
      PROVE  \/ UNCHANGED barred
  BY <1>3 DEF SignedIn, Ask, ChangePassword, RevokeSessions, BeginEnrolment, ConfirmEnrolment, MarkStepUp, NewCodes, DisableMfa, EndOthers, VerifyStepUp
<1>4. ASSUME NEW r \in Requests, Link(r)
      PROVE  \/ UNCHANGED barred \/ \E l \in links : SetPassword(r, l)
  BY <1>4 DEF Link, RequestPasswordReset, ResendInvitation, EndLinks, NewLink
<1>5. ASSUME NEW r \in Requests, Administer(r)
      PROVE  \/ UNCHANGED barred \/ \E role \in {"staff", "admin"}, active \in BOOLEAN : WriteAccess(r, role, active)
             \/ RevokeAccess(r)
  BY <1>5 DEF Administer, ReadAccess, SetState, ReadForReset, ForceReset, RevokeThenLink, ForceRevoke, RaiseVersion, DeleteUser, EndDeleted
<1>6. ASSUME NEW r \in Requests, Abandon(r)
      PROVE  \/ UNCHANGED barred
  BY <1>6 DEF Abandon
<1> QED BY <1>1, <1>2, <1>3, <1>4, <1>5, <1>6 DEF AccessNext

\* What can change the authenticator, and what has been spent
LEMMA MfaFrame ==
    ASSUME AccessNext
    PROVE  \/ UNCHANGED <<totp, spent>> \/ \E c \in challenges : BeginChallengeSetup(c)
           \/ \E state \in States, compromised \in BOOLEAN : TransitionAccount(state, compromised)
           \/ \E r \in Requests :
                 \/ \E c \in challenges : ConfirmChallengeSetup(r, c)
                 \/ \E c \in challenges, p \in Proofs : VerifyLogin(r, c, p)
                 \/ BeginEnrolment(r) \/ ConfirmEnrolment(r) \/ NewCodes(r)
                 \/ DisableMfa(r) \/ \E p \in TotpSteps : VerifyStepUp(r, p)
<1>1. ASSUME AtOnce PROVE \/ UNCHANGED <<totp, spent>>
                          \/ \E c \in challenges : BeginChallengeSetup(c)
                          \/ \E state \in States, compromised \in BOOLEAN : TransitionAccount(state, compromised)
  BY <1>1 DEF AtOnce, LockEnds, EndSession, RevokeInvitation, UpdateUser, States, Closed, mfaVars
<1>2. ASSUME NEW r \in Requests, SignIn(r)
      PROVE  \/ UNCHANGED <<totp, spent>>
             \/ \E c \in challenges : ConfirmChallengeSetup(r, c)
             \/ \E c \in challenges, p \in Proofs : VerifyLogin(r, c, p)
  BY <1>2 DEF SignIn, LoginRead, LoginFailed, RequireSetup, EndChallenges, NewChallenge, OpenSession, ClearFailures, LoadUser, RevokeThenOpen, mfaVars
<1>3. ASSUME NEW r \in Requests, SignedIn(r)
      PROVE  \/ UNCHANGED <<totp, spent>> \/ BeginEnrolment(r) \/ ConfirmEnrolment(r)
             \/ NewCodes(r) \/ DisableMfa(r) \/ \E p \in TotpSteps : VerifyStepUp(r, p)
  BY <1>3 DEF SignedIn, Ask, ChangePassword, RevokeSessions, MarkStepUp, EndOthers, mfaVars
<1>4. ASSUME NEW r \in Requests, Link(r)
      PROVE  \/ UNCHANGED <<totp, spent>>
  BY <1>4 DEF Link, RequestPasswordReset, ResendInvitation, EndLinks, NewLink, SetPassword, mfaVars
<1>5. ASSUME NEW r \in Requests, Administer(r)
      PROVE  \/ UNCHANGED <<totp, spent>>
  BY <1>5 DEF Administer, ReadAccess, WriteAccess, RevokeAccess, SetState, ReadForReset, ForceReset, RevokeThenLink, ForceRevoke, RaiseVersion, DeleteUser, EndDeleted, mfaVars
<1>6. ASSUME NEW r \in Requests, Abandon(r)
      PROVE  \/ UNCHANGED <<totp, spent>>
  BY <1>6 DEF Abandon, mfaVars
<1> QED BY <1>1, <1>2, <1>3, <1>4, <1>5, <1>6 DEF AccessNext

\* What can change the sessions
LEMMA SessionsFrame ==
    ASSUME AccessNext
    PROVE  \/ UNCHANGED sessions \/ \E s \in sessions : EndSession(s)
           \/ \E state \in States, compromised \in BOOLEAN : TransitionAccount(state, compromised)
           \/ \E role \in {"staff", "admin"}, active \in BOOLEAN : UpdateUser(role, active)
           \/ \E r \in Requests :
                 \/ OpenSession(r) \/ RevokeThenOpen(r) \/ RevokeSessions(r)
                 \/ MarkStepUp(r) \/ EndOthers(r) \/ RevokeAccess(r) \/ RevokeThenLink(r)
                 \/ ForceRevoke(r) \/ EndDeleted(r)
<1>1. ASSUME AtOnce PROVE \/ UNCHANGED sessions \/ \E s \in sessions : EndSession(s)
                          \/ \E state \in States, compromised \in BOOLEAN : TransitionAccount(state, compromised)
                          \/ \E role \in {"staff", "admin"}, active \in BOOLEAN : UpdateUser(role, active)
  BY <1>1 DEF AtOnce, LockEnds, BeginChallengeSetup, RevokeInvitation, States, Closed
<1>2. ASSUME NEW r \in Requests, SignIn(r)
      PROVE  \/ UNCHANGED sessions \/ OpenSession(r) \/ RevokeThenOpen(r)
  BY <1>2 DEF SignIn, LoginRead, LoginFailed, RequireSetup, EndChallenges, NewChallenge, ClearFailures, LoadUser, ConfirmChallengeSetup, VerifyLogin
<1>3. ASSUME NEW r \in Requests, SignedIn(r)
      PROVE  \/ UNCHANGED sessions \/ RevokeSessions(r) \/ MarkStepUp(r) \/ EndOthers(r)
  BY <1>3 DEF SignedIn, Ask, ChangePassword, BeginEnrolment, ConfirmEnrolment, NewCodes, DisableMfa, VerifyStepUp
<1>4. ASSUME NEW r \in Requests, Link(r)
      PROVE  \/ UNCHANGED sessions
  BY <1>4 DEF Link, RequestPasswordReset, ResendInvitation, EndLinks, NewLink, SetPassword
<1>5. ASSUME NEW r \in Requests, Administer(r)
      PROVE  \/ UNCHANGED sessions \/ RevokeAccess(r) \/ RevokeThenLink(r)
             \/ ForceRevoke(r) \/ EndDeleted(r)
  BY <1>5 DEF Administer, ReadAccess, WriteAccess, SetState, ReadForReset, ForceReset, RaiseVersion, DeleteUser
<1>6. ASSUME NEW r \in Requests, Abandon(r)
      PROVE  \/ UNCHANGED sessions
  BY <1>6 DEF Abandon
<1> QED BY <1>1, <1>2, <1>3, <1>4, <1>5, <1>6 DEF AccessNext

\* What can change the challenges
LEMMA ChallengesFrame ==
    ASSUME AccessNext
    PROVE  \/ UNCHANGED challenges
           \/ \E r \in Requests :
                 \/ EndChallenges(r) \/ NewChallenge(r)
                 \/ \E c \in challenges : ConfirmChallengeSetup(r, c)
                 \/ \E c \in challenges, p \in Proofs : VerifyLogin(r, c, p)
<1>1. ASSUME AtOnce PROVE \/ UNCHANGED challenges
  BY <1>1 DEF AtOnce, LockEnds, BeginChallengeSetup, EndSession, TransitionAccount, RevokeInvitation, UpdateUser, mfaVars
<1>2. ASSUME NEW r \in Requests, SignIn(r)
      PROVE  \/ UNCHANGED challenges \/ EndChallenges(r) \/ NewChallenge(r)
             \/ \E c \in challenges : ConfirmChallengeSetup(r, c)
             \/ \E c \in challenges, p \in Proofs : VerifyLogin(r, c, p)
  BY <1>2 DEF SignIn, LoginRead, LoginFailed, RequireSetup, OpenSession, ClearFailures, LoadUser, RevokeThenOpen, mfaVars
<1>3. ASSUME NEW r \in Requests, SignedIn(r)
      PROVE  \/ UNCHANGED challenges
  BY <1>3 DEF SignedIn, Ask, ChangePassword, RevokeSessions, BeginEnrolment, ConfirmEnrolment, MarkStepUp, NewCodes, DisableMfa, EndOthers, VerifyStepUp, mfaVars
<1>4. ASSUME NEW r \in Requests, Link(r)
      PROVE  \/ UNCHANGED challenges
  BY <1>4 DEF Link, RequestPasswordReset, ResendInvitation, EndLinks, NewLink, SetPassword, mfaVars
<1>5. ASSUME NEW r \in Requests, Administer(r)
      PROVE  \/ UNCHANGED challenges
  BY <1>5 DEF Administer, ReadAccess, WriteAccess, RevokeAccess, SetState, ReadForReset, ForceReset, RevokeThenLink, ForceRevoke, RaiseVersion, DeleteUser, EndDeleted, mfaVars
<1>6. ASSUME NEW r \in Requests, Abandon(r)
      PROVE  \/ UNCHANGED challenges
  BY <1>6 DEF Abandon, mfaVars
<1> QED BY <1>1, <1>2, <1>3, <1>4, <1>5, <1>6 DEF AccessNext
-----------------------------------------------------------------------------
(* The rows of the requests in progress.                                     *)

\* Every request is at a held, and only its own held moves.
LEMMA RowSet ==
    ASSUME RequestsFit, NEW r \in Requests, NEW held, RowFits(held), req' = [req EXCEPT ![r] = held]
    PROVE  RequestsFit'
BY DEF RequestsFit

\* The values of an idle held are of every type.
LEMMA Zero == 0 \in 0..MaxVersion /\ 0 \in Nat /\ 0 \in SessionIds \cup {0}
BY AccessAssumption

\* What the held of no request holds.
LEMMA IdleRow ==
    /\ DOMAIN Idle = Fields
    /\ Idle.at = "idle" /\ Idle.version = 0 /\ Idle.password = 0 /\ Idle.fails = 0 /\ Idle.session = 0
BY DEF Idle, Fields

LEMMA IdleFits == RowFits(Idle)
BY AccessAssumption, IdleRow DEF RowFits, ArgFits, AccessSteps

\* A request that is over, begins, goes on or comes to its last statement.
LEMMA DoneFits ==
    ASSUME RequestsFit, NEW r \in Requests, Done(r)
    PROVE  RequestsFit'
BY RowSet, IdleFits DEF Done

LEMMA BeginFits ==
    ASSUME RequestsFit, NEW r \in Requests, NEW step, NEW session \in SessionIds \cup {0}, NEW arg,
           Begin(r, step, session, arg),
           step \notin {"open session", "revoke, then open"},
           ArgFits(step, arg)
    PROVE  RequestsFit'
<1> DEFINE held == [Idle EXCEPT !.at = step, !.session = session, !.arg = arg]
<1>1. RowFits(held)
  <2>1. /\ DOMAIN held = Fields /\ held.at = step
        /\ held.version = 0 /\ held.password = 0 /\ held.fails = 0
    BY IdleRow DEF Fields
  <2>2. held.session = session /\ held.arg = arg
    BY IdleRow DEF Fields
  <2> HIDE DEF held
  <2>3. held.version \in 0..MaxVersion /\ held.password \in 0..MaxVersion /\ held.fails \in Nat /\ held.session \in SessionIds \cup {0}
    BY <2>1, <2>2, Zero, Zenon
  <2> QED BY <2>1, <2>2, <2>3, Zenon DEF RowFits, ArgFits, AccessSteps
<1>2. req' = [req EXCEPT ![r] = held]
  BY DEF Begin
<1> QED BY <1>1, <1>2, RowSet

LEMMA GoFits ==
    ASSUME RequestsFit, NEW r \in Requests, NEW step, Go(r, step), req[r].at # "open session",
           ArgFits(step, req[r].arg),
           step \in {"open session", "revoke, then open"} => req[r].version >= 1
    PROVE  RequestsFit'
<1> DEFINE held == [req[r] EXCEPT !.at = step]
<1>1. RowFits(req[r])
  BY DEF RequestsFit
<1>2. RowFits(held)
  BY <1>1 DEF RowFits, ArgFits, AccessSteps, Fields
<1>3. req' = [req EXCEPT ![r] = held]
  BY DEF Go
<1> QED BY <1>2, <1>3, RowSet

LEMMA FinishFits ==
    ASSUME RequestsFit, NEW r \in Requests, NEW step \in {"clear failures", "revoke sessions"}, Finish(r, step)
    PROVE  RequestsFit'
<1> DEFINE held == [Idle EXCEPT !.at = step]
<1>1. RowFits(held)
  <2>1. /\ DOMAIN held = Fields /\ held.at = step
        /\ held.version = 0 /\ held.password = 0 /\ held.fails = 0 /\ held.session = 0
    BY IdleRow DEF Fields
  <2> HIDE DEF held
  <2>2. held.version \in 0..MaxVersion /\ held.password \in 0..MaxVersion /\ held.fails \in Nat /\ held.session \in SessionIds \cup {0}
    BY <2>1, Zero, Zenon
  <2>3. CASE step = "clear failures"
    BY <2>1, <2>2, <2>3 DEF RowFits, ArgFits, AccessSteps
  <2>4. CASE step = "revoke sessions"
    BY <2>1, <2>2, <2>4 DEF RowFits, ArgFits, AccessSteps
  <2> QED BY <2>3, <2>4
<1>2. req' = [req EXCEPT ![r] = held]
  BY DEF Finish
<1> QED BY <1>1, <1>2, RowSet

\* A request that stays where it is.
LEMMA StaysFit ==
    ASSUME RequestsFit, UNCHANGED req
    PROVE  RequestsFit'
BY DEF RequestsFit

\* The requests that go from one fixed step to the next.
LEMMA RequestSteps ==
    ASSUME AccessTypeOK, RequestsFit, NEW r \in Requests
    PROVE  /\ (LoginFailed(r) \/ NewChallenge(r) \/ ClearFailures(r) \/ RevokeSessions(r) \/ BeginEnrolment(r) \/ MarkStepUp(r) \/ NewCodes(r) \/ EndOthers(r) \/ NewLink(r) \/ SetState(r) \/ RaiseVersion(r) \/ EndDeleted(r)) => RequestsFit'
           /\ (RequireSetup(r) \/ EndChallenges(r) \/ EndLinks(r) \/ RevokeAccess(r) \/ RevokeThenLink(r) \/ RevokeThenOpen(r)) => RequestsFit'
           /\ (OpenSession(r) \/ ChangePassword(r) \/ DisableMfa(r)) => RequestsFit'
<1>0. RowFits(req[r])
  BY DEF RequestsFit
<1>1. ASSUME LoginFailed(r) PROVE RequestsFit'
  BY <1>1, DoneFits DEF LoginFailed
<1>2. ASSUME NewChallenge(r) PROVE RequestsFit'
  BY <1>2, DoneFits DEF NewChallenge
<1>3. ASSUME ClearFailures(r) PROVE RequestsFit'
  BY <1>3, DoneFits DEF ClearFailures
<1>4. ASSUME RevokeSessions(r) PROVE RequestsFit'
  BY <1>4, DoneFits DEF RevokeSessions
<1>5. ASSUME BeginEnrolment(r) PROVE RequestsFit'
  BY <1>5, DoneFits DEF BeginEnrolment
<1>6. ASSUME MarkStepUp(r) PROVE RequestsFit'
  BY <1>6, DoneFits DEF MarkStepUp
<1>7. ASSUME NewCodes(r) PROVE RequestsFit'
  BY <1>7, DoneFits DEF NewCodes
<1>8. ASSUME EndOthers(r) PROVE RequestsFit'
  BY <1>8, DoneFits DEF EndOthers
<1>9. ASSUME NewLink(r) PROVE RequestsFit'
  BY <1>9, DoneFits DEF NewLink
<1>10. ASSUME SetState(r) PROVE RequestsFit'
  BY <1>10, DoneFits DEF SetState
<1>11. ASSUME RaiseVersion(r) PROVE RequestsFit'
  BY <1>11, DoneFits DEF RaiseVersion
<1>12. ASSUME EndDeleted(r) PROVE RequestsFit'
  BY <1>12, DoneFits DEF EndDeleted
<1>13. ASSUME RequireSetup(r) PROVE RequestsFit'
  BY <1>13, <1>0, GoFits DEF RequireSetup, At, RowFits, ArgFits, AccessSteps
<1>14. ASSUME EndChallenges(r) PROVE RequestsFit'
  BY <1>14, <1>0, GoFits DEF EndChallenges, At, RowFits, ArgFits, AccessSteps
<1>15. ASSUME EndLinks(r) PROVE RequestsFit'
  BY <1>15, <1>0, GoFits DEF EndLinks, At, RowFits, ArgFits, AccessSteps
<1>16. ASSUME RevokeAccess(r) PROVE RequestsFit'
  BY <1>16, <1>0, GoFits DEF RevokeAccess, At, RowFits, ArgFits, AccessSteps
<1>17. ASSUME RevokeThenLink(r) PROVE RequestsFit'
  BY <1>17, <1>0, GoFits DEF RevokeThenLink, At, RowFits, ArgFits, AccessSteps
<1>18. ASSUME RevokeThenOpen(r) PROVE RequestsFit'
  BY <1>18, <1>0, GoFits DEF RevokeThenOpen, At, RowFits, ArgFits, AccessSteps
<1>19. ASSUME OpenSession(r) PROVE RequestsFit'
  BY <1>19, FinishFits DEF OpenSession
<1>20. ASSUME ChangePassword(r) PROVE RequestsFit'
  BY <1>20, FinishFits DEF ChangePassword
<1>21. ASSUME DisableMfa(r) PROVE RequestsFit'
  BY <1>21, FinishFits DEF DisableMfa
<1> QED BY <1>1, <1>2, <1>3, <1>4, <1>5, <1>6, <1>7, <1>8, <1>9, <1>10, <1>11, <1>12, <1>13, <1>14, <1>15, <1>16, <1>17, <1>18, <1>19, <1>20, <1>21

\* The requests that begin, and those whose rest depends on what they find.
LEMMA RequestBegins ==
    ASSUME AccessTypeOK, RequestsFit, NEW r \in Requests
    PROVE  /\ (\E s \in sessions : Ask(r, s)) => RequestsFit'
           /\ RequestPasswordReset(r) \/ ResendInvitation(r) \/ (\E l \in links : SetPassword(r, l)) => RequestsFit'
           /\ (\E role \in {"staff", "admin"}, active \in BOOLEAN : ReadAccess(r, role, active)) => RequestsFit'
           /\ ReadForReset(r) \/ ForceRevoke(r) \/ DeleteUser(r) => RequestsFit'
           /\ (\E c \in challenges : ConfirmChallengeSetup(r, c)) => RequestsFit'
           /\ (\E c \in challenges, p \in Proofs : VerifyLogin(r, c, p)) => RequestsFit'
<1>0. /\ ArgFits("end links", "PASSWORD_RESET") /\ ArgFits("end links", "INVITE") /\ ArgFits("force reset", "PASSWORD_RESET")
      /\ \A arg : /\ ArgFits("change password", arg) /\ ArgFits("end others", arg) /\ ArgFits("begin enrolment", arg)
                  /\ ArgFits("enrol", arg) /\ ArgFits("step up", arg) /\ ArgFits("new codes", arg)
                  /\ ArgFits("disable mfa", arg) /\ ArgFits("revoke sessions", arg) /\ ArgFits("raise version", arg)
                  /\ ArgFits("end deleted", arg) /\ ArgFits("load user", arg)
      /\ \A arg \in States, step \in AccessSteps : ArgFits(step, arg)
  BY DEF ArgFits, AccessSteps
<1>1. ASSUME NEW s \in sessions, Ask(r, s) PROVE RequestsFit'
  <2>1. s.id \in SessionIds \cup {0}
    BY DEF AccessTypeOK
  <2>2. /\ Begin(r, "change password", 0, "") => RequestsFit'
        /\ Begin(r, "end others", s.id, "") => RequestsFit'
        /\ Begin(r, "begin enrolment", 0, "") => RequestsFit'
        /\ Begin(r, "enrol", 0, "") => RequestsFit'
        /\ Begin(r, "step up", s.id, "") => RequestsFit'
        /\ Begin(r, "new codes", 0, "") => RequestsFit'
        /\ Begin(r, "disable mfa", 0, "") => RequestsFit'
    BY <1>0, <2>1, BeginFits, Zero, Zenon
  <2> QED BY <1>1, <2>2, Zenon DEF Ask
<1>2. ASSUME RequestPasswordReset(r) PROVE RequestsFit'
  BY <1>0, <1>2, BeginFits, Zero, Zenon DEF RequestPasswordReset
<1>3. ASSUME ResendInvitation(r) PROVE RequestsFit'
  BY <1>0, <1>3, BeginFits, Zero, Zenon DEF ResendInvitation
<1>4. ASSUME NEW l \in links, SetPassword(r, l) PROVE RequestsFit'
  BY <1>0, <1>4, BeginFits, Zero, Zenon DEF SetPassword
<1>5. ASSUME NEW role \in {"staff", "admin"}, NEW active \in BOOLEAN, ReadAccess(r, role, active) PROVE RequestsFit'
  <2>1. StateAfterChange(role, active) \in States
    BY DEF StateAfterChange, States, Closed
  <2>2. /\ AccessStep(role, active) \in AccessSteps
        /\ AccessStep(role, active) \notin {"open session", "revoke, then open"}
    BY DEF AccessStep, AccessSteps
  <2>3. ArgFits(AccessStep(role, active), StateAfterChange(role, active))
    BY <1>0, <2>1, <2>2, Zenon
  <2>4. Begin(r, AccessStep(role, active), 0, StateAfterChange(role, active)) => RequestsFit'
    BY <2>2, <2>3, BeginFits, Zero, Zenon
  <2> QED BY <1>5, <2>4 DEF ReadAccess
<1>6. ASSUME ReadForReset(r) PROVE RequestsFit'
  BY <1>0, <1>6, BeginFits, Zero, Zenon DEF ReadForReset
<1>7. ASSUME ForceRevoke(r) PROVE RequestsFit'
  BY <1>0, <1>7, BeginFits, Zero, Zenon DEF ForceRevoke
<1>8. ASSUME DeleteUser(r) PROVE RequestsFit'
  BY <1>0, <1>8, BeginFits, Zero, Zenon DEF DeleteUser
<1>9. ASSUME NEW c \in challenges, ConfirmChallengeSetup(r, c) PROVE RequestsFit'
  BY <1>0, <1>9, BeginFits, Zero, StaysFit, Zenon DEF ConfirmChallengeSetup
<1>10. ASSUME NEW c \in challenges, NEW p \in Proofs, VerifyLogin(r, c, p) PROVE RequestsFit'
  BY <1>0, <1>10, BeginFits, Zero, StaysFit, Zenon DEF VerifyLogin
<1> QED BY <1>1, <1>2, <1>3, <1>4, <1>5, <1>6, <1>7, <1>8, <1>9, <1>10

\* The requests that branch on what they find.
LEMMA RequestBranches ==
    ASSUME AccessTypeOK, RequestsFit, NEW r \in Requests
    PROVE  /\ LoginRead(r) => RequestsFit'
           /\ LoadUser(r) => RequestsFit'
           /\ ConfirmEnrolment(r) \/ ForceReset(r) \/ (\E role \in {"staff", "admin"}, active \in BOOLEAN : WriteAccess(r, role, active)) => RequestsFit'
           /\ (\E p \in TotpSteps : VerifyStepUp(r, p)) => RequestsFit'
           /\ Abandon(r) => RequestsFit'
<1>0. RowFits(req[r])
  BY DEF RequestsFit
<1>1. ASSUME LoginRead(r) PROVE RequestsFit'
  <2> USE Zero
  <2>0. /\ account.version \in 0..MaxVersion /\ account.version >= 1 /\ account.password \in 0..MaxVersion
        /\ account.fails + 1 \in Nat
    BY AccessAssumption DEF AccessTypeOK
  <2>1. RowFits([Idle EXCEPT !.at = "wrong password", !.fails = account.fails + 1])
    BY <2>0, IdleRow DEF RowFits, ArgFits, AccessSteps, Fields
  <2>2. RowFits([Idle EXCEPT !.at = "open session", !.version = account.version, !.password = account.password])
    BY <2>0, IdleRow DEF RowFits, ArgFits, AccessSteps, Fields
  <2>3. RowFits([Idle EXCEPT !.at = "end challenges", !.arg = "VERIFY"])
    BY IdleRow DEF RowFits, ArgFits, AccessSteps, Fields
  <2>4. RowFits([Idle EXCEPT !.at = "require setup", !.arg = "SETUP"])
    BY IdleRow DEF RowFits, ArgFits, AccessSteps, Fields
  <2>5. PICK held : RowFits(held) /\ req' = [req EXCEPT ![r] = held]
    BY <1>1, <2>1, <2>2, <2>3, <2>4, Zenon DEF LoginRead
  <2> QED BY <2>5, RowSet
<1>2. ASSUME LoadUser(r) PROVE RequestsFit'
  <2>1. CASE Known /\ account.active
    <3> DEFINE held == [req[r] EXCEPT !.version = account.version, !.arg = "challenge",
                                     !.at = IF req[r].arg = "setup" THEN "revoke, then open" ELSE "open session"]
    <3>1. account.version \in 0..MaxVersion /\ account.version >= 1
      BY AccessAssumption DEF AccessTypeOK
    <3>2. req[r].at = "load user" /\ req[r].password = 0
      BY <1>0, <1>2 DEF LoadUser, At, RowFits, ArgFits, AccessSteps
    <3>3. RowFits(held)
      BY <1>0, <3>1, <3>2 DEF RowFits, ArgFits, AccessSteps, Fields
    <3>4. req' = [req EXCEPT ![r] = held]
      BY <1>2, <2>1 DEF LoadUser, RequestsFit
    <3> QED BY <3>3, <3>4, RowSet
  <2>2. CASE ~(Known /\ account.active)
    BY <1>2, <2>2, DoneFits DEF LoadUser
  <2> QED BY <2>1, <2>2
<1>3. ASSUME ConfirmEnrolment(r) PROVE RequestsFit'
  BY <1>3, DoneFits, FinishFits DEF ConfirmEnrolment
<1>4. ASSUME ForceReset(r) PROVE RequestsFit'
  BY <1>0, <1>4, DoneFits, GoFits DEF ForceReset, At, RowFits, ArgFits, AccessSteps
<1>5. ASSUME NEW role \in {"staff", "admin"}, NEW active \in BOOLEAN, WriteAccess(r, role, active) PROVE RequestsFit'
  <2>1. req[r].at \in AccessSteps
    BY <1>5 DEF WriteAccess, At, AccessStep, AccessSteps
  <2>2. req[r].arg \in States /\ req[r].at # "open session"
    BY <1>0, <2>1 DEF RowFits, ArgFits, AccessSteps
  <2>3. ArgFits("end access", req[r].arg) /\ ArgFits("end all access", req[r].arg)
    BY <2>2 DEF ArgFits, AccessSteps
  <2>4. Go(r, "end access") \/ Go(r, "end all access") => RequestsFit'
    BY <2>2, <2>3, GoFits
  <2>5. (\E step \in {"end access", "end all access"} : Go(r, step)) \/ Done(r)
    BY <1>5 DEF WriteAccess
  <2> QED BY <2>4, <2>5, DoneFits
<1>6. ASSUME NEW p \in TotpSteps, VerifyStepUp(r, p) PROVE RequestsFit'
  BY <1>0, <1>6, DoneFits, GoFits DEF VerifyStepUp, At, RowFits, ArgFits, AccessSteps
<1>7. ASSUME Abandon(r) PROVE RequestsFit'
  BY <1>7, DoneFits DEF Abandon
<1> QED BY <1>1, <1>2, <1>3, <1>4, <1>5, <1>6, <1>7

\* No step leaves a request with what it cannot use.
LEMMA RequestsKeepFit ==
    ASSUME AccessTypeOK, RequestsFit, AccessNext
    PROVE  RequestsFit'
<1>1. CASE AtOnce
  <2>1. UNCHANGED req
    BY <1>1 DEF AtOnce, LockEnds, BeginChallengeSetup, EndSession, TransitionAccount, RevokeInvitation, UpdateUser
  <2> QED BY <2>1, StaysFit
<1>2. ASSUME NEW r \in Requests, SignIn(r) PROVE RequestsFit'
  BY <1>2, RequestSteps, RequestBegins, RequestBranches, Zenon DEF SignIn
<1>3. ASSUME NEW r \in Requests, SignedIn(r) PROVE RequestsFit'
  BY <1>3, RequestSteps, RequestBegins, RequestBranches, Zenon DEF SignedIn
<1>4. ASSUME NEW r \in Requests, Link(r) PROVE RequestsFit'
  BY <1>4, RequestSteps, RequestBegins, Zenon DEF Link
<1>5. ASSUME NEW r \in Requests, Administer(r) PROVE RequestsFit'
  BY <1>5, RequestSteps, RequestBegins, RequestBranches, Zenon DEF Administer
<1>6. ASSUME NEW r \in Requests, Abandon(r) PROVE RequestsFit'
  BY <1>6, RequestBranches, Zenon
<1> QED BY <1>1, <1>2, <1>3, <1>4, <1>5, <1>6 DEF AccessNext
-----------------------------------------------------------------------------
(* The account, its links and its second factor.                             *)

\* The version and the password of the account move together, or the account
\* is deleted.
LEMMA AccountMoves ==
    ASSUME AccessTypeOK, RequestsFit, AccessNext
    PROVE  \/ account'.version = account.version /\ account'.password = account.password /\ account'.deleted = account.deleted
           \/ account'.version = account.version + 1 /\ account'.password \in {account.password, account.password + 1}
           \/ account'.version = account.version /\ account'.password = 0 /\ account'.deleted
<1> DEFINE Moved ==
           \/ account'.version = account.version /\ account'.password = account.password /\ account'.deleted = account.deleted
           \/ account'.version = account.version + 1 /\ account'.password \in {account.password, account.password + 1}
           \/ account'.version = account.version /\ account'.password = 0 /\ account'.deleted
<1>0. account \in AccountRows
  BY DEF AccessTypeOK, AccountRows
<1>1. ASSUME UNCHANGED account PROVE Moved
  BY <1>1
<1>2. ASSUME LockEnds PROVE Moved
  BY <1>0, <1>2 DEF LockEnds, AccountRows
<1>3. ASSUME NEW state \in States, NEW compromised \in BOOLEAN, TransitionAccount(state, compromised) PROVE Moved
  BY <1>0, <1>3 DEF TransitionAccount, Bumped, AccountRows
<1>4. ASSUME NEW role \in {"staff", "admin"}, NEW active \in BOOLEAN, UpdateUser(role, active) PROVE Moved
  BY <1>0, <1>4 DEF UpdateUser, Bumped, AccountRows
<1>5. ASSUME NEW r \in Requests, LoginFailed(r) \/ RequireSetup(r) \/ ClearFailures(r) PROVE Moved
  BY <1>0, <1>5 DEF LoginFailed, RequireSetup, ClearFailures, AccountRows
<1>6. ASSUME NEW r \in Requests, NEW c \in challenges, ConfirmChallengeSetup(r, c) PROVE Moved
  BY <1>0, <1>6 DEF ConfirmChallengeSetup, Enrol, AccountRows
<1>7. ASSUME NEW r \in Requests, ChangePassword(r) \/ DisableMfa(r) PROVE Moved
  BY <1>0, <1>7 DEF ChangePassword, DisableMfa, PasswordChanged, Bumped, AccountRows
<1>8. ASSUME NEW r \in Requests, ConfirmEnrolment(r) PROVE Moved
  BY <1>0, <1>8 DEF ConfirmEnrolment, Enrol, AccountRows
<1>9. ASSUME NEW r \in Requests, NEW l \in links, SetPassword(r, l) PROVE Moved
  BY <1>0, <1>9 DEF SetPassword, PasswordChanged, Bumped, AccountRows
<1>10. ASSUME NEW r \in Requests, NEW role \in {"staff", "admin"}, NEW active \in BOOLEAN, WriteAccess(r, role, active) PROVE Moved
  BY <1>0, <1>10 DEF WriteAccess, AccountRows
<1>11. ASSUME NEW r \in Requests, SetState(r) \/ ForceReset(r) \/ RaiseVersion(r) \/ DeleteUser(r) PROVE Moved
  BY <1>0, <1>11 DEF SetState, ForceReset, RaiseVersion, DeleteUser, Bumped, AccountRows
<1> HIDE DEF Moved
<1>12. Moved
  BY <1>1, <1>2, <1>3, <1>4, <1>5, <1>6, <1>7, <1>8, <1>9, <1>10, <1>11, AccountFrame
<1> QED BY <1>12 DEF Moved

\* Whoever closes the account leaves it inactive.
LEMMA BarredKept ==
    ASSUME AccessTypeOK, BarredIsInactive, AccessNext
    PROVE  BarredIsInactive'
<1>0. account \in AccountRows /\ barred \in BOOLEAN
  BY DEF AccessTypeOK, AccountRows
<1>1. ASSUME NEW state \in States, NEW compromised \in BOOLEAN, TransitionAccount(state, compromised) PROVE BarredIsInactive'
  <2>1. account'.active = (state \in Open)
    BY <1>0, <1>1 DEF TransitionAccount, Bumped, AccountRows
  <2> QED BY <1>1, <2>1 DEF TransitionAccount, BarredIsInactive
<1>2. ASSUME NEW role \in {"staff", "admin"}, NEW active \in BOOLEAN, UpdateUser(role, active) PROVE BarredIsInactive'
  <2>1. account'.active = active
    BY <1>0, <1>2 DEF UpdateUser, Bumped, AccountRows
  <2> QED BY <1>2, <2>1 DEF UpdateUser, BarredIsInactive
<1>3. ASSUME NEW r \in Requests, NEW role \in {"staff", "admin"}, NEW active \in BOOLEAN, WriteAccess(r, role, active) PROVE BarredIsInactive'
  <2>1. CASE Known
    <3>1. account'.active = active /\ barred' = (barred /\ ~active)
      BY <1>0, <1>3, <2>1 DEF WriteAccess, AccountRows
    <3> QED BY <3>1 DEF BarredIsInactive
  <2>2. CASE ~Known
    BY <1>3, <2>2 DEF WriteAccess, BarredIsInactive
  <2> QED BY <2>1, <2>2
<1>4. ASSUME NEW r \in Requests, RevokeAccess(r) PROVE BarredIsInactive'
  BY <1>4 DEF RevokeAccess, BarredIsInactive
<1>5. ASSUME NEW r \in Requests, NEW l \in links, SetPassword(r, l) PROVE BarredIsInactive'
  BY <1>5 DEF SetPassword, BarredIsInactive
<1>6. ASSUME UNCHANGED barred, barred PROVE ~account'.active
  <2>1. ~account.active
    BY <1>6 DEF BarredIsInactive
  <2>2. CASE UNCHANGED account
    BY <2>1, <2>2
  <2>3. ASSUME NEW r \in Requests, LoginFailed(r) \/ RequireSetup(r) \/ ClearFailures(r) PROVE ~account'.active
    BY <1>0, <2>1, <2>3 DEF LoginFailed, RequireSetup, ClearFailures, AccountRows
  <2>4. ASSUME NEW r \in Requests, NEW c \in challenges, ConfirmChallengeSetup(r, c) PROVE ~account'.active
    BY <1>0, <2>1, <2>4 DEF ConfirmChallengeSetup, Enrol, AccountRows
  <2>5. ASSUME NEW r \in Requests, ChangePassword(r) \/ DisableMfa(r) PROVE ~account'.active
    BY <1>0, <2>1, <2>5 DEF ChangePassword, DisableMfa, PasswordChanged, Bumped, AccountRows
  <2>6. ASSUME NEW r \in Requests, ConfirmEnrolment(r) PROVE ~account'.active
    BY <1>0, <2>1, <2>6 DEF ConfirmEnrolment, Enrol, AccountRows
  <2>7. ASSUME NEW r \in Requests, SetState(r) \/ ForceReset(r) \/ RaiseVersion(r) \/ DeleteUser(r) PROVE ~account'.active
    BY <1>0, <2>1, <2>7 DEF SetState, ForceReset, RaiseVersion, DeleteUser, Bumped, AccountRows
  <2>8. CASE LockEnds
    BY <1>0, <2>1, <2>8 DEF LockEnds, AccountRows
  <2>9. BarredIsInactive' => ~account'.active
    BY <1>6 DEF BarredIsInactive
  <2> QED BY <1>1, <1>2, <1>3, <1>5, <2>2, <2>3, <2>4, <2>5, <2>6, <2>7, <2>8, <2>9, AccountFrame
<1>7. CASE UNCHANGED barred
  BY <1>6, <1>7 DEF BarredIsInactive
<1> QED BY <1>1, <1>2, <1>3, <1>4, <1>5, <1>7, BarredFrame

\* A link issued while the account was open does not survive its closing.
LEMMA LinksKept ==
    ASSUME AccessTypeOK, BarredIsInactive, EarlierLinksAreDead, AccessNext
    PROVE  EarlierLinksAreDead'
<1>0. barred \in BOOLEAN
  BY DEF AccessTypeOK
<1>1. ASSUME NEW state \in States, NEW compromised \in BOOLEAN, TransitionAccount(state, compromised) PROVE EarlierLinksAreDead'
  BY <1>1 DEF TransitionAccount, RevokeEveryCredential, EarlierLinksAreDead
<1>2. ASSUME NEW role \in {"staff", "admin"}, NEW active \in BOOLEAN, UpdateUser(role, active) PROVE EarlierLinksAreDead'
  BY <1>2 DEF UpdateUser, RevokeEveryCredential, EarlierLinksAreDead, BarredIsInactive
<1>3. ASSUME NEW r \in Requests, EndLinks(r) PROVE EarlierLinksAreDead'
  BY <1>3 DEF EndLinks, EarlierLinksAreDead
<1>4. ASSUME NEW r \in Requests, NewLink(r) PROVE EarlierLinksAreDead'
  <2>1. PICK n : links' = links \cup {[id |-> n, type |-> req[r].arg, late |-> barred]}
    BY <1>4, Zenon DEF NewLink
  <2>2. \A l \in links' : l \in links \/ l.late = barred
    BY <2>1
  <2>3. barred' = barred
    BY <1>4 DEF NewLink
  <2> QED BY <2>2, <2>3 DEF EarlierLinksAreDead
<1>5. ASSUME NEW r \in Requests, NEW l \in links, SetPassword(r, l) PROVE EarlierLinksAreDead'
  BY <1>5 DEF SetPassword, EarlierLinksAreDead
<1>6. ASSUME NEW r \in Requests, RevokeAccess(r) \/ EndDeleted(r) PROVE EarlierLinksAreDead'
  BY <1>6 DEF RevokeAccess, EndDeleted, RevokeEveryCredential, EarlierLinksAreDead
<1>7. ASSUME NEW r \in Requests, NEW role \in {"staff", "admin"}, NEW active \in BOOLEAN, WriteAccess(r, role, active) PROVE EarlierLinksAreDead'
  BY <1>7 DEF WriteAccess, EarlierLinksAreDead
<1>8. CASE UNCHANGED links /\ UNCHANGED barred
  BY <1>8 DEF EarlierLinksAreDead
<1> QED BY <1>1, <1>2, <1>3, <1>4, <1>5, <1>6, <1>7, <1>8, LinksFrame, BarredFrame

\* Spending, enrolling anew and new codes all leave what was spent behind.
LEMMA SpentStaysGone ==
    ASSUME AccessTypeOK, SpentIsGone, ProofsAreSpentOnce, AccessNext
    PROVE  /\ SpentIsGone' /\ ProofsAreSpentOnce'
           /\ totp' \in [secret : BOOLEAN, pending : BOOLEAN, lastStep : TotpSteps \cup {0}, codes : SUBSET RecoveryCodes]
           /\ spent' \in [Proofs -> Nat]
<1> DEFINE Totps == [secret : BOOLEAN, pending : BOOLEAN, lastStep : TotpSteps \cup {0}, codes : SUBSET RecoveryCodes]
<1> DEFINE Goal == SpentIsGone' /\ ProofsAreSpentOnce' /\ totp' \in Totps /\ spent' \in [Proofs -> Nat]
<1>0. totp \in Totps /\ spent \in [Proofs -> Nat]
  BY DEF AccessTypeOK
<1>a. TotpSteps \subseteq Nat /\ TotpSteps \cap RecoveryCodes = {} /\ Proofs = TotpSteps \cup RecoveryCodes
  BY AccessAssumption DEF Proofs
<1>1. ASSUME UNCHANGED <<totp, spent>> PROVE Goal
  BY <1>0, <1>1 DEF SpentIsGone, ProofsAreSpentOnce
<1>2. ASSUME spent' = spent, totp' = [totp EXCEPT !.pending = TRUE] PROVE Goal
  <2>1. totp'.lastStep = totp.lastStep /\ totp'.codes = totp.codes /\ totp' \in Totps
    BY <1>0, <1>2
  <2> QED BY <1>0, <1>2, <2>1 DEF SpentIsGone, ProofsAreSpentOnce
<1>3. ASSUME spent' = Unspent, totp' \in Totps PROVE Goal
  <2>1. spent' \in [Proofs -> Nat] /\ \A p \in Proofs : spent'[p] = 0
    BY <1>3 DEF Unspent
  <2>2. totp'.codes \subseteq Proofs
    BY <1>a, <1>3
  <2>3. ~(0 > 0) /\ 0 <= 1
    OBVIOUS
  <2>4. SpentIsGone'
    BY <1>a, <2>1, <2>2, <2>3 DEF SpentIsGone
  <2>5. ProofsAreSpentOnce'
    BY <2>1, <2>3 DEF ProofsAreSpentOnce
  <2> QED BY <1>3, <2>1, <2>4, <2>5
<1>4. ASSUME Enrol PROVE Goal
  <2>1. totp' \in Totps
    BY <1>0, <1>4 DEF Enrol
  <2> QED BY <1>3, <1>4, <2>1 DEF Enrol
<1>5. NoTotp \in Totps
  BY DEF NoTotp
<1>6. ASSUME NEW p \in Proofs, Fits(p) \/ p \in totp.codes, Spend(p) PROVE Goal
  <2>1. spent' = [spent EXCEPT ![p] = spent[p] + 1]
    BY <1>6 DEF Spend
  <2>2. CASE p \in TotpSteps
    <3>1. p > totp.lastStep
      BY <1>0, <1>a, <1>6, <2>2 DEF Fits
    <3>2. totp' = [totp EXCEPT !.lastStep = p]
      BY <1>6, <2>2 DEF Spend
    <3>3. totp' \in Totps /\ totp'.lastStep = p /\ totp'.codes = totp.codes
      BY <1>0, <2>2, <3>2
    <3>4. totp.lastStep \in Nat
      <4>1. totp.lastStep \in TotpSteps \cup {0}
        BY <1>0
      <4>2. TotpSteps \cup {0} \subseteq Nat
        BY AccessAssumption
      <4> QED BY <4>1, <4>2
    <3>5. spent[p] = 0
      BY <1>0, <1>6, <1>a, <2>2, <3>1, <3>4 DEF SpentIsGone
    <3> QED BY <1>0, <1>6, <1>a, <2>1, <2>2, <3>1, <3>3, <3>4, <3>5 DEF SpentIsGone, ProofsAreSpentOnce
  <2>3. CASE p \notin TotpSteps
    <3>1. p \in totp.codes /\ spent[p] = 0
      BY <1>6, <2>3 DEF Fits, SpentIsGone
    <3>2. totp' = [totp EXCEPT !.codes = totp.codes \ {p}]
      BY <1>6, <2>3 DEF Spend
    <3>3. totp' \in Totps /\ totp'.lastStep = totp.lastStep /\ totp'.codes = totp.codes \ {p}
      BY <1>0, <3>2
    <3> QED BY <1>0, <1>6, <1>a, <2>1, <2>3, <3>1, <3>3 DEF SpentIsGone, ProofsAreSpentOnce
  <2> QED BY <2>2, <2>3
<1>7. ASSUME NEW c \in challenges, BeginChallengeSetup(c) PROVE Goal
  BY <1>2, <1>7 DEF BeginChallengeSetup
<1>8. ASSUME NEW r \in Requests, NEW c \in challenges, ConfirmChallengeSetup(r, c) PROVE Goal
  BY <1>1, <1>4, <1>8 DEF ConfirmChallengeSetup
<1>9. ASSUME NEW r \in Requests, NEW c \in challenges, NEW p \in Proofs, VerifyLogin(r, c, p) PROVE Goal
  BY <1>1, <1>6, <1>9 DEF VerifyLogin
<1>10. ASSUME NEW r \in Requests, BeginEnrolment(r) PROVE Goal
  BY <1>2, <1>10 DEF BeginEnrolment
<1>11. ASSUME NEW r \in Requests, ConfirmEnrolment(r) PROVE Goal
  BY <1>1, <1>4, <1>11 DEF ConfirmEnrolment
<1>12. ASSUME NEW r \in Requests, NEW p \in TotpSteps, VerifyStepUp(r, p) PROVE Goal
  BY <1>1, <1>6, <1>a, <1>12 DEF VerifyStepUp
<1>13. ASSUME NEW r \in Requests, NewCodes(r) PROVE Goal
  <2>1. spent' = [p \in Proofs |-> IF p \in RecoveryCodes THEN 0 ELSE spent[p]]
    BY <1>13 DEF NewCodes
  <2>2. totp' \in Totps /\ totp'.lastStep = totp.lastStep /\ totp'.codes = RecoveryCodes
    BY <1>0, <1>13 DEF NewCodes
  <2> QED BY <1>0, <1>a, <2>1, <2>2 DEF SpentIsGone, ProofsAreSpentOnce
<1>14. ASSUME NEW r \in Requests, DisableMfa(r) PROVE Goal
  BY <1>3, <1>5, <1>14 DEF DisableMfa
<1>15. ASSUME NEW state \in States, NEW compromised \in BOOLEAN, TransitionAccount(state, compromised) PROVE Goal
  BY <1>1, <1>3, <1>5, <1>15 DEF TransitionAccount
<1> HIDE DEF Goal
<1>16. Goal
  BY <1>1, <1>7, <1>8, <1>9, <1>10, <1>11, <1>12, <1>13, <1>14, <1>15, MfaFrame
<1> QED BY <1>16 DEF Goal
-----------------------------------------------------------------------------
(* Passwords and versions.                                                   *)

RowsMatch == \A r \in Requests : OfItsVersion(req[r], account)

\* What is of its version stays so whatever happens to the account.
LEMMA Aged ==
    ASSUME AccessTypeOK, RequestsFit, AccessNext, account.password <= account.version,
           NEW x, x.version \in Nat, x.password \in Nat, OfItsVersion(x, account)
    PROVE  OfItsVersion(x, account')
<1>1. account.version \in Nat /\ account.password \in Nat
  BY AccessAssumption DEF AccessTypeOK
<1> QED BY <1>1, AccountMoves DEF OfItsVersion

LEMMA BothNumbers ==
    ASSUME AccessTypeOK
    PROVE  account.version \in Nat /\ account.password \in Nat /\ account.version >= 1
BY AccessAssumption DEF AccessTypeOK

\* There are never more passwords than versions.
LEMMA PasswordBehind ==
    ASSUME AccessTypeOK, RequestsFit, AccessNext, account.password <= account.version
    PROVE  account'.password <= account'.version /\ account'.version >= 1 /\ account'.version \in Nat /\ account'.password \in Nat
BY BothNumbers, AccountMoves

\* What has no version has nothing to match.
LEMMA EmptyMatches ==
    ASSUME AccessTypeOK, RequestsFit, AccessNext, account.password <= account.version,
           NEW x, x.version = 0, x.password = 0
    PROVE  OfItsVersion(x, account')
BY PasswordBehind DEF OfItsVersion

\* Only one held moves; the others match the new account as they are.
LEMMA RowMatches ==
    ASSUME RequestsFit, \A q \in Requests : OfItsVersion(req[q], account'),
           NEW r \in Requests, NEW held, req' = [req EXCEPT ![r] = held], OfItsVersion(held, account')
    PROVE  RowsMatch'
BY DEF RequestsFit, RowsMatch

\* Every way a held changes but the two that read the account.
LEMMA RowMoves ==
    ASSUME AccessTypeOK, RequestsFit, AccessNext, account.password <= account.version,
           \A q \in Requests : OfItsVersion(req[q], account'), NEW r \in Requests
    PROVE  /\ Done(r) => RowsMatch'
           /\ \A step : Go(r, step) => RowsMatch'
           /\ \A step : Finish(r, step) => RowsMatch'
           /\ \A step, session, arg : Begin(r, step, session, arg) => RowsMatch'
           /\ UNCHANGED req => RowsMatch'
<1>1. ASSUME Done(r) PROVE RowsMatch'
  BY <1>1, RowMatches, EmptyMatches, IdleRow DEF Done
<1>2. ASSUME NEW step, Go(r, step) PROVE RowsMatch'
  <2> DEFINE held == [req[r] EXCEPT !.at = step]
  <2>1. held.version = req[r].version /\ held.password = req[r].password
    BY DEF RequestsFit, RowFits, Fields
  <2>2. req' = [req EXCEPT ![r] = held]
    BY <1>2 DEF Go
  <2> HIDE DEF held
  <2>3. OfItsVersion(held, account')
    BY <2>1 DEF OfItsVersion
  <2> QED BY <2>2, <2>3, RowMatches
<1>3. ASSUME NEW step, Finish(r, step) PROVE RowsMatch'
  <2> DEFINE held == [Idle EXCEPT !.at = step]
  <2>1. held.version = 0 /\ held.password = 0
    BY IdleRow DEF Fields
  <2>2. req' = [req EXCEPT ![r] = held]
    BY <1>3 DEF Finish
  <2> HIDE DEF held
  <2> QED BY <2>1, <2>2, RowMatches, EmptyMatches
<1>4. ASSUME NEW step, NEW session, NEW arg, Begin(r, step, session, arg) PROVE RowsMatch'
  <2> DEFINE held == [Idle EXCEPT !.at = step, !.session = session, !.arg = arg]
  <2>1. held.version = 0 /\ held.password = 0
    BY IdleRow DEF Fields
  <2>2. req' = [req EXCEPT ![r] = held]
    BY <1>4 DEF Begin
  <2> HIDE DEF held
  <2> QED BY <2>1, <2>2, RowMatches, EmptyMatches
<1>5. ASSUME UNCHANGED req PROVE RowsMatch'
  BY <1>5 DEF RowsMatch
<1> QED BY <1>1, <1>2, <1>3, <1>4, <1>5

\* The login takes the version and the password of one read of the held.
LEMMA LoginMatches ==
    ASSUME AccessTypeOK, RequestsFit, AccessNext, account.password <= account.version,
           \A q \in Requests : OfItsVersion(req[q], account'), NEW r \in Requests, LoginRead(r)
    PROVE  RowsMatch'
<1>0. UNCHANGED account
  BY DEF LoginRead
<1>1. OfItsVersion([Idle EXCEPT !.at = "wrong password", !.fails = account.fails + 1], account')
  BY EmptyMatches, IdleRow DEF Fields
<1>2. OfItsVersion([Idle EXCEPT !.at = "open session", !.version = account.version, !.password = account.password], account')
  <2> DEFINE held == [Idle EXCEPT !.at = "open session", !.version = account.version, !.password = account.password]
  <2>1. held.version = account.version /\ held.password = account.password
    BY IdleRow DEF Fields
  <2> HIDE DEF held
  <2> QED BY <1>0, <2>1, BothNumbers DEF OfItsVersion
<1>3. OfItsVersion([Idle EXCEPT !.at = "end challenges", !.arg = "VERIFY"], account')
  BY EmptyMatches, IdleRow DEF Fields
<1>4. OfItsVersion([Idle EXCEPT !.at = "require setup", !.arg = "SETUP"], account')
  BY EmptyMatches, IdleRow DEF Fields
<1>5. PICK held : OfItsVersion(held, account') /\ req' = [req EXCEPT ![r] = held]
  BY <1>1, <1>2, <1>3, <1>4, Zenon DEF LoginRead
<1> QED BY <1>5, RowMatches

\* What an MFA challenge opens is of the current version, and of no password.
LEMMA LoadMatches ==
    ASSUME AccessTypeOK, RequestsFit, AccessNext, account.password <= account.version,
           \A q \in Requests : OfItsVersion(req[q], account'), NEW r \in Requests, LoadUser(r)
    PROVE  RowsMatch'
<1>1. CASE Known /\ account.active
  <2> DEFINE held == [req[r] EXCEPT !.version = account.version, !.arg = "challenge",
                                   !.at = IF req[r].arg = "setup" THEN "revoke, then open" ELSE "open session"]
  <2>1. req[r].at = "load user" /\ req[r].password = 0
    BY DEF LoadUser, At, RequestsFit, RowFits, ArgFits, AccessSteps
  <2>2. held.version = account.version /\ held.password = 0
    BY <2>1 DEF RequestsFit, RowFits, Fields
  <2>3. req' = [req EXCEPT ![r] = held]
    BY <1>1 DEF LoadUser, RequestsFit
  <2>4. UNCHANGED account
    BY DEF LoadUser
  <2> HIDE DEF held
  <2>5. OfItsVersion(held, account')
    BY <2>2, <2>4, BothNumbers DEF OfItsVersion
  <2> QED BY <2>3, <2>5, RowMatches
<1>2. CASE ~(Known /\ account.active)
  BY <1>2, RowMoves DEF LoadUser
<1> QED BY <1>1, <1>2

\* No request comes to hold the password of another version.
LEMMA RowsKeepMatching ==
    ASSUME AccessTypeOK, RequestsFit, AccessNext, account.password <= account.version, RowsMatch
    PROVE  RowsMatch'
<1>0. \A q \in Requests : OfItsVersion(req[q], account')
  <2> TAKE q \in Requests
  <2>1. req[q].version \in Nat /\ req[q].password \in Nat
    <3>1. req[q].version \in 0..MaxVersion /\ req[q].password \in 0..MaxVersion
      BY DEF RequestsFit, RowFits
    <3> QED BY <3>1
  <2> QED BY <2>1, Aged DEF RowsMatch
<1>1. CASE AtOnce
  <2>1. UNCHANGED req
    BY <1>1 DEF AtOnce, LockEnds, BeginChallengeSetup, EndSession, TransitionAccount, RevokeInvitation, UpdateUser
  <2> QED BY <1>0, <2>1 DEF RowsMatch
<1>2. ASSUME NEW r \in Requests PROVE /\ Done(r) => RowsMatch'
                                      /\ \A step : Go(r, step) => RowsMatch'
                                      /\ \A step : Finish(r, step) => RowsMatch'
                                      /\ \A step, session, arg : Begin(r, step, session, arg) => RowsMatch'
                                      /\ UNCHANGED req => RowsMatch'
  BY <1>0, RowMoves
<1>3. ASSUME NEW r \in Requests, SignIn(r) PROVE RowsMatch'
  <2>1. CASE LoginRead(r)
    BY <1>0, <2>1, LoginMatches
  <2>2. CASE LoadUser(r)
    BY <1>0, <2>2, LoadMatches
  <2>3. CASE \/ LoginFailed(r) \/ RequireSetup(r) \/ EndChallenges(r) \/ NewChallenge(r)
             \/ OpenSession(r) \/ ClearFailures(r) \/ RevokeThenOpen(r)
    BY <1>2, <2>3, Zenon DEF LoginFailed, RequireSetup, EndChallenges, NewChallenge, OpenSession, ClearFailures, RevokeThenOpen
  <2>4. ASSUME NEW c \in challenges, ConfirmChallengeSetup(r, c) PROVE RowsMatch'
    BY <1>2, <2>4, Zenon DEF ConfirmChallengeSetup
  <2>5. ASSUME NEW c \in challenges, NEW p \in Proofs, VerifyLogin(r, c, p) PROVE RowsMatch'
    BY <1>2, <2>5, Zenon DEF VerifyLogin
  <2> QED BY <1>3, <2>1, <2>2, <2>3, <2>4, <2>5, Zenon DEF SignIn
<1>4. ASSUME NEW r \in Requests, SignedIn(r) PROVE RowsMatch'
  <2>1. ASSUME NEW s \in sessions, Ask(r, s) PROVE RowsMatch'
    BY <1>2, <2>1, Zenon DEF Ask
  <2>2. CASE \/ ChangePassword(r) \/ RevokeSessions(r) \/ BeginEnrolment(r) \/ ConfirmEnrolment(r)
             \/ MarkStepUp(r) \/ NewCodes(r) \/ DisableMfa(r) \/ EndOthers(r)
    BY <1>2, <2>2, Zenon DEF ChangePassword, RevokeSessions, BeginEnrolment, ConfirmEnrolment, MarkStepUp, NewCodes, DisableMfa, EndOthers
  <2>3. ASSUME NEW p \in TotpSteps, VerifyStepUp(r, p) PROVE RowsMatch'
    BY <1>2, <2>3, Zenon DEF VerifyStepUp
  <2> QED BY <1>4, <2>1, <2>2, <2>3, Zenon DEF SignedIn
<1>5. ASSUME NEW r \in Requests, Link(r) PROVE RowsMatch'
  BY <1>2, <1>5, Zenon DEF Link, RequestPasswordReset, ResendInvitation, EndLinks, NewLink, SetPassword
<1>6. ASSUME NEW r \in Requests, Administer(r) PROVE RowsMatch'
  BY <1>2, <1>6, Zenon DEF Administer, ReadAccess, WriteAccess, RevokeAccess, SetState, ReadForReset, ForceReset,
                           RevokeThenLink, ForceRevoke, RaiseVersion, DeleteUser, EndDeleted
<1>7. ASSUME NEW r \in Requests, Abandon(r) PROVE RowsMatch'
  BY <1>2, <1>7 DEF Abandon
<1> QED BY <1>1, <1>3, <1>4, <1>5, <1>6, <1>7 DEF AccessNext

SessionRows == [id : SessionIds, version : 1..MaxVersion, level : 1..3, password : 0..MaxVersion]

\* A session is as it was, or has got a step-up, or takes the version and the
\* password of the request that opens it.
LEMMA SessionMoves ==
    ASSUME AccessTypeOK, RequestsFit, AccessNext
    PROVE  /\ sessions' \subseteq SessionRows
           /\ \A n \in sessions' :
                 \/ \E s \in sessions : n.version = s.version /\ n.password = s.password
                 \/ \E r \in Requests : n.version = req[r].version /\ n.password = req[r].password
<1> DEFINE Goal(S) ==
           /\ S \subseteq SessionRows
           /\ \A n \in S :
                 \/ \E s \in sessions : n.version = s.version /\ n.password = s.password
                 \/ \E r \in Requests : n.version = req[r].version /\ n.password = req[r].password
<1>0. sessions \subseteq SessionRows
  BY DEF AccessTypeOK, SessionRows
<1>1. ASSUME NEW S, S \subseteq sessions PROVE Goal(S)
  BY <1>0, <1>1
<1>2. ASSUME NEW r \in Requests, OpenSession(r) PROVE Goal(sessions')
  <2>1. PICK id \in SessionIds : sessions' = sessions \cup {NewSession(r, id)}
    BY <1>2 DEF OpenSession, LeastOf
  <2>2. req[r].version \in 0..MaxVersion /\ req[r].version >= 1 /\ req[r].password \in 0..MaxVersion
    BY <1>2 DEF OpenSession, At, RequestsFit, RowFits
  <2>3. req[r].version \in 1..MaxVersion
    BY <2>2, AccessAssumption
  <2>4. NewSession(r, id) \in SessionRows
    BY <2>2, <2>3 DEF NewSession, SessionRows
  <2>5. NewSession(r, id).version = req[r].version /\ NewSession(r, id).password = req[r].password
    BY DEF NewSession
  <2> QED BY <1>0, <2>1, <2>4, <2>5
<1>3. ASSUME NEW r \in Requests, MarkStepUp(r) PROVE Goal(sessions')
  <2>1. sessions' = {IF s.id = req[r].session THEN [s EXCEPT !.level = 3] ELSE s : s \in sessions}
    BY <1>3 DEF MarkStepUp
  <2>2. \A s \in sessions : [s EXCEPT !.level = 3] \in SessionRows
    BY <1>0 DEF SessionRows
  <2>3. \A s \in sessions : [s EXCEPT !.level = 3].version = s.version /\ [s EXCEPT !.level = 3].password = s.password
    BY <1>0 DEF SessionRows
  <2>4. \A n \in sessions' : \E s \in sessions : n = s \/ n = [s EXCEPT !.level = 3]
    BY <2>1
  <2> QED BY <1>0, <2>2, <2>3, <2>4
<1>4. ASSUME NEW r \in Requests, \/ RevokeThenOpen(r) \/ RevokeSessions(r) \/ EndOthers(r)
                                 \/ RevokeAccess(r) \/ RevokeThenLink(r) \/ ForceRevoke(r) \/ EndDeleted(r)
      PROVE  sessions' \subseteq sessions
  BY <1>4 DEF RevokeThenOpen, RevokeSessions, EndOthers, RevokeAccess, RevokeThenLink, ForceRevoke, EndDeleted, RevokeEveryCredential
<1>5. ASSUME NEW s \in sessions, EndSession(s) PROVE sessions' \subseteq sessions
  BY <1>5 DEF EndSession
<1>6. ASSUME NEW state \in States, NEW compromised \in BOOLEAN, TransitionAccount(state, compromised)
      PROVE  sessions' \subseteq sessions
  BY <1>6 DEF TransitionAccount, RevokeEveryCredential
<1>7. ASSUME NEW role \in {"staff", "admin"}, NEW active \in BOOLEAN, UpdateUser(role, active)
      PROVE  sessions' \subseteq sessions
  BY <1>7 DEF UpdateUser, RevokeEveryCredential
<1>8. UNCHANGED sessions => sessions' \subseteq sessions
  OBVIOUS
<1>9. (\/ sessions' \subseteq sessions \/ \E r \in Requests : OpenSession(r) \/ MarkStepUp(r))
  BY <1>4, <1>5, <1>6, <1>7, <1>8, SessionsFrame, Zenon
<1>10. sessions' \subseteq sessions => Goal(sessions')
  BY <1>1
<1> HIDE DEF Goal
<1>11. Goal(sessions')
  BY <1>2, <1>3, <1>9, <1>10
<1> QED BY <1>11 DEF Goal

\* Nor does a session.
LEMMA PasswordsKeepMatching ==
    ASSUME AccessTypeOK, RequestsFit, PasswordsMatch, AccessNext
    PROVE  PasswordsMatch'
<1>0. account.password <= account.version /\ RowsMatch
  BY DEF PasswordsMatch, RowsMatch
<1>1. \A s \in sessions : OfItsVersion(s, account')
  <2> TAKE s \in sessions
  <2>1. s.version \in 1..MaxVersion /\ s.password \in 0..MaxVersion
    BY DEF AccessTypeOK
  <2>2. s.version \in Nat /\ s.password \in Nat
    BY <2>1
  <2> QED BY <1>0, <2>2, Aged DEF PasswordsMatch
<1>2. \A r \in Requests : OfItsVersion(req[r], account')
  <2> TAKE r \in Requests
  <2>1. req[r].version \in 0..MaxVersion /\ req[r].password \in 0..MaxVersion
    BY DEF RequestsFit, RowFits
  <2>2. req[r].version \in Nat /\ req[r].password \in Nat
    BY <2>1
  <2> QED BY <1>0, <2>2, Aged DEF RowsMatch
<1>3. \A n \in sessions' : OfItsVersion(n, account')
  BY <1>1, <1>2, SessionMoves DEF OfItsVersion
<1>4. account'.password <= account'.version
  BY <1>0, PasswordBehind
<1>5. RowsMatch'
  BY <1>0, RowsKeepMatching
<1> QED BY <1>3, <1>4, <1>5 DEF PasswordsMatch, RowsMatch
-----------------------------------------------------------------------------
(* Types.                                                                    *)

\* The users held.
LEMMA AccountTyped ==
    ASSUME AccessTypeOK, RequestsFit, PasswordsMatch, AccessNext
    PROVE  account' \in AccountRows
<1>0. account \in AccountRows
  BY DEF AccessTypeOK, AccountRows
<1>a. account.version \in Nat /\ account.password \in Nat /\ account.password <= account.version /\ account.version >= 1
  BY BothNumbers DEF PasswordsMatch
<1>b. CanBump => account.version + 1 \in 1..MaxVersion /\ account.password + 1 \in 0..MaxVersion
  BY <1>a, AccessAssumption DEF CanBump
<1>c. CanBump => Bumped \in AccountRows
  BY <1>0, <1>b DEF Bumped, AccountRows
<1>d. "ACTIVE" \in States /\ "MFA_SETUP_REQUIRED" \in States /\ "PASSWORD_RESET_REQUIRED" \in States
  BY DEF States
<1>e. CanBump => PasswordChanged \in AccountRows
  <2> SUFFICES ASSUME CanBump PROVE PasswordChanged \in AccountRows
    OBVIOUS
  <2>1. Bumped.password = account.password
    BY <1>0 DEF Bumped, AccountRows
  <2> QED BY <1>b, <1>c, <1>d, <2>1 DEF PasswordChanged, AccountRows
<1>1. ASSUME UNCHANGED account PROVE account' \in AccountRows
  BY <1>0, <1>1
<1>2. ASSUME LockEnds PROVE account' \in AccountRows
  BY <1>0, <1>2 DEF LockEnds, AccountRows
<1>3. ASSUME NEW state \in States, NEW compromised \in BOOLEAN, TransitionAccount(state, compromised)
      PROVE  account' \in AccountRows
  <2>1. (state \in Open) \in BOOLEAN
    OBVIOUS
  <2> DEFINE reset == account.reset \/ compromised \/ state = "PASSWORD_RESET_REQUIRED"
             comp == account.compromised \/ compromised
             mfa == account.mfa /\ ~compromised
  <2>2. reset \in BOOLEAN /\ comp \in BOOLEAN /\ mfa \in BOOLEAN
    OBVIOUS
  <2>3. /\ Bumped.reset = account.reset /\ Bumped.compromised = account.compromised /\ Bumped.mfa = account.mfa
    BY <1>0 DEF Bumped, AccountRows
  <2>4. account' = [Bumped EXCEPT !.status = state, !.active = (state \in Open), !.reset = reset,
                                  !.compromised = comp, !.mfa = mfa]
    BY <1>3, <2>3 DEF TransitionAccount
  <2>5. Bumped \in AccountRows
    BY <1>3, <1>c DEF TransitionAccount
  <2> HIDE DEF reset, comp, mfa
  <2> QED BY <2>1, <2>2, <2>4, <2>5 DEF AccountRows
<1>4. ASSUME NEW role \in {"staff", "admin"}, NEW active \in BOOLEAN, UpdateUser(role, active)
      PROVE  account' \in AccountRows
  <2>1. StateAfterChange(role, active) \in States
    BY DEF StateAfterChange, States, Closed
  <2> QED BY <1>4, <1>c, <2>1 DEF UpdateUser, AccountRows
<1>5. ASSUME NEW r \in Requests, LoginFailed(r) PROVE account' \in AccountRows
  <2> DEFINE locked == account.locked \/ req[r].fails >= LockAt
  <2>1. req[r].fails \in Nat /\ locked \in BOOLEAN
    BY DEF RequestsFit, RowFits
  <2>2. account' = [account EXCEPT !.fails = req[r].fails, !.locked = locked]
    BY <1>0, <1>5 DEF LoginFailed, AccountRows
  <2> HIDE DEF locked
  <2> QED BY <1>0, <2>1, <2>2 DEF AccountRows
<1>6. ASSUME NEW r \in Requests, RequireSetup(r) \/ ClearFailures(r) PROVE account' \in AccountRows
  <2>1. CASE RequireSetup(r)
    BY <1>0, <1>d, <2>1 DEF RequireSetup, AccountRows
  <2>2. CASE ClearFailures(r)
    <3>1. FALSE \in BOOLEAN /\ 0 \in Nat
      OBVIOUS
    <3> QED BY <1>0, <2>2, <3>1 DEF ClearFailures, AccountRows
  <2> QED BY <1>6, <2>1, <2>2
<1>7. ASSUME NEW r \in Requests, NEW c \in challenges, ConfirmChallengeSetup(r, c) PROVE account' \in AccountRows
  BY <1>0, <1>7, <1>d DEF ConfirmChallengeSetup, Enrol, AccountRows
<1>8. ASSUME NEW r \in Requests, ChangePassword(r) PROVE account' \in AccountRows
  BY <1>8, <1>e DEF ChangePassword
<1>9. ASSUME NEW r \in Requests, DisableMfa(r) PROVE account' \in AccountRows
  BY <1>9, <1>c DEF DisableMfa, AccountRows
<1>10. ASSUME NEW r \in Requests, ConfirmEnrolment(r) PROVE account' \in AccountRows
  BY <1>0, <1>10, <1>d DEF ConfirmEnrolment, Enrol, AccountRows
<1>11. ASSUME NEW r \in Requests, NEW l \in links, SetPassword(r, l) PROVE account' \in AccountRows
  <2> DEFINE opened == [PasswordChanged EXCEPT !.active = TRUE, !.compromised = FALSE]
  <2>1. PasswordChanged \in AccountRows
    BY <1>11, <1>e DEF SetPassword
  <2>2. opened \in AccountRows
    BY <2>1 DEF AccountRows
  <2>3. account' = [opened EXCEPT !.fails = 0, !.locked = FALSE]
    BY <1>11, <2>1 DEF SetPassword, AccountRows
  <2> HIDE DEF opened
  <2> QED BY <2>2, <2>3 DEF AccountRows
<1>12. ASSUME NEW r \in Requests, NEW role \in {"staff", "admin"}, NEW active \in BOOLEAN, WriteAccess(r, role, active) PROVE account' \in AccountRows
  BY <1>0, <1>12 DEF WriteAccess, AccountRows
<1>13. ASSUME NEW r \in Requests, SetState(r) PROVE account' \in AccountRows
  <2>1. req[r].arg \in States
    BY <1>13 DEF SetState, At, RequestsFit, RowFits, ArgFits, AccessSteps
  <2> QED BY <1>13, <1>c, <2>1 DEF SetState, AccountRows
<1>14. ASSUME NEW r \in Requests, ForceReset(r) PROVE account' \in AccountRows
  BY <1>0, <1>14, <1>c, <1>d DEF ForceReset, AccountRows
<1>15. ASSUME NEW r \in Requests, RaiseVersion(r) PROVE account' \in AccountRows
  BY <1>15, <1>c DEF RaiseVersion
<1>16. ASSUME NEW r \in Requests, DeleteUser(r) PROVE account' \in AccountRows
  <2>1. 0 \in 0..MaxVersion
    BY Zero
  <2> QED BY <1>0, <1>16, <2>1 DEF DeleteUser, AccountRows
<1> QED BY <1>1, <1>2, <1>3, <1>4, <1>5, <1>6, <1>7, <1>8, <1>9, <1>10, <1>11, <1>12, <1>13, <1>14, <1>15, <1>16, AccountFrame

\* The links, the challenges, and whether the account is closed.
LEMMA LinksTyped ==
    ASSUME AccessTypeOK, RequestsFit, AccessNext
    PROVE  links' \subseteq [id : LinkIds, type : {"PASSWORD_RESET", "INVITE"}, late : BOOLEAN]
<1> DEFINE Rows == [id : LinkIds, type : {"PASSWORD_RESET", "INVITE"}, late : BOOLEAN]
<1>0. links \subseteq Rows
  BY DEF AccessTypeOK
<1>1. ASSUME NEW r \in Requests, NewLink(r) PROVE links' \subseteq Rows
  <2>1. PICK n \in LinkIds : links' = links \cup {[id |-> n, type |-> req[r].arg, late |-> barred]}
    BY <1>1 DEF NewLink, LeastOf
  <2>2. req[r].arg \in {"PASSWORD_RESET", "INVITE"}
    BY <1>1 DEF NewLink, At, RequestsFit, RowFits, ArgFits, AccessSteps
  <2>3. barred \in BOOLEAN
    BY DEF AccessTypeOK
  <2>4. [id |-> n, type |-> req[r].arg, late |-> barred] \in Rows
    BY <2>2, <2>3
  <2> HIDE DEF Rows
  <2> QED BY <1>0, <2>1, <2>4
<1>2. ASSUME NEW r \in Requests, EndLinks(r) \/ (\E l \in links : SetPassword(r, l)) \/ RevokeAccess(r) \/ EndDeleted(r)
      PROVE  links' \subseteq links
  BY <1>2 DEF EndLinks, SetPassword, RevokeAccess, EndDeleted, RevokeEveryCredential
<1>3. ASSUME NEW state \in States, NEW compromised \in BOOLEAN, TransitionAccount(state, compromised)
      PROVE  links' \subseteq links
  BY <1>3 DEF TransitionAccount, RevokeEveryCredential
<1>4. ASSUME NEW role \in {"staff", "admin"}, NEW active \in BOOLEAN, UpdateUser(role, active)
      PROVE  links' \subseteq links
  BY <1>4 DEF UpdateUser, RevokeEveryCredential
<1> HIDE DEF Rows
<1>5. links' \subseteq links \/ links' \subseteq Rows
  BY <1>1, <1>2, <1>3, <1>4, LinksFrame
<1> QED BY <1>0, <1>5 DEF Rows

LEMMA ChallengesTyped ==
    ASSUME AccessTypeOK, RequestsFit, AccessNext
    PROVE  challenges' \subseteq [id : ChallengeIds, type : {"SETUP", "VERIFY"}, attempts : 0..MaxWrongCodes]
<1> DEFINE Rows == [id : ChallengeIds, type : {"SETUP", "VERIFY"}, attempts : 0..MaxWrongCodes]
<1>0. challenges \subseteq Rows
  BY DEF AccessTypeOK
<1>1. ASSUME NEW r \in Requests, NewChallenge(r) PROVE challenges' \subseteq Rows
  <2>1. PICK n \in ChallengeIds : challenges' = challenges \cup {[id |-> n, type |-> req[r].arg, attempts |-> 0]}
    BY <1>1 DEF NewChallenge, LeastOf
  <2>2. req[r].arg \in {"SETUP", "VERIFY"}
    BY <1>1 DEF NewChallenge, At, RequestsFit, RowFits, ArgFits, AccessSteps
  <2>3. 0 \in 0..MaxWrongCodes
    BY AccessAssumption
  <2>4. [id |-> n, type |-> req[r].arg, attempts |-> 0] \in Rows
    BY <2>2, <2>3
  <2> HIDE DEF Rows
  <2> QED BY <1>0, <2>1, <2>4
<1>2. ASSUME NEW c \in challenges, c.attempts < MaxWrongCodes, Attempt(c) PROVE challenges' \subseteq Rows
  <2>1. c \in Rows /\ c.attempts \in 0..MaxWrongCodes
    BY <1>0
  <2>2. c.attempts + 1 \in 0..MaxWrongCodes
    BY <1>2, <2>1, AccessAssumption
  <2>3. [c EXCEPT !.attempts = c.attempts + 1] \in Rows
    BY <2>1, <2>2
  <2>4. challenges' = (challenges \ {c}) \cup {[c EXCEPT !.attempts = c.attempts + 1]}
    BY <1>2 DEF Attempt
  <2> HIDE DEF Rows
  <2> QED BY <1>0, <2>3, <2>4
<1>3. ASSUME NEW r \in Requests, NEW c \in challenges, ConfirmChallengeSetup(r, c) PROVE challenges' \subseteq Rows
  BY <1>0, <1>2, <1>3 DEF ConfirmChallengeSetup, Usable
<1>4. ASSUME NEW r \in Requests, NEW c \in challenges, NEW p \in Proofs, VerifyLogin(r, c, p) PROVE challenges' \subseteq Rows
  BY <1>0, <1>2, <1>4 DEF VerifyLogin, Usable
<1>5. ASSUME NEW r \in Requests, EndChallenges(r) PROVE challenges' \subseteq Rows
  BY <1>5 DEF EndChallenges
<1>6. UNCHANGED challenges => challenges' \subseteq Rows
  BY <1>0
<1> HIDE DEF Rows
<1>7. challenges' \subseteq Rows
  BY <1>1, <1>3, <1>4, <1>5, <1>6, ChallengesFrame
<1> QED BY <1>7 DEF Rows

LEMMA BarredTyped ==
    ASSUME AccessTypeOK, AccessNext
    PROVE  barred' \in BOOLEAN
<1>0. barred \in BOOLEAN
  BY DEF AccessTypeOK
<1>1. ASSUME NEW state \in States, NEW compromised \in BOOLEAN, TransitionAccount(state, compromised) PROVE barred' \in BOOLEAN
  BY <1>1 DEF TransitionAccount
<1>2. ASSUME NEW role \in {"staff", "admin"}, NEW active \in BOOLEAN, UpdateUser(role, active) PROVE barred' \in BOOLEAN
  BY <1>0, <1>2 DEF UpdateUser
<1>3. ASSUME NEW r \in Requests, NEW l \in links, SetPassword(r, l) PROVE barred' \in BOOLEAN
  BY <1>3 DEF SetPassword
<1>4. ASSUME NEW r \in Requests, NEW role \in {"staff", "admin"}, NEW active \in BOOLEAN, WriteAccess(r, role, active) PROVE barred' \in BOOLEAN
  BY <1>0, <1>4 DEF WriteAccess
<1>5. ASSUME NEW r \in Requests, RevokeAccess(r) PROVE barred' \in BOOLEAN
  BY <1>0, <1>5 DEF RevokeAccess
<1> QED BY <1>0, <1>1, <1>2, <1>3, <1>4, <1>5, BarredFrame
-----------------------------------------------------------------------------
LEMMA AccessStarts == AccessInit => AccessInv
<1> SUFFICES ASSUME AccessInit PROVE AccessInv
  OBVIOUS
<1>0. 1 \in 1..MaxVersion /\ 0 \in 0..MaxVersion /\ 1 \in 0..MaxVersion
  BY AccessAssumption
<1>1. account \in AccountRows
  <2>1. "INVITED" \in States /\ "ACTIVE" \in States
    BY DEF States
  <2>2. CASE account \in
                [status : {"INVITED"}, active : {FALSE}, deleted : {FALSE}, role : {"staff", "admin"},
                 version : {1}, password : {0}, reset : {TRUE}, compromised : {FALSE},
                 mfa : {FALSE}, fails : {0}, locked : {FALSE}]
    <3>1. account = [status |-> account.status, active |-> account.active, deleted |-> account.deleted, role |-> account.role,
                     version |-> account.version, password |-> account.password, reset |-> account.reset,
                     compromised |-> account.compromised, mfa |-> account.mfa, fails |-> account.fails, locked |-> account.locked]
      BY <2>2
    <3>2. /\ account.status = "INVITED" /\ account.role \in {"staff", "admin"}
          /\ account.version = 1 /\ account.password = 0 /\ account.fails = 0
      BY <2>2
    <3>3. /\ account.active \in BOOLEAN /\ account.deleted \in BOOLEAN /\ account.reset \in BOOLEAN
          /\ account.compromised \in BOOLEAN /\ account.mfa \in BOOLEAN /\ account.locked \in BOOLEAN
      BY <2>2
    <3> QED BY <1>0, <2>1, <3>1, <3>2, <3>3 DEF AccountRows
  <2>3. CASE account \in
                [status : {"ACTIVE"}, active : {TRUE}, deleted : {FALSE}, role : {"staff"},
                 version : {1}, password : {1}, reset : {FALSE}, compromised : {FALSE},
                 mfa : {FALSE}, fails : {0}, locked : {FALSE}]
    <3>1. account = [status |-> account.status, active |-> account.active, deleted |-> account.deleted, role |-> account.role,
                     version |-> account.version, password |-> account.password, reset |-> account.reset,
                     compromised |-> account.compromised, mfa |-> account.mfa, fails |-> account.fails, locked |-> account.locked]
      BY <2>3
    <3>2. /\ account.status = "ACTIVE" /\ account.role \in {"staff", "admin"}
          /\ account.version = 1 /\ account.password = 1 /\ account.fails = 0
      BY <2>3
    <3>3. /\ account.active \in BOOLEAN /\ account.deleted \in BOOLEAN /\ account.reset \in BOOLEAN
          /\ account.compromised \in BOOLEAN /\ account.mfa \in BOOLEAN /\ account.locked \in BOOLEAN
      BY <2>3
    <3> QED BY <1>0, <2>1, <3>1, <3>2, <3>3 DEF AccountRows
  <2> QED BY <2>2, <2>3 DEF AccessInit
<1>2. AccessTypeOK
  <2>1. NoTotp \in [secret : BOOLEAN, pending : BOOLEAN, lastStep : TotpSteps \cup {0}, codes : SUBSET RecoveryCodes]
    BY DEF NoTotp
  <2>2. Unspent \in [Proofs -> Nat]
    BY DEF Unspent
  <2>3. sessions = {} /\ links = {} /\ challenges = {} /\ totp = NoTotp /\ spent = Unspent /\ barred = FALSE
    BY DEF AccessInit
  <2> QED BY <1>1, <2>1, <2>2, <2>3 DEF AccessTypeOK, AccountRows
<1>3. DOMAIN req = Requests /\ \A r \in Requests : req[r] = Idle
  BY DEF AccessInit
<1>4. RequestsFit
  BY <1>3, IdleFits DEF RequestsFit
<1>5. account.version = 1 /\ account.password \in {0, 1}
  BY DEF AccessInit
<1>6. PasswordsMatch
  BY <1>3, <1>5, IdleRow DEF PasswordsMatch, OfItsVersion, AccessInit
<1>7. BarredIsInactive /\ EarlierLinksAreDead
  BY DEF AccessInit, BarredIsInactive, EarlierLinksAreDead
<1>8. SpentIsGone /\ ProofsAreSpentOnce
  <2>1. spent = Unspent /\ totp.codes = {} /\ ~(0 > 0) /\ 0 <= 1
    BY DEF AccessInit, NoTotp
  <2>2. \A p \in Proofs : spent[p] = 0
    BY <2>1 DEF Unspent
  <2> QED BY <2>1, <2>2 DEF SpentIsGone, ProofsAreSpentOnce, Proofs
<1> QED BY <1>2, <1>4, <1>6, <1>7, <1>8 DEF AccessInv

LEMMA AccessKept == AccessInv /\ [AccessNext]_accessVars => AccessInv'
<1> SUFFICES ASSUME AccessInv, [AccessNext]_accessVars PROVE AccessInv'
  OBVIOUS
<1>0. /\ AccessTypeOK /\ RequestsFit /\ PasswordsMatch /\ BarredIsInactive /\ EarlierLinksAreDead
      /\ SpentIsGone /\ ProofsAreSpentOnce
  BY DEF AccessInv
<1>1. CASE UNCHANGED accessVars
  BY <1>0, <1>1 DEF AccessInv, accessVars, AccessTypeOK, RequestsFit, PasswordsMatch, BarredIsInactive, EarlierLinksAreDead,
                    SpentIsGone, ProofsAreSpentOnce
<1>2. CASE AccessNext
  <2>1. RequestsFit'
    BY <1>0, <1>2, RequestsKeepFit
  <2>2. PasswordsMatch'
    BY <1>0, <1>2, PasswordsKeepMatching
  <2>3. BarredIsInactive' /\ EarlierLinksAreDead'
    BY <1>0, <1>2, BarredKept, LinksKept
  <2>4. AccessTypeOK'
    BY <1>0, <1>2, AccountTyped, SessionMoves, LinksTyped, ChallengesTyped, SpentStaysGone, BarredTyped
       DEF AccessTypeOK, AccountRows, SessionRows
  <2>5. SpentIsGone' /\ ProofsAreSpentOnce'
    BY <1>0, <1>2, SpentStaysGone
  <2> QED BY <2>1, <2>2, <2>3, <2>4, <2>5 DEF AccessInv
<1> QED BY <1>1, <1>2

\* The inductive invariant: no interleaving of the handlers leaves it.
THEOREM AccessIsInvariant == AccessSpec => []AccessInv
BY AccessStarts, AccessKept, PTL DEF AccessSpec

\* The users held, its sessions, links, challenges and authenticator keep their
\* types through every interleaving of authController.js, mfaController.js,
\* userController.js and the others.
THEOREM AccountTypeCorrect == AccessSpec => []AccessTypeOK
<1>1. AccessInv => AccessTypeOK
  BY DEF AccessInv
<1> QED BY <1>1, AccessIsInvariant, PTL

\* A session opened with a password is let in only while that password is the
\* account's: a login that read the held before a change (authController.js)
\* opens a session of the version before it, which middleware/auth.js refuses.
THEOREM OldPasswordsOpenNothing == AccessSpec => []PasswordIsCurrent
<1>1. AccessInv => PasswordIsCurrent
  BY DEF AccessInv, PasswordsMatch, OfItsVersion, PasswordIsCurrent, Accepted, Known
<1> QED BY <1>1, AccessIsInvariant, PTL

\* While an administrator's closing stands nobody is let in and no link issued
\* before it is left, whatever was under way when the account was closed
\* (userSecurityService.js, userController.js, middleware/auth.js).
THEOREM NobodyGetsPastAClosing == AccessSpec => []ClosedAccountsStayOut
<1>1. AccessInv => ClosedAccountsStayOut
  BY DEF AccessInv, BarredIsInactive, ClosedAccountsStayOut, Accepted
<1> QED BY <1>1, AccessIsInvariant, PTL

\* A TOTP step and a recovery code are spent at most once (mfaService.js).
THEOREM ProofsAreGoodOnce == AccessSpec => []ProofsAreSpentOnce
<1>1. AccessInv => ProofsAreSpentOnce
  BY DEF AccessInv
<1> QED BY <1>1, AccessIsInvariant, PTL

-----------------------------------------------------------------------------
(* InvoiceDelivery.                                                        *)

E == INSTANCE EmailQueueProofs WITH Msgs <- Docs, Weekly <- {}, Invoices <- Docs

RequestRows == [status : Generation, aged : BOOLEAN]
Calls == [at : {"idle", "loaded", "claim", "rendering", "failing"}, doc : Docs \cup {NoDoc}]

OwnType == requests \in [Docs -> RequestRows] /\ senders \in [Senders -> Calls]

\* A call that is under way has its document.
SendersFit == \A s \in Senders : senders[s].at # "idle" => senders[s].doc \in Docs

\* An edit makes the content the new revision's.
ContentFits == invoice.content <= invoice.revision

BillInv == I!TypeOK /\ ContentFits /\ SentWasAccepted

OwnInv == OwnType /\ SendersFit /\ QueuedIsValidated

DeliveryInv ==
    /\ E!TransportInv
    /\ BillInv
    /\ OwnInv
    /\ MaxStalls = 0 => MailIsCurrent

-----------------------------------------------------------------------------
(* The queue is the one EmailQueueProofs is about.                         *)

LEMMA QueueConstants ==
    /\ {} \subseteq Docs /\ Docs \subseteq Docs \ {}
    /\ NoMsg \notin Docs
    /\ MaxAttempts \in Nat \ {0}
    /\ {MaxClaims, MaxRetries, MaxCrashes, MaxDbErrors, MaxStalls} \subseteq Nat
BY QueueAssumption

LEMMA SameQueue ==
    /\ Q!Init => E!Init
    /\ E!TypeOK => Q!TypeOK
    /\ Q!Outcomes = E!Outcomes
    /\ Q!Errors = E!Errors
BY DEF Q!Init, E!Init, Q!TypeOK, E!TypeOK, Q!Outcomes, E!Outcomes, Q!Errors, E!Errors,
       Q!RowStatus, E!RowStatus, Q!PCs, E!PCs, Q!Verdicts, E!Verdicts

LEMMA SameCycle ==
    ASSUME NEW w, NEW left
    PROVE  /\ Q!Continue(w, left) <=> E!Continue(w, left)
           /\ Q!Stop(w) <=> E!Stop(w)
           /\ Q!Done(w) <=> E!Done(w)
BY DEF Q!Continue, E!Continue, Q!Stop, E!Stop, Q!Done, E!Done

LEMMA SameEnd ==
    ASSUME NEW w, NEW place, NEW status, NEW error, NEW outcome
    PROVE  /\ Q!Goto(w, place) <=> E!Goto(w, place)
           /\ Q!Record(w, status, place) <=> E!Record(w, status, place)
           /\ Q!Caught(w, error) <=> E!Caught(w, error)
           /\ Q!Ends(outcome) <=> E!Ends(outcome)
<1>1. \A m, n : Q!Decide(m, n, error) = E!Decide(m, n, error)
  BY DEF Q!Decide, E!Decide
<1> QED
  BY <1>1 DEF Q!Goto, E!Goto, Q!Record, E!Record, Q!Caught, E!Caught, Q!Ends, E!Ends

LEMMA SameSteps ==
    ASSUME NEW w, NEW outcome, NEW m, NEW error, NEW taken
    PROVE  /\ Q!Sweep(w, outcome) => E!Sweep(w, outcome)
           /\ Q!Select(w, outcome) => E!Select(w, outcome)
           /\ Q!Claim(w, m, outcome) => E!Claim(w, m, outcome)
           /\ Q!Prepare(w, error) => E!Prepare(w, error)
           /\ Q!Send(w, error, taken) => E!Send(w, error, taken)
           /\ Q!RecordSent(w, outcome) => E!RecordSent(w, outcome)
           /\ Q!Settle(w, outcome) => E!Settle(w, outcome)
           /\ Q!Log(w, outcome) => E!Log(w, outcome)
           /\ Q!Confirm(w, outcome) => E!Confirm(w, outcome)
           /\ Q!Mark(w, outcome) => E!Mark(w, outcome)
           /\ Q!MarkVersion(w, outcome) => E!MarkVersion(w, outcome)
           /\ Q!Crash(w) => E!Crash(w)
<1>1. \A n : (Q!Due(n) <=> E!Due(n)) /\ (Q!Claimable(n) <=> E!Claimable(n))
  BY DEF Q!Due, E!Due, Q!Claimable, E!Claimable
<1>2. \A n : (Q!Abandoned(n) <=> E!Abandoned(n)) /\ (Q!Locked(n) <=> E!Locked(n))
  BY DEF Q!Abandoned, E!Abandoned, Q!Locked, E!Locked
<1>3. Q!Sweep(w, outcome) => E!Sweep(w, outcome)
  BY <1>2, SameEnd DEF Q!Sweep, E!Sweep
<1>4. Q!Select(w, outcome) => E!Select(w, outcome)
  BY <1>1, SameEnd DEF Q!Select, E!Select
<1>5. Q!Claim(w, m, outcome) => E!Claim(w, m, outcome)
  BY <1>1, SameEnd, SameCycle DEF Q!Claim, E!Claim
<1>6. Q!Prepare(w, error) => E!Prepare(w, error)
  BY SameEnd DEF Q!Prepare, E!Prepare
<1>7. Q!Send(w, error, taken) => E!Send(w, error, taken)
  BY SameEnd DEF Q!Send, E!Send
<1>8. Q!RecordSent(w, outcome) => E!RecordSent(w, outcome)
  BY SameEnd, SameCycle DEF Q!RecordSent, E!RecordSent
<1>9. Q!Settle(w, outcome) => E!Settle(w, outcome)
  BY SameEnd, SameCycle DEF Q!Settle, E!Settle
<1>10. Q!Log(w, outcome) => E!Log(w, outcome)
  BY SameEnd, SameCycle DEF Q!Log, E!Log
<1>11. Q!Confirm(w, outcome) => E!Confirm(w, outcome)
  BY SameEnd, SameCycle DEF Q!Confirm, E!Confirm
<1>12. Q!Mark(w, outcome) => E!Mark(w, outcome)
  BY SameEnd, SameCycle DEF Q!Mark, E!Mark
<1>13. Q!MarkVersion(w, outcome) => E!MarkVersion(w, outcome)
  BY SameEnd, SameCycle DEF Q!MarkVersion, E!MarkVersion
<1>14. Q!Crash(w) => E!Crash(w)
  BY SameCycle DEF Q!Crash, E!Crash
<1> QED
  BY <1>3, <1>4, <1>5, <1>6, <1>7, <1>8, <1>9, <1>10, <1>11, <1>12, <1>13, <1>14

LEMMA SameOutside ==
    ASSUME NEW m, NEW later
    PROVE  /\ Q!QueueEmail(m, later) => E!QueueEmail(m, later)
           /\ Q!Retry(m) => E!Retry(m)
           /\ Q!BackoffElapses(m) => E!BackoffElapses(m)
           /\ Q!ClaimAges(m) => E!ClaimAges(m)
BY DEF Q!QueueEmail, E!QueueEmail, Q!Retry, E!Retry, Q!BackoffElapses, E!BackoffElapses,
       Q!ClaimAges, E!ClaimAges, Q!cycle, E!cycle

-----------------------------------------------------------------------------
(* What the queue's steps mean for the rest.                               *)

\* Every row goes its way.
MailGoesOn == \A d \in Docs : E!RowGoesOn(d)

LEMMA CycleMoves ==
    ASSUME E!TransportInv, NEW w \in Workers, Q!CycleStep(w) \/ Q!Crash(w)
    PROVE  E!TransportInv' /\ MailGoesOn
<1>1. E!CycleStep(w) \/ E!Crash(w)
  <2>1. CASE Q!Crash(w)
    BY <2>1, SameSteps
  <2>2. CASE Q!CycleStep(w)
    BY <2>2, SameQueue, SameSteps DEF Q!CycleStep, E!CycleStep
  <2> QED
    BY <2>1, <2>2
<1> QED
  BY <1>1, QueueConstants, E!CycleTransport DEF MailGoesOn

LEMMA QueueMoves ==
    ASSUME E!TransportInv, QueueStep
    PROVE  E!TransportInv' /\ MailGoesOn
<1>1. CASE \E w \in Workers : (pc[w] # "confirm" /\ Q!CycleStep(w)) \/ Q!Crash(w)
  BY <1>1, CycleMoves
<1>2. ASSUME NEW d \in Docs, Q!Retry(d) \/ Q!BackoffElapses(d) \/ Q!ClaimAges(d)
      PROVE  E!TransportInv' /\ MailGoesOn
  BY <1>2, SameOutside, QueueConstants, E!OutsideTransport DEF MailGoesOn
<1> QED
  BY <1>1, <1>2 DEF QueueStep

LEMMA ConfirmMoves ==
    ASSUME E!TransportInv, NEW w \in Workers, NEW outcome \in Q!Outcomes, Q!Confirm(w, outcome)
    PROVE  E!TransportInv' /\ MailGoesOn /\ \E d \in Docs : accepted[d] > 0
<1>1. Q!CycleStep(w)
  BY DEF Q!CycleStep
<1>2. E!AcceptanceOK(w) /\ pc[w] = "confirm"
  BY DEF E!TransportInv, Q!Confirm
<1> QED
  BY <1>1, <1>2, CycleMoves DEF E!AcceptanceOK

\* What no step of the queue does matters to the requests and the ledger.
LEMMA MovesKeep ==
    ASSUME DeliveryInv, E!TransportInv', MailGoesOn, UNCHANGED <<requests, senders>>, BillInv',
           invoice'.content = invoice.content
    PROVE  DeliveryInv'
<1>1. OwnInv'
  BY DEF DeliveryInv, OwnInv, OwnType, SendersFit, QueuedIsValidated, MailGoesOn, E!RowGoesOn
<1>2. ASSUME MaxStalls = 0 PROVE MailIsCurrent'
  BY <1>2 DEF DeliveryInv, MailIsCurrent, MailGoesOn, E!RowGoesOn, E!Live
<1> QED
  BY <1>1, <1>2 DEF DeliveryInv

LEMMA SameMail ==
    ASSUME E!TransportInv, UNCHANGED mail
    PROVE  E!TransportInv'
BY DEF mail, E!TransportInv, E!AcceptanceOK, E!TransportOK, E!InTransport, E!IInv, E!TypeOK,
       E!HolderOK, E!Holding, E!OneHolder, E!RowOK

LEMMA QueueStepKeeps == DeliveryInv /\ QueueStep => DeliveryInv'
<1> SUFFICES ASSUME DeliveryInv, QueueStep PROVE DeliveryInv'
  OBVIOUS
<1>1. E!TransportInv' /\ MailGoesOn
  BY QueueMoves DEF DeliveryInv
<1>2. UNCHANGED <<invoice, payments, history, requests, senders>>
  BY DEF QueueStep, ledger
<1>3. \A d \in Docs : accepted[d] > 0 => accepted'[d] > 0
  <2>1. \A d \in Docs : accepted[d] \in Nat /\ accepted'[d] \in Nat
    BY <1>1 DEF DeliveryInv, E!TransportInv, E!IInv, E!TypeOK
  <2> QED
    BY <1>1, <2>1 DEF MailGoesOn, E!RowGoesOn
<1>4. BillInv'
  <2>1. I!TypeOK'
    BY <1>2 DEF DeliveryInv, BillInv, I!TypeOK
  <2> QED
    BY <1>2, <1>3, <2>1 DEF DeliveryInv, BillInv, ContentFits, SentWasAccepted
<1> QED
  BY <1>1, <1>2, <1>4, MovesKeep

-----------------------------------------------------------------------------
(* The ledger.                                                             *)

LEMMA AmountsAreNaturals ==
    /\ 0 \in I!Amounts /\ I!Amounts \subseteq Nat
    /\ \A total \in Totals : total \in Nat /\ 0..total \subseteq I!Amounts
<1>1. PICK m \in Totals : \A x \in Totals : x <= m
  BY LedgerAssumption, LargestElement
<1>2. I!Max(Totals) \in Totals /\ \A x \in Totals : x <= I!Max(Totals)
  BY <1>1, LedgerAssumption DEF I!Max
<1>3. I!Max(Totals) \in Nat
  BY <1>2, LedgerAssumption
<1>4. \A total \in Totals : total \in Nat /\ total <= I!Max(Totals)
  BY <1>2, LedgerAssumption
<1> QED
  BY <1>3, <1>4 DEF I!Amounts

LEMMA RecordedIsNatural == I!TypeOK => I!Recorded \in Nat
<1> SUFFICES ASSUME I!TypeOK PROVE I!Recorded \in Nat
  OBVIOUS
<1> DEFINE f == [k \in Keys |-> IF payments[k].voided THEN 0 ELSE payments[k].amount]
<1>1. \A k \in Keys : f[k] \in Nat
  BY AmountsAreNaturals DEF I!TypeOK
<1>2. I!Recorded = SumFunctionOnSet(f, Keys)
  BY DEF I!Recorded, I!SumFunctionOnSet, SumFunctionOnSet, I!FoldFunctionOnSet, FoldFunctionOnSet,
         I!MapThenFoldSet, MapThenFoldSet
<1> HIDE DEF f
<1> QED
  BY <1>1, <1>2, LedgerAssumption, SumType

\* The document of an invoice that may be sent.
LEMMA CurrentDocIsOne == I!TypeOK /\ ContentFits => CurrentDoc \in Docs /\ CurrentDoc.content = invoice.content
<1> SUFFICES ASSUME I!TypeOK, ContentFits
             PROVE  CurrentDoc \in Docs /\ CurrentDoc.content = invoice.content
  OBVIOUS
<1>1. invoice.total \in Totals /\ invoice.revision \in 1..MaxRevision /\ invoice.content \in 1..MaxRevision
  BY DEF I!TypeOK
<1>2. I!ReviewRequired \in BOOLEAN
  BY DEF I!ReviewRequired
<1>3. ~I!ReviewRequired => I!Recorded \in I!Amounts
  <2>1. ~I!ReviewRequired => ~(I!Recorded > invoice.total)
    BY DEF I!ReviewRequired
  <2>2. I!Recorded \in Nat /\ invoice.total \in Nat /\ 0..invoice.total \subseteq I!Amounts
    BY <1>1, RecordedIsNatural, AmountsAreNaturals
  <2> QED
    BY <2>1, <2>2
<1>4. (IF I!ReviewRequired THEN 0 ELSE I!Recorded) \in I!Amounts
  BY <1>3, AmountsAreNaturals
<1> QED
  BY <1>1, <1>2, <1>4 DEF CurrentDoc, Docs, ContentFits

Invoice == [status : I!Status, deleted : BOOLEAN, total : Totals,
            revision : 1..MaxRevision, content : 1..MaxRevision]
Receipts == [amount : I!Amounts, voided : BOOLEAN]
History == [lifecycle : {"none", "approved", "sent"}, approved : 0..MaxRevision,
            issued : 0..MaxRevision, legacy : BOOLEAN]

\* What the operations of the ledger have in common: they leave the content,
\* and only a review makes an invoice read sent again.
LEMMA LedgerMoves ==
    ASSUME I!TypeOK, ContentFits, I!Operation
    PROVE  /\ I!TypeOK' /\ ContentFits'
           /\ invoice'.content = invoice.content
           /\ invoice'.status = "sent" =>
                 \/ history'.lifecycle = "sent"
                 \/ invoice.status = "sent" /\ history'.lifecycle = history.lifecycle
<1>1. invoice \in Invoice /\ payments \in [Keys -> Receipts] /\ history \in History
  BY DEF I!TypeOK, Invoice, Receipts, History
<1>2. /\ invoice.revision \in Nat /\ invoice.content \in Nat
      /\ 0..MaxRevision \subseteq Nat /\ 1..MaxRevision \subseteq 0..MaxRevision
  BY <1>1, LedgerAssumption DEF Invoice
<1>3. SUFFICES /\ invoice' \in Invoice /\ payments' \in [Keys -> Receipts] /\ history' \in History
               /\ invoice'.content = invoice.content /\ invoice'.revision >= invoice.revision
               /\ invoice'.status = "sent" =>
                     \/ history'.lifecycle = "sent"
                     \/ invoice.status = "sent" /\ history'.lifecycle = history.lifecycle
  <2>1. I!TypeOK' <=> invoice' \in Invoice /\ payments' \in [Keys -> Receipts] /\ history' \in History
    BY DEF I!TypeOK, Invoice, Receipts, History
  <2>2. ContentFits'
    <3>1. invoice'.revision \in Nat
      BY <1>2, <1>3 DEF Invoice
    <3> QED
      BY <1>2, <1>3, <3>1 DEF ContentFits
  <2> QED
    BY <1>3, <2>1, <2>2
<1>4. CASE I!Approve \/ I!Reject \/ I!Archive
  <2>1. /\ invoice' \in Invoice /\ payments' = payments
        /\ invoice'.content = invoice.content /\ invoice'.revision = invoice.revision
        /\ invoice'.status = "sent" => invoice.status = "sent" /\ history' = history
    BY <1>1, <1>4 DEF I!Approve, I!Reject, I!Archive, I!Status, Invoice
  <2>2. history' \in History
    BY <1>1, <1>2, <1>4 DEF I!Approve, I!Reject, I!Archive, Invoice, History
  <2> QED
    BY <1>1, <1>2, <2>1, <2>2
<1>6. \A paid : /\ I!ReviewedStatus(paid) \in I!Status
                /\ I!ReviewedStatus(paid) = "sent" => history.lifecycle = "sent"
  BY <1>1 DEF I!ReviewedStatus, I!Status, History
<1>7. invoice.revision < MaxRevision => invoice.revision + 1 \in 1..MaxRevision
  BY <1>2, LedgerAssumption
<1>8. CASE I!ConfirmRegister
  <2>1. /\ invoice' \in Invoice
        /\ invoice'.content = invoice.content /\ invoice'.revision = invoice.revision + 1
        /\ invoice'.status = "sent" => history.lifecycle = "sent"
    BY <1>1, <1>6, <1>7, <1>8 DEF I!ConfirmRegister, Invoice
  <2>2. history' \in History /\ history'.lifecycle = history.lifecycle /\ payments' = payments
    BY <1>1, <1>8 DEF I!ConfirmRegister, History
  <2> QED
    BY <1>1, <1>2, <2>1, <2>2
<1>9. ASSUME NEW k \in Keys, NEW amount \in I!Amounts, I!Enter(k, amount)
      PROVE  payments' \in [Keys -> Receipts]
  BY <1>1, <1>9 DEF I!Enter, Receipts
<1>10. ASSUME NEW k \in Keys, NEW amount \in I!Amounts, I!SavePayment(k, amount)
       PROVE  /\ invoice' \in Invoice /\ payments' \in [Keys -> Receipts] /\ history' = history
              /\ invoice'.content = invoice.content /\ invoice'.revision = invoice.revision
              /\ invoice'.status = "sent" => invoice.status = "sent"
  BY <1>1, <1>9, <1>10 DEF I!SavePayment, Invoice, I!Status
<1>11. ASSUME NEW k \in Keys, NEW amount \in I!Amounts, I!RecordReceipt(k, amount)
       PROVE  /\ invoice' \in Invoice /\ payments' \in [Keys -> Receipts] /\ history' \in History
              /\ invoice'.content = invoice.content /\ invoice'.revision = invoice.revision + 1
              /\ history'.lifecycle = history.lifecycle
              /\ invoice'.status = "sent" => history.lifecycle = "sent"
  BY <1>1, <1>6, <1>7, <1>9, <1>11 DEF I!RecordReceipt, Invoice, History
<1>12. ASSUME NEW k \in Keys, I!VoidPayment(k)
       PROVE  /\ invoice' \in Invoice /\ payments' \in [Keys -> Receipts] /\ history' = history
              /\ invoice'.content = invoice.content /\ invoice'.revision = invoice.revision
              /\ invoice'.status = "sent" => invoice.status = "sent"
  BY <1>1, <1>12 DEF I!VoidPayment, Invoice, Receipts, I!Status
<1> QED
  BY <1>1, <1>2, <1>4, <1>8, <1>10, <1>11, <1>12 DEF I!Operation

LEMMA LedgerStepKeeps == DeliveryInv /\ LedgerStep => DeliveryInv'
<1> SUFFICES ASSUME DeliveryInv, LedgerStep PROVE DeliveryInv'
  OBVIOUS
<1>1. UNCHANGED <<queue, accepted, pc, batch, seen, row, verdict, faults, requests, senders>>
  BY DEF LedgerStep, mail
<1>2. E!TransportInv'
  BY <1>1, SameMail DEF DeliveryInv, mail
<1>3. MailGoesOn
  BY <1>1 DEF MailGoesOn, E!RowGoesOn, DeliveryInv, E!TransportInv, E!IInv, E!TypeOK
<1>4. /\ I!TypeOK' /\ ContentFits' /\ invoice'.content = invoice.content
      /\ invoice'.status = "sent" =>
            \/ history'.lifecycle = "sent"
            \/ invoice.status = "sent" /\ history'.lifecycle = history.lifecycle
  BY LedgerMoves DEF LedgerStep, DeliveryInv, BillInv
<1>5. BillInv'
  BY <1>1, <1>4 DEF DeliveryInv, BillInv, SentWasAccepted
<1> QED
  BY <1>1, <1>2, <1>3, <1>4, <1>5, MovesKeep

LEMMA ConfirmKeeps ==
    ASSUME DeliveryInv, NEW w \in Workers, NEW outcome \in Q!Outcomes, Confirm(w, outcome)
    PROVE  DeliveryInv'
<1>1. E!TransportInv' /\ MailGoesOn /\ \E d \in Docs : accepted[d] > 0
  BY ConfirmMoves DEF Confirm, DeliveryInv
<1>2. UNCHANGED <<requests, senders, accepted>>
  BY DEF Confirm, Q!Confirm
<1>3. UNCHANGED <<invoice, payments, history>> \/ I!MarkSent
  BY DEF Confirm, ledger
<1>4. invoice \in Invoice /\ payments \in [Keys -> Receipts] /\ history \in History
  BY DEF DeliveryInv, BillInv, I!TypeOK, Invoice, Receipts, History
<1>5. /\ invoice' \in Invoice /\ payments' \in [Keys -> Receipts] /\ history' \in History
      /\ invoice'.content = invoice.content /\ invoice'.revision = invoice.revision
  <2>1. 1..MaxRevision \subseteq 0..MaxRevision
    BY LedgerAssumption
  <2> QED
    BY <1>3, <1>4, <2>1 DEF I!MarkSent, I!ledger, I!Status, Invoice, History
<1>6. BillInv'
  <2>1. I!TypeOK'
    BY <1>5 DEF I!TypeOK, Invoice, Receipts, History
  <2> QED
    BY <1>1, <1>2, <1>5, <2>1 DEF DeliveryInv, BillInv, ContentFits, SentWasAccepted
<1> QED
  BY <1>1, <1>2, <1>5, <1>6, MovesKeep

\* An edit cancels the mail of the old content that was not handed over.
LEMMA EditKeeps ==
    ASSUME DeliveryInv, NEW total \in Totals, Edit(total)
    PROVE  DeliveryInv'
<1>1. UNCHANGED <<accepted, pc, batch, seen, row, verdict, faults, requests, senders, payments, history>>
  BY DEF Edit, I!Edit
<1>2. /\ queue \in [Docs -> E!Row]
      /\ \A d \in Docs : queue[d].status # "SENDING"
  BY DEF DeliveryInv, E!TransportInv, E!IInv, E!TypeOK, E!Row, Edit, NotInTransport
<1>3. ASSUME NEW d \in Docs
      PROVE  /\ queue'[d] \in E!Row
             /\ IF queue[d].status \in Cancellable THEN queue'[d].status = "CANCELLED"
                ELSE queue'[d] = queue[d]
  BY <1>2 DEF Edit, E!Row, E!RowStatus
<1>4. queue' \in [Docs -> E!Row]
  BY <1>3 DEF Edit
<1>5. E!IInv'
  <2>1. E!TypeOK'
    BY <1>1, <1>4 DEF DeliveryInv, E!TransportInv, E!IInv, E!TypeOK, E!Row
  <2>2. \A w \in Workers : E!HolderOK(w)'
    BY <1>1, <1>3 DEF DeliveryInv, E!TransportInv, E!IInv, E!HolderOK, E!Holding, E!Held, Cancellable
  <2>3. \A d \in Docs : E!RowOK(d)'
    BY <1>1, <1>3 DEF DeliveryInv, E!TransportInv, E!IInv, E!RowOK, E!Held, Cancellable
  <2>4. E!OneHolder'
    BY <1>1 DEF DeliveryInv, E!TransportInv, E!IInv, E!OneHolder, E!Holding
  <2> QED
    BY <2>1, <2>2, <2>3, <2>4 DEF E!IInv
<1>6. E!TransportInv'
  <2>1. \A w \in Workers : E!AcceptanceOK(w)'
    BY <1>1 DEF DeliveryInv, E!TransportInv, E!AcceptanceOK
  <2>2. ASSUME MaxStalls = 0, NEW w \in Workers PROVE E!TransportOK(w)'
    <3>1. E!InTransport(w) => row[w] \in Docs /\ queue[row[w]].status = "SENDING"
      BY <2>2 DEF DeliveryInv, E!TransportInv, E!TransportOK, E!IInv, E!HolderOK, E!Holding, E!InTransport
    <3> QED
      BY <1>1, <1>2, <3>1 DEF E!TransportOK, E!InTransport
  <2> QED
    BY <1>5, <2>1, <2>2 DEF E!TransportInv
<1>7. OwnInv'
  BY <1>1, <1>3 DEF DeliveryInv, OwnInv, OwnType, SendersFit, QueuedIsValidated, Cancellable
<1>8. MailIsCurrent'
  <2>1. \A d \in Docs : queue'[d].status \notin {"PENDING", "RETRY", "FAILED", "SENDING"}
    BY <1>2, <1>3 DEF Cancellable
  <2> QED
    BY <2>1 DEF MailIsCurrent
<1>9. BillInv'
  <2>1. invoice \in Invoice /\ payments \in [Keys -> Receipts] /\ history \in History
    BY DEF DeliveryInv, BillInv, I!TypeOK, Invoice, Receipts, History
  <2>2. invoice.revision + 1 \in 1..MaxRevision
    BY <2>1, LedgerAssumption DEF Edit, I!Edit, Invoice
  <2>3. /\ invoice' \in Invoice /\ invoice'.status # "sent"
        /\ invoice'.revision = invoice.revision + 1 /\ invoice'.content = invoice.revision + 1
    BY <2>1, <2>2 DEF Edit, I!Edit, Invoice, I!Status
  <2>4. I!TypeOK'
    BY <1>1, <2>1, <2>3 DEF I!TypeOK, Invoice, Receipts, History
  <2> QED
    BY <2>2, <2>3, <2>4 DEF BillInv, ContentFits, SentWasAccepted
<1> QED
  BY <1>6, <1>7, <1>8, <1>9 DEF DeliveryInv

-----------------------------------------------------------------------------
(* sendInvoice.                                                            *)

LEMMA SameBill ==
    ASSUME DeliveryInv, UNCHANGED <<invoice, payments, history, accepted>>
    PROVE  BillInv'
BY DEF DeliveryInv, BillInv, I!TypeOK, ContentFits, SentWasAccepted

\* A call goes on with its document, or is over.
LEMMA GotoCall ==
    ASSUME OwnType, SendersFit, NEW s \in Senders, senders[s].at # "idle",
           NEW place \in {"idle", "loaded", "claim", "rendering", "failing"}, Goto(s, place)
    PROVE  senders' \in [Senders -> Calls] /\ SendersFit'
<1> DEFINE call == IF place = "idle" THEN [at |-> "idle", doc |-> NoDoc]
                   ELSE [at |-> place, doc |-> senders[s].doc]
<1>1. call \in Calls /\ (call.at # "idle" => call.doc \in Docs)
  BY DEF SendersFit, Calls
<1>2. senders' = [senders EXCEPT ![s] = call]
  BY DEF Goto
<1> HIDE DEF call
<1> QED
  BY <1>1, <1>2 DEF OwnType, SendersFit

\* A step of a call that leaves the queue and the ledger alone.
LEMMA QuietCall ==
    ASSUME DeliveryInv, UNCHANGED <<ledger, mail>>, OwnType', SendersFit',
           \A d \in Docs : requests'[d].status = "VALIDATED" <=> requests[d].status = "VALIDATED"
    PROVE  DeliveryInv'
<1>1. UNCHANGED <<queue, accepted, invoice, payments, history>>
  BY DEF ledger, mail
<1>2. BillInv'
  BY <1>1, SameBill
<1>3. E!TransportInv'
  BY SameMail DEF DeliveryInv
<1>4. QueuedIsValidated'
  BY <1>1 DEF DeliveryInv, OwnInv, QueuedIsValidated
<1>5. MaxStalls = 0 => MailIsCurrent'
  BY <1>1 DEF DeliveryInv, MailIsCurrent
<1> QED
  BY <1>2, <1>3, <1>4, <1>5 DEF DeliveryInv, OwnInv

LEMMA SetStatusEffect ==
    ASSUME OwnType, NEW d \in Docs, NEW status \in Generation, SetStatus(d, status)
    PROVE  /\ requests' \in [Docs -> RequestRows]
           /\ requests'[d].status = status
           /\ \A e \in Docs \ {d} : requests'[e] = requests[e]
BY DEF OwnType, SetStatus, RequestRows

LEMMA CallKeeps ==
    ASSUME DeliveryInv, NEW s \in Senders,
           \/ Load(s) \/ Request(s) \/ ClaimGeneration(s) \/ RenderFails(s) \/ SenderCrash(s)
           \/ \E outcome \in Q!Outcomes : RecordFailure(s, outcome)
    PROVE  DeliveryInv'
<1>1. OwnType /\ SendersFit
  BY DEF DeliveryInv, OwnInv
<1> DEFINE d == senders[s].doc
<1>2. senders[s].at # "idle" => d \in Docs
  BY <1>1 DEF SendersFit
<1>3. CASE Load(s)
  <2>1. CurrentDoc \in Docs
    BY CurrentDocIsOne DEF DeliveryInv, BillInv
  <2>2. senders' = [senders EXCEPT ![s] = [at |-> "loaded", doc |-> CurrentDoc]] /\ requests' = requests
    BY <1>3 DEF Load
  <2>3. OwnType' /\ SendersFit'
    <3> PICK c \in Docs : c = CurrentDoc
      BY <2>1
    <3>1. [at |-> "loaded", doc |-> c] \in Calls
      BY DEF Calls
    <3> QED
      BY <1>1, <2>2, <3>1 DEF OwnType, SendersFit
  <2> QED
    BY <1>3, <2>2, <2>3, QuietCall DEF Load
<1>4. CASE RenderFails(s) \/ SenderCrash(s)
  <2>1. senders[s].at # "idle" /\ (Goto(s, "failing") \/ Goto(s, "idle")) /\ requests' = requests
    BY <1>4 DEF RenderFails, SenderCrash
  <2>2. OwnType' /\ SendersFit'
    BY <1>1, <2>1, GotoCall DEF OwnType
  <2> QED
    BY <1>4, <2>1, <2>2, QuietCall DEF RenderFails, SenderCrash
<1>5. CASE Request(s)
  <2>1. d \in Docs /\ senders[s].at # "idle" /\ (Goto(s, "idle") \/ Goto(s, "claim"))
    BY <1>2, <1>5 DEF Request
  <2>2. \/ requests[d].status = "NONE" /\ SetStatus(d, "PENDING")
        \/ requests' = requests
    BY <1>5 DEF Request
  <2>3. /\ requests' \in [Docs -> RequestRows]
        /\ \A e \in Docs : requests'[e].status = "VALIDATED" <=> requests[e].status = "VALIDATED"
    <3> HIDE DEF d
    <3> QED
      BY <1>1, <2>1, <2>2, SetStatusEffect DEF OwnType, Generation
  <2>4. OwnType' /\ SendersFit'
    BY <1>1, <2>1, <2>3, GotoCall DEF OwnType
  <2> QED
    BY <1>5, <2>3, <2>4, QuietCall DEF Request
<1>6. CASE ClaimGeneration(s)
  <2>1. d \in Docs /\ senders[s].at # "idle" /\ (Goto(s, "idle") \/ Goto(s, "rendering"))
    BY <1>2, <1>6 DEF ClaimGeneration
  <2>2. \/ requests[d].status # "VALIDATED" /\ SetStatus(d, "GENERATING")
        \/ requests' = requests
    BY <1>6 DEF ClaimGeneration
  <2>3. /\ requests' \in [Docs -> RequestRows]
        /\ \A e \in Docs : requests'[e].status = "VALIDATED" <=> requests[e].status = "VALIDATED"
    <3> HIDE DEF d
    <3> QED
      BY <1>1, <2>1, <2>2, SetStatusEffect DEF OwnType, Generation
  <2>4. OwnType' /\ SendersFit'
    BY <1>1, <2>1, <2>3, GotoCall DEF OwnType
  <2> QED
    BY <1>6, <2>3, <2>4, QuietCall DEF ClaimGeneration
<1>7. ASSUME NEW outcome \in Q!Outcomes, RecordFailure(s, outcome)
      PROVE  DeliveryInv'
  <2>1. d \in Docs /\ senders[s].at # "idle" /\ Goto(s, "idle")
    BY <1>2, <1>7 DEF RecordFailure
  <2>2. \/ requests[d].status # "VALIDATED" /\ SetStatus(d, "GENERATION_FAILED")
        \/ requests' = requests
    BY <1>7 DEF RecordFailure
  <2>3. /\ requests' \in [Docs -> RequestRows]
        /\ \A e \in Docs : requests'[e].status = "VALIDATED" <=> requests[e].status = "VALIDATED"
    <3> HIDE DEF d
    <3> QED
      BY <1>1, <2>1, <2>2, SetStatusEffect DEF OwnType, Generation
  <2>4. OwnType' /\ SendersFit'
    BY <1>1, <2>1, <2>3, GotoCall DEF OwnType
  <2> QED
    BY <1>7, <2>3, <2>4, QuietCall DEF RecordFailure
<1> QED
  BY <1>3, <1>4, <1>5, <1>6, <1>7

LEMMA AgesKeeps ==
    ASSUME DeliveryInv, NEW d \in Docs, GenerationAges(d)
    PROVE  DeliveryInv'
<1>1. requests \in [Docs -> RequestRows] /\ senders' = senders
  BY DEF DeliveryInv, OwnInv, OwnType, GenerationAges
<1>2. /\ requests' \in [Docs -> RequestRows]
      /\ \A e \in Docs : requests'[e].status = requests[e].status
  BY <1>1 DEF GenerationAges, RequestRows
<1>3. OwnType' /\ SendersFit'
  BY <1>1, <1>2 DEF DeliveryInv, OwnInv, OwnType, SendersFit
<1> QED
  BY <1>2, <1>3, QuietCall DEF GenerationAges

\* The row of the queue is the document the invoice has under its lock.
LEMMA CommitKeeps ==
    ASSUME DeliveryInv, NEW s \in Senders, NEW outcome \in Q!Outcomes, Commit(s, outcome)
    PROVE  DeliveryInv'
<1>1. PICK d \in Docs : d = senders[s].doc
  BY DEF Commit, DeliveryInv, OwnInv, SendersFit
<1>2. OwnType /\ SendersFit /\ senders[s].at # "idle" /\ d.content = invoice.content
  BY <1>1, CurrentDocIsOne DEF Commit, StillCurrent, DeliveryInv, OwnInv, BillInv
<1>3. senders' \in [Senders -> Calls] /\ SendersFit'
  BY <1>2, GotoCall DEF Commit
<1>4. CASE UNCHANGED <<mail, requests>>
  <2>1. OwnType'
    BY <1>2, <1>3, <1>4 DEF OwnType
  <2> QED
    BY <1>3, <1>4, <2>1, QuietCall DEF Commit
<1>5. CASE Enqueue(d) /\ SetStatus(d, "VALIDATED")
  <2>1. /\ requests' \in [Docs -> RequestRows]
        /\ requests'[d].status = "VALIDATED"
        /\ \A e \in Docs \ {d} : requests'[e] = requests[e]
    BY <1>2, <1>5, SetStatusEffect DEF Generation
  <2>2. OwnType'
    BY <1>3, <2>1 DEF OwnType
  <2>3. \/ UNCHANGED mail /\ queue[d].status # "NONE"
        \/ Q!QueueEmail(d, FALSE)
    BY <1>5 DEF Enqueue
  <2>4. /\ E!TransportInv' /\ accepted' = accepted
        /\ \A e \in Docs \ {d} : queue'[e] = queue[e]
        /\ queue'[d].status # "NONE"
    <3>1. CASE UNCHANGED mail /\ queue[d].status # "NONE"
      BY <3>1, SameMail DEF mail, DeliveryInv
    <3>2. CASE Q!QueueEmail(d, FALSE)
      <4>1. E!QueueEmail(d, FALSE)
        BY <3>2, SameOutside
      <4>2. E!TransportInv'
        BY <4>1, QueueConstants, E!QueueTransport DEF DeliveryInv
      <4>3. queue \in [Docs -> E!Row]
        BY DEF DeliveryInv, E!TransportInv, E!IInv, E!TypeOK, E!Row
      <4> QED
        BY <3>2, <4>2, <4>3 DEF Q!QueueEmail
    <3> QED
      BY <2>3, <3>1, <3>2
  <2>5. BillInv' /\ UNCHANGED <<invoice, payments, history>>
    BY <2>4, SameBill DEF Commit, ledger
  <2>6. QueuedIsValidated'
    BY <2>1, <2>4 DEF DeliveryInv, OwnInv, QueuedIsValidated
  <2>7. MaxStalls = 0 => MailIsCurrent'
    BY <1>2, <2>4, <2>5 DEF DeliveryInv, MailIsCurrent
  <2> QED
    BY <1>3, <2>2, <2>4, <2>5, <2>6, <2>7 DEF DeliveryInv, OwnInv
<1> QED
  BY <1>1, <1>4, <1>5 DEF Commit

-----------------------------------------------------------------------------
LEMMA DeliveryInitially == Init => DeliveryInv
<1> SUFFICES ASSUME Init PROVE DeliveryInv
  OBVIOUS
<1>1. E!TransportInv
  BY SameQueue, QueueConstants, E!InitTransport DEF Init
<1>2. \A d \in Docs : queue[d].status = "NONE"
  BY DEF Init, Q!Init
<1>3. BillInv
  <2>1. invoice.status # "sent" /\ invoice.content = 1 /\ invoice.revision = 1
    BY DEF Init, I!Init
  <2>2. I!TypeOK
    <3>1. 1 \in 1..MaxRevision /\ 0 \in 0..MaxRevision /\ 1 \in 0..MaxRevision
      BY LedgerAssumption
    <3> QED
      BY <3>1, AmountsAreNaturals DEF Init, I!Init, I!TypeOK, I!Status
  <2> QED
    BY <2>1, <2>2 DEF BillInv, ContentFits, SentWasAccepted
<1>4. OwnInv
  BY <1>2 DEF Init, OwnInv, OwnType, SendersFit, QueuedIsValidated, RequestRows, Generation, Calls
<1>5. MailIsCurrent
  BY <1>2 DEF MailIsCurrent
<1> QED
  BY <1>1, <1>3, <1>4, <1>5 DEF DeliveryInv

LEMMA DeliveryKept == DeliveryInv /\ [Next]_vars => DeliveryInv'
<1> SUFFICES ASSUME DeliveryInv, [Next]_vars PROVE DeliveryInv'
  OBVIOUS
<1>1. CASE UNCHANGED vars
  <2>1. UNCHANGED <<ledger, mail>> /\ UNCHANGED <<requests, senders>>
    BY <1>1 DEF vars
  <2>2. OwnType' /\ SendersFit'
    BY <2>1 DEF DeliveryInv, OwnInv, OwnType, SendersFit
  <2> QED
    BY <2>1, <2>2, QuietCall
<1>2. CASE Next
  BY <1>2, CallKeeps, CommitKeeps, AgesKeeps, EditKeeps, LedgerStepKeeps, ConfirmKeeps,
     QueueStepKeeps DEF Next
<1> QED
  BY <1>1, <1>2

LEMMA DeliveryAlways == Spec => []DeliveryInv
BY DeliveryInitially, DeliveryKept, PTL DEF Spec

-----------------------------------------------------------------------------
(* The theorems.                                                           *)

\* The request, the document and the row of the queue tell the same story,
\* and the provider takes a document at most once, however many calls of
\* sendInvoice, cycles, crashes, lost answers and retries there are.
THEOREM DeliveryStaysConsistent == Spec => []DeliveryIsConsistent
<1>1. DeliveryInv => DeliveryIsConsistent
  <2> SUFFICES ASSUME DeliveryInv PROVE DeliveryIsConsistent
    OBVIOUS
  <2>1. TypeOK
    BY SameQueue DEF DeliveryInv, BillInv, OwnInv, OwnType, RequestRows, Calls, TypeOK,
       E!TransportInv, E!IInv
  <2>2. DeliveredOnce
    BY DEF DeliveryInv, E!TransportInv, E!IInv, E!RowOK, DeliveredOnce, Q!AtMostOneAcceptance
  <2> QED
    BY <2>1, <2>2 DEF DeliveryInv, OwnInv, DeliveryIsConsistent
<1> QED
  BY <1>1, DeliveryAlways, PTL

\* An invoice that reads sent was taken by the provider, or its own history
\* says that it was sent before.
THEOREM SentInvoiceWasTaken == Spec => []SentWasAccepted
<1>1. DeliveryInv => SentWasAccepted
  BY DEF DeliveryInv, BillInv
<1> QED
  BY <1>1, DeliveryAlways, PTL

\* While no cycle stalls for as long as the sweep waits, an edit at any point
\* of the rendering, queueing or sending leaves no mail of an older content
\* that is, or may still be, sent.
THEOREM NoStaleMail == ASSUME MaxStalls = 0 PROVE Spec => []MailIsCurrent
<1>1. DeliveryInv => MailIsCurrent
  BY DEF DeliveryInv
<1> QED
  BY <1>1, DeliveryAlways, PTL
=============================================================================
