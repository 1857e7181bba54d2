------------------------------- MODULE Access --------------------------------
(* One account, its sessions, and the requests that change either:           *)
(* authController.js, securityAuthController.js, mfaController.js,           *)
(* stepUpController.js, userController.js and the services they call, read   *)
(* together with the check of every request in middleware/auth.js.  Requests *)
(* run concurrently and interleave between their SQL statements; only what   *)
(* the code does in one transaction is one action.  A request may stop after *)
(* any of its statements.  Expiry of sessions, links and challenges only     *)
(* takes away what these actions may find, and is left out.                  *)
EXTENDS Naturals, FiniteSets

CONSTANTS Requests,      \* handlers that can be in progress at once
          SessionIds, LinkIds, ChallengeIds,
          TotpSteps,     \* 30-second steps of an authenticator, in order
          RecoveryCodes,
          MfaRoles,      \* of {"staff", "admin"}: requiresMfa
          LockAt,        \* wrong passwords that lock (10 in the code), counted to LockAt + 1
          MaxWrongCodes, \* wrong codes that end a challenge (5 in the code)
          MaxVersion     \* bound: session versions and passwords given out

ASSUME AccessAssumption ==
    /\ SessionIds \subseteq Nat /\ LinkIds \subseteq Nat /\ ChallengeIds \subseteq Nat
    /\ TotpSteps \subseteq Nat \ {0} /\ TotpSteps \cap RecoveryCodes = {}
    /\ MfaRoles \subseteq {"staff", "admin"}
    /\ LockAt \in Nat \ {0} /\ MaxWrongCodes \in Nat \ {0} /\ MaxVersion \in Nat \ {0}

VARIABLES
    account,      \* the users row
    sessions,     \* auth_sessions that are not revoked
    links,        \* auth_action_tokens neither used nor revoked
    challenges,   \* mfa_login_challenges not used
    totp,         \* user_mfa_totp and mfa_recovery_codes
    req,          \* the requests in progress
    barred,       \* an administrator closed the account and none reopened it
    spent         \* how often each proof has opened or raised a session

accessVars == <<account, sessions, links, challenges, totp, req, barred, spent>>
mfaVars == <<challenges, totp, spent>>

Closed == {"LOCKED", "SUSPENDED", "DISABLED", "TERMINATED"}
States == Closed \cup {"INVITED", "ACTIVE", "PASSWORD_RESET_REQUIRED", "MFA_SETUP_REQUIRED"}
Proofs == TotpSteps \cup RecoveryCodes
Idle == [at |-> "idle", version |-> 0, password |-> 0, fails |-> 0, session |-> 0, arg |-> ""]
NoTotp == [secret |-> FALSE, pending |-> FALSE, lastStep |-> 0, codes |-> {}]
Unspent == [p \in Proofs |-> 0]


\* A freshly invited account, or one a customer registered.
AccessInit ==
    /\ account \in [status : {"INVITED"}, active : {FALSE}, deleted : {FALSE}, role : {"staff", "admin"},
                    version : {1}, password : {0}, reset : {TRUE}, compromised : {FALSE},
                    mfa : {FALSE}, fails : {0}, locked : {FALSE}]
                \cup [status : {"ACTIVE"}, active : {TRUE}, deleted : {FALSE}, role : {"staff"},
                      version : {1}, password : {1}, reset : {FALSE}, compromised : {FALSE},
                      mfa : {FALSE}, fails : {0}, locked : {FALSE}]
    /\ sessions = {} /\ links = {} /\ challenges = {}
    /\ totp = NoTotp
    /\ req = [r \in Requests |-> Idle]
    /\ barred = FALSE
    /\ spent = Unspent

At(r, step) == req[r].at = step
Go(r, step) == req' = [req EXCEPT ![r].at = step]
Finish(r, step) == req' = [req EXCEPT ![r] = [Idle EXCEPT !.at = step]]
Done(r) == req' = [req EXCEPT ![r] = Idle]
Begin(r, step, session, arg) ==
    /\ req[r] = Idle
    /\ req' = [req EXCEPT ![r] = [Idle EXCEPT !.at = step, !.session = session, !.arg = arg]]

InUse == {s.id : s \in sessions} \cup {req[r].session : r \in Requests}
LeastOf(ids, taken) == {n \in ids \ taken : \A k \in ids \ taken : n <= k}
Known == ~account.deleted
Bumped == [account EXCEPT !.version = @ + 1]
CanBump == account.version < MaxVersion
-----------------------------------------------------------------------------
(* middleware/auth.js                                                        *)

\* Mutant: a session of an earlier version is still let in.
AcceptedAnyVersion(s) == Known /\ account.active /\ account.status \notin Closed
\* Mutant: the state is looked at, the active flag is not.
AcceptedByStatus(s) == Known /\ account.status \notin Closed /\ account.version = s.version
Accepted(s) ==
    Known /\ account.active /\ account.status \notin Closed /\ account.version = s.version

MfaRequired == account.role \in MfaRoles \/ account.mfa
Admitted(s) == Accepted(s) /\ (MfaRequired => s.level >= 2)
\* Enrolment is open to a session whose account still has to set MFA up.
AdmittedToSetup(s) == Accepted(s) /\ (account.mfa => s.level >= 2)
-----------------------------------------------------------------------------
(* Signing in.                                                               *)

\* login up to bcrypt.compare: the row is read once, and used until the end.
LoginRead(r) ==
    /\ Known /\ account.active /\ ~account.locked
    /\ account.status \notin Closed \cup {"INVITED", "PASSWORD_RESET_REQUIRED"}
    /\ req[r] = Idle /\ account.fails <= LockAt
    /\ \E row \in {[Idle EXCEPT !.at = "wrong password", !.fails = account.fails + 1],
                   IF ~MfaRequired
                   THEN [Idle EXCEPT !.at = "open session", !.version = account.version, !.password = account.password]
                   ELSE IF account.mfa THEN [Idle EXCEPT !.at = "end challenges", !.arg = "VERIFY"]
                   ELSE [Idle EXCEPT !.at = "require setup", !.arg = "SETUP"]} :
          req' = [req EXCEPT ![r] = row]
    /\ UNCHANGED <<account, sessions, links, mfaVars, totp, barred>>

LoginFailed(r) ==
    /\ At(r, "wrong password")
    /\ account' = [account EXCEPT !.fails = req[r].fails, !.locked = @ \/ req[r].fails >= LockAt]
    /\ Done(r)
    /\ UNCHANGED <<sessions, links, mfaVars, totp, barred>>

RequireSetup(r) ==
    /\ At(r, "require setup")
    /\ account' = [account EXCEPT !.status = "MFA_SETUP_REQUIRED"]
    /\ Go(r, "end challenges")
    /\ UNCHANGED <<sessions, links, mfaVars, totp, barred>>

\* issueLoginChallenge: two statements.
EndChallenges(r) ==
    /\ At(r, "end challenges")
    /\ challenges' = {}
    /\ Go(r, "new challenge")
    /\ UNCHANGED <<account, sessions, links, totp, barred, spent>>

NewChallenge(r) ==
    /\ At(r, "new challenge")
    /\ \E c \in LeastOf(ChallengeIds, {d.id : d \in challenges}) :
          challenges' = challenges \cup {[id |-> c, type |-> req[r].arg, attempts |-> 0]}
    /\ Done(r)
    /\ UNCHANGED <<account, sessions, links, totp, barred, spent>>

\* Mutant: the session takes the version the account has by now.
NewSessionNow(r, id) == [id |-> id, version |-> account.version, level |-> 1, password |-> req[r].password]
\* createAuthenticatedSession with the user row that was read
NewSession(r, id) ==
    [id |-> id, version |-> req[r].version, level |-> IF req[r].arg = "challenge" THEN 2 ELSE 1,
     password |-> req[r].password]

OpenSession(r) ==
    /\ At(r, "open session")
    /\ \E id \in LeastOf(SessionIds, InUse) : sessions' = sessions \cup {NewSession(r, id)}
    /\ Finish(r, "clear failures")
    /\ UNCHANGED <<account, links, mfaVars, totp, barred>>

ClearFailures(r) ==
    /\ At(r, "clear failures")
    /\ account' = [account EXCEPT !.fails = 0, !.locked = FALSE]
    /\ Done(r)
    /\ UNCHANGED <<sessions, links, mfaVars, totp, barred>>

\* locked_until passes
LockEnds ==
    /\ account.locked
    /\ account' = [account EXCEPT !.locked = FALSE]
    /\ UNCHANGED <<sessions, links, mfaVars, totp, req, barred>>
-----------------------------------------------------------------------------
(* The second factor.                                                        *)

Usable(c, type) == c.type = type /\ c.attempts < MaxWrongCodes
Attempt(c) == challenges' = (challenges \ {c}) \cup {[c EXCEPT !.attempts = @ + 1]}

BeginChallengeSetup(c) ==
    /\ Usable(c, "SETUP") /\ ~totp.pending
    /\ totp' = [totp EXCEPT !.pending = TRUE]
    /\ UNCHANGED <<account, sessions, links, challenges, req, barred, spent>>

\* completeChallengeSetup and completeAuthenticatedSetup, once the code fits:
\* a new secret, whose codes have not been used; the last used step stays.
Enrol ==
    /\ totp' = [totp EXCEPT !.secret = TRUE, !.pending = FALSE, !.codes = RecoveryCodes]
    /\ spent' = Unspent
    /\ account' = [account EXCEPT !.mfa = TRUE, !.status = "ACTIVE"]

ConfirmChallengeSetup(r, c) ==
    /\ req[r] = Idle /\ Usable(c, "SETUP")
    /\ \/ /\ Attempt(c)
          /\ UNCHANGED <<account, totp, spent, req>>
       \/ /\ totp.pending
          /\ Enrol
          /\ challenges' = challenges \ {c}
          /\ Begin(r, "load user", 0, "setup")
    /\ UNCHANGED <<sessions, links, barred>>

\* Mutant: any step of the authenticator that matches will do.
FitsAnyStep(proof) == totp.secret /\ proof \in TotpSteps
Fits(proof) == totp.secret /\ proof \in TotpSteps /\ proof > totp.lastStep
Spend(proof) ==
    /\ spent' = [spent EXCEPT ![proof] = @ + 1]
    /\ totp' = IF proof \in TotpSteps THEN [totp EXCEPT !.lastStep = proof]
                                      ELSE [totp EXCEPT !.codes = @ \ {proof}]

\* verifyLoginChallenge: a TOTP step or a recovery code, in one transaction.
VerifyLogin(r, c, proof) ==
    /\ req[r] = Idle /\ Usable(c, "VERIFY")
    /\ \/ /\ ~Fits(proof) /\ proof \notin totp.codes
          /\ Attempt(c)
          /\ UNCHANGED <<totp, spent, req>>
       \/ /\ Fits(proof) \/ proof \in totp.codes
          /\ Spend(proof)
          /\ challenges' = challenges \ {c}
          /\ Begin(r, "load user", 0, "challenge")
    /\ UNCHANGED <<account, sessions, links, barred>>

\* loadUser: only the active flag counts, and the version is the current one.
LoadUser(r) ==
    /\ At(r, "load user")
    /\ IF Known /\ account.active
       THEN req' = [req EXCEPT ![r].version = account.version, ![r].arg = "challenge",
                               ![r].at = IF req[r].arg = "setup" THEN "revoke, then open" ELSE "open session"]
       ELSE Done(r)
    /\ UNCHANGED <<account, sessions, links, mfaVars, totp, barred>>

RevokeThenOpen(r) ==
    /\ At(r, "revoke, then open")
    /\ sessions' = {}
    /\ Go(r, "open session")
    /\ UNCHANGED <<account, links, mfaVars, totp, barred>>
-----------------------------------------------------------------------------
(* A signed-in user.  The middleware and the handler's own reads come first, *)
(* the write follows; anything may happen to the account in between.         *)

Ask(r, s) ==
    /\ \/ Admitted(s) /\ (Begin(r, "change password", 0, "") \/ Begin(r, "end others", s.id, ""))
       \/ AdmittedToSetup(s) /\ \E step \in {"begin enrolment", "enrol"} : Begin(r, step, 0, "")
       \/ Admitted(s) /\ account.mfa /\ Begin(r, "step up", s.id, "")
       \/ Admitted(s) /\ totp.secret /\ Begin(r, "new codes", 0, "")
       \/ Admitted(s) /\ totp.secret /\ account.role \notin MfaRoles /\ Begin(r, "disable mfa", 0, "")
    /\ UNCHANGED <<account, sessions, links, mfaVars, totp, barred>>

\* Mutant: the version of the sessions is not raised.
PasswordChangedKeeps == [account EXCEPT !.password = @ + 1, !.reset = FALSE, !.status = "ACTIVE"]
PasswordChanged == [Bumped EXCEPT !.password = @ + 1, !.reset = FALSE, !.status = "ACTIVE"]

ChangePassword(r) ==
    /\ At(r, "change password") /\ CanBump
    /\ account' = PasswordChanged
    /\ Finish(r, "revoke sessions")
    /\ UNCHANGED <<sessions, links, mfaVars, totp, barred>>

\* revokeUserSessions, the last statement of several handlers
RevokeSessions(r) ==
    /\ At(r, "revoke sessions")
    /\ sessions' = {}
    /\ Done(r)
    /\ UNCHANGED <<account, links, mfaVars, totp, barred>>

BeginEnrolment(r) ==
    /\ At(r, "begin enrolment")
    /\ totp' = [totp EXCEPT !.pending = TRUE]
    /\ Done(r)
    /\ UNCHANGED <<account, sessions, links, challenges, barred, spent>>

ConfirmEnrolment(r) ==
    /\ At(r, "enrol")
    /\ IF totp.pending THEN Enrol /\ Finish(r, "revoke sessions")
                       ELSE Done(r) /\ UNCHANGED <<account, totp, spent>>
    /\ UNCHANGED <<sessions, links, challenges, barred>>

\* verifyAuthenticatedTotp, then markSessionStepUp
VerifyStepUp(r, proof) ==
    /\ At(r, "step up")
    /\ IF Fits(proof) THEN Spend(proof) /\ Go(r, "mark step-up")
                      ELSE Done(r) /\ UNCHANGED <<totp, spent>>
    /\ UNCHANGED <<account, sessions, links, challenges, barred>>

MarkStepUp(r) ==
    /\ At(r, "mark step-up")
    /\ sessions' = {IF s.id = req[r].session THEN [s EXCEPT !.level = 3] ELSE s : s \in sessions}
    /\ Done(r)
    /\ UNCHANGED <<account, links, mfaVars, totp, barred>>

NewCodes(r) ==
    /\ At(r, "new codes")
    /\ totp' = [totp EXCEPT !.codes = RecoveryCodes]
    /\ spent' = [p \in Proofs |-> IF p \in RecoveryCodes THEN 0 ELSE spent[p]]
    /\ Done(r)
    /\ UNCHANGED <<account, sessions, links, challenges, barred>>

DisableMfa(r) ==
    /\ At(r, "disable mfa") /\ CanBump
    /\ totp' = NoTotp /\ spent' = Unspent
    /\ account' = [Bumped EXCEPT !.mfa = FALSE]
    /\ Finish(r, "revoke sessions")
    /\ UNCHANGED <<sessions, links, challenges, barred>>

EndOthers(r) ==
    /\ At(r, "end others")
    /\ sessions' = {s \in sessions : s.id = req[r].session}
    /\ Done(r)
    /\ UNCHANGED <<account, links, mfaVars, totp, barred>>

\* logout, and revokeOwnSession of one session
EndSession(s) ==
    /\ sessions' = sessions \ {s}
    /\ UNCHANGED <<account, links, mfaVars, totp, req, barred>>
-----------------------------------------------------------------------------
(* Links that set a password.                                                *)

RequestPasswordReset(r) ==
    /\ Known /\ account.active /\ account.status \notin {"SUSPENDED", "DISABLED", "TERMINATED"}
    /\ Begin(r, "end links", 0, "PASSWORD_RESET")
    /\ UNCHANGED <<account, sessions, links, mfaVars, totp, barred>>

ResendInvitation(r) ==
    /\ Known /\ account.status = "INVITED"
    /\ Begin(r, "end links", 0, "INVITE")
    /\ UNCHANGED <<account, sessions, links, mfaVars, totp, barred>>

\* issueToken: two statements.
EndLinks(r) ==
    /\ At(r, "end links")
    /\ links' = {l \in links : l.type # req[r].arg}
    /\ Go(r, "new link")
    /\ UNCHANGED <<account, sessions, mfaVars, totp, barred>>

NewLink(r) ==
    /\ At(r, "new link")
    /\ \E n \in LeastOf(LinkIds, {l.id : l \in links}) :
          links' = links \cup {[id |-> n, type |-> req[r].arg, late |-> barred]}
    /\ Done(r)
    /\ UNCHANGED <<account, sessions, mfaVars, totp, barred>>

\* setPasswordFromToken
SetPassword(r, l) ==
    /\ Known /\ CanBump
    /\ links' = links \ {l}
    /\ account' = [PasswordChanged EXCEPT !.active = TRUE, !.compromised = FALSE, !.fails = 0, !.locked = FALSE]
    /\ barred' = FALSE
    /\ Begin(r, "revoke sessions", 0, "")
    /\ UNCHANGED <<sessions, mfaVars, totp>>
-----------------------------------------------------------------------------
(* Administrators.                                                           *)

Open == {"ACTIVE", "PASSWORD_RESET_REQUIRED", "MFA_SETUP_REQUIRED"}

\* Mutant: the sessions are revoked and the outstanding links are not.
RevokeOnlySessions == sessions' = {} /\ links' = links
RevokeEveryCredential == sessions' = {} /\ links' = {}

\* transitionAccount: changeAccountState, and markAccountCompromised to LOCKED
TransitionAccount(state, compromised) ==
    /\ Known /\ CanBump
    /\ state = "ACTIVE" => ~(account.compromised /\ account.reset)
    /\ account' = [Bumped EXCEPT !.status = state, !.active = (state \in Open),
                                 !.reset = @ \/ compromised \/ state = "PASSWORD_RESET_REQUIRED",
                                 !.compromised = @ \/ compromised, !.mfa = @ /\ ~compromised]
    /\ barred' = (state \notin Open)
    /\ IF state \notin Open \/ compromised \/ state = "PASSWORD_RESET_REQUIRED"
       THEN RevokeEveryCredential ELSE UNCHANGED <<sessions, links>>
    /\ IF compromised THEN totp' = NoTotp /\ spent' = Unspent ELSE UNCHANGED <<totp, spent>>
    /\ UNCHANGED <<challenges, req>>

\* revokeInvitation: revokeUserActionTokens and then the transition
RevokeInvitation ==
    /\ account.status = "INVITED"
    /\ TransitionAccount("DISABLED", FALSE)

StateAfterChange(role, active) ==
    IF ~active THEN "DISABLED"
    ELSE IF account.status = "INVITED" THEN "INVITED"
    ELSE IF role = "admin" /\ ~account.mfa THEN "MFA_SETUP_REQUIRED" ELSE "ACTIVE"

\* updateUser: one transaction on the locked row; without "active" in the
\* request the flag stays as it is.
UpdateUser(role, active) ==
    /\ Known /\ CanBump
    /\ account' = [Bumped EXCEPT !.role = role, !.active = active, !.status = StateAfterChange(role, active)]
    /\ IF active THEN sessions' = {} /\ links' = links ELSE RevokeEveryCredential
    /\ barred' = IF active = account.active THEN barred ELSE ~active
    /\ UNCHANGED <<mfaVars, totp, req>>

\* updateUserAccess: the row is read, then written in three statements.  The
\* step's name says what the first of them writes.
AccessStep(role, active) ==
    IF active THEN IF role = "admin" THEN "enable admin" ELSE "enable staff"
              ELSE IF role = "admin" THEN "disable admin" ELSE "disable staff"

ReadAccess(r, role, active) ==
    /\ Known
    /\ Begin(r, AccessStep(role, active), 0, StateAfterChange(role, active))
    /\ UNCHANGED <<account, sessions, links, mfaVars, totp, barred>>

WriteAccess(r, role, active) ==
    /\ At(r, AccessStep(role, active))
    /\ IF Known
       THEN /\ account' = [account EXCEPT !.role = role, !.active = active]
            /\ Go(r, IF active THEN "end access" ELSE "end all access")
            /\ barred' = (barred /\ ~active)
       ELSE Done(r) /\ UNCHANGED <<account, barred>>
    /\ UNCHANGED <<sessions, links, mfaVars, totp>>

RevokeAccess(r) ==
    /\ \/ At(r, "end access") /\ sessions' = {} /\ links' = links /\ barred' = barred
       \/ At(r, "end all access") /\ RevokeEveryCredential /\ barred' = (barred \/ ~account.active)
    /\ Go(r, "set state")
    /\ UNCHANGED <<account, mfaVars, totp>>

SetState(r) ==
    /\ At(r, "set state") /\ CanBump
    /\ account' = [Bumped EXCEPT !.status = req[r].arg]
    /\ Done(r)
    /\ UNCHANGED <<sessions, links, mfaVars, totp, barred>>

\* resetUserPassword, then the sessions and a link
ReadForReset(r) ==
    /\ Known /\ account.status \notin {"SUSPENDED", "DISABLED", "TERMINATED"}
    /\ Begin(r, "force reset", 0, "PASSWORD_RESET")
    /\ UNCHANGED <<account, sessions, links, mfaVars, totp, barred>>

ForceReset(r) ==
    /\ At(r, "force reset") /\ CanBump
    /\ IF Known
       THEN account' = [Bumped EXCEPT !.reset = TRUE, !.status = "PASSWORD_RESET_REQUIRED"] /\ Go(r, "revoke, then link")
       ELSE Done(r) /\ UNCHANGED account
    /\ UNCHANGED <<sessions, links, mfaVars, totp, barred>>

RevokeThenLink(r) ==
    /\ At(r, "revoke, then link")
    /\ sessions' = {}
    /\ Go(r, "end links")
    /\ UNCHANGED <<account, links, mfaVars, totp, barred>>

\* forceRevokeSessions
ForceRevoke(r) ==
    /\ Known
    /\ sessions' = {}
    /\ Begin(r, "raise version", 0, "")
    /\ UNCHANGED <<account, links, mfaVars, totp, barred>>

RaiseVersion(r) ==
    /\ At(r, "raise version") /\ CanBump
    /\ account' = Bumped
    /\ Done(r)
    /\ UNCHANGED <<sessions, links, mfaVars, totp, barred>>

DeleteUser(r) ==
    /\ Known
    /\ account' = [account EXCEPT !.deleted = TRUE, !.active = FALSE, !.password = 0, !.reset = FALSE]
    /\ Begin(r, "end deleted", 0, "")
    /\ UNCHANGED <<sessions, links, mfaVars, totp, barred>>

EndDeleted(r) ==
    /\ At(r, "end deleted")
    /\ RevokeEveryCredential
    /\ Done(r)
    /\ UNCHANGED <<account, mfaVars, totp, barred>>
-----------------------------------------------------------------------------
\* The process stops, or a statement fails: the rest of the handler never runs.
Abandon(r) ==
    /\ req[r] # Idle
    /\ Done(r)
    /\ UNCHANGED <<account, sessions, links, mfaVars, totp, barred>>

SignIn(r) ==
    \/ LoginRead(r) \/ LoginFailed(r) \/ RequireSetup(r) \/ EndChallenges(r) \/ NewChallenge(r)
    \/ OpenSession(r) \/ ClearFailures(r) \/ LoadUser(r) \/ RevokeThenOpen(r)
    \/ \E c \in challenges : ConfirmChallengeSetup(r, c) \/ \E p \in Proofs : VerifyLogin(r, c, p)

SignedIn(r) ==
    \/ \E s \in sessions : Ask(r, s)
    \/ ChangePassword(r) \/ RevokeSessions(r) \/ BeginEnrolment(r) \/ ConfirmEnrolment(r)
    \/ MarkStepUp(r) \/ NewCodes(r) \/ DisableMfa(r) \/ EndOthers(r)
    \/ \E p \in TotpSteps : VerifyStepUp(r, p)

Link(r) ==
    \/ RequestPasswordReset(r) \/ ResendInvitation(r) \/ EndLinks(r) \/ NewLink(r)
    \/ \E l \in links : SetPassword(r, l)

Administer(r) ==
    \/ \E role \in {"staff", "admin"}, active \in BOOLEAN : ReadAccess(r, role, active) \/ WriteAccess(r, role, active)
    \/ RevokeAccess(r) \/ SetState(r)
    \/ ReadForReset(r) \/ ForceReset(r) \/ RevokeThenLink(r)
    \/ ForceRevoke(r) \/ RaiseVersion(r)
    \/ DeleteUser(r) \/ EndDeleted(r)

AtOnce ==
    \/ LockEnds
    \/ \E c \in challenges : BeginChallengeSetup(c)
    \/ \E s \in sessions : EndSession(s)
    \/ \E state \in States : TransitionAccount(state, FALSE)
    \/ TransitionAccount("LOCKED", TRUE)
    \/ RevokeInvitation
    \/ \E role \in {"staff", "admin"}, active \in BOOLEAN : UpdateUser(role, active)

AccessNext ==
    \/ AtOnce
    \/ \E r \in Requests : SignIn(r) \/ SignedIn(r) \/ Link(r) \/ Administer(r) \/ Abandon(r)
AccessSpec == AccessInit /\ [][AccessNext]_accessVars
-----------------------------------------------------------------------------
AccessTypeOK ==
    /\ account \in [status : States, active : BOOLEAN, deleted : BOOLEAN, role : {"staff", "admin"},
                    version : 1..MaxVersion, password : 0..MaxVersion, reset : BOOLEAN, compromised : BOOLEAN,
                    mfa : BOOLEAN, fails : Nat, locked : BOOLEAN]
    /\ sessions \subseteq [id : SessionIds, version : 1..MaxVersion, level : 1..3, password : 0..MaxVersion]
    /\ links \subseteq [id : LinkIds, type : {"PASSWORD_RESET", "INVITE"}, late : BOOLEAN]
    /\ challenges \subseteq [id : ChallengeIds, type : {"SETUP", "VERIFY"}, attempts : 0..MaxWrongCodes]
    /\ totp \in [secret : BOOLEAN, pending : BOOLEAN, lastStep : TotpSteps \cup {0}, codes : SUBSET RecoveryCodes]
    /\ spent \in [Proofs -> Nat] /\ barred \in BOOLEAN

(* Changing or resetting the password ends every session that was opened     *)
(* with an earlier one, also of a login that had read the row before and     *)
(* opens its session afterwards.  (A session opened through an MFA challenge *)
(* is not tied to a password; its field is 0.)                               *)
PasswordIsCurrent ==
    \A s \in sessions : Accepted(s) /\ s.password # 0 => s.password = account.password

(* Every link issued before the account was closed is dead.                  *)
EarlierLinksAreDead == barred => \A l \in links : l.late

(* From the moment an administrator closed the account until one reopens it, *)
(* or a link sets a new password, no session is let in: not even when a      *)
(* login, an enrolment or a password change that was under way overwrites    *)
(* the account state, or another administrator's update was half done.  Nor  *)
(* does a link issued before let anyone set a password.                      *)
ClosedAccountsStayOut == (barred => \A s \in sessions : ~Accepted(s)) /\ EarlierLinksAreDead

(* A step of the authenticator and a recovery code are good for one sign-in  *)
(* or one step-up, also when two requests bring them at once.                *)
ProofsAreSpentOnce == \A p \in Proofs : spent[p] <= 1
=============================================================================
