------------------------------ MODULE MCAccess -------------------------------
(* A small instance of Access for TLC.                                       *)
EXTENDS Access, TLC

Symmetry == Permutations(Requests)

\* Password links, the second factor, failed sign-ins, a compromise, a second
\* session and a change of role are explored one at a time, each against
\* everything else that administrators and sessions do.  After a deletion only
\* the deletion is finished; the version changes at most once before a second
\* factor is in use, and not at all before a second session or a change of
\* role; enrolling anew has no other request beside it.
LinksUsed == links # {} \/ \E r \in Requests : req[r].at \in {"end links", "new link", "revoke, then link", "force reset"}
MfaUsed == challenges # {} \/ totp # NoTotp \/ \E r \in Requests : req[r].arg \in {"SETUP", "VERIFY", "setup", "challenge"}
FailuresUsed == account.fails > 0 \/ account.locked \/ \E r \in Requests : req[r].at = "wrong password"
Compromised == account.compromised
TwoSessions == Cardinality(sessions) > 1
\* An administrator is about to write another role than the account has.
RoleChanges ==
    \E r \in Requests : req[r].at \in IF account.role = "admin" THEN {"enable staff", "disable staff"}
                                                              ELSE {"enable admin", "disable admin"}
Focus ==
    /\ account.deleted => \A r \in Requests : req[r].at \in {"idle", "end deleted"}
    /\ account.version > 1 => ~TwoSessions /\ ~RoleChanges
    /\ account.version > 2 => ~MfaUsed
    /\ totp.secret /\ totp.pending => \A r \in Requests : req[r].at \in {"idle", "enrol"}
    /\ Cardinality({n \in 1..6 : <<LinksUsed, MfaUsed, FailuresUsed, Compromised, TwoSessions, RoleChanges>>[n]}) <= 1
=============================================================================
