-------------------------- MODULE IssuerLifecycle --------------------------
(***************************************************************************)
(* apps/admin-console/src/issuer/lifecycle.ts: the console's controller    *)
(* for reviews, offers, bulk issuance and the dangerous operations.  It    *)
(* reads a session, decides, and asks the issuer service to act, with an   *)
(* await between: other principals review and issue meanwhile.             *)
(*                                                                         *)
(* LifecycleApi is the issuer service as IssuerService describes it, whose *)
(* answer may be lost after it has acted.  The service takes the session   *)
(* id of the caller and reads no idempotency key.                          *)
(***************************************************************************)
EXTENDS CallSlots, Sequences

CONSTANTS
    IssuerAdmins,                 \* IssuerAdminPrincipal records
    LcSessionIds, LcRequests,     \* sessions; issuance inputs
    MaxBulkRows,
    LcCredentials,
    LcApprovals,                  \* approvals the reviewer policy asks for
    LcTtl, MaxLcTime              \* lifetime of a session; bound: time

ASSUME LifecycleAssumption == MaxBulkRows \in Nat /\ LcTtl \in Nat

VARIABLES
    lcNow,
    lcSessions,                   \* service: sessionId -> LifecycleSession
    lcCredentials,                \* service: credentialId -> status
    lcCalls,                      \* slot -> controller call under way
    offeredBy,                    \* history: session -> principal who had it offered
    fulfilled                     \* history: session -> the request of the row it was
                                  \* reported to, and how many rows it was reported to

lcVars == <<lcNow, lcSessions, lcCredentials, lcCalls, offeredBy, fulfilled>>
-----------------------------------------------------------------------------
IssuerAdminRole ==
    {"issuer-owner", "issuer-admin", "issuer-reviewer", "issuer-operator", "issuer-viewer"}

IssuerAdminScope ==
    {"review:read", "review:write", "issuance:write", "lifecycle:read", "lifecycle:write"}

IssuerRoleScopes ==
    [role \in IssuerAdminRole |->
        CASE role \in {"issuer-owner", "issuer-admin"} -> IssuerAdminScope
          [] role = "issuer-reviewer" -> {"review:read", "review:write"}
          [] role = "issuer-operator" -> IssuerAdminScope \ {"review:write"}
          [] role = "issuer-viewer" -> {"review:read", "lifecycle:read"}]

\* authorizeIssuerAdmin, for the principal's own tenant: the only one the
\* controller asks the service for.
AuthorizeIssuerAdmin(p, scope) ==
    /\ scope \in IssuerRoleScopes[p.role]
    /\ p.scopes # None => scope \in p.scopes

LifecycleReview ==
    [reviewerId : {p.principalId : p \in IssuerAdmins}, decision : {"approved", "rejected"}]

LifecycleSession ==
    [state : {"pending_review", "approved", "offered", "rejected"},
     reviews : SUBSET LifecycleReview, request : LcRequests, expiresAt : Nat]

LifecycleCredential == {"valid", "suspended", "revoked"}

LifecycleInit ==
    /\ lcNow = 0
    /\ lcSessions = EmptyMap
    /\ lcCredentials = [c \in LcCredentials |-> "valid"]
    /\ lcCalls = EmptyMap /\ offeredBy = EmptyMap /\ fulfilled = EmptyMap

LifecycleTick ==
    /\ lcNow < MaxLcTime /\ lcNow' = lcNow + 1
    /\ UNCHANGED <<lcSessions, lcCredentials, lcCalls, offeredBy, fulfilled>>
-----------------------------------------------------------------------------
(* The issuer service                                                      *)

Approved(reviews) == {r \in reviews : r.decision = "approved"}

\* One review per reviewer, while the session is pending and lives.
Reviewed(session, review) ==
    IF session.state # "pending_review" \/ session.expiresAt <= lcNow
       \/ \E r \in session.reviews : r.reviewerId = review.reviewerId
    THEN session
    ELSE LET reviews == session.reviews \cup {review} IN
         [session EXCEPT !.reviews = reviews,
                         !.state = CASE review.decision = "rejected" -> "rejected"
                                     [] Cardinality(Approved(reviews)) >= LcApprovals -> "approved"
                                     [] OTHER -> "pending_review"]

Offerable(session) == session.state = "approved" /\ lcNow < session.expiresAt

\* Mutant of Taken: a session is replaced by another of its id.
TakenNever(id) == FALSE

\* The service refuses a session id it has (SESSION_EXISTS).
Taken(id) == id \in DOMAIN lcSessions

NewSession(request) ==
    [state |-> "pending_review", reviews |-> {}, request |-> request, expiresAt |-> lcNow + LcTtl]
-----------------------------------------------------------------------------
(* IssuerLifecycleController                                               *)

ReviewedBy(session, p) == \E r \in session.reviews : r.reviewerId = p.principalId

\* review: the session has been read; it is pending and p has not reviewed it.
StartReview(s, p, id, decision) ==
    /\ s \notin DOMAIN lcCalls /\ id \in DOMAIN lcSessions
    /\ AuthorizeIssuerAdmin(p, "review:write")
    /\ lcSessions[id].state = "pending_review" /\ ~ReviewedBy(lcSessions[id], p)
    /\ lcCalls' = Put(lcCalls, s, [op |-> "review", by |-> p, id |-> id, decision |-> decision])
    /\ UNCHANGED <<lcNow, lcSessions, lcCredentials, offeredBy, fulfilled>>

ReviewArrives(s) ==
    /\ s \in DOMAIN lcCalls /\ lcCalls[s].op = "review"
    /\ LET c == lcCalls[s] IN
       lcSessions' = [lcSessions EXCEPT ![c.id] =
            Reviewed(@, [reviewerId |-> c.by.principalId, decision |-> c.decision])]
    /\ lcCalls' = Drop(lcCalls, s)
    /\ UNCHANGED <<lcNow, lcCredentials, offeredBy, fulfilled>>

\* issueApproved: approved, by others, and not expired.
MayIssue(session, p) ==
    session.state = "approved" /\ ~ReviewedBy(session, p) /\ lcNow < session.expiresAt

IssueApproved(s, p, id) ==
    /\ s \notin DOMAIN lcCalls /\ id \in DOMAIN lcSessions
    /\ AuthorizeIssuerAdmin(p, "issuance:write")
    /\ MayIssue(lcSessions[id], p)
    /\ lcCalls' = Put(lcCalls, s, [op |-> "offer", by |-> p, id |-> id])
    /\ UNCHANGED <<lcNow, lcSessions, lcCredentials, offeredBy, fulfilled>>

OfferArrives(s) ==
    /\ s \in DOMAIN lcCalls /\ lcCalls[s].op = "offer"
    /\ LET c == lcCalls[s] IN
       IF Offerable(lcSessions[c.id])
       THEN /\ lcSessions' = [lcSessions EXCEPT ![c.id].state = "offered"]
            /\ offeredBy' = Put(offeredBy, c.id, c.by)
       ELSE UNCHANGED <<lcSessions, offeredBy>>
    /\ lcCalls' = Drop(lcCalls, s)
    /\ UNCHANGED <<lcNow, lcCredentials, fulfilled>>

\* A row names the session it asks for.
BulkRows == [session : LcSessionIds, request : LcRequests]

BulkCreate(s, p, rows) ==
    /\ s \notin DOMAIN lcCalls
    /\ AuthorizeIssuerAdmin(p, "issuance:write")
    /\ Len(rows) \in 1..MaxBulkRows
    /\ lcCalls' = Put(lcCalls, s, [op |-> "bulk", rows |-> rows, index |-> 1])
    /\ UNCHANGED <<lcNow, lcSessions, lcCredentials, offeredBy, fulfilled>>

TimesFulfilled(id) == IF id \in DOMAIN fulfilled THEN fulfilled[id].times ELSE 0

\* The row at hand reaches the service, which refuses it or makes its session;
\* `answered` is whether the controller hears of it and reports the row fulfilled.  A
\* row that fails does not stop the others, nor does one that is refused because it
\* was made by a call whose answer was lost.
BulkRow(s, answered) ==
    /\ s \in DOMAIN lcCalls /\ lcCalls[s].op = "bulk"
    /\ LET c == lcCalls[s]
           row == c.rows[c.index]
           made == ~Taken(row.session)
       IN /\ lcSessions' = IF made THEN Put(lcSessions, row.session, NewSession(row.request))
                           ELSE lcSessions
          /\ fulfilled' = IF made /\ answered
                          THEN Put(fulfilled, row.session,
                                   [request |-> row.request,
                                    times |-> TimesFulfilled(row.session) + 1])
                          ELSE fulfilled
          /\ lcCalls' = IF c.index = Len(c.rows) THEN Drop(lcCalls, s)
                        ELSE [lcCalls EXCEPT ![s].index = @ + 1]
    /\ UNCHANGED <<lcNow, lcCredentials, offeredBy>>

\* The row never reaches the service.
BulkRowFails(s) ==
    /\ s \in DOMAIN lcCalls /\ lcCalls[s].op = "bulk"
    /\ lcCalls' = IF lcCalls[s].index = Len(lcCalls[s].rows) THEN Drop(lcCalls, s)
                  ELSE [lcCalls EXCEPT ![s].index = @ + 1]
    /\ UNCHANGED <<lcNow, lcSessions, lcCredentials, offeredBy, fulfilled>>

\* dangerous: step-up of the principal and in the confirmation, and a confirmation.
MayEndanger(p, confirmation) ==
    /\ AuthorizeIssuerAdmin(p, "lifecycle:write")
    /\ p.reauthenticated /\ confirmation.reauthenticated
    /\ confirmation.confirmed

Suspend(p, c, confirmation) ==
    /\ MayEndanger(p, confirmation) /\ lcCredentials[c] = "valid"
    /\ lcCredentials' = [lcCredentials EXCEPT ![c] = "suspended"]
    /\ UNCHANGED <<lcNow, lcSessions, lcCalls, offeredBy, fulfilled>>

Revoke(p, c, confirmation) ==
    /\ MayEndanger(p, confirmation) /\ lcCredentials[c] # "revoked"
    /\ lcCredentials' = [lcCredentials EXCEPT ![c] = "revoked"]
    /\ UNCHANGED <<lcNow, lcSessions, lcCalls, offeredBy, fulfilled>>

Reissue(p, c, confirmation, id, request) ==
    /\ MayEndanger(p, confirmation) /\ ~Taken(id)
    /\ lcSessions' = Put(lcSessions, id, NewSession(request))
    /\ UNCHANGED <<lcNow, lcCredentials, lcCalls, offeredBy, fulfilled>>

DangerousConfirmation == [reauthenticated : BOOLEAN, confirmed : BOOLEAN]

BulkRequests == UNION {[1..n -> BulkRows] : n \in 1..MaxBulkRows}

ReissueNext ==
    \E p \in IssuerAdmins, c \in LcCredentials, confirmation \in DangerousConfirmation :
        \E id \in LcSessionIds, request \in LcRequests :
            Reissue(p, c, confirmation, id, request)

DecisionNext ==
    \/ LifecycleTick
    \/ \E s \in Slots, p \in IssuerAdmins, id \in LcSessionIds :
          \/ \E decision \in {"approved", "rejected"} : StartReview(s, p, id, decision)
          \/ IssueApproved(s, p, id)
    \/ \E s \in Slots : ReviewArrives(s) \/ OfferArrives(s)
    \/ \E p \in IssuerAdmins, c \in LcCredentials, confirmation \in DangerousConfirmation :
          Suspend(p, c, confirmation) \/ Revoke(p, c, confirmation)
    \/ ReissueNext

BulkNext ==
    \E s \in Slots :
        \/ \E p \in IssuerAdmins, rows \in BulkRequests : BulkCreate(s, p, rows)
        \/ \E answered \in BOOLEAN : BulkRow(s, answered)
        \/ BulkRowFails(s)

LifecycleSpec == LifecycleInit /\ [][DecisionNext \/ BulkNext]_lcVars

LifecycleTypeOK ==
    /\ IsMap(lcSessions, LcSessionIds, LifecycleSession)
    /\ IsMap(lcCredentials, LcCredentials, LifecycleCredential)
    /\ DOMAIN lcCalls \subseteq Slots
-----------------------------------------------------------------------------
\* Nobody has a session offered that they reviewed, while reviews and offers of
\* several principals overlap, and what is offered has the approvals of the policy.
ReviewersDoNotIssue ==
    \A id \in DOMAIN offeredBy :
        /\ ~ReviewedBy(lcSessions[id], offeredBy[id])
        /\ Cardinality(Approved(lcSessions[id].reviews)) >= LcApprovals

\* A session is reported as created to one row at most, whatever rows of the same
\* call, of overlapping calls, of repeats after lost answers and reissues ask for it,
\* and it holds the request of that row.  A repeat of a row whose answer was lost is
\* reported as rejected, though its session is there: nothing is promised against that.
BulkRowsAreSessions ==
    \A id \in DOMAIN fulfilled :
        /\ fulfilled[id].times = 1
        /\ id \in DOMAIN lcSessions /\ lcSessions[id].request = fulfilled[id].request
=============================================================================
