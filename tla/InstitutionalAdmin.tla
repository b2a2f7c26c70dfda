------------------------- MODULE InstitutionalAdmin -------------------------
(***************************************************************************)
(* apps/admin-console/src/lib/institutional-issuer-admin.ts: the templates *)
(* and signer configurations of an institution, and who may change them.   *)
(* Every operation runs in one step; what is hard is the long way a        *)
(* template takes through drafts, reviews, rejections and edits.           *)
(***************************************************************************)
EXTENDS CallSlots

CONSTANTS
    AdminPrincipals,              \* InstitutionalAdminPrincipal records
    Tenants,
    TemplateIds,                  \* a template id with its version
    TemplateContents,             \* what passes ensureDraftShape
    AdminSigners

VARIABLES
    templates,                    \* <<tenant, template>> -> InstitutionalTemplate
    signerConfigs,                \* <<tenant, signer>> -> OpaqueSignerConfiguration
    approvals                     \* history: template -> content and principal of the
                                  \* last approval

adminVars == <<templates, signerConfigs, approvals>>
-----------------------------------------------------------------------------
InstitutionalAdminRole ==
    {"institutional-owner", "institutional-admin", "template-editor", "template-reviewer",
     "security-admin", "institutional-viewer"}

InstitutionalAdminScope ==
    {"templates:read", "templates:write", "templates:review", "templates:publish",
     "signers:read", "signers:write"}

InstitutionalRoleScopes ==
    [role \in InstitutionalAdminRole |->
        CASE role \in {"institutional-owner", "institutional-admin"} -> InstitutionalAdminScope
          [] role = "template-editor" -> {"templates:read", "templates:write"}
          [] role = "template-reviewer" ->
                {"templates:read", "templates:review", "templates:publish"}
          [] role = "security-admin" -> {"templates:read", "signers:read", "signers:write"}
          [] role = "institutional-viewer" -> {"templates:read", "signers:read"}]

\* scopes = None: the session is not delegated.
HasInstitutionalScope(p, scope) ==
    /\ scope \in InstitutionalRoleScopes[p.role]
    /\ p.scopes # None => scope \in p.scopes

AuthorizeInstitutional(p, scope, tenant) ==
    p.tenantId = tenant /\ HasInstitutionalScope(p, scope)

TemplateStatus == {"draft", "in_review", "approved", "published", "deprecated"}

PrincipalIds == {p.principalId : p \in AdminPrincipals}

\* content is None when a patch has set a field to undefined.
InstitutionalTemplate ==
    [status : TemplateStatus, content : TemplateContents \cup {None},
     updatedBy : PrincipalIds, reviewedBy : PrincipalIds \cup {None}]

OpaqueSignerConfiguration == [status : {"active", "standby", "disabled"}]

EnsureDraftShape(content) == content \in TemplateContents

AdminInit == templates = EmptyMap /\ signerConfigs = EmptyMap /\ approvals = EmptyMap

\* find, after authorizeInstitutional.
Found(p, scope, k) == AuthorizeInstitutional(p, scope, k[1]) /\ k \in DOMAIN templates

CreateDraft(p, k, content) ==
    /\ AuthorizeInstitutional(p, "templates:write", k[1])
    /\ EnsureDraftShape(content)
    /\ k \notin DOMAIN templates
    /\ templates' = Put(templates, k, [status |-> "draft", content |-> content,
                                       updatedBy |-> p.principalId, reviewedBy |-> None])
    /\ UNCHANGED <<signerConfigs, approvals>>

\* Mutant of Editable: a template may be edited until it is published.
EditableUntilPublished(t) == t.status \in {"draft", "in_review", "approved"}

Editable(t) == t.status = "draft"

\* updateDraft checks the patched template with the current value in the place of
\* an undefined field, and then spreads the patch, undefined fields included.
UpdateDraft(p, k, patch) ==
    /\ Found(p, "templates:write", k) /\ Editable(templates[k])
    /\ EnsureDraftShape(IF patch = None THEN templates[k].content ELSE patch)
    /\ templates' = [templates EXCEPT ![k].content = patch, ![k].updatedBy = p.principalId]
    /\ UNCHANGED <<signerConfigs, approvals>>

\* replace: the status and who set it.
Replace(p, k, status) ==
    templates' = [templates EXCEPT ![k].status = status, ![k].updatedBy = p.principalId]

SubmitForReview(p, k) ==
    /\ Found(p, "templates:write", k) /\ templates[k].status = "draft"
    /\ Replace(p, k, "in_review")
    /\ UNCHANGED <<signerConfigs, approvals>>

\* A rejection, which takes a reason, makes the template a draft again.
ReviewTemplate(p, k, decision) ==
    /\ Found(p, "templates:review", k) /\ templates[k].status = "in_review"
    /\ templates' = [templates EXCEPT
                        ![k].status = IF decision = "approved" THEN "approved" ELSE "draft",
                        ![k].reviewedBy = p.principalId, ![k].updatedBy = p.principalId]
    /\ approvals' = IF decision = "approved"
                    THEN Put(approvals, k, [content |-> templates[k].content, by |-> p])
                    ELSE approvals
    /\ UNCHANGED signerConfigs

Publish(p, k) ==
    /\ Found(p, "templates:publish", k) /\ templates[k].status = "approved"
    /\ Replace(p, k, "published")
    /\ UNCHANGED <<signerConfigs, approvals>>

Deprecate(p, k) ==
    /\ Found(p, "templates:publish", k) /\ templates[k].status = "published"
    /\ Replace(p, k, "deprecated")
    /\ UNCHANGED <<signerConfigs, approvals>>

\* register: an opaque key reference, standby unless the input says otherwise.
RegisterSigner(p, k, status) ==
    /\ AuthorizeInstitutional(p, "signers:write", k[1])
    /\ k \notin DOMAIN signerConfigs
    /\ signerConfigs' = Put(signerConfigs, k,
                            [status |-> IF status = None THEN "standby" ELSE status])
    /\ UNCHANGED <<templates, approvals>>

\* setStatus reads through get, so it takes the right to read as well.
SetSignerStatus(p, k, status) ==
    /\ AuthorizeInstitutional(p, "signers:write", k[1])
    /\ AuthorizeInstitutional(p, "signers:read", k[1])
    /\ k \in DOMAIN signerConfigs
    /\ signerConfigs' = [signerConfigs EXCEPT ![k].status = status]
    /\ UNCHANGED <<templates, approvals>>

AdminNext ==
    \E p \in AdminPrincipals :
        \/ \E k \in Tenants \X TemplateIds :
              \/ \E content \in TemplateContents : CreateDraft(p, k, content)
              \/ \E patch \in TemplateContents \cup {None} : UpdateDraft(p, k, patch)
              \/ SubmitForReview(p, k) \/ Publish(p, k) \/ Deprecate(p, k)
              \/ \E decision \in {"approved", "rejected"} : ReviewTemplate(p, k, decision)
        \/ \E k \in Tenants \X AdminSigners :
              \/ \E status \in {"active", "disabled", None} : RegisterSigner(p, k, status)
              \/ \E status \in {"active", "standby", "disabled"} : SetSignerStatus(p, k, status)

AdminSpec == AdminInit /\ [][AdminNext]_adminVars

AdminTypeOK ==
    /\ IsMap(templates, Tenants \X TemplateIds, InstitutionalTemplate)
    /\ IsMap(signerConfigs, Tenants \X AdminSigners, OpaqueSignerConfiguration)
-----------------------------------------------------------------------------
\* What is approved, published or deprecated is, to the last edit, what a
\* principal with the right to review in that tenant approved, and the template
\* names that principal, however often it was rejected and edited before.
PublishedAsReviewed ==
    \A k \in DOMAIN templates :
        templates[k].status \in {"approved", "published", "deprecated"} =>
            /\ k \in DOMAIN approvals
            /\ approvals[k].content = templates[k].content
            /\ approvals[k].by.principalId = templates[k].reviewedBy
            /\ AuthorizeInstitutional(approvals[k].by, "templates:review", k[1])
=============================================================================
