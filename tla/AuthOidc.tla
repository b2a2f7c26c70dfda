------------------------------ MODULE AuthOidc ------------------------------
(***************************************************************************)
(* packages/auth-oidc/src/index.ts: login with an OpenID provider.  A      *)
(* callback spends the state of the login, exchanges the code, checks the  *)
(* ID token against the nonce of that state and then finds, links or       *)
(* creates the account, with an await between all of these.                *)
(*                                                                         *)
(* The provider and the identity store are external.  A nonce is named     *)
(* after the state it was drawn with.                                      *)
(***************************************************************************)
EXTENDS CallSlots

CONSTANTS
    OidcProviders, OidcSubjects,
    OidcStateIds,                \* random, so never drawn twice
    OidcAccountIds,
    StateTtl, MaxOidcTime        \* bound: time

ASSUME OidcAssumption == StateTtl \in Nat /\ MaxOidcTime \in Nat

VARIABLES
    oidcNow,
    oidcStates,                  \* state -> OidcState
    oidcAccounts,                \* accountId -> OidcAccount
    oidcCalls,                   \* slot -> callback or unlink under way
    oidcLogins                   \* history: state -> its OidcState, how often it
                                 \* completed, and the last identity and account

oidcVars == <<oidcNow, oidcStates, oidcAccounts, oidcCalls, oidcLogins>>
-----------------------------------------------------------------------------
OidcIdentity == [issuer : OidcProviders, subject : OidcSubjects]

OidcState ==
    [provider : OidcProviders, expiresAt : 0..(MaxOidcTime + StateTtl), linking : BOOLEAN]

OidcAccount == [identities : SUBSET OidcIdentity, recoveryFactors : 0..1]

\* What an exchange may return: `sound` is audience, expiry, key and signature,
\* and that discovery and key set could be fetched within their limits.
IdToken ==
    [issuer : OidcProviders, nonce : OidcStateIds, subject : OidcSubjects, sound : BOOLEAN]

OidcInit ==
    /\ oidcNow = 0
    /\ oidcStates = EmptyMap /\ oidcAccounts = EmptyMap
    /\ oidcCalls = EmptyMap /\ oidcLogins = EmptyMap

OidcTick ==
    /\ oidcNow < MaxOidcTime /\ oidcNow' = oidcNow + 1
    /\ UNCHANGED <<oidcStates, oidcAccounts, oidcCalls, oidcLogins>>

\* startLogin
StartLogin(state, provider, linking) ==
    /\ state \notin DOMAIN oidcLogins
    /\ LET value == [provider |-> provider, expiresAt |-> oidcNow + StateTtl,
                     linking |-> linking] IN
       /\ oidcStates' = Put(oidcStates, state, value)
       /\ oidcLogins' = Put(oidcLogins, state, [made |-> value, done |-> 0,
                                                identity |-> None, account |-> None,
                                                signedIn |-> None])
    /\ UNCHANGED <<oidcNow, oidcAccounts, oidcCalls>>

\* callback: the state is gone whatever comes of the rest.
Callback(s, provider, state, authenticated) ==
    /\ s \notin DOMAIN oidcCalls /\ state \in DOMAIN oidcStates
    /\ oidcStates' = Drop(oidcStates, state)
    /\ LET value == oidcStates[state] IN
       oidcCalls' = IF oidcNow < value.expiresAt /\ value.provider = provider
                    THEN Put(oidcCalls, s, [pc |-> "token", state |-> state, made |-> value,
                                            authenticated |-> authenticated, identity |-> None])
                    ELSE oidcCalls
    /\ UNCHANGED <<oidcNow, oidcAccounts, oidcLogins>>

VerifyIdToken(token, issuer, nonce) ==
    token.sound /\ token.issuer = issuer /\ token.nonce = nonce

\* discovery, exchange and key set have answered.
TokenArrives(s, token) ==
    /\ s \in DOMAIN oidcCalls /\ oidcCalls[s].pc = "token"
    /\ LET c == oidcCalls[s] IN
       oidcCalls' = IF VerifyIdToken(token, c.made.provider, c.state)
                    THEN [oidcCalls EXCEPT ![s].pc = "find",
                            ![s].identity = [issuer |-> token.issuer, subject |-> token.subject,
                                             nonce |-> token.nonce]]
                    ELSE Drop(oidcCalls, s)
    /\ UNCHANGED <<oidcNow, oidcStates, oidcAccounts, oidcLogins>>

IdentityOf(c) == [issuer |-> c.identity.issuer, subject |-> c.identity.subject]

\* OidcIdentityStore.find may answer with any account that holds the identity.
Holders(identity) == {a \in DOMAIN oidcAccounts : identity \in oidcAccounts[a].identities}

LoggedIn(s, account) ==
    /\ LET c == oidcCalls[s]
           login == oidcLogins[c.state] IN
       oidcLogins' = [oidcLogins EXCEPT ![c.state] =
                        [login EXCEPT !.done = login.done + 1, !.identity = c.identity,
                                      !.account = account, !.signedIn = c.authenticated]]
    /\ oidcCalls' = Drop(oidcCalls, s)

\* The first find of a callback: an account is found, or is to be created, or the
\* identity is to be linked, unless another account has it.
FindIdentity(s, existing) ==
    /\ s \in DOMAIN oidcCalls /\ oidcCalls[s].pc = "find"
    /\ LET c == oidcCalls[s] IN
       /\ IF Holders(IdentityOf(c)) = {} THEN existing = None
                                         ELSE existing \in Holders(IdentityOf(c))
       /\ \/ /\ c.made.linking
             /\ oidcCalls' = IF c.authenticated # None /\ existing \in {None, c.authenticated}
                             THEN [oidcCalls EXCEPT ![s].pc = "attach"]
                             ELSE Drop(oidcCalls, s)
             /\ UNCHANGED oidcLogins
          \/ ~c.made.linking /\ existing # None /\ LoggedIn(s, existing)
          \/ /\ ~c.made.linking /\ existing = None
             /\ oidcCalls' = [oidcCalls EXCEPT ![s].pc = "create"]
             /\ UNCHANGED oidcLogins
    /\ UNCHANGED <<oidcNow, oidcStates, oidcAccounts>>

AttachIdentity(s) ==
    /\ s \in DOMAIN oidcCalls /\ oidcCalls[s].pc = "attach"
    /\ oidcCalls[s].authenticated \in DOMAIN oidcAccounts
    /\ oidcAccounts' = [oidcAccounts EXCEPT ![oidcCalls[s].authenticated].identities =
                           @ \cup {IdentityOf(oidcCalls[s])}]
    /\ oidcCalls' = [oidcCalls EXCEPT ![s].pc = "linked"]
    /\ UNCHANGED <<oidcNow, oidcStates, oidcLogins>>

\* The find after attach: an unlink may have come between.
LinkedIdentity(s, account) ==
    /\ s \in DOMAIN oidcCalls /\ oidcCalls[s].pc = "linked"
    /\ LET holders == Holders(IdentityOf(oidcCalls[s])) IN
       \/ account \in holders /\ LoggedIn(s, account)
       \/ /\ holders = {} /\ account = None
          /\ oidcCalls' = Drop(oidcCalls, s)
          /\ UNCHANGED oidcLogins
    /\ UNCHANGED <<oidcNow, oidcStates, oidcAccounts>>

\* OidcIdentityStore.create; two callbacks that found nobody create two accounts.
CreateAccount(s, account, factors) ==
    /\ s \in DOMAIN oidcCalls /\ oidcCalls[s].pc = "create"
    /\ account \notin DOMAIN oidcAccounts
    /\ oidcAccounts' = Put(oidcAccounts, account, [identities |-> {IdentityOf(oidcCalls[s])},
                                                   recoveryFactors |-> factors])
    /\ LoggedIn(s, account)
    /\ UNCHANGED <<oidcNow, oidcStates>>

\* unlink, by an authenticated factor, of an account with another way back.
Unlink(s, account, identity) ==
    /\ s \notin DOMAIN oidcCalls
    /\ account \in Holders(identity) /\ oidcAccounts[account].recoveryFactors >= 1
    /\ oidcCalls' = Put(oidcCalls, s, [pc |-> "detach", account |-> account,
                                       identity |-> identity])
    /\ UNCHANGED <<oidcNow, oidcStates, oidcAccounts, oidcLogins>>

DetachIdentity(s) ==
    /\ s \in DOMAIN oidcCalls /\ oidcCalls[s].pc = "detach"
    /\ LET c == oidcCalls[s] IN
       oidcAccounts' = [oidcAccounts EXCEPT ![c.account].identities = @ \ {c.identity}]
    /\ oidcCalls' = Drop(oidcCalls, s)
    /\ UNCHANGED <<oidcNow, oidcStates, oidcLogins>>

OidcNext ==
    \/ OidcTick
    \/ \E state \in OidcStateIds, provider \in OidcProviders, linking \in BOOLEAN :
          StartLogin(state, provider, linking)
    \/ \E s \in Slots :
          \/ \E provider \in OidcProviders, state \in OidcStateIds,
                authenticated \in DOMAIN oidcAccounts \cup {None} :
                Callback(s, provider, state, authenticated)
          \/ \E token \in IdToken : TokenArrives(s, token)
          \/ \E account \in OidcAccountIds \cup {None} :
                FindIdentity(s, account) \/ LinkedIdentity(s, account)
          \/ \E account \in OidcAccountIds, factors \in 0..1 : CreateAccount(s, account, factors)
          \/ \E account \in OidcAccountIds, identity \in OidcIdentity :
                Unlink(s, account, identity)
          \/ AttachIdentity(s) \/ DetachIdentity(s)

OidcSpec == OidcInit /\ [][OidcNext]_oidcVars

OidcTypeOK ==
    /\ IsMap(oidcStates, OidcStateIds, OidcState)
    /\ IsMap(oidcAccounts, OidcAccountIds, OidcAccount)
    /\ DOMAIN oidcCalls \subseteq Slots
-----------------------------------------------------------------------------
\* A state completes at most one login, with an identity of the provider it was
\* made for, shown by a token with its own nonce; and a login made for linking
\* never completes for a caller who was not signed in.
OidcOneTime ==
    \A state \in DOMAIN oidcLogins : LET l == oidcLogins[state] IN
        /\ l.done <= 1
        /\ l.done = 1 => /\ l.identity.issuer = l.made.provider
                         /\ l.identity.nonce = state
                         /\ l.made.linking => l.signedIn # None
=============================================================================
