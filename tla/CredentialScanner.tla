-------------------------- MODULE CredentialScanner --------------------------
(***************************************************************************)
(* packages/credential-scanner/src/index.ts: what a scanned code is, and   *)
(* the one-time boundary of offline codes; the scanner of the identity SDK *)
(* (packages/identity-sdk/src/scanner/index.ts), which accepts a scan of   *)
(* one kind, and the duplicate gate of the admin console                   *)
(* (apps/admin-console/src/scanner/input.ts).  Every call is synchronous.  *)
(***************************************************************************)
EXTENDS CallSlots, Sequences

CONSTANTS
    ScanTokens,                    \* offline envelopes as text
    GateInputs, GateEntries,       \* inputs of the gate, maxEntries of SingleUseScanGate
    MaxTokenIssues, MaxScanTime    \* bounds: issues of a token, the clock

\* The console makes its gate for 256 inputs.
ASSUME GateAssumption == GateEntries \in Nat \ {0}

VARIABLES
    scanTime,
    issuedTokens,   \* InMemoryReplayTokenBoundary: token -> expiresAt, None without one
    consumedTokens, \* InMemoryReplayTokenBoundary: tokens consumed since their issue
    gate,           \* SingleUseScanGate: inputs seen, oldest first
    issuesOf,       \* history: token -> times issued
    acceptsOf,      \* history: token -> times a scan of it was accepted
    sinceSeen       \* history: token -> distinct inputs the gate took since

scanVars == <<scanTime, issuedTokens, consumedTokens, gate, issuesOf, acceptsOf, sinceSeen>>
-----------------------------------------------------------------------------
Kinds == {"issuance", "presentation", "offline"}

\* A scanned input: whether it is a readable uri of bounded size, its scheme, the
\* parameters that name an inline or a remote payload, whether the payload has its
\* form, and whether the caller trusts the remote uri.
ScanInput ==
    [readable : BOOLEAN, scheme : Kinds \cup {"other"}, inline : BOOLEAN, remote : BOOLEAN,
     wellFormed : BOOLEAN, trusted : BOOLEAN, token : ScanTokens]

\* toInput and parseUri: text of bounded size, without control characters,
\* credentials or fragment.
ReadableUri(input) == input.readable

\* validateCredentialOffer, a strict reader of JSON without duplicate keys;
\* validateCompactRequest, three encoded parts.
PayloadValid(input) == input.wellFormed

\* requireHttpsUrl: the remote uri is https and on the caller's list.
RemoteTrusted(input) == input.trusted

\* parseIssuance and parsePresentation: exactly one of the two parameters.
ParsesExchange(input) ==
    /\ input.inline # input.remote
    /\ IF input.inline THEN PayloadValid(input) ELSE RemoteTrusted(input)

\* parseOffline up to the replay boundary: the path is one encoded envelope.
ParsesOffline(input) == PayloadValid(input)

\* consume of the boundary: issued, not expired; a token that was not issued is
\* refused.
Consumes(token) ==
    /\ token \in DOMAIN issuedTokens
    /\ issuedTokens[token] # None => scanTime < issuedTokens[token]

\* parseCredentialInput, of any kind.
ParseCredentialInput(input) ==
    /\ ReadableUri(input)
    /\ \/ input.scheme \in {"issuance", "presentation"} /\ ParsesExchange(input)
       \/ input.scheme = "offline" /\ ParsesOffline(input) /\ Consumes(input.token)

ScannerInit ==
    /\ scanTime = 0 /\ issuedTokens = EmptyMap /\ consumedTokens = {} /\ gate = <<>>
    /\ issuesOf = [t \in ScanTokens |-> 0] /\ acceptsOf = [t \in ScanTokens |-> 0]
    /\ sinceSeen = EmptyMap

ScanTick ==
    /\ scanTime < MaxScanTime
    /\ scanTime' = scanTime + 1
    /\ UNCHANGED <<issuedTokens, consumedTokens, gate, issuesOf, acceptsOf, sinceSeen>>

\* issue: a token that was consumed may be used once more.
IssueToken(token, expiresAt) ==
    /\ issuesOf[token] < MaxTokenIssues
    /\ issuedTokens' = Put(issuedTokens, token, expiresAt)
    /\ consumedTokens' = consumedTokens \ {token}
    /\ issuesOf' = [issuesOf EXCEPT ![token] = @ + 1]
    /\ UNCHANGED <<scanTime, gate, acceptsOf, sinceSeen>>

\* Mutant of Spend: the issue is not withdrawn.
SpendAccepted(token) ==
    IF Consumes(token)
    THEN consumedTokens' = consumedTokens \cup {token} /\ UNCHANGED issuedTokens
    ELSE UNCHANGED <<issuedTokens, consumedTokens>>

\* The state consume leaves: the token is no longer issued, even when it expired.
Spend(token) ==
    /\ issuedTokens' = Drop(issuedTokens, token)
    /\ consumedTokens' = IF Consumes(token) THEN consumedTokens \cup {token} ELSE consumedTokens

\* parse and accept of the SDK: the token of an offline code is spent before the
\* kind is compared.
AcceptScan(input, expectedKind) ==
    /\ IF ReadableUri(input) /\ input.scheme = "offline" /\ ParsesOffline(input)
       THEN Spend(input.token)
       ELSE UNCHANGED <<issuedTokens, consumedTokens>>
    /\ acceptsOf' = IF /\ ParseCredentialInput(input) /\ input.scheme = "offline"
                       /\ expectedKind \in {None, "offline"}
                    THEN [acceptsOf EXCEPT ![input.token] = @ + 1]
                    ELSE acceptsOf
    /\ UNCHANGED <<scanTime, gate, issuesOf, sinceSeen>>
-----------------------------------------------------------------------------
(* SingleUseScanGate                                                       *)

Seen(token) == \E i \in DOMAIN gate : gate[i] = token

\* accept: the oldest input is forgotten when the gate is full.
GateAccepts(token) ==
    /\ ~Seen(token)
    /\ gate' = Append(IF Len(gate) >= GateEntries THEN Tail(gate) ELSE gate, token)
    /\ sinceSeen' = Put([t \in DOMAIN sinceSeen |-> sinceSeen[t] \cup {token}], token, {})
    /\ UNCHANGED <<scanTime, issuedTokens, consumedTokens, issuesOf, acceptsOf>>

TokenNext ==
    \/ ScanTick
    \/ \E token \in ScanTokens, expiresAt \in (1..MaxScanTime) \cup {None} : IssueToken(token, expiresAt)
    \/ \E input \in ScanInput, kind \in Kinds \cup {None} : AcceptScan(input, kind)

GateNext == \E input \in GateInputs : GateAccepts(input)

ScannerSpec == ScannerInit /\ [][TokenNext \/ GateNext]_scanVars

ScannerTypeOK ==
    /\ DOMAIN issuedTokens \subseteq ScanTokens /\ consumedTokens \subseteq ScanTokens
    /\ Len(gate) <= GateEntries
-----------------------------------------------------------------------------
\* An offline code is accepted at most as often as it was issued, and an issue that
\* is outstanding or lost to expiry is not also an acceptance; a duplicate passes the
\* gate only after as many other inputs as the gate holds.
ScansAreOneTime ==
    /\ \A t \in ScanTokens :
          acceptsOf[t] + (IF t \in DOMAIN issuedTokens THEN 1 ELSE 0) <= issuesOf[t]
    /\ \A t \in DOMAIN sinceSeen : ~Seen(t) => Cardinality(sinceSeen[t]) >= GateEntries
=============================================================================
