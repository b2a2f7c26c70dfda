-------------------------- MODULE CredentialDomain --------------------------
(***************************************************************************)
(* packages/credential-domain/src/index.ts: presentation challenges with   *)
(* their replay store, and the cache of status lists, whose lookups race a *)
(* timer and overlap.                                                      *)
(*                                                                         *)
(* The transport and the status list behind it are external: a record is   *)
(* taken from the list at any moment of a request, expires within MaxAge,  *)
(* arrives at any later moment or never, and may be refused or malformed.  *)
(***************************************************************************)
EXTENDS CallSlots, Sequences

CONSTANTS
    Audiences, ChallengeValues,
    StatusUrls, BlockedUrls,       \* status lists; urls outside the bounded policy
    ChallengeTtl, Skew,            \* MAX_TTL_MS, CLOCK_SKEW_MS
    MaxAge,                        \* longest validity of a status record
    MaxDomainTime                  \* bound: the clock

\* Times are numbers, and undefined is none of the codes consume answers with.
ASSUME DomainAssumption ==
    /\ ChallengeTtl \in Nat /\ Skew \in Nat /\ MaxAge \in Nat /\ MaxDomainTime \in Nat
    /\ None \notin {"CHALLENGE_REUSED", "CHALLENGE_EXPIRED", "CHALLENGE_WRONG_AUDIENCE"}

VARIABLES
    domainTime,
    challenges,     \* InMemoryReplayStore: value -> StoredChallenge
    fates,       \* history: value -> verdicts but REUSED, in order
    statusList,     \* external: url -> [status, since when it is not valid]
    statusEntries,  \* StatusCache: url -> record
    lookups,        \* slot -> lookup under way
    lookedUp        \* history: the result a call just returned and what the call found, or None

challengeVars == <<challenges, fates>>
statusVars == <<statusList, statusEntries, lookups, lookedUp>>
domainVars == <<domainTime, challengeVars, statusVars>>
-----------------------------------------------------------------------------
(* Challenges                                                              *)

StoredChallenge ==
    [audience : Audiences, expiresAt : 0..(MaxDomainTime + ChallengeTtl), consumed : BOOLEAN]

\* createChallenge within the bounded policy, and issue. Values are random: a
\* collision throws.
CreateChallenge(value, audience, ttl) ==
    /\ value \notin DOMAIN challenges
    /\ challenges' = Put(challenges, value, [audience |-> audience, consumed |-> FALSE,
                                             expiresAt |-> domainTime + ttl])
    /\ fates' = Put(fates, value, <<>>)
    /\ UNCHANGED <<domainTime, statusVars>>

\* What consume answers, None when the challenge is accepted.
ConsumeVerdict(entry, audience) ==
    IF entry.consumed THEN "CHALLENGE_REUSED"
    ELSE IF domainTime > entry.expiresAt + Skew THEN "CHALLENGE_EXPIRED"
    ELSE IF entry.audience # audience THEN "CHALLENGE_WRONG_AUDIENCE"
    ELSE None

\* Mutant of VerifyChallenge: only an accepted challenge is marked.
VerifyMarksAccepted(value, audience) ==
    /\ value \in DOMAIN challenges
    /\ LET verdict == ConsumeVerdict(challenges[value], audience) IN
       /\ challenges' = [challenges EXCEPT ![value].consumed = @ \/ verdict = None]
       /\ fates' = IF verdict = "CHALLENGE_REUSED" THEN fates
                      ELSE [fates EXCEPT ![value] = Append(@, [verdict |-> verdict, audience |-> audience,
                                                                  at |-> domainTime])]
    /\ UNCHANGED <<domainTime, statusVars>>

\* verifyChallenge for an audience: every answer but CHALLENGE_UNKNOWN consumes.
VerifyChallenge(value, audience) ==
    /\ value \in DOMAIN challenges
    /\ LET verdict == ConsumeVerdict(challenges[value], audience) IN
       fates' = IF verdict = "CHALLENGE_REUSED" THEN fates
                   ELSE [fates EXCEPT ![value] = Append(@, [verdict |-> verdict, audience |-> audience,
                                                               at |-> domainTime])]
    /\ challenges' = [challenges EXCEPT ![value].consumed = TRUE]
    /\ UNCHANGED <<domainTime, statusVars>>
-----------------------------------------------------------------------------
(* The status cache                                                        *)

CredentialStatus == {"valid", "suspended", "revoked"}

StatusRecord == [status : CredentialStatus, expiresAt : 0..(MaxDomainTime + MaxAge)]

\* The status list changes; a revocation is final. A lookup under way may see it
\* valid again.
ListStatus(url, status) ==
    /\ statusList[url].status \notin {"revoked", status}
    /\ statusList' = [statusList EXCEPT ![url] =
          [status |-> status,
           since |-> IF status = "valid" THEN None
                     ELSE IF @.since = None THEN domainTime ELSE @.since]]
    /\ lookups' = [s \in DOMAIN lookups |->
                     IF lookups[s].url = url /\ status = "valid"
                     THEN [lookups[s] EXCEPT !.since = None] ELSE lookups[s]]
    /\ lookedUp' = None
    /\ UNCHANGED <<domainTime, challengeVars, statusEntries>>

\* boundedStatusUrl: https, no private host, no credentials.
BoundedStatusUrl(url) == url \notin BlockedUrls

Cached(url) == IF url \in DOMAIN statusEntries THEN statusEntries[url] ELSE None

\* A result with the list and the time its call found.
Result(call, ok, code) == [ok |-> ok, code |-> code, start |-> call.now, since |-> call.since]

Answer(s, ok, code) ==
    /\ lookedUp' = Result(lookups[s], ok, code)
    /\ lookups' = Drop(lookups, s)

\* lookup: a live cache entry answers, otherwise the list is asked.
Lookup(s, url) ==
    /\ s \notin DOMAIN lookups
    /\ LET call == [url |-> url, now |-> domainTime, cached |-> Cached(url), reply |-> None,
                    since |-> IF BoundedStatusUrl(url) THEN statusList[url].since ELSE None]
           hit == BoundedStatusUrl(url) /\ Cached(url) # None /\ Cached(url).expiresAt > domainTime
       IN  IF ~BoundedStatusUrl(url)
           THEN lookedUp' = Result(call, FALSE, "ssrf_blocked") /\ UNCHANGED lookups
           ELSE IF hit
           THEN /\ lookedUp' = Result(call, Cached(url).status = "valid", Cached(url).status)
                /\ UNCHANGED lookups
           ELSE lookups' = Put(lookups, s, call) /\ lookedUp' = None
    /\ UNCHANGED <<domainTime, challengeVars, statusList, statusEntries>>

\* The list serves a request; the record is on its way.
StatusServed(s, expiresAt) ==
    /\ s \in DOMAIN lookups /\ lookups[s].reply = None
    /\ domainTime < expiresAt /\ expiresAt <= domainTime + MaxAge
    /\ lookups' = [lookups EXCEPT ![s].reply = [status |-> statusList[lookups[s].url].status,
                                                expiresAt |-> expiresAt]]
    /\ lookedUp' = None
    /\ UNCHANGED <<domainTime, challengeVars, statusList, statusEntries>>

\* The record arrives before the timer: it is checked against the clock of the call
\* and replaces what the cache holds by then.
StatusArrives(s) ==
    /\ s \in DOMAIN lookups /\ lookups[s].reply # None
    /\ LET record == lookups[s].reply IN
       IF record.expiresAt <= lookups[s].now
       THEN Answer(s, FALSE, "invalid_response") /\ UNCHANGED statusEntries
       ELSE /\ Answer(s, record.status = "valid", record.status)
            /\ statusEntries' = Put(statusEntries, lookups[s].url, record)
    /\ UNCHANGED <<domainTime, challengeVars, statusList>>

\* Too long, no JSON, or an unknown status.
InvalidResponse(s) ==
    /\ s \in DOMAIN lookups
    /\ Answer(s, FALSE, "invalid_response")
    /\ UNCHANGED <<domainTime, challengeVars, statusList, statusEntries>>

\* Mutant of Unavailable: the stale entry decides.
UnavailableOk(s) ==
    LET cached == lookups[s].cached IN
    IF cached = None THEN Answer(s, FALSE, "unavailable")
    ELSE Answer(s, cached.status = "valid", "stale")

\* The list refuses, fails or comes too late: an entry the call found is only
\* reported as stale.
Unavailable(s) ==
    Answer(s, FALSE, IF lookups[s].cached = None THEN "unavailable" ELSE "stale")

TransportFails(s) ==
    /\ s \in DOMAIN lookups /\ Unavailable(s)
    /\ UNCHANGED <<domainTime, challengeVars, statusList, statusEntries>>

\* Mutant of LookupTimesOut: the timer does not reject the race.
NoTimer(s) == s \in DOMAIN lookups /\ UNCHANGED domainVars

LookupTimesOut(s) == TransportFails(s)
-----------------------------------------------------------------------------
DomainInit ==
    /\ domainTime = 0
    /\ challenges = EmptyMap /\ fates = EmptyMap
    /\ statusList = [u \in StatusUrls |-> [status |-> "valid", since |-> None]]
    /\ statusEntries = EmptyMap /\ lookups = EmptyMap /\ lookedUp = None

DomainTick ==
    /\ domainTime < MaxDomainTime
    /\ domainTime' = domainTime + 1 /\ lookedUp' = None
    /\ UNCHANGED <<challengeVars, statusList, statusEntries, lookups>>

ChallengeNext ==
    \E value \in ChallengeValues, audience \in Audiences :
       \/ VerifyChallenge(value, audience)
       \/ \E ttl \in 1..ChallengeTtl : CreateChallenge(value, audience, ttl)

StatusNext ==
    \/ \E url \in StatusUrls, status \in CredentialStatus : ListStatus(url, status)
    \/ \E s \in Slots :
          \/ StatusArrives(s) \/ InvalidResponse(s) \/ TransportFails(s) \/ LookupTimesOut(s)
          \/ \E url \in StatusUrls \cup BlockedUrls : Lookup(s, url)
          \/ \E expiresAt \in 1..(MaxDomainTime + MaxAge) : StatusServed(s, expiresAt)

DomainSpec == DomainInit /\ [][DomainTick \/ ChallengeNext \/ StatusNext]_domainVars

\* A timer fires; nothing else is promised.
StatusFairness == \A s \in Slots : WF_domainVars(LookupTimesOut(s))

DomainTypeOK ==
    /\ domainTime \in 0..MaxDomainTime
    /\ IsMap(challenges, ChallengeValues, StoredChallenge)
    /\ IsMap(statusEntries, StatusUrls, StatusRecord)
    /\ DOMAIN lookups \subseteq Slots
-----------------------------------------------------------------------------
\* A challenge has one fate: it is accepted, expired or refused once and reused from
\* then on, so an attempt by the wrong audience leaves nothing to the right one,
\* and an acceptance is by its audience and within its lifetime.
ChallengesHaveOneFate ==
    \A value \in DOMAIN fates :
       /\ Len(fates[value]) <= 1
       /\ \A i \in DOMAIN fates[value] : fates[value][i].verdict = None =>
             /\ fates[value][i].audience = challenges[value].audience
             /\ fates[value][i].at <= challenges[value].expiresAt + Skew

\* A list that stopped saying valid stops being believed: no lookup begun MaxAge or
\* more after that says valid, although lookups overlap, an older answer may replace
\* a newer one in the cache, and entries outlive the list's change.
RevocationTakesHold ==
    lookedUp # None /\ lookedUp.ok =>
        lookedUp.since = None \/ lookedUp.start < lookedUp.since + MaxAge

\* Every lookup ends, whether or not the transport ever answers.
LookupsEnd == \A s \in Slots : s \in DOMAIN lookups ~> s \notin DOMAIN lookups
=============================================================================
