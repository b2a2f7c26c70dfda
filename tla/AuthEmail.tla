------------------------------ MODULE AuthEmail ------------------------------
(***************************************************************************)
(* EmailOtpAuthService (packages/auth-email/src/index.ts): identities with *)
(* one address each, one-time codes sent to addresses, the sessions they   *)
(* open and the change of an identity's address.                           *)
(*                                                                         *)
(* Hashing and sending are awaits: a call is parked in `calls` meanwhile   *)
(* and others run.  An address and its subject hash are the same thing;    *)
(* whether a guess is right comes out when it is hashed.  Every call reads the    *)
(* service's clock and counts against the default rate key: the optional   *)
(* `now` and `rateLimitKey` of a caller are not used.                      *)
(***************************************************************************)
EXTENDS FiniteSets, JsMap

CONSTANTS
    Addresses, Identities, Principals, Challenges, Sessions,
    Slots,         \* slots for concurrent calls
    OtpTtl, SessionTtl, MaxAttempts, MaxRequests, RateWindow,   \* options
    MaxTime,       \* bound of the clock
    None

ASSUME AuthEmailAssumption ==
    /\ None \notin Addresses /\ None \notin Principals
    /\ Addresses \cap Principals = {}
    /\ OtpTtl \in Nat \ {0} /\ SessionTtl \in Nat \ {0}
    /\ MaxAttempts \in Nat \ {0} /\ MaxRequests \in Nat \ {0}
    /\ RateWindow \in Nat \ {0} /\ MaxTime \in Nat

VARIABLES
    now,
    identities, subjectIndex, challenges, sessions, revokedSessions, rates,
    calls          \* calls parked at an await

identityVars == <<identities, subjectIndex>>
sessionVars == <<sessions, revokedSessions>>
vars == <<now, identities, subjectIndex, challenges, sessions, revokedSessions,
          rates, calls>>
-----------------------------------------------------------------------------
Identity == [principal : Principals, address : Addresses]

\* Recovery codes are login codes by another name.
Purposes == {"login", "email-change"}

Challenge ==
    [purpose : Purposes, subject : Addresses, target : Addresses \cup {None},
     principal : Principals \cup {None}, expiresAt : Nat, attempts : Nat,
     verifying : BOOLEAN, consumed : BOOLEAN, delivered : BOOLEAN]

\* challenge is a history field: the code the session was opened with.
Session == [principal : Principals, expiresAt : Nat, challenge : Challenges]

\* Rates are limited by address, or by principal for a change.
RateKeys == Addresses \cup Principals

RegisterCall == [op : {"register"}, identity : Identities,
                 principal : Principals, address : Addresses]

\* owner is the principal of requestEmailChange, None for requestOtp.
RequestCall ==
    [op : {"request"}, pc : {"check", "subject", "salt", "send", "return"},
     address : Addresses, purpose : Purposes, owner : Principals \cup {None},
     principal : Principals \cup {None}, at : Nat, deliver : BOOLEAN,
     challenge : Challenges \cup {None}]

GuessCall == [op : {"verify", "confirm"}, challenge : Challenges,
              principal : Principals \cup {None}, at : Nat]

Init ==
    /\ now = 0
    /\ identities = EmptyMap /\ subjectIndex = EmptyMap
    /\ challenges = EmptyMap /\ sessions = EmptyMap /\ revokedSessions = {}
    /\ rates = EmptyMap /\ calls = EmptyMap

Tick ==
    /\ now < MaxTime
    /\ now' = now + 1
    /\ UNCHANGED <<identities, subjectIndex, challenges, sessions,
                   revokedSessions, rates, calls>>

Begin(k, call) == k \notin DOMAIN calls /\ calls' = Put(calls, k, call)

Return(k) == calls' = Drop(calls, k)
-----------------------------------------------------------------------------
(* Identities.                                                             *)

\* A registration of an id already taken ends without effect; it is left out.
RegisterIdentity(k, i, p, a) ==
    /\ i \notin DOMAIN identities
    /\ Begin(k, [op |-> "register", identity |-> i, principal |-> p,
                 address |-> a])
    /\ UNCHANGED <<now, identityVars, challenges, sessionVars, rates>>

\* The address was hashed: refused when it or the id is taken by now.
Registered(k) ==
    LET c == calls[k]
    IN  /\ c.op = "register"
        /\ IF c.address \in DOMAIN subjectIndex \/ c.identity \in DOMAIN identities
           THEN UNCHANGED identityVars
           ELSE /\ identities' = Put(identities, c.identity,
                      [principal |-> c.principal, address |-> c.address])
                /\ subjectIndex' = Put(subjectIndex, c.address, c.identity)
        /\ Return(k)
        /\ UNCHANGED <<now, challenges, sessionVars, rates>>

\* requireSession accepts the session.
Live(s) ==
    /\ s \in DOMAIN sessions /\ s \notin revokedSessions
    /\ now < sessions[s].expiresAt

SessionsOf(p) == {s \in DOMAIN sessions : sessions[s].principal = p}
-----------------------------------------------------------------------------
(* Asking for a code.                                                      *)

Request(k, pc, a, purpose, owner) ==
    /\ Begin(k, [op |-> "request", pc |-> pc, address |-> a, purpose |-> purpose,
                 owner |-> owner, principal |-> None, at |-> now,
                 deliver |-> FALSE, challenge |-> None])
    /\ UNCHANGED <<now, identityVars, challenges, sessionVars, rates>>

RequestOtp(k, a, purpose) == Request(k, "subject", a, purpose, None)

RequestEmailChange(k, s, a) ==
    /\ Live(s)
    /\ Request(k, "check", a, "email-change", sessions[s].principal)

\* The new address must be free when the change is asked for; requestOtp is
\* called then, and reads the clock itself.
ChangeChecked(k) ==
    LET c == calls[k]
    IN  /\ c.op = "request" /\ c.pc = "check"
        /\ IF c.address \in DOMAIN subjectIndex
           THEN Return(k)
           ELSE calls' = [calls EXCEPT ![k] = [c EXCEPT !.pc = "subject", !.at = now]]
        /\ UNCHANGED <<now, identityVars, challenges, sessionVars, rates>>

RateKey(c) == IF c.owner = None THEN c.address ELSE c.owner

\* A window starts with the first request, or when the last one is over.
NewWindow(key, at) ==
    \/ key \notin DOMAIN rates
    \/ at - rates[key].windowStart >= RateWindow

Allowed(key, at) == NewWindow(key, at) \/ rates[key].requests < MaxRequests

ConsumeRate(key, at) ==
    rates' = IF NewWindow(key, at)
             THEN Put(rates, key, [windowStart |-> at, requests |-> 1])
             ELSE IF Allowed(key, at)
             THEN [rates EXCEPT ![key].requests = @ + 1]
             ELSE rates

\* The address was hashed: whose it is, and whether a code will be sent, is
\* decided here.
SubjectHashed(k) ==
    LET c == calls[k]
        known == c.address \in DOMAIN subjectIndex
    IN  /\ c.op = "request" /\ c.pc = "subject"
        /\ ConsumeRate(RateKey(c), c.at)
        /\ calls' = [calls EXCEPT ![k] =
              [c EXCEPT !.pc = "salt",
                        !.deliver = Allowed(RateKey(c), c.at)
                                       /\ (known \/ c.owner # None),
                        !.principal =
                           IF c.purpose = "login" THEN None
                           ELSE IF known
                           THEN identities[subjectIndex[c.address]].principal
                           ELSE c.owner]]
        /\ UNCHANGED <<now, identityVars, challenges, sessionVars>>

\* requestOtp is done; requestEmailChange still has to name the target.
RequestDone(k, c) ==
    IF c.owner = None
    THEN Return(k)
    ELSE calls' = [calls EXCEPT ![k] = [c EXCEPT !.pc = "return"]]

\* The code was hashed: the challenge exists before the code is sent.
ChallengeStored(k, ch) ==
    LET c == [calls[k] EXCEPT !.challenge = ch]
    IN  /\ calls[k].op = "request" /\ calls[k].pc = "salt"
        /\ ch \notin DOMAIN challenges
        /\ challenges' = Put(challenges, ch,
              [purpose |-> c.purpose, subject |-> c.address, target |-> None,
               principal |-> c.principal, expiresAt |-> c.at + OtpTtl,
               attempts |-> 0, verifying |-> FALSE, consumed |-> FALSE,
               delivered |-> FALSE])
        /\ IF c.deliver
           THEN calls' = [calls EXCEPT ![k] = [c EXCEPT !.pc = "send"]]
           ELSE RequestDone(k, c)
        /\ UNCHANGED <<now, identityVars, sessionVars, rates>>

\* The transport answered.
Sent(k, delivered) ==
    LET c == calls[k]
    IN  /\ c.op = "request" /\ c.pc = "send"
        /\ challenges' = [challenges EXCEPT ![c.challenge].delivered = delivered]
        /\ RequestDone(k, c)
        /\ UNCHANGED <<now, identityVars, sessionVars, rates>>

ChangeRequested(k) ==
    LET c == calls[k]
    IN  /\ c.op = "request" /\ c.pc = "return"
        /\ challenges' = [challenges EXCEPT ![c.challenge] =
              [@ EXCEPT !.target = c.address, !.principal = c.owner]]
        /\ Return(k)
        /\ UNCHANGED <<now, identityVars, sessionVars, rates>>
-----------------------------------------------------------------------------
(* Guessing it.                                                            *)

\* Mutant of Guessable: a guess being hashed does not block another.
GuessableTwice(ch) == ch \in DOMAIN challenges /\ ~challenges[ch].consumed

Guessable(ch) ==
    /\ ch \in DOMAIN challenges
    /\ ~challenges[ch].consumed /\ ~challenges[ch].verifying

BeginGuess(k, op, ch, principal) ==
    /\ challenges' = [challenges EXCEPT ![ch] =
          [@ EXCEPT !.attempts = challenges[ch].attempts + 1, !.verifying = TRUE]]
    /\ Begin(k, [op |-> op, challenge |-> ch, principal |-> principal,
                 at |-> now])

\* A code that expired or was guessed at too often is spent at once.
Spend(ch) ==
    /\ challenges' = [challenges EXCEPT ![ch].consumed = TRUE]
    /\ UNCHANGED calls

VerifyOtp(k, ch) ==
    /\ Guessable(ch)
    /\ IF now >= challenges[ch].expiresAt \/ challenges[ch].attempts >= MaxAttempts
       THEN Spend(ch)
       ELSE BeginGuess(k, "verify", ch, None)
    /\ UNCHANGED <<now, identityVars, sessionVars, rates>>

MayConfirm(s, ch) ==
    /\ Live(s) /\ Guessable(ch)
    /\ challenges[ch].purpose = "email-change"
    /\ challenges[ch].principal = sessions[s].principal

\* There is no look at the attempts here.
ConfirmEmailChange(k, s, ch) ==
    /\ MayConfirm(s, ch)
    /\ IF now >= challenges[ch].expiresAt
       THEN Spend(ch)
       ELSE BeginGuess(k, "confirm", ch, sessions[s].principal)
    /\ UNCHANGED <<now, identityVars, sessionVars, rates>>

\* The guess was hashed and is wrong.
GuessWrong(k) ==
    LET ch == challenges[calls[k].challenge]
    IN  /\ calls[k].op \in {"verify", "confirm"}
        /\ challenges' = [challenges EXCEPT ![calls[k].challenge] =
              [ch EXCEPT !.verifying = FALSE,
                         !.consumed = ch.consumed \/ ch.attempts >= MaxAttempts]]
        /\ Return(k)
        /\ UNCHANGED <<now, identityVars, sessionVars, rates>>

\* The guess was hashed and is right: the code is spent, and opens a session
\* when it was delivered and its address still belongs to an identity.
Verified(k, s) ==
    LET c == calls[k]
        ch == challenges[c.challenge]
    IN  /\ c.op = "verify" /\ s \notin DOMAIN sessions
        /\ challenges' = [challenges EXCEPT ![c.challenge] =
              [@ EXCEPT !.consumed = TRUE, !.verifying = FALSE]]
        /\ IF /\ ch.delivered /\ ch.purpose = "login"
              /\ ch.subject \in DOMAIN subjectIndex
           THEN sessions' = Put(sessions, s,
                   [principal |-> identities[subjectIndex[ch.subject]].principal,
                    expiresAt |-> c.at + SessionTtl, challenge |-> c.challenge])
           ELSE UNCHANGED sessions
        /\ Return(k)
        /\ UNCHANGED <<now, identityVars, revokedSessions, rates>>

MoveIndex(i, target) ==
    subjectIndex' = Put(Drop(subjectIndex, identities[i].address), target, i)

\* The identity of the principal moves to the new address, and all the
\* principal's sessions are revoked.  identities.find takes the first identity
\* of the principal; here it is any.
ChangeAddress(i, target) ==
    /\ identities' = [identities EXCEPT ![i].address = target]
    /\ MoveIndex(i, target)
    /\ revokedSessions' = revokedSessions \cup SessionsOf(identities[i].principal)

\* Mutant of Changeable: the code need not have been delivered.
ChangeableUndelivered(c) ==
    /\ challenges[c.challenge].target # None
    /\ \E i \in DOMAIN identities : identities[i].principal = c.principal

\* Whether the code was delivered and names a target, and the principal has an
\* identity.
Changeable(c) ==
    /\ challenges[c.challenge].delivered /\ challenges[c.challenge].target # None
    /\ \E i \in DOMAIN identities : identities[i].principal = c.principal

Confirmed(k) ==
    LET c == calls[k]
    IN  /\ c.op = "confirm"
        /\ challenges' = [challenges EXCEPT ![c.challenge].consumed = TRUE]
        /\ IF Changeable(c)
           THEN \E i \in DOMAIN identities :
                   /\ identities[i].principal = c.principal
                   /\ ChangeAddress(i, challenges[c.challenge].target)
           ELSE UNCHANGED <<identityVars, revokedSessions>>
        /\ Return(k)
        /\ UNCHANGED <<now, sessions, rates>>
-----------------------------------------------------------------------------
(* Sessions.                                                               *)

\* revokeSession; requireSession too, of a session that it finds expired.
\* Session ids are random: revoking one that was never issued has no effect.
RevokeSession(s) ==
    /\ s \in DOMAIN sessions \ revokedSessions
    /\ revokedSessions' = revokedSessions \cup {s}
    /\ UNCHANGED <<now, identityVars, challenges, sessions, rates, calls>>

RevokePrincipalSessions(p) ==
    /\ ~(SessionsOf(p) \subseteq revokedSessions)
    /\ revokedSessions' = revokedSessions \cup SessionsOf(p)
    /\ UNCHANGED <<now, identityVars, challenges, sessions, rates, calls>>

Next ==
    \/ Tick
    \/ \E k \in Slots :
          \/ \E i \in Identities, p \in Principals, a \in Addresses :
                RegisterIdentity(k, i, p, a)
          \/ \E a \in Addresses, purpose \in Purposes : RequestOtp(k, a, purpose)
          \/ \E s \in Sessions, a \in Addresses : RequestEmailChange(k, s, a)
          \/ \E ch \in Challenges :
                \/ VerifyOtp(k, ch)
                \/ \E s \in Sessions : ConfirmEmailChange(k, s, ch)
    \/ \E k \in DOMAIN calls :
          \/ Registered(k) \/ ChangeChecked(k) \/ SubjectHashed(k)
          \/ \E ch \in Challenges : ChallengeStored(k, ch)
          \/ \E delivered \in BOOLEAN : Sent(k, delivered)
          \/ ChangeRequested(k) \/ GuessWrong(k)
          \/ \E s \in Sessions : Verified(k, s)
          \/ Confirmed(k)
    \/ \E s \in Sessions : RevokeSession(s)
    \/ \E p \in Principals : RevokePrincipalSessions(p)

Spec == Init /\ [][Next]_vars
-----------------------------------------------------------------------------
TypeOK ==
    /\ now \in Nat
    /\ IsMap(identities, Identities, Identity)
    /\ IsMap(subjectIndex, Addresses, Identities)
    /\ IsMap(challenges, Challenges, Challenge)
    /\ IsMap(sessions, Sessions, Session)
    /\ revokedSessions \subseteq Sessions
    /\ IsMap(rates, RateKeys, [windowStart : Nat, requests : 1..MaxRequests])
    /\ IsMap(calls, Slots, RegisterCall \cup RequestCall \cup GuessCall)

\* "concurrent verification can never mint two sessions from one code": no two
\* sessions, revoked ones included, were opened with the same code.
OneSessionPerCode ==
    \A s, t \in DOMAIN sessions :
        sessions[s].challenge = sessions[t].challenge => s = t

\* A code is guessed at most maxAttempts times, however guesses through
\* verifyOtp and confirmEmailChange, which counts but does not look, race.
GuessesBounded ==
    \A ch \in DOMAIN challenges : challenges[ch].attempts <= MaxAttempts

\* Whatever registrations and changes race, an address that logs someone in is
\* the present address of the identity it leads to.
IndexPointsHome ==
    \A a \in DOMAIN subjectIndex :
        /\ subjectIndex[a] \in DOMAIN identities
        /\ identities[subjectIndex[a]].address = a

\* A session is opened only for the principal whose present address the code
\* was delivered to: a code sent before a change of address is worth nothing
\* after it, also when it is being hashed while the change happens.
SessionsFollowTheAddress ==
    [][\A s \in DOMAIN sessions' \ DOMAIN sessions :
          LET ch == challenges[sessions'[s].challenge]
          IN  /\ ch.delivered
              /\ \E i \in DOMAIN identities :
                    /\ identities[i].principal = sessions'[s].principal
                    /\ identities[i].address = ch.subject
      ]_vars

\* An identity changes its address only to one that a code was delivered to, with
\* that code, entered for its own principal and spent by that step, and from then
\* on none of the principal's sessions is live.  The principal that asked for the
\* code may be another: requestEmailChange writes down for whom it asked after
\* the code was sent, when a confirmation may have begun.
ChangesAreEarned ==
    [][\A i \in DOMAIN identities :
          identities'[i].address # identities[i].address =>
              /\ \E k \in DOMAIN calls :
                    LET ch == calls[k].challenge
                    IN  /\ calls[k].op = "confirm"
                        /\ calls[k].principal = identities[i].principal
                        /\ ~challenges[ch].consumed /\ challenges'[ch].consumed
                        /\ challenges[ch].delivered
                        /\ challenges[ch].subject = identities'[i].address
              /\ SessionsOf(identities[i].principal) \subseteq revokedSessions'
      ]_vars

\* A code is guessed a bounded number of times and opens at most one session.
CodesAreBounded == OneSessionPerCode /\ GuessesBounded

\* An address leads to the identity that has it, and sessions and changes come
\* only of codes that were delivered to it.
AddressChangesHold == []IndexPointsHome /\ SessionsFollowTheAddress /\ ChangesAreEarned

\* registerIdentity and requestEmailChange refuse an address in use with
\* EMAIL_ALREADY_REGISTERED (index.ts:312 and 431).  An address found free when
\* its change was requested may be taken when the change is confirmed.
OneIdentityPerAddress ==
    \A i, j \in DOMAIN identities : identities[i].address = identities[j].address => i = j
=============================================================================
