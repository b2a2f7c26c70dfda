--------------------------- MODULE AuthEmailProofs ---------------------------
(***************************************************************************)
(* Proofs about AuthEmail: a code is guessed a bounded number of times and *)
(* opens at most one session, and addresses, sessions and changes follow   *)
(* the codes that were delivered.                                          *)
(***************************************************************************)
EXTENDS AuthEmail, JsMapTheorems, TLAPS

Guess(k) == calls[k].op \in {"verify", "confirm"}

\* A guess that is being hashed holds its code: nobody else guesses at it, and it
\* is not spent.
GuessInv ==
    \A k \in DOMAIN calls : Guess(k) =>
        /\ calls[k].challenge \in DOMAIN challenges
        /\ challenges[calls[k].challenge].verifying
        /\ ~challenges[calls[k].challenge].consumed
        /\ \A j \in DOMAIN calls :
              Guess(j) /\ calls[j].challenge = calls[k].challenge => j = k

\* A code that was stored goes to the address of its request.
RequestInv ==
    \A k \in DOMAIN calls :
        calls[k].op = "request" =>
            /\ calls[k].pc \in {"check", "return"} => calls[k].owner # None
            /\ calls[k].pc \in {"send", "return"} =>
                  /\ calls[k].challenge \in DOMAIN challenges
                  /\ challenges[calls[k].challenge].subject = calls[k].address

\* The target of a change is the address its code is for.
TargetInv ==
    \A ch \in DOMAIN challenges :
        challenges[ch].target # None => challenges[ch].target = challenges[ch].subject

\* A code that may be guessed at has a guess left.
AttemptInv ==
    \A ch \in DOMAIN challenges :
        /\ challenges[ch].attempts <= MaxAttempts
        /\ ~challenges[ch].consumed /\ ~challenges[ch].verifying =>
              challenges[ch].attempts < MaxAttempts

\* The code of a session is spent, and no other session has it.
SessionInv ==
    /\ \A s \in DOMAIN sessions :
          /\ sessions[s].challenge \in DOMAIN challenges
          /\ challenges[sessions[s].challenge].consumed
    /\ OneSessionPerCode

IInv == TypeOK /\ IndexPointsHome /\ GuessInv /\ RequestInv /\ TargetInv
        /\ AttemptInv /\ SessionInv
-----------------------------------------------------------------------------
(* Types.                                                                  *)

\* What a parked call is, by its operation.
LEMMA CallFields ==
    ASSUME TypeOK, NEW k \in DOMAIN calls
    PROVE  /\ k \in Slots
           /\ calls[k] \in RegisterCall \cup RequestCall \cup GuessCall
           /\ calls[k].op = "register" => calls[k] \in RegisterCall
           /\ calls[k].op = "request" => calls[k] \in RequestCall
           /\ Guess(k) => calls[k] \in GuessCall
  <1>1. k \in Slots /\ calls[k] \in RegisterCall \cup RequestCall \cup GuessCall
    BY DEF TypeOK, IsMap
  <1> QED  BY <1>1 DEF RegisterCall, RequestCall, GuessCall, Guess

\* A call that begins is parked.
LEMMA BeginTyped ==
    ASSUME TypeOK, NEW k \in Slots,
           NEW c \in RegisterCall \cup RequestCall \cup GuessCall, Begin(k, c)
    PROVE  /\ IsMap(calls, Slots, RegisterCall \cup RequestCall \cup GuessCall)'
           /\ k \notin DOMAIN calls /\ DOMAIN calls' = DOMAIN calls \cup {k}
           /\ calls'[k] = c
           /\ \A j \in DOMAIN calls : calls'[j] = calls[j]
  <1>1. IsMap(calls, Slots, RegisterCall \cup RequestCall \cup GuessCall)
    BY DEF TypeOK
  <1>2. IsMap(Put(calls, k, c), Slots, RegisterCall \cup RequestCall \cup GuessCall)
    BY <1>1, PutType
  <1> QED  BY <1>2 DEF Begin, Put

\* A call that returns is gone, and the others stay.
LEMMA ReturnTyped ==
    ASSUME TypeOK, NEW k \in DOMAIN calls, Return(k)
    PROVE  /\ IsMap(calls, Slots, RegisterCall \cup RequestCall \cup GuessCall)'
           /\ DOMAIN calls' = DOMAIN calls \ {k}
           /\ \A j \in DOMAIN calls' : calls'[j] = calls[j]
  <1>1. IsMap(calls, Slots, RegisterCall \cup RequestCall \cup GuessCall)
    BY DEF TypeOK
  <1>2. IsMap(Drop(calls, k), Slots, RegisterCall \cup RequestCall \cup GuessCall)
    BY <1>1, DropType
  <1> QED  BY <1>2 DEF Return, Drop

\* A call that moves on is replaced, and the others stay.
LEMMA MoveTyped ==
    ASSUME TypeOK, NEW k \in DOMAIN calls, NEW c \in RequestCall,
           calls' = [calls EXCEPT ![k] = c]
    PROVE  /\ IsMap(calls, Slots, RegisterCall \cup RequestCall \cup GuessCall)'
           /\ DOMAIN calls' = DOMAIN calls /\ calls'[k] = c
           /\ \A j \in DOMAIN calls : j # k => calls'[j] = calls[j]
  <1>1. IsMap(calls, Slots, RegisterCall \cup RequestCall \cup GuessCall)
    BY DEF TypeOK
  <1>2. IsMap([calls EXCEPT ![k] = c], Slots,
              RegisterCall \cup RequestCall \cup GuessCall)
    BY <1>1, UpdateType
  <1> QED  BY <1>1, <1>2 DEF IsMap

\* A request that is done returns, or goes on to name its target.
LEMMA RequestDoneKeeps ==
    ASSUME TypeOK, NEW k \in DOMAIN calls, NEW c \in RequestCall, RequestDone(k, c)
    PROVE  /\ IsMap(calls, Slots, RegisterCall \cup RequestCall \cup GuessCall)'
           /\ DOMAIN calls' \subseteq DOMAIN calls
           /\ \A j \in DOMAIN calls' : j # k => calls'[j] = calls[j]
           /\ k \in DOMAIN calls' => /\ calls'[k] = [c EXCEPT !.pc = "return"]
                                     /\ c.owner # None
  <1>1. CASE c.owner = None
    BY <1>1, ReturnTyped DEF RequestDone
  <1>2. CASE c.owner # None
    <2>1. [c EXCEPT !.pc = "return"] \in RequestCall
      BY DEF RequestCall
    <2> QED  BY <1>2, <2>1, MoveTyped DEF RequestDone
  <1> QED  BY <1>1, <1>2

\* Writing fields of a stored code keeps its type.
LEMMA ChallengeTyped ==
    ASSUME TypeOK, NEW ch, NEW x, challenges' = [challenges EXCEPT ![ch] = x],
           ch \in DOMAIN challenges => x \in Challenge
    PROVE  /\ IsMap(challenges, Challenges, Challenge)'
           /\ DOMAIN challenges' = DOMAIN challenges
           /\ ch \in DOMAIN challenges => challenges'[ch] = x
           /\ \A d \in DOMAIN challenges : d # ch => challenges'[d] = challenges[d]
  <1>1. IsMap(challenges, Challenges, Challenge)
    BY DEF TypeOK
  <1>2. IsMap([challenges EXCEPT ![ch] = x], Challenges, Challenge)
    BY <1>1, UpdateType
  <1> QED  BY <1>1, <1>2 DEF IsMap

\* The fields of a stored code.
LEMMA ChallengeFields ==
    ASSUME TypeOK, NEW ch \in DOMAIN challenges
    PROVE  ch \in Challenges /\ challenges[ch] \in Challenge
  BY DEF TypeOK, IsMap

-----------------------------------------------------------------------------
(* What a step must leave alone to keep a part of the invariant.           *)

\* Steps that touch neither codes nor sessions keep what is said of them.
LEMMA CodesKept ==
    ASSUME IInv, UNCHANGED <<challenges, sessions>>
    PROVE  TargetInv' /\ AttemptInv' /\ SessionInv'
  BY DEF IInv, TargetInv, AttemptInv, SessionInv, OneSessionPerCode

\* Guesses keep their codes when none begins and the codes they hold stay.
LEMMA GuessesKept ==
    ASSUME GuessInv,
           \A j \in DOMAIN calls' : Guess(j)' =>
              /\ j \in DOMAIN calls /\ calls'[j] = calls[j]
              /\ calls[j].challenge \in DOMAIN challenges'
              /\ challenges'[calls[j].challenge].verifying =
                    challenges[calls[j].challenge].verifying
              /\ challenges'[calls[j].challenge].consumed =
                    challenges[calls[j].challenge].consumed
    PROVE  GuessInv'
  BY DEF GuessInv, Guess

\* Requests keep their codes when their own fields and the subjects stay.
LEMMA RequestsKept ==
    ASSUME RequestInv,
           \A j \in DOMAIN calls' :
              \/ calls'[j].op # "request"
              \/ j \in DOMAIN calls /\ calls'[j] = calls[j]
              \/ calls'[j].pc \notin {"check", "send", "return"},
           \A ch \in DOMAIN challenges : /\ ch \in DOMAIN challenges'
                                         /\ challenges'[ch].subject = challenges[ch].subject
    PROVE  RequestInv'
  BY DEF RequestInv

\* Time, revocations and steps that do nothing.
LEMMA QuietKeeps ==
    ASSUME IInv,
           \/ Tick \/ UNCHANGED vars
           \/ \E s \in Sessions : RevokeSession(s)
           \/ \E p \in Principals : RevokePrincipalSessions(p)
    PROVE  IInv'
  <1>1. UNCHANGED <<identities, subjectIndex, challenges, sessions, rates, calls>>
    BY DEF Tick, RevokeSession, RevokePrincipalSessions, vars, identityVars
  <1>2. now' \in Nat /\ revokedSessions' \subseteq Sessions
    BY DEF IInv, TypeOK, IsMap, Tick, RevokeSession, RevokePrincipalSessions, vars,
           SessionsOf
  <1>3. TypeOK'
    BY <1>1, <1>2 DEF IInv, TypeOK
  <1>4. IndexPointsHome' /\ GuessInv' /\ RequestInv'
    BY <1>1 DEF IInv, IndexPointsHome, GuessInv, Guess, RequestInv
  <1> QED  BY <1>1, <1>3, <1>4, CodesKept DEF IInv

\* A call that is no guess and has no code begins.
LEMMA BeginKeeps ==
    ASSUME IInv, NEW k \in Slots, NEW c \in RegisterCall \cup RequestCall,
           c.op = "request" => /\ c.pc \in {"check", "subject"}
                               /\ c.pc = "check" => c.owner # None,
           Begin(k, c),
           UNCHANGED <<now, identityVars, challenges, sessionVars, rates>>
    PROVE  IInv'
  <1> USE DEF identityVars, sessionVars
  <1>1. /\ IsMap(calls, Slots, RegisterCall \cup RequestCall \cup GuessCall)'
        /\ k \notin DOMAIN calls /\ DOMAIN calls' = DOMAIN calls \cup {k}
        /\ calls'[k] = c
        /\ \A j \in DOMAIN calls : calls'[j] = calls[j]
    BY BeginTyped DEF IInv
  <1>2. TypeOK'
    BY <1>1 DEF IInv, TypeOK
  <1>3. c.op \in {"register", "request"}
    BY DEF RegisterCall, RequestCall
  <1>4. GuessInv'
    BY <1>1, <1>3 DEF IInv, GuessInv, Guess
  <1>5. RequestInv'
    BY <1>1, <1>3 DEF IInv, RequestInv
  <1>6. IndexPointsHome'
    BY DEF IInv, IndexPointsHome
  <1> QED  BY <1>2, <1>4, <1>5, <1>6, CodesKept DEF IInv

\* Registrations and requests that begin.
LEMMA BeginningsKeep ==
    ASSUME IInv, NEW k \in Slots, NEW a \in Addresses,
           \/ \E i \in Identities, p \in Principals : RegisterIdentity(k, i, p, a)
           \/ \E purpose \in Purposes : RequestOtp(k, a, purpose)
           \/ \E s \in Sessions : RequestEmailChange(k, s, a)
    PROVE  IInv'
  <1>1. ASSUME NEW i \in Identities, NEW p \in Principals, RegisterIdentity(k, i, p, a)
        PROVE  IInv'
    <2> DEFINE c == [op |-> "register", identity |-> i, principal |-> p, address |-> a]
    <2>1. c \in RegisterCall /\ c.op = "register"
      BY DEF RegisterCall
    <2>2. /\ Begin(k, c)
          /\ UNCHANGED <<now, identityVars, challenges, sessionVars, rates>>
      BY <1>1 DEF RegisterIdentity
    <2> HIDE DEF c
    <2> QED  BY <2>1, <2>2, BeginKeeps
  <1>2. ASSUME NEW pc \in {"check", "subject"}, NEW purpose \in Purposes,
               NEW owner \in Principals \cup {None},
               pc = "check" => owner # None, Request(k, pc, a, purpose, owner)
        PROVE  IInv'
    <2> DEFINE c == [op |-> "request", pc |-> pc, address |-> a, purpose |-> purpose,
                     owner |-> owner, principal |-> None, at |-> now,
                     deliver |-> FALSE, challenge |-> None]
    <2>1. c \in RequestCall /\ c.pc = pc /\ c.owner = owner
      BY DEF RequestCall, IInv, TypeOK
    <2>2. /\ Begin(k, c)
          /\ UNCHANGED <<now, identityVars, challenges, sessionVars, rates>>
      BY <1>2 DEF Request
    <2> HIDE DEF c
    <2> QED  BY <1>2, <2>1, <2>2, BeginKeeps
  <1>3. ASSUME NEW s \in Sessions, RequestEmailChange(k, s, a)
        PROVE  IInv'
    <2>1. sessions[s].principal \in Principals
      BY <1>3 DEF RequestEmailChange, Live, IInv, TypeOK, IsMap, Session
    <2>2. sessions[s].principal # None
      BY <2>1, AuthEmailAssumption
    <2> QED  BY <1>2, <1>3, <2>1, <2>2 DEF RequestEmailChange, Purposes
  <1>4. ASSUME NEW purpose \in Purposes, RequestOtp(k, a, purpose)
        PROVE  IInv'
    BY <1>2, <1>4 DEF RequestOtp
  <1> QED  BY <1>1, <1>3, <1>4

-----------------------------------------------------------------------------
(* Registrations and requests.                                             *)

\* A registration gives a free address to a new identity.
LEMMA RegisteredKeeps ==
    ASSUME IInv, NEW k \in DOMAIN calls, Registered(k)
    PROVE  IInv'
  <1> DEFINE c == calls[k]
  <1> USE DEF identityVars, sessionVars
  <1>1. c \in RegisterCall /\ Return(k)
    BY CallFields DEF Registered, IInv
  <1>2. UNCHANGED <<now, challenges, sessions, revokedSessions, rates>>
    BY DEF Registered
  <1>3. /\ IsMap(calls, Slots, RegisterCall \cup RequestCall \cup GuessCall)'
        /\ DOMAIN calls' \subseteq DOMAIN calls
        /\ \A j \in DOMAIN calls' : calls'[j] = calls[j]
    BY <1>1, ReturnTyped DEF IInv
  <1>4. GuessInv'
    BY <1>2, <1>3 DEF IInv, GuessInv, Guess
  <1>5. RequestInv'
    BY <1>2, <1>3 DEF IInv, RequestInv
  <1>6. /\ IsMap(identities, Identities, Identity)'
        /\ IsMap(subjectIndex, Addresses, Identities)'
        /\ IndexPointsHome'
    <2>1. CASE UNCHANGED <<identities, subjectIndex>>
      BY <2>1 DEF IInv, TypeOK, IndexPointsHome
    <2> DEFINE new == [principal |-> c.principal, address |-> c.address]
    <2>2. CASE /\ c.address \notin DOMAIN subjectIndex
               /\ c.identity \notin DOMAIN identities
               /\ identities' = Put(identities, c.identity, new)
               /\ subjectIndex' = Put(subjectIndex, c.address, c.identity)
      <3>1. c.identity \in Identities /\ c.address \in Addresses /\ new \in Identity
        BY <1>1 DEF RegisterCall, Identity
      <3>2. new.address = c.address
        OBVIOUS
      <3> HIDE DEF new, c
      <3>3. /\ IsMap(identities, Identities, Identity)'
            /\ IsMap(subjectIndex, Addresses, Identities)'
        BY <2>2, <3>1, PutType DEF IInv, TypeOK
      <3>4. IndexPointsHome'
        BY <2>2, <3>2 DEF IInv, IndexPointsHome, Put
      <3> QED  BY <3>3, <3>4
    <2> QED  BY <2>1, <2>2 DEF Registered
  <1>7. TypeOK'
    BY <1>2, <1>3, <1>6 DEF IInv, TypeOK
  <1> QED  BY <1>2, <1>4, <1>5, <1>6, <1>7, CodesKept DEF IInv

\* A request that moves on without a code.
LEMMA MoveKeeps ==
    ASSUME IInv, NEW k \in DOMAIN calls, NEW c \in RequestCall,
           c.pc \in {"subject", "salt"}, calls' = [calls EXCEPT ![k] = c],
           UNCHANGED <<now, identityVars, challenges, sessionVars>>,
           IsMap(rates, RateKeys, [windowStart : Nat, requests : 1..MaxRequests])'
    PROVE  IInv'
  <1> USE DEF identityVars, sessionVars
  <1>1. /\ IsMap(calls, Slots, RegisterCall \cup RequestCall \cup GuessCall)'
        /\ DOMAIN calls' = DOMAIN calls /\ calls'[k] = c
        /\ \A j \in DOMAIN calls : j # k => calls'[j] = calls[j]
    BY MoveTyped DEF IInv
  <1>2. c.op = "request"
    BY DEF RequestCall
  <1>3. TypeOK'
    BY <1>1 DEF IInv, TypeOK
  <1>4. GuessInv'
    BY <1>1, <1>2, GuessesKept DEF IInv, GuessInv, Guess
  <1>5. RequestInv'
    BY <1>1, <1>2, RequestsKept DEF IInv
  <1>6. IndexPointsHome'
    BY DEF IInv, IndexPointsHome
  <1> QED  BY <1>3, <1>4, <1>5, <1>6, CodesKept DEF IInv

\* A call that is not guessing returns, and nothing else happens.
LEMMA ReturnKeeps ==
    ASSUME IInv, NEW k \in DOMAIN calls, Return(k),
           UNCHANGED <<now, identityVars, challenges, sessionVars, rates>>
    PROVE  IInv'
  <1> USE DEF identityVars, sessionVars
  <1>1. /\ IsMap(calls, Slots, RegisterCall \cup RequestCall \cup GuessCall)'
        /\ DOMAIN calls' \subseteq DOMAIN calls
        /\ \A j \in DOMAIN calls' : calls'[j] = calls[j]
    BY ReturnTyped DEF IInv
  <1>2. TypeOK'
    BY <1>1 DEF IInv, TypeOK
  <1>3. GuessInv' /\ RequestInv' /\ IndexPointsHome'
    BY <1>1 DEF IInv, GuessInv, Guess, RequestInv, IndexPointsHome
  <1> QED  BY <1>2, <1>3, CodesKept DEF IInv

\* A change whose target is taken returns; another goes on.
LEMMA ChangeCheckedKeeps ==
    ASSUME IInv, NEW k \in DOMAIN calls, ChangeChecked(k)
    PROVE  IInv'
  <1> DEFINE c == [calls[k] EXCEPT !.pc = "subject", !.at = now]
  <1>1. calls[k] \in RequestCall /\ now \in Nat
    BY CallFields DEF ChangeChecked, IInv, TypeOK
  <1>2. c \in RequestCall /\ c.pc = "subject"
    BY <1>1 DEF RequestCall
  <1>3. UNCHANGED <<now, identityVars, challenges, sessionVars, rates>>
    BY DEF ChangeChecked
  <1>4. IsMap(rates, RateKeys, [windowStart : Nat, requests : 1..MaxRequests])'
    BY <1>3 DEF IInv, TypeOK
  <1>5. Return(k) \/ calls' = [calls EXCEPT ![k] = c]
    BY DEF ChangeChecked
  <1> HIDE DEF c
  <1> QED  BY <1>2, <1>3, <1>4, <1>5, ReturnKeeps, MoveKeeps

\* consumeRate counts within its window and never past its limit.
LEMMA ConsumeRateTyped ==
    ASSUME TypeOK, NEW key \in RateKeys, NEW at \in Nat, ConsumeRate(key, at)
    PROVE  IsMap(rates, RateKeys, [windowStart : Nat, requests : 1..MaxRequests])'
  <1> DEFINE Rate == [windowStart : Nat, requests : 1..MaxRequests]
  <1>1. IsMap(rates, RateKeys, Rate)
    BY DEF TypeOK
  <1>2. CASE rates' = Put(rates, key, [windowStart |-> at, requests |-> 1])
    <2>1. [windowStart |-> at, requests |-> 1] \in Rate
      BY AuthEmailAssumption
    <2> HIDE DEF Rate
    <2>2. IsMap(rates, RateKeys, Rate)'
      BY <1>1, <1>2, <2>1, PutType
    <2> QED  BY <2>2 DEF Rate
  <1>3. CASE /\ key \in DOMAIN rates /\ rates[key].requests < MaxRequests
             /\ rates' = [rates EXCEPT ![key].requests = @ + 1]
    <2> DEFINE r == [rates[key] EXCEPT !.requests = @ + 1]
    <2>1. r \in Rate
      BY <1>1, <1>3, AuthEmailAssumption DEF IsMap
    <2>2. rates' = [rates EXCEPT ![key] = r]
      BY <1>3
    <2> HIDE DEF Rate, r
    <2>3. IsMap(rates, RateKeys, Rate)'
      BY <1>1, <2>1, <2>2, UpdateType
    <2> QED  BY <2>3 DEF Rate
  <1>4. CASE rates' = rates
    BY <1>1, <1>4
  <1> QED  BY <1>2, <1>3, <1>4 DEF ConsumeRate, NewWindow, Allowed

\* The address of a request was hashed.
LEMMA SubjectHashedKeeps ==
    ASSUME IInv, NEW k \in DOMAIN calls, SubjectHashed(k)
    PROVE  IInv'
  <1>1. /\ calls[k] \in RequestCall
        /\ ConsumeRate(RateKey(calls[k]), calls[k].at)
        /\ UNCHANGED <<now, identityVars, challenges, sessionVars>>
    BY CallFields DEF SubjectHashed, IInv
  <1>2. RateKey(calls[k]) \in RateKeys /\ calls[k].at \in Nat
    BY <1>1 DEF RequestCall, RateKey, RateKeys
  <1>3. IsMap(rates, RateKeys, [windowStart : Nat, requests : 1..MaxRequests])'
    BY <1>1, <1>2, ConsumeRateTyped DEF IInv
  <1>4. PICK p \in Principals \cup {None}, d \in BOOLEAN :
           calls' = [calls EXCEPT ![k] = [calls[k] EXCEPT !.pc = "salt", !.deliver = d,
                                                          !.principal = p]]
    <2> DEFINE known == calls[k].address \in DOMAIN subjectIndex
               p == IF calls[k].purpose = "login" THEN None
                    ELSE IF known THEN identities[subjectIndex[calls[k].address]].principal
                    ELSE calls[k].owner
               d == Allowed(RateKey(calls[k]), calls[k].at)
                       /\ (known \/ calls[k].owner # None)
    <2>1. known => identities[subjectIndex[calls[k].address]].principal \in Principals
      BY DEF IInv, IndexPointsHome, TypeOK, IsMap, Identity
    <2>2. p \in Principals \cup {None}
      BY <1>1, <2>1 DEF RequestCall
    <2>3. d \in BOOLEAN
      OBVIOUS
    <2>4. calls' = [calls EXCEPT ![k] = [calls[k] EXCEPT !.pc = "salt", !.deliver = d,
                                                         !.principal = p]]
      BY DEF SubjectHashed
    <2> HIDE DEF p, d
    <2> QED  BY <2>2, <2>3, <2>4
  <1> DEFINE c == [calls[k] EXCEPT !.pc = "salt", !.deliver = d, !.principal = p]
  <1>5. c \in RequestCall /\ c.pc = "salt"
    BY <1>1 DEF RequestCall
  <1>6. calls' = [calls EXCEPT ![k] = c]
    BY <1>4
  <1> HIDE DEF c
  <1> QED  BY <1>1, <1>3, <1>5, <1>6, MoveKeeps

\* A code is stored for the address of its request.
LEMMA ChallengeStoredKeeps ==
    ASSUME IInv, NEW k \in DOMAIN calls, NEW ch \in Challenges, ChallengeStored(k, ch)
    PROVE  IInv'
  <1> DEFINE c == [calls[k] EXCEPT !.challenge = ch]
             new == [purpose |-> c.purpose, subject |-> c.address, target |-> None,
                     principal |-> c.principal, expiresAt |-> c.at + OtpTtl,
                     attempts |-> 0, verifying |-> FALSE, consumed |-> FALSE,
                     delivered |-> FALSE]
             sending == [c EXCEPT !.pc = "send"]
             returning == [c EXCEPT !.pc = "return"]
  <1> USE DEF identityVars, sessionVars
  <1>1. calls[k] \in RequestCall
    BY CallFields DEF ChallengeStored, IInv
  <1>2. c \in RequestCall /\ c.address = calls[k].address /\ c.challenge = ch
    BY <1>1 DEF RequestCall
  <1>3. new \in Challenge
    BY <1>2, AuthEmailAssumption DEF RequestCall, Challenge
  <1>4. /\ sending \in RequestCall
        /\ sending.op = "request" /\ sending.pc = "send" /\ sending.challenge = ch
        /\ sending.address = c.address
        /\ returning.op = "request" /\ returning.challenge = ch
        /\ returning.address = c.address /\ returning.owner = c.owner
    BY <1>2 DEF RequestCall
  <1>5. /\ new.subject = c.address /\ new.target = None /\ new.attempts = 0
        /\ ~new.consumed
    OBVIOUS
  <1>6. /\ ch \notin DOMAIN challenges
        /\ challenges' = Put(challenges, ch, new)
        /\ \/ calls' = [calls EXCEPT ![k] = sending]
           \/ RequestDone(k, c)
        /\ UNCHANGED <<now, identities, subjectIndex, sessions, revokedSessions, rates>>
    BY DEF ChallengeStored
  <1>7. /\ IsMap(calls, Slots, RegisterCall \cup RequestCall \cup GuessCall)'
        /\ DOMAIN calls' \subseteq DOMAIN calls
        /\ \A j \in DOMAIN calls' : j # k => calls'[j] = calls[j]
        /\ k \in DOMAIN calls' => \/ calls'[k] = sending
                                  \/ calls'[k] = returning /\ c.owner # None
    <2>1. CASE calls' = [calls EXCEPT ![k] = sending]
      <3> HIDE DEF c, sending
      <3> QED  BY <1>4, <2>1, MoveTyped DEF IInv
    <2>2. CASE RequestDone(k, c)
      <3> HIDE DEF c
      <3> QED  BY <1>2, <2>2, RequestDoneKeeps DEF IInv
    <2> QED  BY <1>6, <2>1, <2>2
  <1> HIDE DEF c, new, sending, returning
  <1>8. /\ IsMap(challenges, Challenges, Challenge)'
        /\ DOMAIN challenges' = DOMAIN challenges \cup {ch}
        /\ challenges'[ch] = new
        /\ \A d \in DOMAIN challenges : challenges'[d] = challenges[d]
    <2>1. IsMap(challenges, Challenges, Challenge)
      BY DEF IInv, TypeOK
    <2>2. IsMap(challenges, Challenges, Challenge)'
      BY <1>3, <1>6, <2>1, PutType
    <2> QED  BY <1>6, <2>2 DEF Put
  <1>9. TypeOK'
    BY <1>6, <1>7, <1>8 DEF IInv, TypeOK
  <1>10. GuessInv'
    BY <1>4, <1>6, <1>7, <1>8 DEF IInv, GuessInv, Guess
  <1>11. RequestInv'
    BY <1>4, <1>5, <1>6, <1>7, <1>8 DEF IInv, RequestInv
  <1>12. TargetInv' /\ AttemptInv'
    BY <1>5, <1>8, AuthEmailAssumption DEF IInv, TargetInv, AttemptInv
  <1>13. SessionInv' /\ IndexPointsHome'
    BY <1>6, <1>8 DEF IInv, SessionInv, OneSessionPerCode, IndexPointsHome
  <1> QED  BY <1>9, <1>10, <1>11, <1>12, <1>13 DEF IInv

\* A step that writes only delivered, target or principal of a code keeps the
\* rest of the invariant.
LEMMA NotesKeep ==
    ASSUME IInv, NEW ch \in DOMAIN challenges, NEW x \in Challenge,
           challenges' = [challenges EXCEPT ![ch] = x],
           x.subject = challenges[ch].subject, x.attempts = challenges[ch].attempts,
           x.verifying = challenges[ch].verifying, x.consumed = challenges[ch].consumed,
           x.target # None => x.target = x.subject,
           UNCHANGED <<now, identityVars, sessionVars, rates>>,
           IsMap(calls, Slots, RegisterCall \cup RequestCall \cup GuessCall)',
           \A j \in DOMAIN calls' :
              \/ j \in DOMAIN calls /\ calls'[j] = calls[j]
              \/ /\ calls'[j].op = "request" /\ calls'[j].pc = "return"
                 /\ calls'[j].owner # None /\ calls'[j].challenge = ch
                 /\ calls'[j].address = x.subject
    PROVE  IInv'
  <1> USE DEF identityVars, sessionVars
  <1>1. /\ IsMap(challenges, Challenges, Challenge)'
        /\ DOMAIN challenges' = DOMAIN challenges
        /\ challenges'[ch] = x
        /\ \A d \in DOMAIN challenges : d # ch => challenges'[d] = challenges[d]
    BY ChallengeTyped DEF IInv
  <1>2. TypeOK'
    BY <1>1 DEF IInv, TypeOK
  <1>3. GuessInv'
    BY <1>1 DEF IInv, GuessInv, Guess
  <1>4. RequestInv'
    BY <1>1 DEF IInv, RequestInv
  <1>5. TargetInv' /\ AttemptInv'
    BY <1>1 DEF IInv, TargetInv, AttemptInv
  <1>6. SessionInv' /\ IndexPointsHome'
    BY <1>1 DEF IInv, SessionInv, OneSessionPerCode, IndexPointsHome
  <1> QED  BY <1>2, <1>3, <1>4, <1>5, <1>6 DEF IInv

\* The transport answered.
LEMMA SentKeeps ==
    ASSUME IInv, NEW k \in DOMAIN calls, NEW delivered \in BOOLEAN, Sent(k, delivered)
    PROVE  IInv'
  <1> DEFINE c == calls[k]
             ch == c.challenge
             x == [challenges[ch] EXCEPT !.delivered = delivered]
  <1>1. c \in RequestCall /\ RequestDone(k, c)
    BY CallFields DEF Sent, IInv
  <1>2. ch \in DOMAIN challenges /\ challenges[ch].subject = c.address
    BY DEF Sent, IInv, RequestInv
  <1>3. challenges[ch] \in Challenge
    BY <1>2, ChallengeFields DEF IInv
  <1>4. /\ x \in Challenge /\ x.subject = challenges[ch].subject
        /\ x.attempts = challenges[ch].attempts
        /\ x.verifying = challenges[ch].verifying /\ x.consumed = challenges[ch].consumed
        /\ x.target = challenges[ch].target
    BY <1>3 DEF Challenge
  <1>5. x.target # None => x.target = x.subject
    BY <1>2, <1>4 DEF IInv, TargetInv
  <1>6. /\ challenges' = [challenges EXCEPT ![ch] = x]
        /\ UNCHANGED <<now, identityVars, sessionVars, rates>>
    BY DEF Sent
  <1>7. /\ IsMap(calls, Slots, RegisterCall \cup RequestCall \cup GuessCall)'
        /\ DOMAIN calls' \subseteq DOMAIN calls
        /\ \A j \in DOMAIN calls' : j # k => calls'[j] = calls[j]
        /\ k \in DOMAIN calls' => /\ calls'[k] = [c EXCEPT !.pc = "return"]
                                  /\ c.owner # None
    BY <1>1, RequestDoneKeeps DEF IInv
  <1>8. LET r == [c EXCEPT !.pc = "return"]
        IN  /\ r.op = "request" /\ r.pc = "return" /\ r.owner = c.owner
            /\ r.challenge = ch /\ r.address = x.subject
    BY <1>1, <1>2, <1>4 DEF RequestCall
  <1>9. \A j \in DOMAIN calls' :
           \/ j \in DOMAIN calls /\ calls'[j] = calls[j]
           \/ /\ calls'[j].op = "request" /\ calls'[j].pc = "return"
              /\ calls'[j].owner # None /\ calls'[j].challenge = ch
              /\ calls'[j].address = x.subject
    BY <1>7, <1>8
  <1> HIDE DEF x, ch
  <1> QED  BY <1>2, <1>4, <1>5, <1>6, <1>7, <1>9, NotesKeep

\* requestEmailChange names the target, which is what the code was sent to.
LEMMA ChangeRequestedKeeps ==
    ASSUME IInv, NEW k \in DOMAIN calls, ChangeRequested(k)
    PROVE  IInv'
  <1> DEFINE c == calls[k]
             ch == c.challenge
             x == [challenges[ch] EXCEPT !.target = c.address, !.principal = c.owner]
  <1>1. c \in RequestCall /\ Return(k)
    BY CallFields DEF ChangeRequested, IInv
  <1>2. ch \in DOMAIN challenges /\ challenges[ch].subject = c.address
    BY DEF ChangeRequested, IInv, RequestInv
  <1>3. challenges[ch] \in Challenge
    BY <1>2, ChallengeFields DEF IInv
  <1>4. /\ x \in Challenge /\ x.subject = challenges[ch].subject
        /\ x.attempts = challenges[ch].attempts
        /\ x.verifying = challenges[ch].verifying /\ x.consumed = challenges[ch].consumed
        /\ x.target = x.subject
    BY <1>1, <1>2, <1>3 DEF Challenge, RequestCall
  <1>5. /\ challenges' = [challenges EXCEPT ![ch] = x]
        /\ UNCHANGED <<now, identityVars, sessionVars, rates>>
    BY DEF ChangeRequested
  <1>6. /\ IsMap(calls, Slots, RegisterCall \cup RequestCall \cup GuessCall)'
        /\ \A j \in DOMAIN calls' : j \in DOMAIN calls /\ calls'[j] = calls[j]
    BY <1>1, ReturnTyped DEF IInv
  <1> HIDE DEF x, ch
  <1> QED  BY <1>2, <1>4, <1>5, <1>6, NotesKeep

-----------------------------------------------------------------------------
(* Guesses.                                                                *)

\* A code that nobody is guessing at is spent.
LEMMA SpendKeeps ==
    ASSUME IInv, NEW ch, Guessable(ch), Spend(ch),
           UNCHANGED <<now, identityVars, sessionVars, rates>>
    PROVE  IInv'
  <1> DEFINE x == [challenges[ch] EXCEPT !.consumed = TRUE]
  <1> USE DEF identityVars, sessionVars
  <1>1. /\ ch \in DOMAIN challenges /\ ~challenges[ch].verifying
        /\ challenges' = [challenges EXCEPT ![ch] = x] /\ UNCHANGED calls
    BY DEF Guessable, Spend
  <1>2. challenges[ch] \in Challenge
    BY <1>1, ChallengeFields DEF IInv
  <1>3. /\ x \in Challenge /\ x.consumed /\ x.attempts = challenges[ch].attempts
        /\ x.subject = challenges[ch].subject /\ x.target = challenges[ch].target
    BY <1>2 DEF Challenge
  <1> HIDE DEF x
  <1>4. /\ IsMap(challenges, Challenges, Challenge)'
        /\ DOMAIN challenges' = DOMAIN challenges
        /\ challenges'[ch] = x
        /\ \A d \in DOMAIN challenges : d # ch => challenges'[d] = challenges[d]
    BY <1>1, <1>3, ChallengeTyped DEF IInv
  <1>5. TypeOK'
    BY <1>1, <1>4 DEF IInv, TypeOK
  <1>6. GuessInv'
    BY <1>1, <1>4 DEF IInv, GuessInv, Guess
  <1>7. RequestInv'
    BY <1>1, <1>3, <1>4 DEF IInv, RequestInv
  <1>8. TargetInv' /\ AttemptInv'
    BY <1>3, <1>4 DEF IInv, TargetInv, AttemptInv
  <1>9. SessionInv' /\ IndexPointsHome'
    BY <1>3, <1>4 DEF IInv, SessionInv, OneSessionPerCode, IndexPointsHome
  <1> QED  BY <1>5, <1>6, <1>7, <1>8, <1>9 DEF IInv

\* A guess begins: it is counted, and blocks others of its code.
LEMMA BeginGuessKeeps ==
    ASSUME IInv, NEW k \in Slots, NEW op \in {"verify", "confirm"}, NEW ch,
           NEW principal \in Principals \cup {None},
           Guessable(ch), BeginGuess(k, op, ch, principal),
           UNCHANGED <<now, identityVars, sessionVars, rates>>
    PROVE  IInv'
  <1> DEFINE n == challenges[ch].attempts + 1
             x == [challenges[ch] EXCEPT !.attempts = n, !.verifying = TRUE]
             c == [op |-> op, challenge |-> ch, principal |-> principal, at |-> now]
  <1> USE DEF identityVars, sessionVars
  <1>1. /\ ch \in DOMAIN challenges /\ ~challenges[ch].verifying
        /\ ~challenges[ch].consumed
        /\ Begin(k, c)
    BY DEF Guessable, BeginGuess
  <1>2. ch \in Challenges /\ challenges[ch] \in Challenge
    BY <1>1, ChallengeFields DEF IInv
  <1>3. challenges' = [challenges EXCEPT ![ch] = x]
    BY DEF BeginGuess
  <1>4. n \in Nat /\ n <= MaxAttempts
    BY <1>1, <1>2, AuthEmailAssumption DEF IInv, AttemptInv, Challenge
  <1> HIDE DEF n
  <1>5. c \in GuessCall /\ c.op = op /\ c.challenge = ch
    BY <1>2 DEF GuessCall, IInv, TypeOK
  <1>6. /\ x \in Challenge /\ x.consumed = challenges[ch].consumed /\ x.verifying
        /\ x.attempts = n
        /\ x.subject = challenges[ch].subject /\ x.target = challenges[ch].target
    BY <1>2, <1>4 DEF Challenge
  <1> HIDE DEF x, c
  <1>7. /\ IsMap(challenges, Challenges, Challenge)'
        /\ DOMAIN challenges' = DOMAIN challenges
        /\ challenges'[ch] = x
        /\ \A d \in DOMAIN challenges : d # ch => challenges'[d] = challenges[d]
    BY <1>1, <1>3, <1>6, ChallengeTyped DEF IInv
  <1>8. /\ IsMap(calls, Slots, RegisterCall \cup RequestCall \cup GuessCall)'
        /\ k \notin DOMAIN calls /\ DOMAIN calls' = DOMAIN calls \cup {k}
        /\ calls'[k] = c
        /\ \A j \in DOMAIN calls : calls'[j] = calls[j]
    BY <1>1, <1>5, BeginTyped DEF IInv
  <1>9. TypeOK'
    BY <1>7, <1>8 DEF IInv, TypeOK
  <1>10. \A j \in DOMAIN calls : Guess(j) => calls[j].challenge # ch
    BY <1>1 DEF IInv, GuessInv
  <1>11. GuessInv'
    BY <1>1, <1>5, <1>6, <1>7, <1>8, <1>10 DEF IInv, GuessInv, Guess
  <1>12. RequestInv'
    BY <1>5, <1>6, <1>7, <1>8 DEF IInv, RequestInv
  <1>13. TargetInv' /\ AttemptInv'
    BY <1>4, <1>6, <1>7 DEF IInv, TargetInv, AttemptInv
  <1>14. SessionInv' /\ IndexPointsHome'
    BY <1>1, <1>7 DEF IInv, SessionInv, OneSessionPerCode, IndexPointsHome
  <1> QED  BY <1>9, <1>11, <1>12, <1>13, <1>14 DEF IInv

\* verifyOtp and confirmEmailChange up to their await.  confirmEmailChange does
\* not look at the attempts: a code it may be called for has one left.
LEMMA GuessesBegin ==
    ASSUME IInv, NEW k \in Slots, NEW ch \in Challenges,
           VerifyOtp(k, ch) \/ \E s \in Sessions : ConfirmEmailChange(k, s, ch)
    PROVE  IInv'
  <1>1. CASE VerifyOtp(k, ch)
    <2>1. /\ Guessable(ch) /\ UNCHANGED <<now, identityVars, sessionVars, rates>>
          /\ Spend(ch) \/ BeginGuess(k, "verify", ch, None)
      BY <1>1 DEF VerifyOtp
    <2> QED  BY <2>1, SpendKeeps, BeginGuessKeeps
  <1>2. ASSUME NEW s \in Sessions, ConfirmEmailChange(k, s, ch)
        PROVE  IInv'
    <2>1. /\ Guessable(ch) /\ UNCHANGED <<now, identityVars, sessionVars, rates>>
          /\ Spend(ch) \/ BeginGuess(k, "confirm", ch, sessions[s].principal)
      BY <1>2 DEF ConfirmEmailChange, MayConfirm
    <2>2. sessions[s].principal \in Principals
      BY <1>2 DEF ConfirmEmailChange, MayConfirm, Live, IInv, TypeOK, IsMap, Session
    <2> QED  BY <2>1, <2>2, SpendKeeps, BeginGuessKeeps
  <1> QED  BY <1>1, <1>2

\* A code that is spent or has a guess left.
InBounds(x) == x.consumed \/ x.attempts < MaxAttempts

\* A guess ends and leaves its code spent or with a guess left.
LEMMA GuessEnds ==
    ASSUME IInv, NEW k \in DOMAIN calls, Guess(k), Return(k), NEW ch,
           ch = calls[k].challenge, NEW x \in Challenge,
           challenges' = [challenges EXCEPT ![ch] = x],
           x.subject = challenges[ch].subject, x.target = challenges[ch].target,
           x.attempts = challenges[ch].attempts, InBounds(x)
    PROVE  /\ IsMap(calls, Slots, RegisterCall \cup RequestCall \cup GuessCall)'
           /\ IsMap(challenges, Challenges, Challenge)'
           /\ ch \in DOMAIN challenges /\ DOMAIN challenges' = DOMAIN challenges
           /\ challenges'[ch] = x
           /\ \A d \in DOMAIN challenges : d # ch => challenges'[d] = challenges[d]
           /\ \A s \in DOMAIN sessions : sessions[s].challenge # ch
           /\ GuessInv' /\ RequestInv' /\ TargetInv' /\ AttemptInv'
  <1>1. /\ ch \in DOMAIN challenges /\ ~challenges[ch].consumed
        /\ \A j \in DOMAIN calls : Guess(j) /\ j # k => calls[j].challenge # ch
    BY DEF IInv, GuessInv
  <1>2. /\ IsMap(calls, Slots, RegisterCall \cup RequestCall \cup GuessCall)'
        /\ DOMAIN calls' = DOMAIN calls \ {k}
        /\ \A j \in DOMAIN calls' : calls'[j] = calls[j]
    BY ReturnTyped DEF IInv
  <1>3. /\ IsMap(challenges, Challenges, Challenge)'
        /\ DOMAIN challenges' = DOMAIN challenges
        /\ challenges'[ch] = x
        /\ \A d \in DOMAIN challenges : d # ch => challenges'[d] = challenges[d]
    BY <1>1, ChallengeTyped DEF IInv
  <1>4. \A s \in DOMAIN sessions : sessions[s].challenge # ch
    BY <1>1 DEF IInv, SessionInv
  <1>5. GuessInv'
    BY <1>1, <1>2, <1>3 DEF IInv, GuessInv, Guess
  <1>6. RequestInv'
    BY <1>2, <1>3 DEF IInv, RequestInv
  <1>7. TargetInv' /\ AttemptInv'
    BY <1>3 DEF IInv, TargetInv, AttemptInv, InBounds
  <1> QED  BY <1>1, <1>2, <1>3, <1>4, <1>5, <1>6, <1>7

\* A wrong guess spends the code when it was the last.
LEMMA GuessWrongKeeps ==
    ASSUME IInv, NEW k \in DOMAIN calls, GuessWrong(k)
    PROVE  IInv'
  <1> DEFINE ch == calls[k].challenge
             spent == challenges[ch].consumed \/ challenges[ch].attempts >= MaxAttempts
             x == [challenges[ch] EXCEPT !.verifying = FALSE, !.consumed = spent]
  <1> USE DEF identityVars, sessionVars
  <1>1. /\ Guess(k) /\ Return(k) /\ challenges' = [challenges EXCEPT ![ch] = x]
        /\ UNCHANGED <<now, identities, subjectIndex, sessions, revokedSessions, rates>>
    BY DEF GuessWrong, Guess
  <1>2. /\ ch \in DOMAIN challenges
        /\ \A t \in DOMAIN sessions : sessions[t].challenge # ch
    BY <1>1 DEF IInv, GuessInv, SessionInv
  <1>3. challenges[ch] \in Challenge
    BY <1>2, ChallengeFields DEF IInv
  <1>4. spent \in BOOLEAN /\ (~spent => challenges[ch].attempts < MaxAttempts)
    BY <1>3, AuthEmailAssumption DEF Challenge
  <1> HIDE DEF spent
  <1>5. /\ x \in Challenge /\ x.subject = challenges[ch].subject
        /\ x.target = challenges[ch].target /\ x.attempts = challenges[ch].attempts
    BY <1>3, <1>4 DEF Challenge
  <1>6. InBounds(x)
    BY <1>3, <1>4, <1>5 DEF Challenge, InBounds
  <1>7. ch = calls[k].challenge
    OBVIOUS
  <1> HIDE DEF x, ch
  <1>8. /\ IsMap(calls, Slots, RegisterCall \cup RequestCall \cup GuessCall)'
        /\ IsMap(challenges, Challenges, Challenge)'
        /\ DOMAIN challenges' = DOMAIN challenges /\ challenges'[ch] = x
        /\ \A d \in DOMAIN challenges : d # ch => challenges'[d] = challenges[d]
        /\ GuessInv' /\ RequestInv' /\ TargetInv' /\ AttemptInv'
    BY <1>1, <1>5, <1>6, <1>7, GuessEnds
  <1>9. TypeOK'
    BY <1>1, <1>8 DEF IInv, TypeOK
  <1>10. SessionInv' /\ IndexPointsHome'
    BY <1>1, <1>2, <1>8 DEF IInv, SessionInv, OneSessionPerCode, IndexPointsHome
  <1> QED  BY <1>8, <1>9, <1>10 DEF IInv

\* A right guess spends its code, and opens at most the one session with it.
LEMMA VerifiedKeeps ==
    ASSUME IInv, NEW k \in DOMAIN calls, NEW s \in Sessions, Verified(k, s)
    PROVE  IInv'
  <1> DEFINE ch == calls[k].challenge
             x == [challenges[ch] EXCEPT !.consumed = TRUE, !.verifying = FALSE]
             p == identities[subjectIndex[challenges[ch].subject]].principal
             new == [principal |-> p, expiresAt |-> calls[k].at + SessionTtl,
                     challenge |-> ch]
  <1> USE DEF identityVars
  <1>1. /\ Guess(k) /\ Return(k) /\ challenges' = [challenges EXCEPT ![ch] = x]
        /\ s \notin DOMAIN sessions
        /\ \/ /\ challenges[ch].subject \in DOMAIN subjectIndex
              /\ sessions' = Put(sessions, s, new)
           \/ UNCHANGED sessions
        /\ UNCHANGED <<now, identities, subjectIndex, revokedSessions, rates>>
    BY DEF Verified, Guess
  <1>2. ch \in DOMAIN challenges /\ calls[k] \in GuessCall
    BY <1>1, CallFields DEF IInv, GuessInv
  <1>3. challenges[ch] \in Challenge
    BY <1>2, ChallengeFields DEF IInv
  <1>4. /\ x \in Challenge /\ x.subject = challenges[ch].subject
        /\ x.target = challenges[ch].target /\ x.attempts = challenges[ch].attempts
        /\ x.consumed /\ InBounds(x)
    BY <1>3 DEF Challenge, InBounds
  <1>5. challenges[ch].subject \in DOMAIN subjectIndex => p \in Principals
    BY DEF IInv, IndexPointsHome, TypeOK, IsMap, Identity
  <1>6. challenges[ch].subject \in DOMAIN subjectIndex => new \in Session
    BY <1>2, <1>5, AuthEmailAssumption DEF Session, GuessCall
  <1>7. new.challenge = ch /\ ch = calls[k].challenge
    OBVIOUS
  <1> HIDE DEF x, new, ch
  <1>8. /\ IsMap(calls, Slots, RegisterCall \cup RequestCall \cup GuessCall)'
        /\ IsMap(challenges, Challenges, Challenge)'
        /\ DOMAIN challenges' = DOMAIN challenges /\ challenges'[ch] = x
        /\ \A d \in DOMAIN challenges : d # ch => challenges'[d] = challenges[d]
        /\ \A t \in DOMAIN sessions : sessions[t].challenge # ch
        /\ GuessInv' /\ RequestInv' /\ TargetInv' /\ AttemptInv'
    BY <1>1, <1>4, <1>7, GuessEnds
  <1>9. IsMap(sessions, Sessions, Session)'
    BY <1>1, <1>6, PutType DEF IInv, TypeOK
  <1>10. TypeOK'
    BY <1>1, <1>8, <1>9 DEF IInv, TypeOK
  <1>11. SessionInv'
    <2>1. CASE UNCHANGED sessions
      BY <1>8, <2>1 DEF IInv, SessionInv, OneSessionPerCode
    <2>2. CASE sessions' = Put(sessions, s, new)
      <3>1. /\ DOMAIN sessions' = DOMAIN sessions \cup {s} /\ sessions'[s] = new
            /\ \A t \in DOMAIN sessions : sessions'[t] = sessions[t]
        BY <1>1, <2>2 DEF Put
      <3> QED  BY <1>2, <1>4, <1>7, <1>8, <3>1 DEF IInv, SessionInv, OneSessionPerCode
    <2> QED  BY <1>1, <2>1, <2>2
  <1>12. IndexPointsHome'
    BY <1>1 DEF IInv, IndexPointsHome
  <1> QED  BY <1>8, <1>10, <1>11, <1>12 DEF IInv

\* An identity that moves takes its entry of the index along.
LEMMA ChangeAddressKeeps ==
    ASSUME IInv, NEW i \in DOMAIN identities, NEW target \in Addresses,
           ChangeAddress(i, target)
    PROVE  /\ IsMap(identities, Identities, Identity)'
           /\ IsMap(subjectIndex, Addresses, Identities)'
           /\ IndexPointsHome'
           /\ DOMAIN identities' = DOMAIN identities
           /\ identities'[i].address = target
           /\ identities'[i].principal = identities[i].principal
           /\ \A j \in DOMAIN identities : j # i => identities'[j] = identities[j]
  <1> DEFINE x == [identities[i] EXCEPT !.address = target]
             dropped == Drop(subjectIndex, identities[i].address)
  <1>1. /\ IsMap(identities, Identities, Identity)
        /\ IsMap(subjectIndex, Addresses, Identities)
    BY DEF IInv, TypeOK
  <1>2. i \in Identities /\ identities[i] \in Identity
    BY <1>1 DEF IsMap
  <1>3. x \in Identity /\ x.address = target /\ x.principal = identities[i].principal
    BY <1>2 DEF Identity
  <1>4. /\ identities' = [identities EXCEPT ![i] = x]
        /\ subjectIndex' = Put(dropped, target, i)
    BY DEF ChangeAddress, MoveIndex
  <1> HIDE DEF x
  <1>5. IsMap(dropped, Addresses, Identities)
    BY <1>1, DropType
  <1>6. IsMap(identities, Identities, Identity)'
    BY <1>1, <1>3, <1>4, UpdateType
  <1>7. IsMap(subjectIndex, Addresses, Identities)'
    <2> HIDE DEF dropped
    <2> QED  BY <1>2, <1>4, <1>5, PutType
  <1>8. /\ DOMAIN identities' = DOMAIN identities /\ identities'[i] = x
        /\ \A j \in DOMAIN identities : j # i => identities'[j] = identities[j]
    BY <1>1, <1>4 DEF IsMap
  <1>9. IndexPointsHome'
    BY <1>3, <1>4, <1>8 DEF IInv, IndexPointsHome, Put, Drop
  <1> QED  BY <1>3, <1>6, <1>7, <1>8, <1>9

\* What a confirmation that is right does: it spends its code and moves at most
\* one identity of the principal, to the address the code was delivered to.
LEMMA ConfirmedEffect ==
    ASSUME IInv, NEW k \in DOMAIN calls, Confirmed(k), NEW ch, ch = calls[k].challenge
    PROVE  /\ ch \in DOMAIN challenges /\ ~challenges[ch].consumed
           /\ Guess(k) /\ Return(k)
           /\ challenges' = [challenges EXCEPT ![ch] =
                                [challenges[ch] EXCEPT !.consumed = TRUE]]
           /\ UNCHANGED <<now, sessions, rates>>
           /\ \/ UNCHANGED <<identities, subjectIndex, revokedSessions>>
              \/ \E i \in DOMAIN identities :
                    /\ identities[i].principal = calls[k].principal
                    /\ challenges[ch].delivered
                    /\ challenges[ch].subject \in Addresses
                    /\ ChangeAddress(i, challenges[ch].subject)
  <1>1. /\ ch \in DOMAIN challenges /\ ~challenges[ch].consumed /\ Guess(k)
    BY DEF Confirmed, Guess, IInv, GuessInv
  <1>2. challenges[ch].subject \in Addresses
    BY <1>1, ChallengeFields DEF IInv, Challenge
  <1>3. /\ Return(k) /\ UNCHANGED <<now, sessions, rates>>
        /\ challenges' = [challenges EXCEPT ![ch] =
                             [challenges[ch] EXCEPT !.consumed = TRUE]]
    BY DEF Confirmed
  <1>4. CASE Changeable(calls[k])
    <2>1. /\ challenges[ch].delivered
          /\ challenges[ch].target = challenges[ch].subject
      BY <1>1, <1>4 DEF Changeable, IInv, TargetInv
    <2>2. PICK i \in DOMAIN identities :
             /\ identities[i].principal = calls[k].principal
             /\ ChangeAddress(i, challenges[ch].target)
      BY <1>4 DEF Confirmed
    <2> QED  BY <1>1, <1>2, <1>3, <2>1, <2>2
  <1>5. CASE ~Changeable(calls[k])
    BY <1>1, <1>3, <1>5 DEF Confirmed, identityVars
  <1> QED  BY <1>4, <1>5

\* A right confirmation moves the identity.
LEMMA ConfirmedKeeps ==
    ASSUME IInv, NEW k \in DOMAIN calls, Confirmed(k)
    PROVE  IInv'
  <1> DEFINE ch == calls[k].challenge
             x == [challenges[ch] EXCEPT !.consumed = TRUE]
  <1>1. /\ ch \in DOMAIN challenges /\ ~challenges[ch].consumed
        /\ Guess(k) /\ Return(k)
        /\ challenges' = [challenges EXCEPT ![ch] = x]
        /\ UNCHANGED <<now, sessions, rates>>
        /\ \/ UNCHANGED <<identities, subjectIndex, revokedSessions>>
           \/ \E i \in DOMAIN identities :
                 /\ challenges[ch].subject \in Addresses
                 /\ ChangeAddress(i, challenges[ch].subject)
    BY ConfirmedEffect
  <1>2. \A t \in DOMAIN sessions : sessions[t].challenge # ch
    BY <1>1 DEF IInv, SessionInv
  <1>3. challenges[ch] \in Challenge
    BY <1>1, ChallengeFields DEF IInv
  <1>4. /\ x \in Challenge /\ x.subject = challenges[ch].subject
        /\ x.target = challenges[ch].target /\ x.attempts = challenges[ch].attempts
        /\ InBounds(x)
    BY <1>3 DEF Challenge, InBounds
  <1>5. ch = calls[k].challenge
    OBVIOUS
  <1> HIDE DEF x, ch
  <1>6. /\ IsMap(calls, Slots, RegisterCall \cup RequestCall \cup GuessCall)'
        /\ IsMap(challenges, Challenges, Challenge)'
        /\ DOMAIN challenges' = DOMAIN challenges
        /\ \A d \in DOMAIN challenges : d # ch => challenges'[d] = challenges[d]
        /\ GuessInv' /\ RequestInv' /\ TargetInv' /\ AttemptInv'
    BY <1>1, <1>4, <1>5, GuessEnds
  <1>7. /\ IsMap(identities, Identities, Identity)'
        /\ IsMap(subjectIndex, Addresses, Identities)'
        /\ IndexPointsHome' /\ revokedSessions' \subseteq Sessions
    <2>1. CASE UNCHANGED <<identities, subjectIndex, revokedSessions>>
      BY <2>1 DEF IInv, TypeOK, IndexPointsHome
    <2>2. ASSUME NEW i \in DOMAIN identities, challenges[ch].subject \in Addresses,
                 ChangeAddress(i, challenges[ch].subject)
          PROVE  /\ IsMap(identities, Identities, Identity)'
                 /\ IsMap(subjectIndex, Addresses, Identities)'
                 /\ IndexPointsHome' /\ revokedSessions' \subseteq Sessions
      <3>1. revokedSessions' \subseteq Sessions
        BY <2>2 DEF ChangeAddress, SessionsOf, IInv, TypeOK, IsMap
      <3> QED  BY <2>2, <3>1, ChangeAddressKeeps
    <2> QED  BY <1>1, <2>1, <2>2
  <1>8. TypeOK'
    BY <1>1, <1>6, <1>7 DEF IInv, TypeOK
  <1>9. SessionInv'
    BY <1>1, <1>2, <1>6 DEF IInv, SessionInv, OneSessionPerCode
  <1> QED  BY <1>6, <1>7, <1>8, <1>9 DEF IInv
-----------------------------------------------------------------------------
(* The theorems.                                                           *)

\* Every step of the service keeps the invariant.
LEMMA StepKeeps == ASSUME IInv, [Next]_vars PROVE IInv'
  <1>1. ASSUME NEW k \in Slots,
               \/ \E i \in Identities, p \in Principals, a \in Addresses :
                     RegisterIdentity(k, i, p, a)
               \/ \E a \in Addresses, purpose \in Purposes : RequestOtp(k, a, purpose)
               \/ \E s \in Sessions, a \in Addresses : RequestEmailChange(k, s, a)
        PROVE  IInv'
    BY <1>1, BeginningsKeep
  <1>2. ASSUME NEW k \in Slots, NEW ch \in Challenges,
               VerifyOtp(k, ch) \/ \E s \in Sessions : ConfirmEmailChange(k, s, ch)
        PROVE  IInv'
    BY <1>2, GuessesBegin
  <1>3. ASSUME NEW k \in DOMAIN calls,
               \/ Registered(k) \/ ChangeChecked(k) \/ SubjectHashed(k)
               \/ \E ch \in Challenges : ChallengeStored(k, ch)
               \/ \E delivered \in BOOLEAN : Sent(k, delivered)
               \/ ChangeRequested(k) \/ GuessWrong(k)
               \/ \E s \in Sessions : Verified(k, s)
               \/ Confirmed(k)
        PROVE  IInv'
    BY <1>3, RegisteredKeeps, ChangeCheckedKeeps, SubjectHashedKeeps,
       ChallengeStoredKeeps, SentKeeps, ChangeRequestedKeeps, GuessWrongKeeps,
       VerifiedKeeps, ConfirmedKeeps
  <1> QED  BY <1>1, <1>2, <1>3, QuietKeeps DEF Next

\* The service starts with nothing.
LEMMA InitKeeps == Init => IInv
  BY EmptyMapType DEF Init, IInv, TypeOK, IndexPointsHome, GuessInv, RequestInv,
     TargetInv, AttemptInv, SessionInv, OneSessionPerCode, EmptyMap

\* The inductive invariant of EmailOtpAuthService.
THEOREM InductiveInvariant == Spec => []IInv
  <1>1. IInv /\ [Next]_vars => IInv'
    BY StepKeeps
  <1> QED  BY <1>1, InitKeeps, PTL DEF Spec

\* The state of the service keeps its type.
THEOREM TypeCorrect == Spec => []TypeOK
  <1>1. IInv => TypeOK
    BY DEF IInv
  <1> QED  BY <1>1, InductiveInvariant, PTL

\* A code is guessed at most maxAttempts times, whichever of verifyOtp and
\* confirmEmailChange the guesses go through, and opens at most one session.
THEOREM BoundedCodes == Spec => []CodesAreBounded
  <1>1. IInv => CodesAreBounded
    BY DEF IInv, SessionInv, AttemptInv, CodesAreBounded, GuessesBounded
  <1> QED  BY <1>1, InductiveInvariant, PTL

\* An address leads to the identity that has it; a session is opened only with
\* a code delivered to the present address of its principal; an identity moves
\* only to an address that the code its principal entered was delivered to.
THEOREM AddressesHold == Spec => AddressChangesHold
  <1> DEFINE Follows ==
         \A s \in DOMAIN sessions' \ DOMAIN sessions :
            LET ch == challenges[sessions'[s].challenge]
            IN  /\ ch.delivered
                /\ \E i \in DOMAIN identities :
                      /\ identities[i].principal = sessions'[s].principal
                      /\ identities[i].address = ch.subject
      Earned ==
         \A i \in DOMAIN identities :
            identities'[i].address # identities[i].address =>
                /\ \E k \in DOMAIN calls :
                      LET ch == calls[k].challenge
                      IN  /\ calls[k].op = "confirm"
                          /\ calls[k].principal = identities[i].principal
                          /\ ~challenges[ch].consumed /\ challenges'[ch].consumed
                          /\ challenges[ch].delivered
                          /\ challenges[ch].subject = identities'[i].address
                /\ SessionsOf(identities[i].principal) \subseteq revokedSessions'
  <1>1. ASSUME IInv, [Next]_vars
        PROVE  Follows /\ Earned
    <2>1. ASSUME NEW k \in DOMAIN calls, NEW s \in Sessions, Verified(k, s)
          PROVE  Follows /\ Earned
      <3> DEFINE ch == challenges[calls[k].challenge]
      <3>1. UNCHANGED identities
        BY <2>1 DEF Verified, identityVars
      <3>2. ASSUME NEW t \in DOMAIN sessions' \ DOMAIN sessions
            PROVE  /\ ch.delivered /\ ch.subject \in DOMAIN subjectIndex
                   /\ sessions'[t].principal = identities[subjectIndex[ch.subject]].principal
                   /\ sessions'[t].challenge = calls[k].challenge
        BY <2>1 DEF Verified, Put
      <3>3. ch.subject \in DOMAIN subjectIndex =>
               /\ subjectIndex[ch.subject] \in DOMAIN identities
               /\ identities[subjectIndex[ch.subject]].address = ch.subject
        BY <1>1 DEF IInv, IndexPointsHome
      <3>4. Follows
        BY <3>2, <3>3
      <3> QED  BY <3>1, <3>4
    <2>2. ASSUME NEW k \in DOMAIN calls, Confirmed(k)
          PROVE  Follows /\ Earned
      <3> DEFINE ch == calls[k].challenge
      <3>1. /\ ch \in DOMAIN challenges /\ ~challenges[ch].consumed
            /\ challenges' = [challenges EXCEPT ![ch] =
                                 [challenges[ch] EXCEPT !.consumed = TRUE]]
            /\ UNCHANGED sessions
            /\ \/ UNCHANGED identities
               \/ \E i \in DOMAIN identities :
                     /\ identities[i].principal = calls[k].principal
                     /\ challenges[ch].delivered
                     /\ challenges[ch].subject \in Addresses
                     /\ ChangeAddress(i, challenges[ch].subject)
        BY <1>1, <2>2, ConfirmedEffect
      <3>2. calls[k].op = "confirm" /\ challenges[ch] \in Challenge
        BY <1>1, <2>2, <3>1, ChallengeFields DEF Confirmed, IInv
      <3>3. challenges'[ch].consumed
        BY <1>1, <3>1, <3>2 DEF IInv, TypeOK, IsMap, Challenge
      <3>4. ASSUME NEW i \in DOMAIN identities,
                   identities[i].principal = calls[k].principal,
                   challenges[ch].delivered,
                   challenges[ch].subject \in Addresses,
                   ChangeAddress(i, challenges[ch].subject)
            PROVE  Earned
        <4>1. /\ identities'[i].address = challenges[ch].subject
              /\ \A j \in DOMAIN identities : j # i => identities'[j] = identities[j]
          BY <1>1, <3>4, ChangeAddressKeeps
        <4>2. SessionsOf(identities[i].principal) \subseteq revokedSessions'
          BY <3>4 DEF ChangeAddress
        <4> QED  BY <3>1, <3>2, <3>3, <3>4, <4>1, <4>2
      <3>5. Follows
        BY <3>1
      <3> QED  BY <3>1, <3>4, <3>5
    <2>3. CASE /\ DOMAIN sessions' \subseteq DOMAIN sessions
               /\ \A i \in DOMAIN identities : identities'[i] = identities[i]
      BY <2>3
    <2>4. ASSUME NEW k \in DOMAIN calls, Registered(k)
          PROVE  /\ DOMAIN sessions' \subseteq DOMAIN sessions
                 /\ \A i \in DOMAIN identities : identities'[i] = identities[i]
      BY <2>4 DEF Registered, sessionVars, identityVars, Put
    <2>5. ASSUME \/ \E k \in Slots : \E ch \in Challenges :
                       \/ VerifyOtp(k, ch)
                       \/ \E s \in Sessions : ConfirmEmailChange(k, s, ch)
                 \/ \E k \in DOMAIN calls :
                       \/ ChangeChecked(k) \/ SubjectHashed(k)
                       \/ \E ch \in Challenges : ChallengeStored(k, ch)
                       \/ \E delivered \in BOOLEAN : Sent(k, delivered)
                       \/ ChangeRequested(k) \/ GuessWrong(k)
          PROVE  UNCHANGED <<identities, sessions>>
      BY <2>5 DEF VerifyOtp, ConfirmEmailChange, ChangeChecked, SubjectHashed,
         ChallengeStored, Sent, ChangeRequested, GuessWrong, identityVars, sessionVars
    <2>6. ASSUME \/ Tick \/ UNCHANGED vars
                 \/ \E k \in Slots :
                       \/ \E i \in Identities, p \in Principals, a \in Addresses :
                             RegisterIdentity(k, i, p, a)
                       \/ \E a \in Addresses, purpose \in Purposes :
                             RequestOtp(k, a, purpose)
                       \/ \E s \in Sessions, a \in Addresses : RequestEmailChange(k, s, a)
                 \/ \E s \in Sessions : RevokeSession(s)
                 \/ \E p \in Principals : RevokePrincipalSessions(p)
          PROVE  UNCHANGED <<identities, sessions>>
      BY <2>6 DEF Tick, RegisterIdentity, RequestOtp, RequestEmailChange, Request,
         RevokeSession, RevokePrincipalSessions, vars, identityVars, sessionVars
    <2> HIDE DEF Follows, Earned
    <2> QED  BY <1>1, <2>1, <2>2, <2>3, <2>4, <2>5, <2>6 DEF Next
  <1>2. IInv /\ [Next]_vars => [Follows]_vars /\ [Earned]_vars
    BY <1>1
  <1>3. IInv => IndexPointsHome
    BY DEF IInv
  <1> QED
    BY <1>2, <1>3, InductiveInvariant, PTL
       DEF Spec, AddressChangesHold, SessionsFollowTheAddress, ChangesAreEarned
-----------------------------------------------------------------------------
(* How far OneIdentityPerAddress holds.                                    *)

\* Every identity can log in with its address; so no two have the same one.
EveryoneHome ==
    \A i \in DOMAIN identities :
        /\ identities[i].address \in DOMAIN subjectIndex
        /\ subjectIndex[identities[i].address] = i

\* The step confirms a change: an identity of the caller moves to the address
\* the code was delivered to, which leads to another identity by now.
MovesToTaken(k) ==
    LET a == challenges[calls[k].challenge].subject
    IN  /\ calls[k].op = "confirm" /\ k \notin DOMAIN calls'
        /\ challenges[calls[k].challenge].delivered
        /\ a \in DOMAIN subjectIndex
        /\ identities[subjectIndex[a]].address = a
        /\ \E i \in DOMAIN identities \ {subjectIndex[a]} :
              /\ identities[i].principal = calls[k].principal
              /\ identities'[i].address = a

\* Identities come to share an address, and one of them loses its login, in one
\* way only: a change is confirmed with the code delivered to an address that
\* another identity has taken.  No registration and no other race does it.
SharedOnlyIfTaken ==
    [][EveryoneHome => EveryoneHome' \/ \E k \in DOMAIN calls : MovesToTaken(k)]_vars

\* Identities that can all log in have different addresses.
LEMMA HomesDiffer == EveryoneHome => OneIdentityPerAddress
  BY DEF EveryoneHome, OneIdentityPerAddress

\* A registration takes an address that nobody has.
LEMMA RegisteredHome ==
    ASSUME IInv, EveryoneHome, NEW k \in DOMAIN calls, Registered(k)
    PROVE  EveryoneHome'
  <1> DEFINE c == calls[k]
             new == [principal |-> c.principal, address |-> c.address]
  <1>1. CASE UNCHANGED identityVars
    BY <1>1 DEF EveryoneHome, identityVars
  <1>2. CASE /\ c.address \notin DOMAIN subjectIndex
             /\ c.identity \notin DOMAIN identities
             /\ identities' = Put(identities, c.identity, new)
             /\ subjectIndex' = Put(subjectIndex, c.address, c.identity)
    <2>1. new.address = c.address
      OBVIOUS
    <2> HIDE DEF new, c
    <2>2. /\ DOMAIN identities' = DOMAIN identities \cup {c.identity}
          /\ identities'[c.identity] = new
          /\ \A i \in DOMAIN identities : identities'[i] = identities[i]
      BY <1>2 DEF Put
    <2>3. /\ DOMAIN subjectIndex' = DOMAIN subjectIndex \cup {c.address}
          /\ subjectIndex'[c.address] = c.identity
          /\ \A a \in DOMAIN subjectIndex : subjectIndex'[a] = subjectIndex[a]
      BY <1>2 DEF Put
    <2> QED  BY <2>1, <2>2, <2>3 DEF EveryoneHome
  <1> QED  BY <1>1, <1>2 DEF Registered

\* A change to an address nobody else has leaves everyone at home.
LEMMA ChangedHome ==
    ASSUME IInv, EveryoneHome, NEW i \in DOMAIN identities,
           NEW a \in Addresses, ChangeAddress(i, a),
           a \in DOMAIN subjectIndex => subjectIndex[a] = i
    PROVE  EveryoneHome'
  <1> DEFINE b == identities[i].address
  <1>1. /\ DOMAIN identities' = DOMAIN identities /\ identities'[i].address = a
        /\ \A j \in DOMAIN identities : j # i => identities'[j] = identities[j]
    BY ChangeAddressKeeps
  <1>2. /\ DOMAIN subjectIndex' = (DOMAIN subjectIndex \ {b}) \cup {a}
        /\ subjectIndex'[a] = i
        /\ \A x \in DOMAIN subjectIndex \ {b} :
              x # a => subjectIndex'[x] = subjectIndex[x]
    BY DEF ChangeAddress, MoveIndex, Put, Drop
  <1>3. ASSUME NEW j \in DOMAIN identities, j # i
        PROVE  /\ identities[j].address \in DOMAIN subjectIndex \ {b}
               /\ identities[j].address # a
               /\ subjectIndex[identities[j].address] = j
    BY <1>3 DEF EveryoneHome
  <1> HIDE DEF b
  <1>4. ASSUME NEW j \in DOMAIN identities, j # i
        PROVE  /\ identities'[j].address \in DOMAIN subjectIndex'
               /\ subjectIndex'[identities'[j].address] = j
    BY <1>1, <1>2, <1>3, <1>4
  <1>5. identities'[i].address \in DOMAIN subjectIndex'
           /\ subjectIndex'[identities'[i].address] = i
    BY <1>1, <1>2
  <1> QED  BY <1>1, <1>4, <1>5 DEF EveryoneHome

\* A confirmation leaves everyone at home, or moves to a taken address.
LEMMA ConfirmedHome ==
    ASSUME IInv, EveryoneHome, NEW k \in DOMAIN calls, Confirmed(k)
    PROVE  EveryoneHome' \/ MovesToTaken(k)
  <1> DEFINE ch == calls[k].challenge
             a == challenges[ch].subject
  <1>1. /\ Return(k)
        /\ \/ UNCHANGED <<identities, subjectIndex, revokedSessions>>
           \/ \E i \in DOMAIN identities :
                 /\ identities[i].principal = calls[k].principal
                 /\ challenges[ch].delivered
                 /\ a \in Addresses
                 /\ ChangeAddress(i, a)
    BY ConfirmedEffect
  <1>2. CASE UNCHANGED <<identities, subjectIndex, revokedSessions>>
    BY <1>2 DEF EveryoneHome
  <1>3. ASSUME NEW i \in DOMAIN identities,
               identities[i].principal = calls[k].principal,
               challenges[ch].delivered, a \in Addresses, ChangeAddress(i, a)
        PROVE  EveryoneHome' \/ MovesToTaken(k)
    <2>1. CASE a \in DOMAIN subjectIndex => subjectIndex[a] = i
      BY <1>3, <2>1, ChangedHome
    <2>2. CASE a \in DOMAIN subjectIndex /\ subjectIndex[a] # i
      <3>1. identities[subjectIndex[a]].address = a
        BY <2>2 DEF IInv, IndexPointsHome
      <3>2. identities'[i].address = a
        BY <1>3, ChangeAddressKeeps
      <3>3. k \notin DOMAIN calls' /\ calls[k].op = "confirm"
        BY <1>1 DEF Return, Drop, Confirmed
      <3> QED  BY <1>3, <2>2, <3>1, <3>2, <3>3 DEF MovesToTaken
    <2> QED  BY <2>1, <2>2
  <1> QED  BY <1>1, <1>2, <1>3

\* Only these two steps touch the identities and the index.
LEMMA IdentitiesStay ==
    ASSUME [Next]_vars
    PROVE  \/ UNCHANGED <<identities, subjectIndex>>
           \/ \E k \in DOMAIN calls : Registered(k) \/ Confirmed(k)
  <1>1. ASSUME \/ Tick \/ UNCHANGED vars
               \/ \E k \in Slots :
                     \/ \E i \in Identities, p \in Principals, a \in Addresses :
                           RegisterIdentity(k, i, p, a)
                     \/ \E a \in Addresses, purpose \in Purposes :
                           RequestOtp(k, a, purpose)
                     \/ \E s \in Sessions, a \in Addresses : RequestEmailChange(k, s, a)
               \/ \E s \in Sessions : RevokeSession(s)
               \/ \E p \in Principals : RevokePrincipalSessions(p)
        PROVE  UNCHANGED <<identities, subjectIndex>>
    BY <1>1 DEF Tick, RegisterIdentity, RequestOtp, RequestEmailChange, Request,
       RevokeSession, RevokePrincipalSessions, vars, identityVars
  <1>2. ASSUME \/ \E k \in Slots : \E ch \in Challenges :
                     \/ VerifyOtp(k, ch)
                     \/ \E s \in Sessions : ConfirmEmailChange(k, s, ch)
               \/ \E k \in DOMAIN calls :
                     \/ ChangeChecked(k) \/ SubjectHashed(k)
                     \/ \E ch \in Challenges : ChallengeStored(k, ch)
                     \/ \E delivered \in BOOLEAN : Sent(k, delivered)
                     \/ ChangeRequested(k) \/ GuessWrong(k)
                     \/ \E s \in Sessions : Verified(k, s)
        PROVE  UNCHANGED <<identities, subjectIndex>>
    BY <1>2 DEF VerifyOtp, ConfirmEmailChange, ChangeChecked, SubjectHashed,
       ChallengeStored, Sent, ChangeRequested, GuessWrong, Verified, identityVars
  <1> QED  BY <1>1, <1>2 DEF Next

\* registerIdentity and confirmEmailChange: an address is shared, and an
\* identity locked out, only by confirming a change to an address that another
\* identity has.
THEOREM SharingIsNarrow == Spec => SharedOnlyIfTaken
  <1>1. ASSUME IInv, [Next]_vars, EveryoneHome
        PROVE  EveryoneHome' \/ \E k \in DOMAIN calls : MovesToTaken(k)
    <2>1. CASE UNCHANGED <<identities, subjectIndex>>
      BY <1>1, <2>1 DEF EveryoneHome
    <2> QED  BY <1>1, <2>1, IdentitiesStay, RegisteredHome, ConfirmedHome
  <1>2. IInv /\ [Next]_vars =>
          [EveryoneHome => EveryoneHome' \/ \E k \in DOMAIN calls : MovesToTaken(k)]_vars
    BY <1>1
  <1> QED  BY <1>2, InductiveInvariant, PTL DEF Spec, SharedOnlyIfTaken
=============================================================================
