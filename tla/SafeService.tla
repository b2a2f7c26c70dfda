----------------------------- MODULE SafeService -----------------------------
(***************************************************************************)
(* SafeServiceAdapter (packages/safe-service-adapter/src/index.ts) and     *)
(* submitUserOperation (packages/account-adapter/src/index.ts): a user     *)
(* operation is simulated, sponsored, signed and sent to a bundler.        *)
(*                                                                         *)
(* An operation is [call, paymaster, signature, gas]: sponsoring and       *)
(* signing make another operation of it.  `gas` stands for its gas limits  *)
(* and its fees, which operationKey leaves out.  The bundler is external:  *)
(* it may refuse, fail, or take an operation and lose the answer.          *)
(***************************************************************************)
EXTENDS CallSlots

CONSTANTS
    Calls,                    \* sender, nonce and calldata of an operation
    Gas,                      \* gas limits and fees; 0: preVerificationGas is left out
    ReceiptPolls              \* receiptTimeoutMs / pollIntervalMs

ASSUME SafeAssumption == ReceiptPolls \in Nat \ {0} /\ Gas \subseteq Nat

VARIABLES
    deploymentVerified, simulations, submitted,      \* SafeServiceAdapter
    safeCalls,                             \* its calls at an await
    submissions,                           \* submitUserOperation calls
    valid, answered                        \* history: the forms found valid, and those
                                           \* of which a submission was answered

adapterVars == <<deploymentVerified, simulations, submitted>>
safeVars == <<deploymentVerified, simulations, submitted, safeCalls, submissions, valid, answered>>
historyVars == <<valid, answered>>

Operations == [call : Calls, paymaster : BOOLEAN, signature : BOOLEAN, gas : Gas]

\* An operation apart from its gas and fees.
Forms == [call : Calls, paymaster : BOOLEAN, signature : BOOLEAN]
Form(o) == [call |-> o.call, paymaster |-> o.paymaster, signature |-> o.signature]

\* Mutant of OperationKey: the sponsor is not part of the key.
OperationKeyUnsponsored(o) == <<o.call, o.signature>>

\* operationKey: sender, nonce, calldata, paymaster data and signature.
OperationKey(o) == <<o.call, o.paymaster, o.signature>>

SafeInit ==
    /\ deploymentVerified = FALSE /\ simulations = {} /\ submitted = {}
    /\ safeCalls = EmptyMap /\ submissions = EmptyMap
    /\ valid = {} /\ answered = {}

SafeCallAt(k, op) == k \in DOMAIN safeCalls /\ safeCalls[k].op = op

BeginSafeCall(k, op, o) ==
    /\ k \notin DOMAIN safeCalls
    /\ safeCalls' = Put(safeCalls, k, [op |-> op, operation |-> o])

EndSafeCall(k) == safeCalls' = Drop(safeCalls, k)
-----------------------------------------------------------------------------
(* SafeServiceAdapter                                                      *)

VerifyDeployment(k) ==
    /\ BeginSafeCall(k, "verify", None)
    /\ UNCHANGED <<adapterVars, submissions, historyVars>>

\* Chain id, code and code hashes were asked for: all match the profile, or the
\* call ends in an error.
DeploymentVerified(k, matches) ==
    /\ SafeCallAt(k, "verify") /\ EndSafeCall(k)
    /\ deploymentVerified' = (deploymentVerified \/ matches)
    /\ UNCHANGED <<simulations, submitted, submissions, historyVars>>

Simulate(k, o) ==
    /\ deploymentVerified
    /\ BeginSafeCall(k, "simulate", o)
    /\ UNCHANGED <<adapterVars, submissions, historyVars>>

SafeSimulated(k, ok) ==
    LET o == safeCalls[k].operation
    IN  /\ SafeCallAt(k, "simulate") /\ EndSafeCall(k)
        /\ simulations' = IF ok THEN simulations \cup {OperationKey(o)} ELSE simulations
        /\ valid' = IF ok THEN valid \cup {Form(o)} ELSE valid
        /\ UNCHANGED <<deploymentVerified, submitted, submissions, answered>>

\* sponsor and authorize return another operation and keep nothing; the caller
\* is free to submit it, or any other.  The bundler is sent what the caller gave.
Submit(k, o) ==
    /\ deploymentVerified
    /\ OperationKey(o) \notin submitted
    /\ OperationKey(o) \in simulations
    /\ BeginSafeCall(k, "submit", o)
    /\ UNCHANGED <<adapterVars, submissions, historyVars>>

\* Mutant of Keep: the operation is forgotten.
KeepNothing(o) == submitted

Keep(o) == submitted \cup {OperationKey(o)}

\* The bundler's answer, or none: only an answer makes the operation submitted.
Submitted(k, ok) ==
    LET o == safeCalls[k].operation
    IN  /\ SafeCallAt(k, "submit") /\ EndSafeCall(k)
        /\ submitted' = IF ok THEN Keep(o) ELSE submitted
        /\ answered' = IF ok THEN answered \cup {Form(o)} ELSE answered
        /\ UNCHANGED <<deploymentVerified, simulations, submissions, valid>>

SafeAdapter ==
    \E k \in Slots :
        \/ VerifyDeployment(k)
        \/ \E matches \in BOOLEAN : DeploymentVerified(k, matches)
        \/ \E o \in Operations : Simulate(k, o) \/ Submit(k, o)
        \/ \E ok \in BOOLEAN : SafeSimulated(k, ok) \/ Submitted(k, ok)
-----------------------------------------------------------------------------
(* submitUserOperation: simulate, sponsor, send, poll.                     *)

Submission == [operation : Operations, sponsored : BOOLEAN, polls : 0 .. ReceiptPolls,
               pc : {"simulate", "sponsor", "send", "poll", "polling",
                     "receipt", "failed"}]

SubmissionAt(k, pc) == k \in DOMAIN submissions /\ submissions[k].pc = pc

MoveSubmission(k, s) ==
    /\ submissions' = [submissions EXCEPT ![k] = s]
    /\ UNCHANGED <<adapterVars, safeCalls, historyVars>>

\* The deployment is well formed and the sender is the configured account.
SubmitUserOperation(k, c, gas, sponsored) ==
    /\ k \notin DOMAIN submissions
    /\ submissions' = Put(submissions, k,
          [operation |-> [call |-> c, paymaster |-> FALSE, signature |-> TRUE, gas |-> gas],
           sponsored |-> sponsored, polls |-> ReceiptPolls, pc |-> "simulate"])
    /\ UNCHANGED <<adapterVars, safeCalls, historyVars>>

\* A preVerificationGas the caller left out is the one the simulation gave, if any.
Prepared(o) == IF o.gas = 0 THEN {[o EXCEPT !.gas = g] : g \in Gas} ELSE {o}

OperationSimulated(k) ==
    LET s == submissions[k]
    IN  /\ SubmissionAt(k, "simulate")
        /\ \/ s.sponsored /\ MoveSubmission(k, [s EXCEPT !.pc = "sponsor"])
           \/ /\ ~s.sponsored
              /\ \E o \in Prepared(s.operation) :
                    MoveSubmission(k, [s EXCEPT !.operation = o, !.pc = "send"])
           \/ MoveSubmission(k, [s EXCEPT !.pc = "failed"])

\* The paymaster adds its data, if it likes, or declines.
Sponsored(k) ==
    LET s == submissions[k]
    IN  /\ SubmissionAt(k, "sponsor")
        /\ \/ \E b \in BOOLEAN : \E o \in Prepared([s.operation EXCEPT !.paymaster = b]) :
                 MoveSubmission(k, [s EXCEPT !.operation = o, !.pc = "send"])
           \/ MoveSubmission(k, [s EXCEPT !.pc = "failed"])

\* A hash, or an error: the submission is never retried.
Sent(k) ==
    /\ SubmissionAt(k, "send")
    /\ \/ MoveSubmission(k, [submissions[k] EXCEPT !.pc = "poll"])
       \/ MoveSubmission(k, [submissions[k] EXCEPT !.pc = "failed"])

\* Before the deadline a receipt is asked for; after it the call gives up.
Poll(k) ==
    LET s == submissions[k]
    IN  /\ SubmissionAt(k, "poll")
        /\ MoveSubmission(k, [s EXCEPT !.pc = IF s.polls > 0 THEN "polling" ELSE "failed"])

\* Mutant of Polled: the deadline does not come nearer.
PolledForever(k) ==
    LET s == submissions[k]
    IN  /\ SubmissionAt(k, "polling")
        /\ \/ MoveSubmission(k, [s EXCEPT !.pc = "receipt"])
           \/ MoveSubmission(k, [s EXCEPT !.pc = "failed"])
           \/ MoveSubmission(k, [s EXCEPT !.pc = "poll"])

\* A receipt, one that does not match the configuration, or none yet: then the
\* next poll comes after the interval.
Polled(k) ==
    LET s == submissions[k]
    IN  /\ SubmissionAt(k, "polling")
        /\ \/ MoveSubmission(k, [s EXCEPT !.pc = "receipt"])
           \/ MoveSubmission(k, [s EXCEPT !.pc = "failed"])
           \/ MoveSubmission(k, [s EXCEPT !.pc = "poll", !.polls = @ - 1])

SubmissionStep(k) ==
    OperationSimulated(k) \/ Sponsored(k) \/ Sent(k) \/ Poll(k)
        \/ Polled(k)

UserOperations ==
    \E k \in Slots :
        \/ SubmissionStep(k)
        \/ \E c \in Calls, gas \in Gas, sponsored \in BOOLEAN :
              SubmitUserOperation(k, c, gas, sponsored)

SafeNext == SafeAdapter \/ UserOperations

\* Providers answer or fail: every HTTP request of the ports ends, by the
\* provider or by the platform's own timeout.
SafeFairness == \A k \in Slots : WF_safeVars(SubmissionStep(k))

SafeSpec == SafeInit /\ [][SafeNext]_safeVars /\ SafeFairness

SafeTypeOK ==
    /\ deploymentVerified \in BOOLEAN
    /\ simulations \cup submitted \subseteq {OperationKey(o) : o \in Operations}
    /\ IsMap(safeCalls, Slots, [op : {"verify", "simulate", "submit"},
                                operation : Operations \cup {None}])
    /\ IsMap(submissions, Slots, Submission)
    /\ valid \subseteq Forms /\ answered \subseteq Forms
-----------------------------------------------------------------------------
\* What the adapter has in flight is, gas and fees apart, an operation that was found
\* valid: one that was sponsored or signed after its simulation is another.  Its gas
\* limits and fees may be others than the simulated ones: the key does not hold them.
SendsAreSimulated ==
    \A k \in DOMAIN safeCalls :
        safeCalls[k].op = "submit" =>
            \E v \in valid :
                /\ v.call = safeCalls[k].operation.call
                /\ v.paymaster = safeCalls[k].operation.paymaster
                /\ v.signature = safeCalls[k].operation.signature

\* "No blind resend": once a submission of an operation was answered the adapter does
\* not send it again, not with other gas or fees either, whatever was in flight at the
\* time.  One whose answer was lost may be sent again.
AnsweredIsNotResent ==
    [][\A k \in DOMAIN safeCalls' \ DOMAIN safeCalls :
          safeCalls'[k].op = "submit" => Form(safeCalls'[k].operation) \notin answered]_safeVars

\* submitUserOperation ends: in a receipt, or in an error at the latest when the
\* polls of its deadline are used up.
SubmissionEnds ==
    \A k \in Slots :
        k \in DOMAIN submissions ~>
            (k \in DOMAIN submissions /\ submissions[k].pc \in {"receipt", "failed"})
=============================================================================
