----------------------------- MODULE HolderProofs -----------------------------
(***************************************************************************)
(* Proofs about what stands on the holder's side: the account behind a     *)
(* wallet (RecoveryController, SafeService), and what a presentation is    *)
(* checked with (OnChainAttestation, CredentialScanner, OfflineEnvelope,   *)
(* CredentialDomain).                                                      *)
(***************************************************************************)
EXTENDS RecoveryController, SafeService, OnChainAttestation, CredentialScanner,
        OfflineEnvelope, CredentialDomain, FiniteSetTheorems, JsMapTheorems, TLAPS

(* RecoveryController.                                                     *)

\* The guardians that approved the proposal of that number.
ApprovedBy(number) == {g \in Guardians : <<g, number>> \in approvals}

\* A proposal being hashed has a number of its own that nobody has approved yet;
\* the pending one carries the approvals given to it and no others.
RecoveryInv ==
    /\ RecoveryTypeOK
    /\ \A a \in approvals : a[2] <= proposals
    /\ \A k \in DOMAIN proposing :
          /\ proposing[k].approvals = {} /\ proposing[k].number \in 1 .. proposals
          /\ ApprovedBy(proposing[k].number) = {}
          /\ pending # None => pending.number # proposing[k].number
          /\ \A j \in DOMAIN proposing :
                proposing[j].number = proposing[k].number => j = k
    /\ pending # None =>
          /\ pending.number \in 1 .. proposals
          /\ pending.approvals = ApprovedBy(pending.number)

LEMMA RecoveryStart ==
    ASSUME RecoveryInit
    PROVE  RecoveryInv
  <1>1. DOMAIN EmptyMap = {}
    BY DEF EmptyMap
  <1>2. RecoveryTypeOK
    BY EmptyMapType, RecoveryAssumption DEF RecoveryInit, RecoveryTypeOK
  <1> QED  BY <1>1, <1>2 DEF RecoveryInit, RecoveryInv

\* A proposal is made under a new number.
LEMMA ProposeKeeps ==
    ASSUME RecoveryInv, NEW k \in Slots, NEW s \in Signers, Propose(k, s)
    PROVE  RecoveryInv'
  <1> DEFINE n == proposals + 1
             p == [newSigner |-> s, proposedAtBlock |-> block, approvals |-> {}, number |-> n]
  <1>1. /\ proposals \in 0 .. MaxProposals /\ proposals < MaxProposals /\ MaxProposals \in Nat
        /\ block \in Nat /\ proposals' = n /\ k \notin DOMAIN proposing
        /\ proposing' = Put(proposing, k, p)
        /\ UNCHANGED <<block, signer, pending, approvals, modules>>
    BY RecoveryAssumption DEF RecoveryInv, RecoveryTypeOK, Propose
  <1>2. p \in Proposal /\ p.approvals = {} /\ p.number = n /\ n \in 1 .. MaxProposals
    BY <1>1 DEF Proposal
  <1> HIDE DEF p
  <1>3. /\ DOMAIN proposing' = DOMAIN proposing \cup {k} /\ proposing'[k] = p
        /\ \A j \in DOMAIN proposing : proposing'[j] = proposing[j]
    BY <1>1 DEF Put
  <1>4. RecoveryTypeOK'
    BY <1>1, <1>2, PutType DEF RecoveryInv, RecoveryTypeOK
  <1>5. ApprovedBy(n) = {}
    BY <1>1 DEF RecoveryInv, RecoveryTypeOK, ApprovedBy
  <1>6. \A m : ApprovedBy(m)' = ApprovedBy(m)
    BY <1>1 DEF ApprovedBy
  <1>7. \A a \in approvals' : a[2] <= proposals'
    BY <1>1 DEF RecoveryInv, RecoveryTypeOK
  <1>8. pending' # None =>
           /\ pending'.number \in 1 .. proposals'
           /\ pending'.approvals = ApprovedBy(pending.number)'
    BY <1>1, <1>6 DEF RecoveryInv, ApprovedBy
  <1>9. ASSUME NEW i \in DOMAIN proposing'
        PROVE  /\ proposing'[i].approvals = {} /\ proposing'[i].number \in 1 .. proposals'
               /\ ApprovedBy(proposing[i].number)' = {}
               /\ pending' # None => pending'.number # proposing'[i].number
               /\ \A j \in DOMAIN proposing' :
                     proposing'[j].number = proposing'[i].number => j = i
    <2>1. \A j \in DOMAIN proposing : proposing[j].number \in 1 .. proposals
      BY DEF RecoveryInv
    <2>2. CASE i = k
      BY <1>1, <1>2, <1>3, <1>5, <2>1, <2>2 DEF RecoveryInv, ApprovedBy
    <2>3. CASE i # k
      BY <1>1, <1>2, <1>3, <2>1, <2>3 DEF RecoveryInv, ApprovedBy
    <2> QED  BY <2>2, <2>3
  <1> QED  BY <1>4, <1>7, <1>8, <1>9 DEF RecoveryInv

\* A proposal becomes the pending one.
LEMMA ProposedKeeps ==
    ASSUME RecoveryInv, NEW k \in Slots, Proposed(k)
    PROVE  RecoveryInv'
  <1>1. /\ k \in DOMAIN proposing /\ pending' = proposing[k]
        /\ DOMAIN proposing' = DOMAIN proposing \ {k}
        /\ \A j \in DOMAIN proposing' : proposing'[j] = proposing[j]
        /\ proposing' = Drop(proposing, k)
        /\ UNCHANGED <<block, signer, approvals, proposals, modules>>
    BY DEF Proposed, Drop
  <1>2. proposing[k] \in Proposal
    BY <1>1 DEF RecoveryInv, RecoveryTypeOK, IsMap
  <1>3. RecoveryTypeOK'
    BY <1>1, <1>2, DropType DEF RecoveryInv, RecoveryTypeOK
  <1> QED  BY <1>1, <1>3 DEF RecoveryInv, ApprovedBy

\* A guardian approves what is pending.
LEMMA ApproveKeeps ==
    ASSUME RecoveryInv, NEW g \in Guardians, Approve(g)
    PROVE  RecoveryInv'
  <1> DEFINE n == pending.number
             p == [pending EXCEPT !.approvals = pending.approvals \cup {g}]
  <1>1. /\ pending # None /\ pending \in Proposal /\ pending' = p
        /\ approvals' = approvals \cup {<<g, n>>}
        /\ UNCHANGED <<block, signer, proposing, proposals, modules>>
    BY DEF RecoveryInv, RecoveryTypeOK, Approve
  <1>2. /\ p \in Proposal /\ p.approvals = pending.approvals \cup {g} /\ p.number = n
    BY <1>1 DEF Proposal
  <1>3. n \in 1 .. proposals /\ proposals \in 0 .. MaxProposals /\ MaxProposals \in Nat
    BY <1>1, RecoveryAssumption DEF RecoveryInv, RecoveryTypeOK
  <1> HIDE DEF p
  <1>4. RecoveryTypeOK'
    BY <1>1, <1>2, <1>3 DEF RecoveryInv, RecoveryTypeOK
  <1>5. \A m : {h \in Guardians : <<h, m>> \in approvals'} =
               IF m = n THEN ApprovedBy(m) \cup {g} ELSE ApprovedBy(m)
    BY <1>1 DEF ApprovedBy
  <1>6. \A a \in approvals' : a[2] <= proposals'
    BY <1>1, <1>3 DEF RecoveryInv
  <1>7. /\ pending'.number \in 1 .. proposals'
        /\ pending'.approvals = ApprovedBy(pending.number)'
    BY <1>1, <1>2, <1>3, <1>5 DEF RecoveryInv, ApprovedBy
  <1>8. ASSUME NEW i \in DOMAIN proposing'
        PROVE  /\ proposing'[i].approvals = {} /\ proposing'[i].number \in 1 .. proposals'
               /\ ApprovedBy(proposing[i].number)' = {}
               /\ pending' # None => pending'.number # proposing'[i].number
               /\ \A j \in DOMAIN proposing' :
                     proposing'[j].number = proposing'[i].number => j = i
    BY <1>1, <1>2, <1>5, <1>8 DEF RecoveryInv, ApprovedBy
  <1> QED  BY <1>4, <1>6, <1>7, <1>8 DEF RecoveryInv

LEMMA RecoveryStep ==
    ASSUME RecoveryInv, [RecoveryNext]_recoveryVars
    PROVE  RecoveryInv'
  <1>1. CASE Mine
    <2>1. RecoveryTypeOK'
      BY <1>1, RecoveryAssumption DEF Mine, RecoveryInv, RecoveryTypeOK
    <2> QED  BY <1>1, <2>1 DEF Mine, RecoveryInv, ApprovedBy
  <1>2. CASE Execute
    <2>1. pending' = None /\ UNCHANGED <<block, proposing, approvals, proposals, modules>>
      BY <1>2 DEF Execute
    <2>2. RecoveryTypeOK'
      <3>1. pending \in Proposal
        BY <1>2 DEF Execute, RecoveryInv, RecoveryTypeOK
      <3>2. signer' \in Signers
        BY <1>2, <3>1 DEF Execute, Proposal
      <3> QED  BY <2>1, <3>2 DEF RecoveryInv, RecoveryTypeOK
    <2> QED  BY <2>1, <2>2 DEF RecoveryInv, ApprovedBy
  <1>3. CASE Modules
    <2>1. UNCHANGED <<block, signer, pending, proposing, approvals, proposals>>
      BY <1>3 DEF Modules, Install, Uninstall
    <2>2. IsMap(modules, {x.address : x \in Manifests}, PinnedModules)'
      <3>1. ASSUME NEW x \in Manifests, Install(x)
            PROVE  IsMap(modules, {y.address : y \in Manifests}, PinnedModules)'
        <4>1. x \in PinnedModules /\ x.address \in {y.address : y \in Manifests}
          BY <3>1, RecoveryAssumption DEF Install, Allowed
        <4> QED  BY <3>1, <4>1, PutType DEF Install, RecoveryInv, RecoveryTypeOK
      <3>2. ASSUME NEW a, Uninstall(a)
            PROVE  IsMap(modules, {y.address : y \in Manifests}, PinnedModules)'
        BY <3>2, DropType DEF Uninstall, RecoveryInv, RecoveryTypeOK
      <3> QED  BY <1>3, <3>1, <3>2 DEF Modules
    <2>3. RecoveryTypeOK'
      BY <2>1, <2>2 DEF RecoveryInv, RecoveryTypeOK
    <2> QED  BY <2>1, <2>3 DEF RecoveryInv, ApprovedBy
  <1>4. CASE UNCHANGED recoveryVars
    BY <1>4 DEF recoveryVars, RecoveryInv, RecoveryTypeOK, ApprovedBy
  <1> QED  BY <1>1, <1>2, <1>3, <1>4, ProposeKeeps, ProposedKeeps, ApproveKeeps
           DEF RecoveryNext, Recovery

\* The proposals and approvals of the recovery controller.
THEOREM RecoveryInvariant == RecoverySpec => []RecoveryInv
  BY RecoveryStart, RecoveryStep, PTL DEF RecoverySpec

\* The signer of the account is rotated only by enough guardians that approved
\* the proposal executed, and only after its timelock.
THEOREM RotationEarned == RecoverySpec => RotationIsEarned
  <1> DEFINE Earned == signer' # signer =>
               /\ pending # None /\ signer' = pending.newSigner
               /\ Cardinality({g \in Guardians : <<g, pending.number>> \in approvals})
                     >= Threshold
               /\ block >= pending.proposedAtBlock + TimelockBlocks
  <1>1. RecoveryInv /\ [RecoveryNext]_recoveryVars => [Earned]_recoveryVars
    <2> SUFFICES ASSUME RecoveryInv, RecoveryNext, signer' # signer
                 PROVE  Earned
      BY DEF recoveryVars
    <2>1. Execute
      BY DEF RecoveryNext, Recovery, Modules, Mine, Propose, Proposed, Approve, Install,
             Uninstall
    <2> QED  BY <2>1 DEF Execute, Executable, RecoveryInv, ApprovedBy
  <1> QED  BY <1>1, RecoveryInvariant, PTL DEF RecoverySpec, RotationIsEarned
-----------------------------------------------------------------------------
(* SafeService.                                                            *)

SafeCall == [op : {"verify", "simulate", "submit"}, operation : Operations \cup {None}]

\* Operations with one key differ in gas and fees at most, so what the adapter
\* remembers by key it remembers of the operations' forms.
SafeInv ==
    /\ SafeTypeOK
    /\ \A k \in DOMAIN submissions : submissions[k].pc = "polling" => submissions[k].polls > 0
    /\ \A k \in DOMAIN safeCalls :
          safeCalls[k].op # "verify" => safeCalls[k].operation \in Operations
    /\ \A o \in Operations : OperationKey(o) \in simulations => Form(o) \in valid
    /\ \A o \in Operations : Form(o) \in answered => OperationKey(o) \in submitted
    /\ SendsAreSimulated

LEMMA KeysHoldForms ==
    ASSUME NEW o \in Operations, NEW q \in Operations
    PROVE  OperationKey(o) = OperationKey(q) <=> Form(o) = Form(q)
  <1>1. ASSUME OperationKey(o) = OperationKey(q)
        PROVE  Form(o) = Form(q)
    BY <1>1 DEF OperationKey, Form
  <1>2. ASSUME Form(o) = Form(q)
        PROVE  OperationKey(o) = OperationKey(q)
    <2>1. /\ Form(o).call = Form(q).call /\ Form(o).paymaster = Form(q).paymaster
          /\ Form(o).signature = Form(q).signature
      BY <1>2
    <2> QED  BY <2>1 DEF OperationKey, Form
  <1> QED  BY <1>1, <1>2

LEMMA FormType ==
    ASSUME NEW o \in Operations
    PROVE  /\ Form(o) \in Forms
           /\ Form(o).call = o.call /\ Form(o).paymaster = o.paymaster
           /\ Form(o).signature = o.signature
  BY DEF Operations, Forms, Form

LEMMA SafeStart ==
    ASSUME SafeInit
    PROVE  SafeInv
  <1>1. DOMAIN EmptyMap = {}
    BY DEF EmptyMap
  <1>2. SafeTypeOK
    <2>1. deploymentVerified \in BOOLEAN
      BY Zenon DEF SafeInit
    <2> QED  BY <2>1, EmptyMapType DEF SafeInit, SafeTypeOK
  <1> QED  BY <1>1, <1>2 DEF SafeInit, SafeInv, SendsAreSimulated

\* A call of the adapter begins.
LEMMA BeginKeeps ==
    ASSUME SafeInv, NEW k \in Slots, NEW op \in {"verify", "simulate", "submit"},
           NEW o \in Operations \cup {None}, BeginSafeCall(k, op, o)
    PROVE  /\ IsMap(safeCalls, Slots, SafeCall)'
           /\ DOMAIN safeCalls' = DOMAIN safeCalls \cup {k}
           /\ safeCalls'[k].op = op /\ safeCalls'[k].operation = o
           /\ \A j \in DOMAIN safeCalls : safeCalls'[j] = safeCalls[j]
  <1> DEFINE c == [op |-> op, operation |-> o]
  <1>1. /\ c \in SafeCall /\ c.op = op /\ c.operation = o
        /\ safeCalls' = Put(safeCalls, k, c) /\ k \notin DOMAIN safeCalls
    BY DEF SafeCall, BeginSafeCall
  <1> HIDE DEF c
  <1>2. IsMap(safeCalls, Slots, SafeCall)
    BY DEF SafeInv, SafeTypeOK, SafeCall
  <1>3. IsMap(safeCalls, Slots, SafeCall)'
    BY <1>1, <1>2, PutType
  <1> QED  BY <1>1, <1>3 DEF Put

\* A call of the adapter ends.
LEMMA EndKeeps ==
    ASSUME SafeInv, NEW k \in DOMAIN safeCalls, EndSafeCall(k)
    PROVE  /\ IsMap(safeCalls, Slots, SafeCall)'
           /\ DOMAIN safeCalls' = DOMAIN safeCalls \ {k}
           /\ \A j \in DOMAIN safeCalls' : safeCalls'[j] = safeCalls[j]
  <1>1. IsMap(safeCalls, Slots, SafeCall)
    BY DEF SafeInv, SafeTypeOK, SafeCall
  <1>2. IsMap(safeCalls, Slots, SafeCall)'
    BY <1>1, DropType DEF EndSafeCall
  <1> QED  BY <1>2 DEF EndSafeCall, Drop

LEMMA AdapterKeeps ==
    ASSUME SafeInv, SafeAdapter
    PROVE  SafeInv'
  <1> USE DEF SafeCall
  <1>1. ASSUME NEW k \in Slots, VerifyDeployment(k)
        PROVE  SafeInv'
    <2>1. BeginSafeCall(k, "verify", None)
          /\ UNCHANGED <<deploymentVerified, simulations, submitted, submissions, valid, answered>>
      BY <1>1 DEF VerifyDeployment, adapterVars, historyVars
    <2>2. /\ IsMap(safeCalls, Slots, SafeCall)'
          /\ DOMAIN safeCalls' = DOMAIN safeCalls \cup {k}
          /\ safeCalls'[k].op = "verify"
          /\ \A j \in DOMAIN safeCalls : safeCalls'[j] = safeCalls[j]
      BY <2>1, BeginKeeps
    <2>3. SafeTypeOK'
      BY <2>1, <2>2 DEF SafeInv, SafeTypeOK
    <2> QED  BY <2>1, <2>2, <2>3 DEF SafeInv, SendsAreSimulated
  <1>2. ASSUME NEW k \in Slots, NEW matches \in BOOLEAN, DeploymentVerified(k, matches)
        PROVE  SafeInv'
    <2>1. /\ k \in DOMAIN safeCalls /\ EndSafeCall(k)
          /\ UNCHANGED <<simulations, submitted, submissions, valid, answered>>
      BY <1>2 DEF DeploymentVerified, SafeCallAt, historyVars
    <2>2. deploymentVerified' \in BOOLEAN
      BY <1>2, Zenon DEF DeploymentVerified
    <2>3. /\ IsMap(safeCalls, Slots, SafeCall)'
          /\ DOMAIN safeCalls' = DOMAIN safeCalls \ {k}
          /\ \A j \in DOMAIN safeCalls' : safeCalls'[j] = safeCalls[j]
      BY <2>1, EndKeeps
    <2>4. SafeTypeOK'
      BY <2>1, <2>2, <2>3 DEF SafeInv, SafeTypeOK
    <2> QED  BY <2>1, <2>3, <2>4 DEF SafeInv, SendsAreSimulated
  <1>3. ASSUME NEW k \in Slots, NEW o \in Operations, Simulate(k, o)
        PROVE  SafeInv'
    <2>1. BeginSafeCall(k, "simulate", o)
          /\ UNCHANGED <<deploymentVerified, simulations, submitted, submissions, valid, answered>>
      BY <1>3 DEF Simulate, adapterVars, historyVars
    <2>2. /\ IsMap(safeCalls, Slots, SafeCall)'
          /\ DOMAIN safeCalls' = DOMAIN safeCalls \cup {k}
          /\ safeCalls'[k].op = "simulate" /\ safeCalls'[k].operation = o
          /\ \A j \in DOMAIN safeCalls : safeCalls'[j] = safeCalls[j]
      BY <2>1, BeginKeeps
    <2>3. SafeTypeOK'
      BY <2>1, <2>2 DEF SafeInv, SafeTypeOK
    <2> QED  BY <2>1, <2>2, <2>3 DEF SafeInv, SendsAreSimulated
  <1>4. ASSUME NEW k \in Slots, NEW o \in Operations, Submit(k, o)
        PROVE  SafeInv'
    <2>1. /\ BeginSafeCall(k, "submit", o) /\ OperationKey(o) \in simulations
          /\ UNCHANGED <<deploymentVerified, simulations, submitted, submissions, valid, answered>>
      BY <1>4 DEF Submit, adapterVars, historyVars
    <2>2. /\ IsMap(safeCalls, Slots, SafeCall)'
          /\ DOMAIN safeCalls' = DOMAIN safeCalls \cup {k}
          /\ safeCalls'[k].op = "submit" /\ safeCalls'[k].operation = o
          /\ \A j \in DOMAIN safeCalls : safeCalls'[j] = safeCalls[j]
      BY <2>1, BeginKeeps
    <2>3. SafeTypeOK'
      BY <2>1, <2>2 DEF SafeInv, SafeTypeOK
    <2>4. Form(o) \in valid
      BY <2>1 DEF SafeInv
    <2>5. SendsAreSimulated'
      BY <2>1, <2>2, <2>4, FormType DEF SafeInv, SendsAreSimulated
    <2> QED  BY <2>1, <2>2, <2>3, <2>5 DEF SafeInv
  <1>5. ASSUME NEW k \in Slots, NEW ok \in BOOLEAN, SafeSimulated(k, ok)
        PROVE  SafeInv'
    <2> DEFINE o == safeCalls[k].operation
    <2>1. /\ k \in DOMAIN safeCalls /\ safeCalls[k].op = "simulate" /\ EndSafeCall(k)
          /\ simulations' = IF ok THEN simulations \cup {OperationKey(o)} ELSE simulations
          /\ valid' = IF ok THEN valid \cup {Form(o)} ELSE valid
          /\ UNCHANGED <<deploymentVerified, submitted, submissions, answered>>
      BY <1>5 DEF SafeSimulated, SafeCallAt
    <2>2. o \in Operations
      BY <2>1 DEF SafeInv
    <2> HIDE DEF o
    <2>3. /\ IsMap(safeCalls, Slots, SafeCall)'
          /\ DOMAIN safeCalls' = DOMAIN safeCalls \ {k}
          /\ \A j \in DOMAIN safeCalls' : safeCalls'[j] = safeCalls[j]
      BY <2>1, EndKeeps
    <2>4. /\ simulations' \subseteq simulations \cup {OperationKey(o)}
          /\ valid \subseteq valid' /\ valid' \subseteq valid \cup {Form(o)}
          /\ OperationKey(o) \in simulations' /\ Form(o) \notin valid'
               => OperationKey(o) \in simulations
      BY <2>1
    <2>5. SafeTypeOK'
      BY <2>1, <2>2, <2>3, <2>4, FormType DEF SafeInv, SafeTypeOK
    <2>6. \A q \in Operations : OperationKey(q) \in simulations' => Form(q) \in valid'
      BY <2>2, <2>4, KeysHoldForms DEF SafeInv
    <2> QED  BY <2>1, <2>3, <2>4, <2>5, <2>6 DEF SafeInv, SendsAreSimulated
  <1>6. ASSUME NEW k \in Slots, NEW ok \in BOOLEAN, Submitted(k, ok)
        PROVE  SafeInv'
    <2> DEFINE o == safeCalls[k].operation
    <2>1. /\ k \in DOMAIN safeCalls /\ safeCalls[k].op = "submit" /\ EndSafeCall(k)
          /\ submitted' = IF ok THEN submitted \cup {OperationKey(o)} ELSE submitted
          /\ answered' = IF ok THEN answered \cup {Form(o)} ELSE answered
          /\ UNCHANGED <<deploymentVerified, simulations, submissions, valid>>
      BY <1>6 DEF Submitted, SafeCallAt, Keep
    <2>2. o \in Operations
      BY <2>1 DEF SafeInv
    <2> HIDE DEF o
    <2>3. /\ IsMap(safeCalls, Slots, SafeCall)'
          /\ DOMAIN safeCalls' = DOMAIN safeCalls \ {k}
          /\ \A j \in DOMAIN safeCalls' : safeCalls'[j] = safeCalls[j]
      BY <2>1, EndKeeps
    <2>4. SafeTypeOK'
      BY <2>1, <2>2, <2>3, FormType DEF SafeInv, SafeTypeOK
    <2>5. \A q \in Operations : Form(q) \in answered' => OperationKey(q) \in submitted'
      BY <2>1, <2>2, KeysHoldForms DEF SafeInv
    <2> QED  BY <2>1, <2>3, <2>4, <2>5 DEF SafeInv, SendsAreSimulated
  <1> QED  BY <1>1, <1>2, <1>3, <1>4, <1>5, <1>6 DEF SafeAdapter

\* submitUserOperation changes its own state only.
LEMMA SubmissionKeeps ==
    ASSUME SafeInv, IsMap(submissions, Slots, Submission)',
           \A k \in DOMAIN submissions' :
              submissions'[k].pc = "polling" => submissions'[k].polls > 0,
           UNCHANGED <<adapterVars, safeCalls, historyVars>>
    PROVE  SafeInv'
  <1>1. UNCHANGED <<deploymentVerified, simulations, submitted, safeCalls, valid, answered>>
    BY DEF adapterVars, historyVars
  <1>2. SafeTypeOK'
    BY <1>1 DEF SafeInv, SafeTypeOK
  <1> QED  BY <1>1, <1>2 DEF SafeInv, SendsAreSimulated

\* A submission goes on as s.
LEMMA MoveSubmissionKeeps ==
    ASSUME SafeInv, NEW k \in DOMAIN submissions, NEW s \in Submission,
           s.pc = "polling" => s.polls > 0, MoveSubmission(k, s)
    PROVE  SafeInv'
  <1>1. IsMap(submissions, Slots, Submission)
    BY DEF SafeInv, SafeTypeOK
  <1>2. IsMap([submissions EXCEPT ![k] = s], Slots, Submission)
    BY <1>1, UpdateType
  <1>3. /\ submissions' = [submissions EXCEPT ![k] = s]
        /\ UNCHANGED <<adapterVars, safeCalls, historyVars>>
    BY DEF MoveSubmission
  <1>4. \A j \in DOMAIN submissions' :
           submissions'[j].pc = "polling" => submissions'[j].polls > 0
    BY <1>1, <1>3 DEF IsMap, SafeInv
  <1> QED  BY <1>2, <1>3, <1>4, SubmissionKeeps

\* What is sent is an operation.
LEMMA PreparedType ==
    ASSUME NEW o \in Operations
    PROVE  Prepared(o) \subseteq Operations
  <1>1. \A g \in Gas : [o EXCEPT !.gas = g] \in Operations
    BY DEF Operations
  <1> QED  BY <1>1 DEF Prepared

LEMMA UserOperationsKeep ==
    ASSUME SafeInv, UserOperations
    PROVE  SafeInv'
  <1>1. ASSUME NEW k \in Slots, SubmissionStep(k)
        PROVE  SafeInv'
    <2> DEFINE s == submissions[k]
    <2>1. k \in DOMAIN submissions
      BY <1>1 DEF SubmissionStep, OperationSimulated, Sponsored, Sent, Poll, Polled, SubmissionAt
    <2>2. s \in Submission /\ (s.pc = "polling" => s.polls > 0)
      BY <2>1 DEF SafeInv, SafeTypeOK, IsMap
    <2>3. \A pc \in {"sponsor", "send", "poll", "receipt", "failed"} :
             [s EXCEPT !.pc = pc] \in Submission /\ [s EXCEPT !.pc = pc].pc = pc
      BY <2>2 DEF Submission
    <2>4. \A q \in Operations :
             [s EXCEPT !.operation = q, !.pc = "send"] \in Submission
      BY <2>2 DEF Submission
    <2>5. CASE OperationSimulated(k) \/ Sponsored(k) \/ Sent(k)
      <3>1. \/ \E pc \in {"sponsor", "poll", "failed"} : MoveSubmission(k, [s EXCEPT !.pc = pc])
            \/ \E q \in Operations : MoveSubmission(k, [s EXCEPT !.operation = q, !.pc = "send"])
        <4>1. \A b \in BOOLEAN : [s.operation EXCEPT !.paymaster = b] \in Operations
          BY <2>2 DEF Submission, Operations
        <4> QED  BY <2>2, <2>5, <4>1, PreparedType DEF OperationSimulated, Sponsored, Sent,
                    Submission
      <3>2. \A q \in Operations : [s EXCEPT !.operation = q, !.pc = "send"].pc = "send"
        BY <2>2 DEF Submission
      <3> QED  BY <2>1, <2>3, <2>4, <3>1, <3>2, MoveSubmissionKeeps
    <2>6. CASE Poll(k)
      <3>1. s.polls \in Nat
        BY <2>2, SafeAssumption DEF Submission
      <3>2. \/ MoveSubmission(k, [s EXCEPT !.pc = "failed"])
            \/ s.polls > 0 /\ MoveSubmission(k, [s EXCEPT !.pc = "polling"])
        BY <2>6, <3>1 DEF Poll
      <3>3. /\ [s EXCEPT !.pc = "polling"] \in Submission
            /\ [s EXCEPT !.pc = "polling"].polls = s.polls
        BY <2>2 DEF Submission
      <3> QED  BY <2>1, <2>3, <3>2, <3>3, MoveSubmissionKeeps
    <2>7. CASE Polled(k)
      <3>1. s.pc = "polling" /\ s.polls \in 0 .. ReceiptPolls /\ s.polls > 0
        BY <2>2, <2>7 DEF Polled, SubmissionAt, Submission
      <3>2. s.polls - 1 \in 0 .. ReceiptPolls
        BY <3>1, SafeAssumption
      <3>3. \A n \in 0 .. ReceiptPolls :
               /\ [s EXCEPT !.pc = "poll", !.polls = n] \in Submission
               /\ [s EXCEPT !.pc = "poll", !.polls = n].pc = "poll"
        BY <2>2 DEF Submission
      <3>4. \/ MoveSubmission(k, [s EXCEPT !.pc = "receipt"])
            \/ MoveSubmission(k, [s EXCEPT !.pc = "failed"])
            \/ \E n \in 0 .. ReceiptPolls :
                  MoveSubmission(k, [s EXCEPT !.pc = "poll", !.polls = n])
        BY <2>7, <3>2 DEF Polled
      <3> QED  BY <2>1, <2>3, <3>3, <3>4, MoveSubmissionKeeps
    <2> QED  BY <1>1, <2>5, <2>6, <2>7 DEF SubmissionStep
  <1>2. ASSUME NEW k \in Slots, NEW c \in Calls, NEW gas \in Gas, NEW sponsored \in BOOLEAN,
               SubmitUserOperation(k, c, gas, sponsored)
        PROVE  SafeInv'
    <2> DEFINE o == [call |-> c, paymaster |-> FALSE, signature |-> TRUE, gas |-> gas]
               s == [operation |-> o, sponsored |-> sponsored, polls |-> ReceiptPolls,
                     pc |-> "simulate"]
    <2>1. /\ k \notin DOMAIN submissions /\ submissions' = Put(submissions, k, s)
          /\ UNCHANGED <<adapterVars, safeCalls, historyVars>>
      BY <1>2, Zenon DEF SubmitUserOperation
    <2>2. o \in Operations
      BY DEF Operations
    <2> HIDE DEF o
    <2>3. s \in Submission /\ s.pc = "simulate"
      BY <2>2, SafeAssumption DEF Submission
    <2> HIDE DEF s
    <2>4. IsMap(submissions, Slots, Submission)'
      BY <2>1, <2>3, PutType DEF SafeInv, SafeTypeOK
    <2>5. \A j \in DOMAIN submissions' :
             submissions'[j].pc = "polling" => submissions'[j].polls > 0
      BY <2>1, <2>3 DEF Put, SafeInv
    <2> QED  BY <2>1, <2>4, <2>5, SubmissionKeeps
  <1> QED  BY <1>1, <1>2 DEF UserOperations

LEMMA SafeStep ==
    ASSUME SafeInv, [SafeNext]_safeVars
    PROVE  SafeInv'
  <1>1. CASE UNCHANGED safeVars
    BY <1>1 DEF safeVars, SafeInv, SafeTypeOK, SendsAreSimulated
  <1> QED  BY <1>1, AdapterKeeps, UserOperationsKeep DEF SafeNext

\* What the adapter and the submissions hold.
THEOREM SafeInvariant == SafeSpec => []SafeInv
  BY SafeStart, SafeStep, PTL DEF SafeSpec

\* What is sent was simulated, gas and fees apart.
THEOREM SimulatedSends == SafeSpec => []SendsAreSimulated
  <1>1. SafeInv => SendsAreSimulated
    BY DEF SafeInv
  <1> QED  BY <1>1, SafeInvariant, PTL

\* The adapter does not send again what it got an answer for.
THEOREM NoBlindResend == SafeSpec => AnsweredIsNotResent
  <1> DEFINE NotResent ==
               \A k \in DOMAIN safeCalls' \ DOMAIN safeCalls :
                  safeCalls'[k].op = "submit" => Form(safeCalls'[k].operation) \notin answered
  <1>1. SafeInv /\ [SafeNext]_safeVars => [NotResent]_safeVars
    <2> SUFFICES ASSUME SafeInv, SafeNext, NEW k \in DOMAIN safeCalls' \ DOMAIN safeCalls,
                        safeCalls'[k].op = "submit"
                 PROVE  Form(safeCalls'[k].operation) \notin answered
      BY DEF safeVars
    <2>1. ASSUME NEW j \in Slots, NEW op \in {"verify", "simulate", "submit"},
                 NEW o \in Operations \cup {None}, BeginSafeCall(j, op, o)
          PROVE  k = j /\ safeCalls'[k].op = op /\ safeCalls'[k].operation = o
      BY <2>1, BeginKeeps
    <2>2. ASSUME NEW j \in DOMAIN safeCalls, EndSafeCall(j)
          PROVE  FALSE
      BY <2>2, EndKeeps
    <2>3. SafeAdapter
      BY DEF SafeNext, UserOperations, SubmissionStep, OperationSimulated, Sponsored, Sent, Poll,
             Polled, MoveSubmission, SubmitUserOperation
    <2>4. PICK j \in Slots, q \in Operations : Submit(j, q)
      <3>1. ASSUME NEW j \in Slots, VerifyDeployment(j) \/ \E o \in Operations : Simulate(j, o)
            PROVE  FALSE
        BY <2>1, <3>1 DEF VerifyDeployment, Simulate
      <3>2. ASSUME NEW j \in Slots, NEW b \in BOOLEAN,
                   DeploymentVerified(j, b) \/ SafeSimulated(j, b) \/ Submitted(j, b)
            PROVE  FALSE
        BY <2>2, <3>2 DEF DeploymentVerified, SafeSimulated, Submitted, SafeCallAt
      <3> QED  BY <2>3, <3>1, <3>2 DEF SafeAdapter
    <2>5. safeCalls'[k].operation = q /\ OperationKey(q) \notin submitted
      BY <2>1, <2>4 DEF Submit
    <2> QED  BY <2>4, <2>5 DEF SafeInv
  <1> QED  BY <1>1, SafeInvariant, PTL DEF SafeSpec, AnsweredIsNotResent
-----------------------------------------------------------------------------
(* OnChainAttestation.                                                     *)

\* An attestation that opened access did so once, and its nonce is used up where it
\* did; a nonce used up there was used by it alone.
GrantInv ==
    /\ usedNonce = [d \in Deployments |-> usedNonce[d]]
    /\ grants = [a \in DOMAIN grants |-> grants[a]]
    /\ \A a \in DOMAIN grants :
          /\ grants[a] \in {0, 1}
          /\ grants[a] = 1 => a.consumer \in Deployments /\ a.nonce \in usedNonce[a.consumer]
    /\ \A a, b \in DOMAIN grants :
          /\ grants[a] = 1 /\ grants[b] = 1
          /\ a.consumer = b.consumer /\ a.nonce = b.nonce
          => a = b

\* A grant is made under a nonce no grant of the deployment was made under.
LEMMA ConsumeKeeps ==
    ASSUME GrantInv, NEW d \in Deployments, NEW signed, NEW a, Consume(d, a, signed)
    PROVE  GrantInv'
  <1>1. /\ a = signed /\ a.consumer = d /\ a.nonce \notin usedNonce[d]
        /\ usedNonce' = [usedNonce EXCEPT ![d] = usedNonce[d] \cup {a.nonce}]
        /\ grants' = [grants EXCEPT ![a] = grants[a] + 1]
    BY DEF Consume, Consumable, Recovers, SigningPayload
  <1>2. a \in DOMAIN grants => grants[a] = 0
    BY <1>1 DEF GrantInv
  <1>3. /\ DOMAIN grants' = DOMAIN grants
        /\ \A b \in DOMAIN grants : b # a => grants'[b] = grants[b]
        /\ a \in DOMAIN grants => grants'[a] = 1
    BY <1>1, <1>2 DEF GrantInv
  <1>4. /\ usedNonce'[d] = usedNonce[d] \cup {a.nonce}
        /\ \A e \in Deployments : e # d => usedNonce'[e] = usedNonce[e]
        /\ usedNonce' = [e \in Deployments |-> usedNonce'[e]]
    BY <1>1 DEF GrantInv
  <1>5. \A b \in DOMAIN grants : grants[b] = 1 /\ b.consumer = d => b.nonce # a.nonce
    BY <1>1 DEF GrantInv
  <1>6. grants' = [b \in DOMAIN grants' |-> grants'[b]]
    BY <1>1 DEF GrantInv
  <1>7. ASSUME NEW b \in DOMAIN grants'
        PROVE  /\ grants'[b] \in {0, 1}
               /\ grants'[b] = 1 => b.consumer \in Deployments /\ b.nonce \in usedNonce'[b.consumer]
    BY <1>1, <1>3, <1>4 DEF GrantInv
  <1>8. ASSUME NEW b \in DOMAIN grants', NEW c \in DOMAIN grants',
               grants'[b] = 1, grants'[c] = 1, b.consumer = c.consumer, b.nonce = c.nonce
        PROVE  b = c
    BY <1>1, <1>3, <1>5, <1>8 DEF GrantInv
  <1> QED  BY <1>4, <1>6, <1>7, <1>8 DEF GrantInv

LEMMA GrantStep ==
    ASSUME GrantInv, [AttestationNext]_attVars
    PROVE  GrantInv'
  <1>1. ASSUME NEW d \in Deployments, NEW signed, NEW a, Consume(d, a, signed)
        PROVE  GrantInv'
    BY <1>1, ConsumeKeeps
  <1>2. CASE UNCHANGED <<usedNonce, grants>>
    BY <1>2 DEF GrantInv
  <1>3. CASE SignAttestation
    <2>1. UNCHANGED usedNonce
      BY <1>3 DEF SignAttestation
    <2>2. CASE grants' = grants
      BY <2>1, <2>2, <1>2
    <2>3. CASE signing \notin DOMAIN grants /\ grants' = Put(grants, signing, 0)
      BY <2>1, <2>3 DEF GrantInv, Put
    <2> QED  BY <1>3, <2>2, <2>3 DEF SignAttestation
  <1>4. CASE BlockMined \/ SignerFails \/ UNCHANGED attVars
    BY <1>2, <1>4 DEF BlockMined, SignerFails, attVars
  <1>5. ASSUME NEW request, NEW ttl, CreateAccessAttestation(request, ttl)
        PROVE  GrantInv'
    BY <1>2, <1>5 DEF CreateAccessAttestation
  <1>6. ASSUME NEW d, NEW a, RevokeAttestor(d, a)
        PROVE  GrantInv'
    BY <1>2, <1>6 DEF RevokeAttestor
  <1>7. ASSUME NEW d, NEW a, NEW v, SetAttestor(d, a, v)
        PROVE  GrantInv'
    BY <1>2, <1>7 DEF SetAttestor
  <1> QED  BY <1>1, <1>3, <1>4, <1>5, <1>6, <1>7 DEF AttestationNext

\* A signature of the attestor opens access at most once over all deployments of the
\* consumer, whatever is altered around it and however attestors are rotated, and a
\* nonce serves one attestation of a deployment.
THEOREM OneGrant == AttestationSpec => []AttestationsGrantOnce
  <1>1. OnChainAttestationInit => GrantInv
    BY DEF OnChainAttestationInit, GrantInv, EmptyMap
  <1>2. GrantInv => AttestationsGrantOnce
    BY DEF GrantInv, AttestationsGrantOnce
  <1> QED  BY <1>1, <1>2, GrantStep, PTL DEF AttestationSpec
-----------------------------------------------------------------------------
(* CredentialScanner.                                                      *)

\* Every issue of a token is accepted, outstanding or lost.
TokenInv ==
    /\ issuesOf \in [ScanTokens -> Nat] /\ acceptsOf \in [ScanTokens -> Nat]
    /\ issuedTokens = [t \in DOMAIN issuedTokens |-> issuedTokens[t]]
    /\ \A t \in ScanTokens :
          acceptsOf[t] + (IF t \in DOMAIN issuedTokens THEN 1 ELSE 0) <= issuesOf[t]

\* An input the gate holds was followed by the inputs behind it, all different, and
\* by no other; one it forgot, by as many as the gate holds.
GateInv ==
    /\ gate \in Seq(GateInputs) /\ Len(gate) <= GateEntries
    /\ \A t \in DOMAIN sinceSeen : IsFiniteSet(sinceSeen[t])
    /\ \A i \in 1 .. Len(gate) :
          /\ gate[i] \in DOMAIN sinceSeen
          /\ Cardinality(sinceSeen[gate[i]]) = Len(gate) - i
          /\ \A x \in sinceSeen[gate[i]] : \E j \in (i + 1) .. Len(gate) : x = gate[j]
    /\ \A t \in DOMAIN sinceSeen :
          (\A i \in 1 .. Len(gate) : gate[i] # t) => Cardinality(sinceSeen[t]) >= GateEntries

LEMMA TokenStep ==
    ASSUME TokenInv, [TokenNext \/ GateNext]_scanVars
    PROVE  TokenInv'
  <1>1. CASE UNCHANGED <<issuesOf, acceptsOf, issuedTokens>>
    BY <1>1 DEF TokenInv
  <1>2. CASE GateNext \/ ScanTick \/ UNCHANGED scanVars
    BY <1>1, <1>2 DEF GateNext, GateAccepts, ScanTick, scanVars
  <1>3. ASSUME NEW token \in ScanTokens, NEW expiresAt, IssueToken(token, expiresAt)
        PROVE  TokenInv'
    <2>1. /\ issuedTokens' = Put(issuedTokens, token, expiresAt)
          /\ issuesOf' = [issuesOf EXCEPT ![token] = issuesOf[token] + 1]
          /\ acceptsOf' = acceptsOf
      BY <1>3 DEF IssueToken
    <2>2. /\ issuesOf' \in [ScanTokens -> Nat] /\ issuesOf'[token] = issuesOf[token] + 1
          /\ \A t \in ScanTokens : t # token => issuesOf'[t] = issuesOf[t]
      BY <2>1 DEF TokenInv
    <2>3. /\ DOMAIN issuedTokens' = DOMAIN issuedTokens \cup {token}
          /\ issuedTokens' = [t \in DOMAIN issuedTokens' |-> issuedTokens'[t]]
      BY <2>1 DEF Put
    <2> QED  BY <2>1, <2>2, <2>3 DEF TokenInv
  <1>4. ASSUME NEW input \in ScanInput, NEW kind, AcceptScan(input, kind)
        PROVE  TokenInv'
    <2> DEFINE token == input.token
    <2>1. token \in ScanTokens /\ issuesOf' = issuesOf
      BY <1>4 DEF ScanInput, AcceptScan
    <2>2. CASE ReadableUri(input) /\ input.scheme = "offline" /\ ParsesOffline(input)
      <3>1. /\ DOMAIN issuedTokens' = DOMAIN issuedTokens \ {token}
            /\ issuedTokens' = [t \in DOMAIN issuedTokens' |-> issuedTokens'[t]]
        BY <1>4, <2>2 DEF AcceptScan, Spend, Drop
      <3>2. CASE acceptsOf' = acceptsOf
        BY <2>1, <3>1, <3>2 DEF TokenInv
      <3>3. CASE /\ ParseCredentialInput(input)
                 /\ acceptsOf' = [acceptsOf EXCEPT ![token] = acceptsOf[token] + 1]
        <4>1. token \in DOMAIN issuedTokens
          BY <2>2, <3>3 DEF ParseCredentialInput, Consumes
        <4>2. /\ acceptsOf' \in [ScanTokens -> Nat] /\ acceptsOf'[token] = acceptsOf[token] + 1
              /\ \A t \in ScanTokens : t # token => acceptsOf'[t] = acceptsOf[t]
          BY <2>1, <3>3 DEF TokenInv
        <4> QED  BY <2>1, <3>1, <4>1, <4>2 DEF TokenInv
      <3> QED  BY <1>4, <3>2, <3>3 DEF AcceptScan
    <2>3. CASE ~(ReadableUri(input) /\ input.scheme = "offline" /\ ParsesOffline(input))
      <3>1. issuedTokens' = issuedTokens
        BY <1>4, <2>3 DEF AcceptScan
      <3>2. acceptsOf' = acceptsOf
        BY <1>4, <2>3 DEF AcceptScan, ParseCredentialInput
      <3> QED  BY <1>1, <2>1, <3>1, <3>2
    <2> QED  BY <2>2, <2>3
  <1> QED  BY <1>2, <1>3, <1>4 DEF TokenNext

\* An input the gate takes: the oldest makes room, and has been followed by the
\* others and by this one.
LEMMA GateKeeps ==
    ASSUME GateInv, NEW token \in GateInputs, GateAccepts(token)
    PROVE  GateInv'
  <1> DEFINE n == Len(gate)
             k == IF n >= GateEntries THEN 1 ELSE 0
             m == n - k + 1
  <1>1. /\ \A i \in 1 .. n : gate[i] # token
        /\ gate \in Seq(GateInputs) /\ n \in Nat /\ n <= GateEntries
        /\ GateEntries \in Nat \ {0}
    BY GateAssumption DEF GateInv, GateAccepts, Seen
  <1>2. /\ gate' \in Seq(GateInputs) /\ Len(gate') = m
        /\ gate'[m] = token
        /\ \A i \in 1 .. n - k : gate'[i] = gate[i + k]
    <2>1. CASE n >= GateEntries
      <3>1. gate # <<>> /\ gate' = Append(Tail(gate), token)
        BY <1>1, <2>1 DEF GateAccepts
      <3>2. /\ Tail(gate) \in Seq(GateInputs) /\ Len(Tail(gate)) = n - 1
            /\ \A i \in 1 .. n - 1 : Tail(gate)[i] = gate[i + 1]
        BY <1>1, <3>1
      <3> HIDE DEF n
      <3> QED  BY <1>1, <2>1, <3>1, <3>2
    <2>2. CASE ~(n >= GateEntries)
      <3>1. gate' = Append(gate, token)
        BY <2>2 DEF GateAccepts
      <3> QED  BY <1>1, <2>2, <3>1
    <2> QED  BY <2>1, <2>2
  <1>3. /\ DOMAIN sinceSeen' = DOMAIN sinceSeen \cup {token} /\ sinceSeen'[token] = {}
        /\ \A t \in DOMAIN sinceSeen : t # token => sinceSeen'[t] = sinceSeen[t] \cup {token}
    BY DEF GateAccepts, Put
  <1>4. k \in {0, 1} /\ m = n - k + 1 /\ m \in Nat /\ m <= GateEntries
        /\ n - k \in Nat /\ (k = 1 => n = GateEntries)
    BY <1>1
  <1>5. \A t \in DOMAIN sinceSeen' : IsFiniteSet(sinceSeen'[t])
    <2> SUFFICES ASSUME NEW t \in DOMAIN sinceSeen' PROVE IsFiniteSet(sinceSeen'[t])
      OBVIOUS
    <2>1. CASE t = token
      BY <1>3, <2>1, FS_EmptySet
    <2>2. CASE t # token
      <3>1. t \in DOMAIN sinceSeen /\ sinceSeen'[t] = sinceSeen[t] \cup {token}
        BY <1>3, <2>2
      <3>2. IsFiniteSet(sinceSeen[t])
        BY <3>1 DEF GateInv
      <3> QED  BY <3>1, <3>2, FS_AddElement
    <2> QED  BY <2>1, <2>2
  <1> HIDE DEF n, k, m
  <1>6. ASSUME NEW i \in 1 .. n - k
        PROVE  /\ gate'[i] \in DOMAIN sinceSeen'
               /\ Cardinality(sinceSeen'[gate'[i]]) = m - i
               /\ \A x \in sinceSeen'[gate'[i]] : \E j \in (i + 1) .. m : x = gate'[j]
    <2> DEFINE t == gate[i + k]
    <2>1. i + k \in 1 .. n /\ t = gate'[i] /\ t # token
      BY <1>1, <1>2, <1>4
    <2>2. /\ t \in DOMAIN sinceSeen /\ IsFiniteSet(sinceSeen[t])
          /\ Cardinality(sinceSeen[t]) = n - (i + k)
          /\ \A x \in sinceSeen[t] : \E j \in (i + k + 1) .. n : x = gate[j]
      BY <2>1 DEF GateInv, n
    <2> HIDE DEF t
    <2>3. token \notin sinceSeen[t]
      <3> SUFFICES ASSUME token \in sinceSeen[t] PROVE FALSE
        OBVIOUS
      <3>1. PICK j \in (i + k + 1) .. n : token = gate[j]
        BY <2>2
      <3>2. j \in 1 .. n
        BY <1>1, <1>4, <2>1
      <3> QED  BY <1>1, <3>1, <3>2
    <2>4. sinceSeen'[t] = sinceSeen[t] \cup {token}
      BY <1>3, <2>1, <2>2
    <2>5. Cardinality(sinceSeen'[t]) = n - (i + k) + 1
      <3>1. Cardinality(sinceSeen[t] \cup {token}) = Cardinality(sinceSeen[t]) + 1
        BY <2>2, <2>3, FS_AddElement
      <3> QED  BY <2>2, <2>4, <3>1
    <2>6. ASSUME NEW x \in sinceSeen'[t]
          PROVE  \E j \in (i + 1) .. m : x = gate'[j]
      <3>1. CASE x = token
        BY <1>2, <1>4, <2>1, <3>1
      <3>2. CASE x \in sinceSeen[t]
        <4>1. PICK j \in (i + k + 1) .. n : x = gate[j]
          BY <2>2, <3>2
        <4>2. j - k \in 1 .. n - k /\ (j - k) + k = j /\ j - k \in (i + 1) .. m
          <5>1. i \in Int /\ j \in Int /\ n \in Int /\ k \in Int /\ m \in Int /\ i >= 1
            BY <1>1, <1>4
          <5> QED  BY <1>4, <5>1
        <4>3. gate'[j - k] = gate[j]
          BY <1>2, <4>2
        <4> QED  BY <4>1, <4>2, <4>3
      <3> QED  BY <2>4, <3>1, <3>2
    <2> QED  BY <1>1, <1>3, <1>4, <2>1, <2>2, <2>5, <2>6
  <1>7. ASSUME NEW i \in 1 .. m
        PROVE  /\ gate'[i] \in DOMAIN sinceSeen'
               /\ Cardinality(sinceSeen'[gate'[i]]) = m - i
               /\ \A x \in sinceSeen'[gate'[i]] : \E j \in (i + 1) .. m : x = gate'[j]
    <2>1. CASE i = m
      <3>1. gate'[i] = token /\ sinceSeen'[token] = {} /\ token \in DOMAIN sinceSeen'
        BY <1>2, <1>3, <2>1
      <3>2. Cardinality(sinceSeen'[gate'[i]]) = 0
        BY <3>1, FS_EmptySet
      <3>3. m - i = 0
        BY <1>1, <1>4, <2>1
      <3> QED  BY <3>1, <3>2, <3>3
    <2>2. CASE i # m
      BY <1>4, <1>6, <2>2
    <2> QED  BY <2>1, <2>2
  <1>8. ASSUME NEW t \in DOMAIN sinceSeen', \A i \in 1 .. m : gate'[i] # t
        PROVE  Cardinality(sinceSeen'[t]) >= GateEntries
    <2>1. t # token /\ t \in DOMAIN sinceSeen /\ IsFiniteSet(sinceSeen[t])
      BY <1>2, <1>3, <1>4, <1>8 DEF GateInv
    <2>2. /\ sinceSeen'[t] = sinceSeen[t] \cup {token} /\ Cardinality(sinceSeen[t]) \in Nat
          /\ Cardinality(sinceSeen'[t]) = IF token \in sinceSeen[t] THEN Cardinality(sinceSeen[t])
                                          ELSE Cardinality(sinceSeen[t]) + 1
      BY <1>3, <2>1, FS_AddElement, FS_CardinalityType
    <2>3. CASE \A i \in 1 .. n : gate[i] # t
      <3>1. Cardinality(sinceSeen[t]) >= GateEntries
        BY <2>1, <2>3 DEF GateInv, n
      <3> QED  BY <1>1, <2>2, <3>1
    <2>4. ASSUME NEW i \in 1 .. n, gate[i] = t
          PROVE  Cardinality(sinceSeen'[t]) >= GateEntries
      <3>1. k = 1 /\ i = 1
        <4>1. i - k \notin 1 .. n - k
          <5> SUFFICES ASSUME i - k \in 1 .. n - k PROVE FALSE
            OBVIOUS
          <5>1. i - k \in 1 .. m /\ (i - k) + k = i
            BY <1>1, <1>4
          <5>2. gate'[i - k] = t
            BY <1>2, <2>4, <5>1
          <5> QED  BY <1>8, <5>1, <5>2
        <4> QED  BY <1>1, <1>4, <4>1
      <3>2. /\ Cardinality(sinceSeen[t]) = n - 1
            /\ \A x \in sinceSeen[t] : \E j \in 2 .. n : x = gate[j]
        BY <2>4, <3>1 DEF GateInv, n
      <3>3. token \notin sinceSeen[t]
        BY <1>1, <3>2
      <3> QED  BY <1>1, <1>4, <2>2, <3>1, <3>2, <3>3
    <2> QED  BY <2>3, <2>4
  <1>9. \A t \in DOMAIN sinceSeen' :
           (\A i \in 1 .. m : gate'[i] # t) => Cardinality(sinceSeen'[t]) >= GateEntries
    BY <1>8, Zenon
  <1>10. \A i \in 1 .. m :
            /\ gate'[i] \in DOMAIN sinceSeen'
            /\ Cardinality(sinceSeen'[gate'[i]]) = m - i
            /\ \A x \in sinceSeen'[gate'[i]] : \E j \in (i + 1) .. m : x = gate'[j]
    BY <1>7, Zenon
  <1>11. gate' \in Seq(GateInputs) /\ Len(gate') = m /\ m <= GateEntries
    BY <1>2, <1>4
  <1> QED  BY <1>5, <1>9, <1>10, <1>11, Zenon DEF GateInv

\* An offline code is accepted at most as often as it was issued, and a duplicate
\* passes the console's gate only after as many other inputs as the gate holds.
THEOREM OneTimeScans == ScannerSpec => []ScansAreOneTime
  <1>1. ScannerInit => TokenInv /\ GateInv
    <2> SUFFICES ASSUME ScannerInit PROVE TokenInv /\ GateInv
      OBVIOUS
    <2>1. TokenInv
      BY DEF ScannerInit, TokenInv, EmptyMap
    <2>2. GateInv
      BY GateAssumption DEF ScannerInit, GateInv, EmptyMap
    <2> QED  BY <2>1, <2>2
  <1>2. ASSUME GateInv, [TokenNext \/ GateNext]_scanVars
        PROVE  GateInv'
    <2>1. CASE UNCHANGED <<gate, sinceSeen>>
      BY <1>2, <2>1 DEF GateInv
    <2>2. ASSUME NEW input \in GateInputs, GateAccepts(input)
          PROVE  GateInv'
      BY <1>2, <2>2, GateKeeps
    <2> QED  BY <1>2, <2>1, <2>2 DEF TokenNext, GateNext, ScanTick, IssueToken, AcceptScan, scanVars
  <1>3. TokenInv /\ GateInv => ScansAreOneTime
    BY DEF TokenInv, GateInv, ScansAreOneTime, Seen
  <1> QED  BY <1>1, <1>2, <1>3, TokenStep, PTL DEF ScannerSpec
-----------------------------------------------------------------------------
(* OfflineEnvelope.                                                        *)

VerifyCall ==
    [op : {"verify"}, pc : {"signature", "registry"}, now : Nat, floor : Nat,
     presented : [payload : OfflineEnvelopeUnsigned, signature : OfflineEnvelopeUnsigned,
                  readable : BOOLEAN]]

\* What a call under way may rely on, with the snapshot primed, the snapshots signed
\* and the envelopes sealed by now: a verification past its signature is of an
\* envelope that was signed and live, and the snapshot has not gone back since it began.
CallHolds(call, snap, signed, sealed) ==
    \/ call.op = "prime" /\ call.value \in signed
    \/ /\ call \in VerifyCall /\ call.presented.signature \in sealed
       /\ call.floor > 0 => snap # None /\ snap.sequence >= call.floor
       /\ call.pc = "registry" =>
             /\ call.presented.payload = call.presented.signature
             /\ call.now < call.presented.payload.expiresAt

SnapshotsHold ==
    /\ offlineTime \in 0 .. MaxOfflineTime
    /\ signedSnapshots \subseteq OfflineSnapshot /\ envelopes \subseteq OfflineEnvelopeUnsigned
    /\ snapshot # None => snapshot \in signedSnapshots

\* An envelope that verified did so once, and its replay key is consumed.
VerdictsAreOnce ==
    /\ verdicts = [e \in DOMAIN verdicts |-> verdicts[e]]
    /\ \A e \in DOMAIN verdicts :
          verdicts[e] \in {0, 1} /\ (verdicts[e] = 1 => ReplayKey(e) \in offlineConsumed)

CallsHold ==
    /\ offlineCalls = [s \in DOMAIN offlineCalls |-> offlineCalls[s]]
    /\ \A s \in DOMAIN offlineCalls :
          CallHolds(offlineCalls[s], snapshot, signedSnapshots, envelopes)

LastHolds ==
    lastVerified # None =>
          /\ lastVerified.envelope \in envelopes
          /\ lastVerified.now < lastVerified.envelope.expiresAt
          /\ lastVerified.by \in signedSnapshots /\ lastVerified.by.sequence >= lastVerified.floor
          /\ VouchedFor(lastVerified.envelope, lastVerified.by.content)

OfflineInv == SnapshotsHold /\ VerdictsAreOnce /\ CallsHold /\ LastHolds

\* What a call relies on stays while the snapshot moves forward.
LEMMA CallStays ==
    ASSUME NEW call, NEW snap, NEW snap2, NEW signed, NEW signed2, NEW sealed, NEW sealed2,
           CallHolds(call, snap, signed, sealed),
           signed \subseteq signed2, sealed \subseteq sealed2, signed2 \subseteq OfflineSnapshot,
           snap # None => snap \in signed /\ snap2 # None /\ snap2.sequence >= snap.sequence,
           snap2 # None => snap2 \in signed2
    PROVE  CallHolds(call, snap2, signed2, sealed2)
  <1>1. CASE call.op = "prime" /\ call.value \in signed
    BY <1>1 DEF CallHolds
  <1>2. CASE ~(call.op = "prime" /\ call.value \in signed)
    <2>1. call \in VerifyCall /\ call.floor \in Nat
      BY <1>2 DEF CallHolds, VerifyCall
    <2>2. ASSUME call.floor > 0
          PROVE  snap2 # None /\ snap2.sequence >= call.floor
      <3>1. snap # None /\ snap.sequence >= call.floor
        BY <1>2, <2>2 DEF CallHolds
      <3>2. snap.sequence \in Int /\ snap2.sequence \in Int
        BY <3>1, OfflineAssumption DEF OfflineSnapshot
      <3> QED  BY <2>1, <3>1, <3>2
    <2> QED  BY <1>2, <2>1, <2>2 DEF CallHolds
  <1> QED  BY <1>1, <1>2

\* A step that leaves the snapshot or moves it forward, and forgets no snapshot or
\* envelope, keeps every call it leaves.
LEMMA CallsStay ==
    ASSUME SnapshotsHold, CallsHold, SnapshotsHold',
           signedSnapshots \subseteq signedSnapshots', envelopes \subseteq envelopes',
           snapshot # None => snapshot' # None /\ snapshot'.sequence >= snapshot.sequence,
           NEW s \in DOMAIN offlineCalls
    PROVE  CallHolds(offlineCalls[s], snapshot', signedSnapshots', envelopes')
  <1>1. CallHolds(offlineCalls[s], snapshot, signedSnapshots, envelopes)
    BY DEF CallsHold
  <1> QED  BY <1>1, CallStays DEF SnapshotsHold

\* A call ends or none begins, and no verdict is given.
LEMMA NoVerdict ==
    ASSUME OfflineInv, SnapshotsHold',
           signedSnapshots \subseteq signedSnapshots', envelopes \subseteq envelopes',
           snapshot # None => snapshot' # None /\ snapshot'.sequence >= snapshot.sequence,
           UNCHANGED offlineCalls \/ (\E s : offlineCalls' = Drop(offlineCalls, s)),
           UNCHANGED <<offlineConsumed, verdicts>>, lastVerified' = None
    PROVE  OfflineInv'
  <1>1. /\ offlineCalls' = [s \in DOMAIN offlineCalls' |-> offlineCalls'[s]]
        /\ DOMAIN offlineCalls' \subseteq DOMAIN offlineCalls
        /\ \A s \in DOMAIN offlineCalls' : offlineCalls'[s] = offlineCalls[s]
    BY DEF OfflineInv, CallsHold, Drop
  <1>2. CallsHold'
    BY <1>1, CallsStay DEF OfflineInv, CallsHold
  <1>3. VerdictsAreOnce' /\ LastHolds'
    BY DEF OfflineInv, VerdictsAreOnce, LastHolds, ReplayKey
  <1> QED  BY <1>2, <1>3 DEF OfflineInv

\* A call begins or moves on: what it relies on holds.
LEMMA CallWritten ==
    ASSUME OfflineInv, NEW s, NEW call, CallHolds(call, snapshot, signedSnapshots, envelopes),
           \/ offlineCalls' = Put(offlineCalls, s, call)
           \/ offlineCalls' = [offlineCalls EXCEPT ![s] = call],
           UNCHANGED <<offlineTime, snapshot, signedSnapshots, envelopes, offlineConsumed, verdicts>>,
           lastVerified' = None
    PROVE  OfflineInv'
  <1>1. /\ offlineCalls' = [r \in DOMAIN offlineCalls' |-> offlineCalls'[r]]
        /\ \A r \in DOMAIN offlineCalls' :
              \/ offlineCalls'[r] = call
              \/ r \in DOMAIN offlineCalls /\ offlineCalls'[r] = offlineCalls[r]
    <2>1. CASE offlineCalls' = Put(offlineCalls, s, call)
      <3>1. /\ DOMAIN offlineCalls' = DOMAIN offlineCalls \cup {s} /\ offlineCalls'[s] = call
            /\ \A r \in DOMAIN offlineCalls : r # s => offlineCalls'[r] = offlineCalls[r]
            /\ offlineCalls' = [r \in DOMAIN offlineCalls' |-> offlineCalls'[r]]
        BY <2>1 DEF Put
      <3> QED  BY <3>1, Zenon
    <2>2. CASE offlineCalls' = [offlineCalls EXCEPT ![s] = call]
      <3>1. /\ DOMAIN offlineCalls' = DOMAIN offlineCalls
            /\ \A r \in DOMAIN offlineCalls : r # s => offlineCalls'[r] = offlineCalls[r]
            /\ s \in DOMAIN offlineCalls => offlineCalls'[s] = call
            /\ offlineCalls' = [r \in DOMAIN offlineCalls' |-> offlineCalls'[r]]
        BY <2>2
      <3> QED  BY <3>1, Zenon
    <2> QED  BY <2>1, <2>2
  <1>2. \A r \in DOMAIN offlineCalls' :
           CallHolds(offlineCalls'[r], snapshot, signedSnapshots, envelopes)
    BY <1>1 DEF OfflineInv, CallsHold
  <1>3. CallsHold'
    BY <1>1, <1>2 DEF CallsHold
  <1>4. SnapshotsHold' /\ VerdictsAreOnce' /\ LastHolds'
    BY DEF OfflineInv, SnapshotsHold, VerdictsAreOnce, LastHolds, ReplayKey
  <1> QED  BY <1>3, <1>4 DEF OfflineInv

LEMMA SignSnapshotKeeps ==
    ASSUME OfflineInv, NEW id \in SnapshotIds, NEW n \in 1 .. MaxSequence,
           NEW c \in SnapshotContents, NEW ttl \in 1 .. OfflineLifetime,
           SignSnapshot(id, n, c, ttl)
    PROVE  OfflineInv'
  <1> DEFINE s == [snapshotId |-> id, sequence |-> n, issuedAt |-> offlineTime,
                   expiresAt |-> offlineTime + ttl, content |-> c]
  <1>1. /\ signedSnapshots' = signedSnapshots \cup {s} /\ lastVerified' = None
        /\ UNCHANGED <<offlineTime, snapshot, envelopes, offlineConsumed, offlineCalls, verdicts>>
    BY DEF SignSnapshot
  <1>2. s \in OfflineSnapshot
    <2>1. offlineTime \in 0 .. MaxOfflineTime /\ MaxOfflineTime \in Nat /\ OfflineLifetime \in Nat
      BY OfflineAssumption DEF OfflineInv, SnapshotsHold
    <2>2. offlineTime + ttl \in 1 .. (MaxOfflineTime + OfflineLifetime)
      BY <2>1
    <2> QED  BY <2>1, <2>2 DEF OfflineSnapshot
  <1> HIDE DEF s
  <1>3. SnapshotsHold'
    BY <1>1, <1>2 DEF OfflineInv, SnapshotsHold
  <1>4. snapshot # None => snapshot.sequence \in Int
    BY OfflineAssumption DEF OfflineInv, SnapshotsHold, OfflineSnapshot
  <1> QED  BY <1>1, <1>3, <1>4, NoVerdict

\* A new envelope has no verdict yet.
LEMMA CreateEnvelopeKeeps ==
    ASSUME OfflineInv, NEW e \in OfflineEnvelopeUnsigned, CreateOfflineEnvelope(e)
    PROVE  OfflineInv'
  <1>1. /\ envelopes' = envelopes \cup {EnvelopePayload(e)} /\ verdicts' = Put(verdicts, e, 0)
        /\ lastVerified' = None
        /\ UNCHANGED <<offlineTime, snapshot, signedSnapshots, offlineConsumed, offlineCalls>>
    BY DEF CreateOfflineEnvelope
  <1>2. EnvelopePayload(e) \in OfflineEnvelopeUnsigned
    BY DEF EnvelopePayload, OfflineEnvelopeUnsigned
  <1>3. SnapshotsHold'
    BY <1>1, <1>2 DEF OfflineInv, SnapshotsHold
  <1>4. snapshot # None => snapshot.sequence \in Int
    BY OfflineAssumption DEF OfflineInv, SnapshotsHold, OfflineSnapshot
  <1>5. CallsHold'
    BY <1>1, <1>3, <1>4, CallsStay DEF OfflineInv, CallsHold
  <1>6. VerdictsAreOnce'
    BY <1>1 DEF OfflineInv, VerdictsAreOnce, Put, ReplayKey
  <1> QED  BY <1>1, <1>3, <1>5, <1>6 DEF OfflineInv, LastHolds

\* A snapshot that supersedes moves the primed one forward.
LEMMA PrimedKeeps ==
    ASSUME OfflineInv, NEW s \in Slots, Primed(s)
    PROVE  OfflineInv'
  <1>1. /\ s \in DOMAIN offlineCalls /\ offlineCalls[s].op = "prime"
        /\ offlineCalls' = Drop(offlineCalls, s) /\ lastVerified' = None
        /\ UNCHANGED <<offlineTime, signedSnapshots, envelopes, offlineConsumed, verdicts>>
    BY DEF Primed
  <1>2. offlineCalls[s].value \in signedSnapshots
    BY <1>1 DEF OfflineInv, CallsHold, CallHolds, VerifyCall
  <1>3. snapshot' \in {snapshot, offlineCalls[s].value}
    BY DEF Primed
  <1>4. SnapshotsHold'
    BY <1>1, <1>2, <1>3 DEF OfflineInv, SnapshotsHold
  <1>5. \A t \in signedSnapshots : t.sequence \in Int
    BY OfflineAssumption DEF OfflineInv, SnapshotsHold, OfflineSnapshot
  <1>6. snapshot # None => snapshot' # None /\ snapshot'.sequence >= snapshot.sequence
    <2> SUFFICES ASSUME snapshot # None
                 PROVE  snapshot' # None /\ snapshot'.sequence >= snapshot.sequence
      OBVIOUS
    <2>1. snapshot.sequence \in Int
      BY <1>5 DEF OfflineInv, SnapshotsHold
    <2>2. CASE Supersedes(offlineCalls[s])
      <3>1. snapshot' = offlineCalls[s].value
        BY <2>2 DEF Primed
      <3>2. snapshot'.sequence >= snapshot.sequence
        BY <1>2, <1>5, <2>1, <2>2, <3>1 DEF Supersedes
      <3>3. snapshot' # None
        BY <1>2, <3>1, OfflineAssumption DEF OfflineInv, SnapshotsHold
      <3> QED  BY <3>2, <3>3
    <2>3. CASE ~Supersedes(offlineCalls[s])
      BY <2>1, <2>3 DEF Primed
    <2> QED  BY <2>2, <2>3
  <1> QED  BY <1>1, <1>4, <1>6, NoVerdict

\* A verification begins under the snapshot primed by then.
LEMMA VerifyKeeps ==
    ASSUME OfflineInv, NEW s \in Slots, NEW p \in Presented, VerifyOfflineEnvelope(s, p)
    PROVE  OfflineInv'
  <1> DEFINE floor == IF snapshot = None THEN 0 ELSE snapshot.sequence
             call == [op |-> "verify", pc |-> "signature", presented |-> p, now |-> offlineTime,
                      floor |-> floor]
  <1>1. /\ offlineCalls' = Put(offlineCalls, s, call) /\ lastVerified' = None
        /\ UNCHANGED <<offlineTime, snapshot, signedSnapshots, envelopes, offlineConsumed, verdicts>>
    BY DEF VerifyOfflineEnvelope
  <1>2. floor \in Nat /\ (floor > 0 => snapshot # None /\ snapshot.sequence >= floor)
    BY OfflineAssumption DEF OfflineInv, SnapshotsHold, OfflineSnapshot
  <1>3. PICK e \in envelopes, n \in EnvelopeNonces, r \in BOOLEAN :
           p = [payload |-> [e EXCEPT !.nonce = n], signature |-> e, readable |-> r]
    BY DEF Presented
  <1>4. e \in OfflineEnvelopeUnsigned /\ [e EXCEPT !.nonce = n] \in OfflineEnvelopeUnsigned
    BY DEF OfflineInv, SnapshotsHold, OfflineEnvelopeUnsigned
  <1>5. /\ p \in [payload : OfflineEnvelopeUnsigned, signature : OfflineEnvelopeUnsigned,
                  readable : BOOLEAN]
        /\ p.signature \in envelopes
    BY <1>3, <1>4
  <1>6. offlineTime \in Nat
    BY OfflineAssumption DEF OfflineInv, SnapshotsHold
  <1> HIDE DEF floor
  <1>7. /\ call \in VerifyCall /\ call.presented = p /\ call.floor = floor
        /\ call.pc = "signature"
    BY <1>2, <1>5, <1>6 DEF VerifyCall
  <1> HIDE DEF call
  <1>8. CallHolds(call, snapshot, signedSnapshots, envelopes)
    BY <1>2, <1>5, <1>7 DEF CallHolds
  <1> QED  BY <1>1, <1>8, CallWritten

\* The signature is over the envelope as presented, which is live.
LEMMA SignatureCheckedKeeps ==
    ASSUME OfflineInv, NEW s \in Slots, SignatureChecked(s)
    PROVE  OfflineInv'
  <1> DEFINE call == offlineCalls[s]
             p == call.presented
             next == [call EXCEPT !.pc = "registry"]
  <1>1. /\ s \in DOMAIN offlineCalls /\ call.op = "verify" /\ lastVerified' = None
        /\ UNCHANGED <<offlineTime, snapshot, signedSnapshots, envelopes, offlineConsumed, verdicts>>
    BY DEF SignatureChecked
  <1>2. CallHolds(call, snapshot, signedSnapshots, envelopes)
    BY <1>1 DEF OfflineInv, CallsHold
  <1>3. CASE offlineCalls' = Drop(offlineCalls, s)
    <2>1. SnapshotsHold'
      BY <1>1 DEF OfflineInv, SnapshotsHold
    <2>2. snapshot # None => snapshot.sequence \in Int
      BY OfflineAssumption DEF OfflineInv, SnapshotsHold, OfflineSnapshot
    <2> QED  BY <1>1, <1>3, <2>1, <2>2, NoVerdict
  <1>4. CASE /\ EnvelopePayload(p.payload) = p.signature /\ Fresh(p.payload, call.now)
             /\ offlineCalls' = [offlineCalls EXCEPT ![s] = next]
    <2>1. /\ call \in VerifyCall /\ p.signature \in envelopes
          /\ call.floor > 0 => snapshot # None /\ snapshot.sequence >= call.floor
      BY <1>1, <1>2 DEF CallHolds
    <2>2. p.payload \in OfflineEnvelopeUnsigned
      BY <2>1 DEF VerifyCall
    <2>3. EnvelopePayload(p.payload) = p.payload
      BY <2>2 DEF EnvelopePayload, OfflineEnvelopeUnsigned
    <2>4. call.now < p.payload.expiresAt
      BY <1>4 DEF Fresh
    <2>5. /\ next \in VerifyCall /\ next.presented = p /\ next.now = call.now
          /\ next.floor = call.floor
      BY <2>1 DEF VerifyCall
    <2> HIDE DEF next
    <2>6. CallHolds(next, snapshot, signedSnapshots, envelopes)
      BY <1>4, <2>1, <2>3, <2>4, <2>5 DEF CallHolds
    <2> QED  BY <1>1, <1>4, <2>6, CallWritten
  <1> QED  BY <1>3, <1>4 DEF SignatureChecked

\* What evaluateCredential lets pass, the snapshot vouches for.
LEMMA VerifiedIsVouchedFor ==
    ASSUME OfflineInv, NEW e \in OfflineEnvelopeUnsigned, NEW at,
           EvaluateCredential(e, at) = "verified"
    PROVE  snapshot # None /\ VouchedFor(e, snapshot.content)
  <1>1. snapshot # None
    BY DEF EvaluateCredential
  <1>2. snapshot.content \in SnapshotContent
    BY <1>1, OfflineAssumption DEF OfflineInv, SnapshotsHold, OfflineSnapshot
  <1> DEFINE c == snapshot.content
  <1>3. /\ c.key \in {"active", "retired", "revoked", None} /\ c.from \in Int /\ c.until \in Int
        /\ e.issuedAt \in Int
    BY <1>2, OfflineAssumption DEF SnapshotContent, OfflineEnvelopeUnsigned
  <1>4. /\ c.issuer = "active" /\ c.schema = "active" /\ c.key # None /\ c.key # "revoked"
        /\ ~(e.issuedAt < c.from) /\ ~(e.issuedAt >= c.until) /\ c.status = "valid"
    BY DEF EvaluateCredential
  <1> QED  BY <1>1, <1>3, <1>4 DEF VouchedFor

\* A verdict is given once, by the snapshot primed by then.
LEMMA OfflineVerifiedKeeps ==
    ASSUME OfflineInv, NEW s \in Slots, OfflineVerified(s)
    PROVE  OfflineInv'
  <1> DEFINE call == offlineCalls[s]
             p == call.presented
             e == p.payload
  <1>1. /\ s \in DOMAIN offlineCalls /\ call.op = "verify" /\ call.pc = "registry"
        /\ offlineCalls' = Drop(offlineCalls, s)
        /\ UNCHANGED <<offlineTime, snapshot, signedSnapshots, envelopes>>
    BY DEF OfflineVerified
  <1>2. SnapshotsHold'
    BY <1>1 DEF OfflineInv, SnapshotsHold
  <1>3. snapshot # None => snapshot.sequence \in Int
    BY OfflineAssumption DEF OfflineInv, SnapshotsHold, OfflineSnapshot
  <1>4. CASE lastVerified' = None /\ UNCHANGED <<offlineConsumed, verdicts>>
    BY <1>1, <1>2, <1>3, <1>4, NoVerdict
  <1>5. CASE /\ EvaluateCredential(e, call.now) = "verified" /\ ReplayKey(e) \notin offlineConsumed
             /\ offlineConsumed' = offlineConsumed \cup {ReplayKey(e)}
             /\ verdicts' = [verdicts EXCEPT ![p.signature] = verdicts[p.signature] + 1]
             /\ lastVerified' = [envelope |-> e, now |-> call.now, floor |-> call.floor,
                                 by |-> snapshot]
    <2>1. CallHolds(call, snapshot, signedSnapshots, envelopes)
      BY <1>1 DEF OfflineInv, CallsHold
    <2>2. /\ call \in VerifyCall /\ e \in envelopes /\ e = p.signature /\ call.now < e.expiresAt
          /\ call.floor > 0 => snapshot # None /\ snapshot.sequence >= call.floor
      BY <1>1, <2>1 DEF CallHolds
    <2>3. call.floor \in Nat /\ e \in OfflineEnvelopeUnsigned
      BY <2>2 DEF VerifyCall
    <2>4. snapshot # None /\ VouchedFor(e, snapshot.content)
      BY <1>5, <2>3, VerifiedIsVouchedFor
    <2>5. snapshot \in signedSnapshots /\ snapshot.sequence >= call.floor
      <3>1. snapshot \in OfflineSnapshot /\ snapshot \in signedSnapshots
        BY <2>4 DEF OfflineInv, SnapshotsHold
      <3>2. snapshot.sequence \in Nat
        BY <3>1, OfflineAssumption DEF OfflineSnapshot
      <3> QED  BY <2>2, <2>3, <3>1, <3>2
    <2> HIDE DEF e
    <2>6. /\ lastVerified'.envelope = e /\ lastVerified'.now = call.now
          /\ lastVerified'.floor = call.floor /\ lastVerified'.by = snapshot
      BY <1>5
    <2>7. LastHolds'
      BY <1>1, <2>2, <2>4, <2>5, <2>6 DEF LastHolds, VouchedFor
    <2>8. VerdictsAreOnce'
      <3>1. /\ DOMAIN verdicts' = DOMAIN verdicts
            /\ verdicts' = [f \in DOMAIN verdicts' |-> verdicts'[f]]
            /\ \A f \in DOMAIN verdicts : f # e => verdicts'[f] = verdicts[f]
        BY <1>5, <2>2 DEF OfflineInv, VerdictsAreOnce
      <3>2. e \in DOMAIN verdicts => verdicts'[e] = 1
        BY <1>5, <2>2 DEF OfflineInv, VerdictsAreOnce
      <3>3. ASSUME NEW f \in DOMAIN verdicts'
            PROVE  /\ verdicts'[f] \in {0, 1}
                   /\ verdicts'[f] = 1 => ReplayKey(f) \in offlineConsumed'
        BY <1>5, <3>1, <3>2 DEF OfflineInv, VerdictsAreOnce
      <3> QED  BY <3>1, <3>3 DEF VerdictsAreOnce, ReplayKey
    <2>9. CallsHold'
      <3>1. /\ offlineCalls' = [r \in DOMAIN offlineCalls' |-> offlineCalls'[r]]
            /\ DOMAIN offlineCalls' \subseteq DOMAIN offlineCalls
            /\ \A r \in DOMAIN offlineCalls' : offlineCalls'[r] = offlineCalls[r]
        BY <1>1 DEF Drop
      <3> QED  BY <1>1, <1>2, <1>3, <3>1, CallsStay DEF OfflineInv, CallsHold
    <2> QED  BY <1>2, <2>7, <2>8, <2>9 DEF OfflineInv
  <1> QED  BY <1>4, <1>5 DEF OfflineVerified

LEMMA OfflineStep ==
    ASSUME OfflineInv, [OfflineNext]_offlineVars
    PROVE  OfflineInv'
  <1>1. snapshot # None => snapshot.sequence \in Int
    BY OfflineAssumption DEF OfflineInv, SnapshotsHold, OfflineSnapshot
  <1>2. CASE OfflineTick
    <2>1. SnapshotsHold'
      BY <1>2, OfflineAssumption DEF OfflineTick, OfflineInv, SnapshotsHold
    <2> QED  BY <1>1, <1>2, <2>1, NoVerdict DEF OfflineTick
  <1>3. CASE UNCHANGED offlineVars
    <2>1. SnapshotsHold' /\ VerdictsAreOnce' /\ CallsHold' /\ LastHolds'
      BY <1>3 DEF offlineVars, OfflineInv, SnapshotsHold, VerdictsAreOnce, CallsHold, LastHolds,
                  ReplayKey, CallHolds, VouchedFor
    <2> QED  BY <2>1 DEF OfflineInv
  <1>4. ASSUME NEW s \in Slots, OfflineCallFails(s)
        PROVE  OfflineInv'
    <2>1. SnapshotsHold'
      BY <1>4 DEF OfflineCallFails, OfflineInv, SnapshotsHold
    <2> QED  BY <1>1, <1>4, <2>1, NoVerdict DEF OfflineCallFails
  <1>5. ASSUME NEW s \in Slots, NEW value \in signedSnapshots, Prime(s, value)
        PROVE  OfflineInv'
    <2> DEFINE call == [op |-> "prime", value |-> value, before |-> snapshot]
    <2>1. CallHolds(call, snapshot, signedSnapshots, envelopes)
      BY DEF CallHolds
    <2> QED  BY <1>5, <2>1, CallWritten DEF Prime
  <1> QED
    BY <1>2, <1>3, <1>4, <1>5, SignSnapshotKeeps, CreateEnvelopeKeeps, PrimedKeeps, VerifyKeeps,
       SignatureCheckedKeeps, OfflineVerifiedKeeps DEF OfflineNext

\* An envelope verifies at most once by however many callers at once, and what
\* verified was signed, live when its call began, and vouched for by a snapshot no
\* older than the one primed by then.
THEOREM OfflineVerdicts == OfflineSpec => []OfflineVerdictsHold
  <1>1. OfflineInit => OfflineInv
    BY OfflineAssumption DEF OfflineInit, OfflineInv, SnapshotsHold, VerdictsAreOnce, CallsHold,
                             LastHolds, EmptyMap
  <1>2. OfflineInv => OfflineVerdictsHold
    BY DEF OfflineInv, VerdictsAreOnce, LastHolds, OfflineVerdictsHold
  <1> QED  BY <1>1, <1>2, OfflineStep, PTL DEF OfflineSpec
-----------------------------------------------------------------------------
(* CredentialDomain.                                                       *)

\* A challenge that is not consumed has no verdict yet; a consumed one has at most
\* one, and an acceptance is by its audience and in time.
ChallengeInv ==
    /\ domainTime \in 0 .. MaxDomainTime
    /\ IsMap(challenges, ChallengeValues, StoredChallenge)
    /\ DOMAIN fates = DOMAIN challenges
    /\ \A v \in DOMAIN fates :
          \/ fates[v] = <<>>
          \/ /\ challenges[v].consumed
             /\ \E r : /\ fates[v] = <<r>>
                       /\ r.verdict = None =>
                             /\ r.audience = challenges[v].audience
                             /\ r.at <= challenges[v].expiresAt + Skew

LEMMA CreateChallengeKeeps ==
    ASSUME ChallengeInv, NEW value \in ChallengeValues, NEW audience \in Audiences,
           NEW ttl \in 1 .. ChallengeTtl, CreateChallenge(value, audience, ttl)
    PROVE  ChallengeInv'
  <1> DEFINE no == FALSE
             entry == [audience |-> audience, consumed |-> no, expiresAt |-> domainTime + ttl]
  <1>1. /\ value \notin DOMAIN challenges /\ domainTime' = domainTime
        /\ challenges' = Put(challenges, value, entry) /\ fates' = Put(fates, value, <<>>)
    BY DEF CreateChallenge
  <1>2. no \in BOOLEAN
    BY Zenon DEF no
  <1> HIDE DEF no
  <1>3. entry \in StoredChallenge
    BY <1>2, DomainAssumption DEF ChallengeInv, StoredChallenge
  <1> HIDE DEF entry
  <1>4. IsMap(challenges', ChallengeValues, StoredChallenge)
    BY <1>1, <1>3, PutType DEF ChallengeInv
  <1>5. /\ DOMAIN fates' = DOMAIN challenges' /\ fates'[value] = <<>>
        /\ DOMAIN fates' = DOMAIN fates \cup {value}
        /\ \A v \in DOMAIN fates : fates'[v] = fates[v] /\ challenges'[v] = challenges[v]
    BY <1>1 DEF ChallengeInv, Put
  <1>6. ASSUME NEW v \in DOMAIN fates'
        PROVE  \/ fates'[v] = <<>>
               \/ /\ challenges'[v].consumed
                  /\ \E r : /\ fates'[v] = <<r>>
                            /\ r.verdict = None =>
                                  /\ r.audience = challenges'[v].audience
                                  /\ r.at <= challenges'[v].expiresAt + Skew
    BY <1>5 DEF ChallengeInv
  <1> QED  BY <1>1, <1>4, <1>5, <1>6 DEF ChallengeInv

\* The first verdict consumes the challenge, and no later one is recorded.
LEMMA VerifyChallengeKeeps ==
    ASSUME ChallengeInv, NEW value \in ChallengeValues, NEW audience \in Audiences,
           VerifyChallenge(value, audience)
    PROVE  ChallengeInv'
  <1> DEFINE yes == TRUE
             entry == challenges[value]
             spent == [entry EXCEPT !.consumed = yes]
             verdict == ConsumeVerdict(entry, audience)
             r == [verdict |-> verdict, audience |-> audience, at |-> domainTime]
  <1>1. /\ value \in DOMAIN challenges /\ domainTime' = domainTime
        /\ challenges' = [challenges EXCEPT ![value] = spent]
        /\ fates' = IF verdict = "CHALLENGE_REUSED" THEN fates
                    ELSE [fates EXCEPT ![value] = Append(fates[value], r)]
    BY DEF VerifyChallenge
  <1>2. yes = TRUE
    BY DEF yes
  <1> HIDE DEF yes
  <1>3. entry \in StoredChallenge
    BY <1>1 DEF ChallengeInv, IsMap
  <1>4. /\ spent \in StoredChallenge /\ spent.consumed /\ spent.audience = entry.audience
        /\ spent.expiresAt = entry.expiresAt
    BY <1>2, <1>3 DEF StoredChallenge
  <1> HIDE DEF spent
  <1>5. IsMap(challenges', ChallengeValues, StoredChallenge)
    BY <1>1, <1>4, UpdateType DEF ChallengeInv
  <1>6. /\ DOMAIN challenges' = DOMAIN challenges /\ challenges'[value] = spent
        /\ \A v \in DOMAIN challenges : v # value => challenges'[v] = challenges[v]
    BY <1>1 DEF ChallengeInv, IsMap
  <1>7. /\ DOMAIN fates' = DOMAIN fates
        /\ \A v \in DOMAIN fates : v # value => fates'[v] = fates[v]
    BY <1>1
  <1>8. \/ fates'[value] = <<>>
        \/ \E q : /\ fates'[value] = <<q>>
                  /\ q.verdict = None =>
                        /\ q.audience = entry.audience
                        /\ q.at <= entry.expiresAt + Skew
    <2>1. CASE entry.consumed
      <3>1. fates' = fates
        BY <1>1, <2>1 DEF ConsumeVerdict
      <3> QED  BY <1>1, <3>1 DEF ChallengeInv
    <2>2. CASE ~entry.consumed
      <3>1. fates[value] = <<>>
        BY <1>1, <2>2 DEF ChallengeInv
      <3>2. verdict # "CHALLENGE_REUSED"
        BY <2>2, DomainAssumption DEF ConsumeVerdict
      <3>3. fates'[value] = <<r>>
        BY <1>1, <3>1, <3>2 DEF ChallengeInv
      <3>4. domainTime \in Int /\ entry.expiresAt \in Int /\ Skew \in Int
        BY <1>3, DomainAssumption DEF ChallengeInv, StoredChallenge
      <3>5. verdict = None => audience = entry.audience /\ domainTime <= entry.expiresAt + Skew
        BY <2>2, <3>4, DomainAssumption DEF ConsumeVerdict
      <3>6. r.verdict = verdict /\ r.audience = audience /\ r.at = domainTime
        OBVIOUS
      <3> HIDE DEF r, verdict
      <3> QED  BY <3>3, <3>5, <3>6
    <2> QED  BY <2>1, <2>2
  <1>9. ASSUME NEW v \in DOMAIN fates'
        PROVE  \/ fates'[v] = <<>>
               \/ /\ challenges'[v].consumed
                  /\ \E q : /\ fates'[v] = <<q>>
                            /\ q.verdict = None =>
                                  /\ q.audience = challenges'[v].audience
                                  /\ q.at <= challenges'[v].expiresAt + Skew
    <2>1. CASE v = value
      BY <1>4, <1>6, <1>8, <2>1
    <2>2. CASE v # value
      BY <1>6, <1>7, <2>2 DEF ChallengeInv
    <2> QED  BY <2>1, <2>2
  <1> QED  BY <1>1, <1>5, <1>6, <1>7, <1>9 DEF ChallengeInv

\* A challenge has one fate, whoever asks for it and however often, and an acceptance
\* is by its audience and within its lifetime and the skew allowed.
THEOREM OneFate == DomainSpec => []ChallengesHaveOneFate
  <1>1. DomainInit => ChallengeInv
    BY EmptyMapType, DomainAssumption DEF DomainInit, ChallengeInv, EmptyMap
  <1>2. ASSUME ChallengeInv, [DomainTick \/ ChallengeNext \/ StatusNext]_domainVars
        PROVE  ChallengeInv'
    <2>1. CASE UNCHANGED <<domainTime, challenges, fates>>
      BY <1>2, <2>1 DEF ChallengeInv
    <2>2. CASE DomainTick
      <3>1. domainTime' \in 0 .. MaxDomainTime
        BY <1>2, <2>2, DomainAssumption DEF DomainTick, ChallengeInv
      <3>2. UNCHANGED <<challenges, fates>>
        BY <2>2 DEF DomainTick, challengeVars
      <3> QED  BY <1>2, <3>1, <3>2 DEF ChallengeInv
    <2>3. CASE ChallengeNext
      BY <1>2, <2>3, CreateChallengeKeeps, VerifyChallengeKeeps DEF ChallengeNext
    <2>4. CASE StatusNext
      <3>1. ASSUME NEW url, NEW status, ListStatus(url, status)
            PROVE  UNCHANGED <<domainTime, challenges, fates>>
        BY <3>1 DEF ListStatus, challengeVars
      <3>2. ASSUME NEW s, StatusArrives(s) \/ InvalidResponse(s) \/ TransportFails(s)
            PROVE  UNCHANGED <<domainTime, challenges, fates>>
        BY <3>2 DEF StatusArrives, InvalidResponse, TransportFails, challengeVars
      <3>3. ASSUME NEW s, NEW url, Lookup(s, url)
            PROVE  UNCHANGED <<domainTime, challenges, fates>>
        BY <3>3 DEF Lookup, challengeVars
      <3>4. ASSUME NEW s, NEW expiresAt, StatusServed(s, expiresAt)
            PROVE  UNCHANGED <<domainTime, challenges, fates>>
        BY <3>4 DEF StatusServed, challengeVars
      <3> QED  BY <2>1, <2>4, <3>1, <3>2, <3>3, <3>4 DEF StatusNext, LookupTimesOut
    <2>5. CASE UNCHANGED domainVars
      BY <2>1, <2>5 DEF domainVars, challengeVars
    <2> QED  BY <1>2, <2>2, <2>3, <2>4, <2>5
  <1>3. ChallengeInv => ChallengesHaveOneFate
    <2> SUFFICES ASSUME ChallengeInv, NEW v \in DOMAIN fates
                 PROVE  /\ Len(fates[v]) <= 1
                        /\ \A i \in DOMAIN fates[v] : fates[v][i].verdict = None =>
                              /\ fates[v][i].audience = challenges[v].audience
                              /\ fates[v][i].at <= challenges[v].expiresAt + Skew
      BY DEF ChallengesHaveOneFate
    <2>1. CASE fates[v] = <<>>
      BY <2>1
    <2>2. ASSUME NEW r, fates[v] = <<r>>,
                 r.verdict = None => /\ r.audience = challenges[v].audience
                                     /\ r.at <= challenges[v].expiresAt + Skew
          PROVE  /\ Len(fates[v]) <= 1
                 /\ \A i \in DOMAIN fates[v] : fates[v][i].verdict = None =>
                       /\ fates[v][i].audience = challenges[v].audience
                       /\ fates[v][i].at <= challenges[v].expiresAt + Skew
      BY <2>2
    <2> QED  BY <2>1, <2>2 DEF ChallengeInv
  <1> QED  BY <1>1, <1>2, <1>3, PTL DEF DomainSpec

LookupCall ==
    [url : StatusUrls, now : Nat, cached : StatusRecord \cup {None},
     reply : StatusRecord \cup {None}, since : Nat \cup {None}]

\* A record that says valid was taken from the list before it stopped saying so: it
\* expires within MaxAge of now, and of that moment.
Believable(record, time, since) ==
    record.status = "valid" =>
       /\ record.expiresAt <= time + MaxAge
       /\ since # None => record.expiresAt <= since + MaxAge

ListHolds ==
    /\ domainTime \in 0 .. MaxDomainTime
    /\ statusList \in [StatusUrls -> [status : CredentialStatus, since : Nat \cup {None}]]
    /\ \A u \in StatusUrls : statusList[u].since # None =>
          statusList[u].status # "valid" /\ statusList[u].since <= domainTime

EntriesHold ==
    /\ IsMap(statusEntries, StatusUrls, StatusRecord)
    /\ \A u \in DOMAIN statusEntries :
          Believable(statusEntries[u], domainTime, statusList[u].since)

LookupsHold ==
    /\ IsMap(lookups, Slots, LookupCall)
    /\ \A s \in DOMAIN lookups :
          /\ lookups[s].since \in {None, statusList[lookups[s].url].since}
          /\ lookups[s].reply # None =>
                Believable(lookups[s].reply, domainTime, statusList[lookups[s].url].since)

StatusInv == ListHolds /\ EntriesHold /\ LookupsHold /\ RevocationTakesHold

\* A record stays believable as time passes, and when the list changes.
LEMMA BelievableStays ==
    ASSUME NEW record \in StatusRecord, NEW time \in Nat, NEW time2 \in Nat, time <= time2,
           NEW since, NEW since2 \in {since, None, time}, Believable(record, time, since)
    PROVE  Believable(record, time2, since2)
  <1>1. record.expiresAt \in Int /\ MaxAge \in Int
    BY DomainAssumption DEF StatusRecord
  <1> QED  BY <1>1 DEF Believable

\* An answer that says valid is given from a record that outlives the call's start.
LEMMA AnswerHolds ==
    ASSUME NEW call, NEW ok, NEW code, lookedUp' = Result(call, ok, code),
           ok => call.since = None \/ call.now < call.since + MaxAge
    PROVE  RevocationTakesHold'
  <1>1. lookedUp'.ok = ok /\ lookedUp'.start = call.now /\ lookedUp'.since = call.since
    BY DEF Result
  <1> QED  BY <1>1, Zenon DEF RevocationTakesHold

\* A believable record that is live at the start of a call.
LEMMA LiveRecord ==
    ASSUME NEW record \in StatusRecord, NEW time, NEW listed \in Nat \cup {None},
           NEW start \in Nat, NEW since \in {None, listed},
           Believable(record, time, listed), record.status = "valid", record.expiresAt > start
    PROVE  since = None \/ start < since + MaxAge
  <1>1. record.expiresAt \in Int /\ MaxAge \in Int
    BY DomainAssumption DEF StatusRecord
  <1> QED  BY <1>1 DEF Believable

\* Calls end and nothing else changes but the result, which holds.
LEMMA LookupEnds ==
    ASSUME StatusInv, NEW s \in DOMAIN lookups, lookups' = Drop(lookups, s),
           UNCHANGED <<domainTime, statusList>>, EntriesHold', RevocationTakesHold'
    PROVE  StatusInv'
  <1>1. /\ IsMap(lookups', Slots, LookupCall)
        /\ DOMAIN lookups' \subseteq DOMAIN lookups
        /\ \A r \in DOMAIN lookups' : lookups'[r] = lookups[r]
    <2>1. IsMap(lookups', Slots, LookupCall)
      BY DropType DEF StatusInv, LookupsHold
    <2> QED  BY <2>1 DEF Drop
  <1>2. LookupsHold'
    BY <1>1 DEF StatusInv, LookupsHold, Believable
  <1> QED  BY <1>2 DEF StatusInv, ListHolds

LEMMA EntriesUnchanged ==
    ASSUME StatusInv, UNCHANGED <<domainTime, statusList, statusEntries>>
    PROVE  ListHolds' /\ EntriesHold'
  BY DEF StatusInv, ListHolds, EntriesHold, Believable

\* A lookup begins with what the list and the cache hold, or is answered from a live
\* entry.
LEMMA LookupKeeps ==
    ASSUME StatusInv, NEW s \in Slots, NEW url \in StatusUrls \cup BlockedUrls, Lookup(s, url)
    PROVE  StatusInv'
  <1> DEFINE since == IF BoundedStatusUrl(url) THEN statusList[url].since ELSE None
             call == [url |-> url, now |-> domainTime, cached |-> Cached(url), reply |-> None,
                      since |-> since]
  <1>1. /\ UNCHANGED <<domainTime, statusList, statusEntries>>
        /\ call.now = domainTime /\ call.since = since
    BY DEF Lookup
  <1>2. ListHolds' /\ EntriesHold'
    BY <1>1, EntriesUnchanged
  <1>3. ASSUME UNCHANGED lookups
        PROVE  LookupsHold'
    BY <1>1, <1>3 DEF StatusInv, LookupsHold, Believable
  <1>4. CASE ~BoundedStatusUrl(url)
    <2>1. lookedUp' = Result(call, FALSE, "ssrf_blocked") /\ UNCHANGED lookups
      BY <1>4 DEF Lookup
    <2> HIDE DEF call
    <2>2. RevocationTakesHold'
      BY <2>1, AnswerHolds
    <2> QED  BY <1>2, <1>3, <2>1, <2>2 DEF StatusInv
  <1>5. CASE BoundedStatusUrl(url) /\ Cached(url) # None /\ Cached(url).expiresAt > domainTime
    <2>1. lookedUp' = Result(call, Cached(url).status = "valid", Cached(url).status)
          /\ UNCHANGED lookups
      BY <1>5 DEF Lookup
    <2>2. /\ url \in DOMAIN statusEntries /\ Cached(url) = statusEntries[url]
          /\ Cached(url) \in StatusRecord /\ url \in StatusUrls
          /\ Believable(Cached(url), domainTime, statusList[url].since)
      BY <1>5 DEF Cached, StatusInv, EntriesHold, IsMap
    <2>3. domainTime \in Nat /\ since = statusList[url].since /\ since \in Nat \cup {None}
      BY <1>5, <2>2, DomainAssumption DEF StatusInv, ListHolds
    <2> HIDE DEF call, since
    <2>4. ASSUME Cached(url).status = "valid"
          PROVE  call.since = None \/ call.now < call.since + MaxAge
      BY <1>1, <1>5, <2>2, <2>3, <2>4, LiveRecord
    <2>5. RevocationTakesHold'
      BY <2>1, <2>4, AnswerHolds
    <2> QED  BY <1>2, <1>3, <2>1, <2>5 DEF StatusInv
  <1>6. CASE /\ BoundedStatusUrl(url)
             /\ ~(Cached(url) # None /\ Cached(url).expiresAt > domainTime)
    <2>1. lookups' = Put(lookups, s, call) /\ lookedUp' = None
      BY <1>6 DEF Lookup
    <2>2. url \in StatusUrls /\ since = statusList[url].since
      BY <1>6 DEF BoundedStatusUrl
    <2>3. since \in Nat \cup {None} /\ domainTime \in Nat
      BY <2>2, DomainAssumption DEF StatusInv, ListHolds
    <2>4. Cached(url) \in StatusRecord \cup {None}
      BY DEF Cached, StatusInv, EntriesHold, IsMap
    <2> HIDE DEF since
    <2>5. call \in LookupCall /\ call.url = url /\ call.reply = None
      BY <2>2, <2>3, <2>4 DEF LookupCall
    <2> HIDE DEF call
    <2>6. IsMap(lookups', Slots, LookupCall)
      BY <2>1, <2>5, PutType DEF StatusInv, LookupsHold
    <2>7. /\ DOMAIN lookups' = DOMAIN lookups \cup {s} /\ lookups'[s] = call
          /\ \A r \in DOMAIN lookups : r # s => lookups'[r] = lookups[r]
      BY <2>1 DEF Put
    <2>8. ASSUME NEW r \in DOMAIN lookups'
          PROVE  /\ lookups'[r].since \in {None, statusList[lookups'[r].url].since}
                 /\ lookups'[r].reply # None =>
                       Believable(lookups'[r].reply, domainTime, statusList[lookups'[r].url].since)
      BY <1>1, <2>2, <2>5, <2>7 DEF StatusInv, LookupsHold
    <2>9. LookupsHold'
      BY <1>1, <2>6, <2>8 DEF LookupsHold, Believable
    <2> QED  BY <1>2, <2>1, <2>9 DEF StatusInv, RevocationTakesHold
  <1> QED  BY <1>4, <1>5, <1>6

\* A call under way is written, with what it may rely on.
LEMMA LookupWritten ==
    ASSUME StatusInv, NEW s \in DOMAIN lookups, NEW call \in LookupCall,
           lookups' = [lookups EXCEPT ![s] = call], lookedUp' = None,
           UNCHANGED <<domainTime, statusList, statusEntries>>,
           call.since \in {None, statusList[call.url].since},
           call.reply # None => Believable(call.reply, domainTime, statusList[call.url].since)
    PROVE  StatusInv'
  <1>1. IsMap(lookups', Slots, LookupCall)
    BY UpdateType DEF StatusInv, LookupsHold
  <1>2. /\ DOMAIN lookups' = DOMAIN lookups /\ lookups'[s] = call
        /\ \A r \in DOMAIN lookups : r # s => lookups'[r] = lookups[r]
    BY DEF StatusInv, LookupsHold, IsMap
  <1>3. ASSUME NEW r \in DOMAIN lookups'
        PROVE  /\ lookups'[r].since \in {None, statusList[lookups'[r].url].since}
               /\ lookups'[r].reply # None =>
                     Believable(lookups'[r].reply, domainTime, statusList[lookups'[r].url].since)
    BY <1>2 DEF StatusInv, LookupsHold
  <1>4. LookupsHold'
    BY <1>1, <1>3 DEF LookupsHold, Believable
  <1> QED  BY <1>4, EntriesUnchanged DEF StatusInv, RevocationTakesHold

\* A record is taken from the list as it is now.
LEMMA StatusServedKeeps ==
    ASSUME StatusInv, NEW s \in Slots, NEW expiresAt \in 1 .. (MaxDomainTime + MaxAge),
           StatusServed(s, expiresAt)
    PROVE  StatusInv'
  <1> DEFINE record == [status |-> statusList[lookups[s].url].status, expiresAt |-> expiresAt]
             call == [lookups[s] EXCEPT !.reply = record]
  <1>1. /\ s \in DOMAIN lookups /\ lookups' = [lookups EXCEPT ![s] = call] /\ lookedUp' = None
        /\ expiresAt <= domainTime + MaxAge
        /\ UNCHANGED <<domainTime, statusList, statusEntries>>
    BY DEF StatusServed
  <1>2. /\ lookups[s] \in LookupCall /\ lookups[s].url \in StatusUrls
        /\ lookups[s].since \in {None, statusList[lookups[s].url].since}
    BY <1>1 DEF StatusInv, LookupsHold, IsMap, LookupCall
  <1>3. statusList[lookups[s].url].status \in CredentialStatus
    BY <1>2 DEF StatusInv, ListHolds
  <1>4. record \in StatusRecord /\ record.expiresAt = expiresAt
        /\ record.status = statusList[lookups[s].url].status
    BY <1>3, DomainAssumption DEF StatusRecord
  <1> HIDE DEF record
  <1>5. /\ call \in LookupCall /\ call.url = lookups[s].url /\ call.since = lookups[s].since
        /\ call.reply = record
    BY <1>2, <1>4 DEF LookupCall
  <1> HIDE DEF call
  <1>6. Believable(record, domainTime, statusList[lookups[s].url].since)
    BY <1>1, <1>2, <1>4 DEF StatusInv, ListHolds, Believable
  <1> QED  BY <1>1, <1>2, <1>5, <1>6, LookupWritten

\* The record a call waited for answers it and replaces what is cached.
LEMMA StatusArrivesKeeps ==
    ASSUME StatusInv, NEW s \in Slots, StatusArrives(s)
    PROVE  StatusInv'
  <1> DEFINE call == lookups[s]
             record == call.reply
             listed == statusList[call.url].since
  <1>1. /\ s \in DOMAIN lookups /\ record # None /\ lookups' = Drop(lookups, s)
        /\ UNCHANGED <<domainTime, statusList>>
    BY DEF StatusArrives, Answer
  <1>2. /\ call.url \in StatusUrls /\ call.now \in Nat /\ record \in StatusRecord
        /\ call.since \in {None, listed} /\ Believable(record, domainTime, listed)
    BY <1>1 DEF StatusInv, LookupsHold, IsMap, LookupCall
  <1>3. listed \in Nat \cup {None}
    BY <1>2 DEF StatusInv, ListHolds
  <1>4. CASE record.expiresAt <= call.now
    <2>1. lookedUp' = Result(call, FALSE, "invalid_response") /\ UNCHANGED statusEntries
      BY <1>4 DEF StatusArrives, Answer
    <2>2. RevocationTakesHold'
      BY <2>1, AnswerHolds
    <2> QED  BY <1>1, <2>1, <2>2, EntriesUnchanged, LookupEnds
  <1>5. CASE ~(record.expiresAt <= call.now)
    <2>1. /\ lookedUp' = Result(call, record.status = "valid", record.status)
          /\ statusEntries' = Put(statusEntries, call.url, record)
      BY <1>5 DEF StatusArrives, Answer
    <2>2. record.expiresAt > call.now
      BY <1>2, <1>5, DomainAssumption DEF StatusRecord
    <2> HIDE DEF record, listed
    <2>3. ASSUME record.status = "valid"
          PROVE  call.since = None \/ call.now < call.since + MaxAge
      BY <1>2, <1>3, <2>2, <2>3, LiveRecord
    <2>4. RevocationTakesHold'
      BY <2>1, <2>3, AnswerHolds
    <2>5. IsMap(statusEntries', StatusUrls, StatusRecord)
      BY <1>2, <2>1, PutType DEF StatusInv, EntriesHold
    <2>6. \A u \in DOMAIN statusEntries' :
             \/ u = call.url /\ statusEntries'[u] = record
             \/ u \in DOMAIN statusEntries /\ statusEntries'[u] = statusEntries[u]
      BY <2>1 DEF Put
    <2>7. \A u \in DOMAIN statusEntries' :
             Believable(statusEntries'[u], domainTime, statusList[u].since)
      BY <1>2, <2>6 DEF StatusInv, EntriesHold, listed
    <2>8. EntriesHold'
      BY <1>1, <2>5, <2>7 DEF EntriesHold, Believable
    <2> QED  BY <1>1, <2>4, <2>8, LookupEnds
  <1> QED  BY <1>4, <1>5

\* The list changes: what said valid until now expires within MaxAge of now.
LEMMA ListStatusKeeps ==
    ASSUME StatusInv, NEW url \in StatusUrls, NEW status \in CredentialStatus,
           ListStatus(url, status)
    PROVE  StatusInv'
  <1> DEFINE old == statusList[url].since
             new == IF status = "valid" THEN None
                    ELSE IF old = None THEN domainTime ELSE old
             row == [status |-> status, since |-> new]
             Moved(call) == IF call.url = url /\ status = "valid"
                            THEN [call EXCEPT !.since = None] ELSE call
  <1>1. /\ statusList' = [statusList EXCEPT ![url] = row]
        /\ lookups' = [s \in DOMAIN lookups |-> Moved(lookups[s])]
        /\ lookedUp' = None /\ UNCHANGED <<domainTime, statusEntries>>
    BY DEF ListStatus
  <1>2. /\ domainTime \in Nat /\ old \in Nat \cup {None} /\ new \in Nat \cup {None}
        /\ new \in {old, None, domainTime} /\ (status # "valid" => (new # old => old = None))
        /\ (new # None => status # "valid" /\ new <= domainTime)
    BY DomainAssumption DEF StatusInv, ListHolds
  <1>3. row \in [status : CredentialStatus, since : Nat \cup {None}]
        /\ row.since = new /\ row.status = status
    BY <1>2
  <1>4. status = "valid" => new = None
    OBVIOUS
  <1> HIDE DEF row, new
  <1>5. /\ statusList' \in [StatusUrls -> [status : CredentialStatus, since : Nat \cup {None}]]
        /\ statusList'[url] = row
        /\ \A u \in StatusUrls : u # url => statusList'[u] = statusList[u]
    BY <1>1, <1>3 DEF StatusInv, ListHolds
  <1>6. ListHolds'
    BY <1>1, <1>2, <1>3, <1>5 DEF StatusInv, ListHolds
  <1>7. \A u \in StatusUrls : statusList'[u].since \in {statusList[u].since, None, domainTime}
    BY <1>2, <1>3, <1>5
  <1>8. EntriesHold'
    <2>1. \A u \in DOMAIN statusEntries :
             u \in StatusUrls /\ statusEntries[u] \in StatusRecord
      BY DEF StatusInv, EntriesHold, IsMap
    <2>2. \A u \in DOMAIN statusEntries :
             Believable(statusEntries[u], domainTime, statusList'[u].since)
      BY <1>2, <1>7, <2>1, BelievableStays DEF StatusInv, EntriesHold
    <2> QED  BY <1>1, <2>2 DEF StatusInv, EntriesHold, Believable
  <1>9. ASSUME NEW s \in DOMAIN lookups
        PROVE  /\ lookups'[s] \in LookupCall
               /\ lookups'[s].since \in {None, statusList'[lookups'[s].url].since}
               /\ lookups'[s].reply # None =>
                     Believable(lookups'[s].reply, domainTime, statusList'[lookups'[s].url].since)
    <2> DEFINE call == lookups[s]
    <2>1. /\ call \in LookupCall /\ call.since \in {None, statusList[call.url].since}
          /\ call.reply # None => Believable(call.reply, domainTime, statusList[call.url].since)
          /\ call.url \in StatusUrls /\ call.reply \in StatusRecord \cup {None}
      BY DEF StatusInv, LookupsHold, IsMap, LookupCall
    <2>2. lookups'[s] = Moved(call)
      BY <1>1
    <2> HIDE DEF call
    <2>3. /\ Moved(call) \in LookupCall /\ Moved(call).url = call.url
          /\ Moved(call).reply = call.reply
          /\ Moved(call).since = IF call.url = url /\ status = "valid" THEN None ELSE call.since
      BY <2>1 DEF LookupCall
    <2> HIDE DEF Moved
    <2>4. Moved(call).since \in {None, statusList'[call.url].since}
      BY <1>2, <1>3, <1>4, <1>5, <2>1, <2>3
    <2>5. call.reply # None => Believable(call.reply, domainTime, statusList'[call.url].since)
      BY <1>2, <1>7, <2>1, BelievableStays
    <2> QED  BY <2>2, <2>3, <2>4, <2>5
  <1>10. LookupsHold'
    <2>1. /\ DOMAIN lookups' = DOMAIN lookups
          /\ lookups' = [s \in DOMAIN lookups' |-> lookups'[s]]
      BY <1>1
    <2>2. IsMap(lookups', Slots, LookupCall)
      BY <1>9, <2>1 DEF StatusInv, LookupsHold, IsMap
    <2> QED  BY <1>1, <1>9, <2>1, <2>2 DEF LookupsHold, Believable
  <1> QED  BY <1>1, <1>6, <1>8, <1>10 DEF StatusInv, RevocationTakesHold

\* A tick keeps the records believable.
LEMMA DomainTickKeeps ==
    ASSUME StatusInv, DomainTick
    PROVE  StatusInv'
  <1>1. /\ domainTime \in Nat /\ domainTime' \in 0 .. MaxDomainTime /\ domainTime' \in Nat
        /\ domainTime <= domainTime' /\ lookedUp' = None
        /\ UNCHANGED <<statusList, statusEntries, lookups>>
    BY DomainAssumption DEF DomainTick, StatusInv, ListHolds
  <1>2. ListHolds'
    BY <1>1 DEF StatusInv, ListHolds
  <1>3. EntriesHold'
    <2>1. \A u \in DOMAIN statusEntries : statusEntries[u] \in StatusRecord
      BY DEF StatusInv, EntriesHold, IsMap
    <2>2. \A u \in DOMAIN statusEntries :
             Believable(statusEntries[u], domainTime', statusList[u].since)
      BY <1>1, <2>1, BelievableStays DEF StatusInv, EntriesHold
    <2> QED  BY <1>1, <2>2 DEF StatusInv, EntriesHold, Believable
  <1>4. LookupsHold'
    <2>1. \A s \in DOMAIN lookups : lookups[s].reply \in StatusRecord \cup {None}
      BY DEF StatusInv, LookupsHold, IsMap, LookupCall
    <2>2. \A s \in DOMAIN lookups : lookups[s].reply # None =>
             Believable(lookups[s].reply, domainTime', statusList[lookups[s].url].since)
      BY <1>1, <2>1, BelievableStays DEF StatusInv, LookupsHold
    <2> QED  BY <1>1, <2>2 DEF StatusInv, LookupsHold, Believable
  <1> QED  BY <1>1, <1>2, <1>3, <1>4 DEF StatusInv, RevocationTakesHold

\* No lookup begun MaxAge or more after a list stopped saying valid says valid,
\* although lookups overlap and an older answer may replace a newer one in the cache.
THEOREM RevocationIsBelieved == DomainSpec => []RevocationTakesHold
  <1>1. DomainInit => StatusInv
    <2> SUFFICES ASSUME DomainInit PROVE StatusInv
      OBVIOUS
    <2>1. ListHolds
      BY DomainAssumption DEF DomainInit, ListHolds, CredentialStatus
    <2>2. EntriesHold /\ LookupsHold
      BY EmptyMapType DEF DomainInit, EntriesHold, LookupsHold, EmptyMap
    <2> QED  BY <2>1, <2>2 DEF DomainInit, StatusInv, RevocationTakesHold
  <1>2. ASSUME StatusInv, [DomainTick \/ ChallengeNext \/ StatusNext]_domainVars
        PROVE  StatusInv'
    <2>1. CASE UNCHANGED <<domainTime, statusList, statusEntries, lookups, lookedUp>>
      BY <1>2, <2>1, EntriesUnchanged DEF StatusInv, LookupsHold, Believable, RevocationTakesHold
    <2>2. CASE ChallengeNext \/ UNCHANGED domainVars
      BY <2>1, <2>2 DEF ChallengeNext, CreateChallenge, VerifyChallenge, domainVars, statusVars
    <2>3. ASSUME NEW s, InvalidResponse(s) \/ TransportFails(s)
          PROVE  StatusInv'
      <3>1. /\ s \in DOMAIN lookups /\ lookups' = Drop(lookups, s)
            /\ UNCHANGED <<domainTime, statusList, statusEntries>>
            /\ \E code : lookedUp' = Result(lookups[s], FALSE, code)
        BY <2>3 DEF InvalidResponse, TransportFails, Unavailable, Answer
      <3>2. RevocationTakesHold'
        BY <3>1, AnswerHolds
      <3> QED  BY <1>2, <3>1, <3>2, EntriesUnchanged, LookupEnds
    <2>4. CASE StatusNext
      BY <1>2, <2>3, <2>4, LookupKeeps, StatusServedKeeps, StatusArrivesKeeps, ListStatusKeeps
         DEF StatusNext, LookupTimesOut
    <2> QED  BY <1>2, <2>2, <2>4, DomainTickKeeps
  <1> QED  BY <1>1, <1>2, PTL DEF DomainSpec, StatusInv
=============================================================================
