-------------------------- MODULE IdempotentStore --------------------------
(***************************************************************************)
(* What StorePort.runIdempotent promises its callers                       *)
(* (packages/platform-store/src/index.ts): a key gets one outcome, for     *)
(* ever, and every call that is answered is answered with the outcome of   *)
(* its key, for the request the outcome was recorded for.                  *)
(***************************************************************************)
CONSTANTS Slots, Keys, Hashes, Values, None

VARIABLES
    outcome,     \* the outcome of every key, None before there is one
    asked        \* what every slot is asking or was answered

vars == <<outcome, asked>>

Outcome == [hash : Hashes, value : Values]
Question == [key : Keys, hash : Hashes, answer : Values \cup {None},
             refused : BOOLEAN]

\* A store may open with the outcomes of earlier calls.
Init ==
    /\ outcome \in [Keys -> Outcome \cup {None}]
    /\ asked = [s \in Slots |-> None]

Open(s) == asked[s] # None /\ asked[s].answer = None /\ ~asked[s].refused

\* A call may be refused as soon as it is made.
Ask(s) ==
    /\ asked[s] = None
    /\ asked'[s] \in Question /\ asked'[s].answer = None
    /\ asked' = [asked EXCEPT ![s] = asked'[s]]
    /\ UNCHANGED outcome

\* The operations of open calls take effect, several at once when they share a
\* transaction: this fixes the outcomes of their keys.
Record ==
    /\ outcome' \in [Keys -> Outcome \cup {None}]
    /\ \A x \in Keys : outcome'[x] # outcome[x] =>
          /\ outcome[x] = None /\ outcome'[x] # None
          /\ \E s \in Slots : /\ Open(s) /\ asked[s].key = x
                              /\ outcome'[x].hash = asked[s].hash
    /\ UNCHANGED asked

Answer(s) ==
    /\ Open(s)
    /\ outcome[asked[s].key] # None
    /\ outcome[asked[s].key].hash = asked[s].hash
    /\ asked' = [asked EXCEPT ![s].answer = outcome[asked[s].key].value]
    /\ UNCHANGED outcome

\* A conflict, a lost connection or a failed operation: that one fails everyone
\* who waited for it.
Refuse(calls) ==
    /\ asked' = [s \in Slots |-> IF s \in calls
                                THEN [asked[s] EXCEPT !.refused = TRUE]
                                ELSE asked[s]]
    /\ UNCHANGED outcome

Leave(s) ==
    /\ asked[s] # None /\ ~Open(s)
    /\ asked' = [asked EXCEPT ![s] = None]
    /\ UNCHANGED outcome

Next ==
    \/ \E s \in Slots : Ask(s) \/ Answer(s) \/ Leave(s)
    \/ Record
    \/ \E calls \in SUBSET {s \in Slots : Open(s)} : Refuse(calls)

Spec == Init /\ [][Next]_vars
=============================================================================
