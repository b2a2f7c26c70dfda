------------------------------- MODULE JsMap -------------------------------
(***************************************************************************)
(* The JavaScript Map the services keep their state in: a function whose   *)
(* domain is the set of keys present.  Map.has(k) is k \in DOMAIN m and    *)
(* Map.get(k) is m[k].                                                     *)
(***************************************************************************)
EXTENDS Integers

\* new Map()
EmptyMap == [k \in {} |-> k]

\* Map.set(k, v): replaces the value of k or adds it.
Put(m, k, v) == [x \in DOMAIN m \cup {k} |-> IF x = k THEN v ELSE m[x]]

\* Map.delete(k)
Drop(m, k) == [x \in DOMAIN m \ {k} |-> m[x]]

\* m is a map from some of the keys K to values V.
IsMap(m, K, V) ==
    /\ m = [k \in DOMAIN m |-> m[k]]
    /\ DOMAIN m \subseteq K
    /\ \A k \in DOMAIN m : m[k] \in V

\* Math.min(a, b)
MinOf(a, b) == IF a <= b THEN a ELSE b
=============================================================================
