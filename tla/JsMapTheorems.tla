--------------------------- MODULE JsMapTheorems ---------------------------
(* What Put, Drop and an in-place update preserve.                         *)
EXTENDS JsMap, TLAPS

\* A new Map is a map of any type.
LEMMA EmptyMapType ==
    ASSUME NEW K, NEW V
    PROVE  IsMap(EmptyMap, K, V)
  BY DEF IsMap, EmptyMap

\* Map.set keeps the type of a map when the new entry has it.
LEMMA PutType ==
    ASSUME NEW K, NEW V, NEW m, NEW k \in K, NEW v \in V, IsMap(m, K, V)
    PROVE  IsMap(Put(m, k, v), K, V)
  BY DEF IsMap, Put

\* Map.delete keeps the type of a map.
LEMMA DropType ==
    ASSUME NEW K, NEW V, NEW m, NEW k, IsMap(m, K, V)
    PROVE  IsMap(Drop(m, k), K, V)
  BY DEF IsMap, Drop

\* Writing a field of a stored object keeps the type of the map.
LEMMA UpdateType ==
    ASSUME NEW K, NEW V, NEW m, NEW k, NEW v, IsMap(m, K, V),
           k \in DOMAIN m => v \in V
    PROVE  IsMap([m EXCEPT ![k] = v], K, V)
  BY DEF IsMap
=============================================================================
