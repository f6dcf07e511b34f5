----------------------------- MODULE LossyCache -----------------------------
(***************************************************************************)
(* What the layers above expect of the L1 cache of storage/cache.rs: a map *)
(* whose entries may vanish at any time, that only ever answers a value    *)
(* that was put under the key, and whose values fit the capacity.          *)
(***************************************************************************)
EXTENDS Naturals, FiniteSets, Functions

CONSTANTS Keys, Values, Size, MaxSize, None

VARIABLE map    \* [Keys -> value or None]

Weight(m) ==
    LET held == {k \in Keys : m[k] # None}
    IN  SumFunctionOnSet([k \in held |-> Size[m[k]]], held)

Init == map = [k \in Keys |-> None]

Drop(S) == map' = [k \in Keys |-> IF k \in S THEN None ELSE map[k]]

Insert(k, v) ==
    /\ map' = [map EXCEPT ![k] = v]
    /\ Weight(map') <= MaxSize

Next ==
    \/ \E S \in SUBSET Keys : Drop(S)
    \/ \E k \in Keys, v \in Values : Insert(k, v)

Spec == Init /\ [][Next]_map
=============================================================================
