----------------------------- MODULE PartialMap -----------------------------
(***************************************************************************)
(* What a JSON object is to its users: a value for each of some names.     *)
(***************************************************************************)
CONSTANTS Name, Value

VARIABLE map

Init == map = [n \in {} |-> n]

\* A name is added, or its value replaced.
Put == map' \in {[m \in DOMAIN map \cup {n} |-> IF m = n THEN v ELSE map[m]] :
                    n \in Name, v \in Value}

Remove == map' \in {[m \in DOMAIN map \ {n} |-> map[m]] : n \in DOMAIN map}

Clear == map' = [n \in {} |-> n]

Next == Clear \/ Put \/ Remove

Spec == Init /\ [][Next]_map
=============================================================================
