-------------------------------- MODULE Maps --------------------------------
(***************************************************************************)
(* A map that code sets one key of: a function over the keys it has so far.*)
(***************************************************************************)

Put(map, key, value) == [k \in DOMAIN map \cup {key} |-> IF k = key THEN value ELSE map[k]]
=============================================================================
