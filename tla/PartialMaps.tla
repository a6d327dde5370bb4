---------------------------- MODULE PartialMaps ----------------------------
(* Maps as functions on a part of their keys: what Go's maps are.          *)

EmptyMap == [x \in {} |-> 0]

\* m[k] = v
With(m, k, v) == [x \in DOMAIN m \cup {k} |-> IF x = k THEN v ELSE m[x]]

\* delete(m, k)
Without(m, k) == [x \in DOMAIN m \ {k} |-> m[x]]

\* The entries under the keys in S.
Only(m, S) == [x \in DOMAIN m \cap S |-> m[x]]
=============================================================================
