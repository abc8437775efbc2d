-------------------------------- MODULE Maps ---------------------------------
(***************************************************************************)
(* std::unordered_map and std::map as functions.                           *)
(***************************************************************************)
EXTENDS Functions

\* The map after f[k] = v.
With(f, k, v) == [x \in DOMAIN f \cup {k} |-> IF x = k THEN v ELSE f[x]]

\* The map after the keys in S were erased.
Without(f, S) == Restrict(f, DOMAIN f \ S)
==============================================================================
