---------------------------- MODULE MCUnitSystem ----------------------------
(* Constants for checking UnitSystem with TLC. *)
EXTENDS UnitSystem, TLC

CONSTANTS c1, c2

\* sql_unset and sql_set on the work id of the first unit.
OneKey == {UnitKey(0)}

Interchangeable == Permutations({c1, c2})
=============================================================================
