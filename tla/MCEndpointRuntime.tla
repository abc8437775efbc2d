------------------------- MODULE MCEndpointRuntime -------------------------
(* Instances of EndpointRuntime for TLC. *)
EXTENDS EndpointRuntime, TLC

CONSTANTS k1, o1, o2, o3, w1, w2

MCEntry(k, m) == [key |-> k, max_concurrency |-> m]
MCThreshold(r, u, c) == [recovery |-> r, unhealthy |-> u, circuit |-> c]

\* The same single-slot endpoint in every reload.
OneSlotConfigs == {<<MCEntry(k1, 1)>>}

\* Thresholds in the order of the defaults: recovery 2, unhealthy below circuit.
OneThreshold == {MCThreshold(2, 1, 2)}
\* A reload may also ask for one success or failure only, and the setup may have asked for none.
SomeThresholds == {MCThreshold(2, 1, 2), MCThreshold(1, 1, 1), MCThreshold(0, 0, 0)}

Interchangeable == Permutations(Objects) \cup Permutations(Workers)
============================================================================
