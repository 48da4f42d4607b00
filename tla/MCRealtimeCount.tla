-------------------------- MODULE MCRealtimeCount --------------------------
(* Small instances of RealtimeCount.                                       *)
EXTENDS RealtimeCount

CONSTANTS m1, m2, p1, p2, k1, k2

MCMacTaskOf == [m \in Macs |-> CHOOSE b \in MacTasks : TRUE]

\* Each box belongs to one operator.
MCOneEach == [m \in Macs |-> IF m = m1 THEN {p1} ELSE {p2}]

\* Tuples that add go to one counting task, pure debits to the other.
MCCountTaskOf == [u \in CountTuple |-> IF u.add # None THEN k1 ELSE k2]

=============================================================================
