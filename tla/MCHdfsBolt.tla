---------------------------- MODULE MCHdfsBolt ----------------------------
(* Small instances of HdfsBolt.                                            *)
EXTENDS HdfsBolt, TLC

CONSTANTS t1, t2, t3, t4, k1, k2

\* The tuples alternate between the partitions as far as there are two.
MCKeyOf == [t \in Tuples |-> IF t \in {t2, t4} /\ k2 \in Keys THEN k2 ELSE k1]

=============================================================================
