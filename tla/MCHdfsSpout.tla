---------------------------- MODULE MCHdfsSpout ----------------------------
(* Two spouts that may both die and be late, over very few files.          *)
EXTENDS HdfsSpout, TLC

MCSymmetry == Permutations(Spouts)
=============================================================================
