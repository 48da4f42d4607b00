--------------------------- MODULE MCMacSession ---------------------------
(* Small instances of MacSession.                                          *)
EXTENDS MacSession, TLC

\* One bolt task serves every box, as two boxes that hash alike do.
MCMacTaskOf == [m \in Macs |-> CHOOSE b \in MacTasks : TRUE]

\* Every box may report itself under every operator.
MCPartnersOf == [m \in Macs |-> Partners]

MCSymmetry == Permutations(Macs) \cup Permutations(Channels)
                \cup Permutations(Threads)

=============================================================================
