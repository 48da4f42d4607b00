--------------------------- MODULE MCRmConsumer ---------------------------
(* Small instances of RmConsumer.                                          *)
EXTENDS RmConsumer, TLC

CONSTANTS p1, p2, m1, m2, m3, m4

\* The second partner is flagged although nothing implements it.
MCStartOrder == <<p1, p2>>
MCPartnerOf == [m \in Msgs |-> IF m = m4 THEN p2 ELSE p1]

=============================================================================
