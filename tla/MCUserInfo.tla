---------------------------- MODULE MCUserInfo ----------------------------
(* Small instances of UserInfo.                                            *)
EXTENDS UserInfo, TLC

Symmetry == Permutations(Versions)

=============================================================================
