------------------------------ MODULE MCSocial ------------------------------
(* An instance of relationships and a space for TLC.  The sessions are     *)
(* alike, and so are the terms.                                            *)
EXTENDS SocialProps, TLC

CONSTANTS t1, t2

Contents == {t1, t2}
Pair == 1 .. 2
Symmetry == Permutations(Sessions) \cup Permutations(Contents)
=============================================================================
