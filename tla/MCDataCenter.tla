---------------------------- MODULE MCDataCenter ----------------------------
(* Small instances of DataCenter for TLC.                                   *)
EXTENDS DataCenter, TLC

CONSTANTS r1, r2, p1, p2, p3, p4, p5

(* Packets are alike, but for poison, and so are transport threads.          *)
Symmetry == Permutations(Packets) \cup Permutations(Receivers)
=============================================================================
