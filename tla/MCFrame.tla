------------------------------ MODULE MCFrame ------------------------------
(* Small frames: two or three allocs, four spilled temporaries.            *)
EXTENDS Frame, TLC

CONSTANTS a1, a2, t1, t2, t3, t4

MCAllocs == {a1, a2}
MCTemps  == {t1, t2, t3, t4}
MCSizes  == {0, 4, 12, 17}

Symmetric == Permutations(MCAllocs) \cup Permutations(MCTemps)
=============================================================================
