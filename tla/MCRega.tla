------------------------------- MODULE MCRega -------------------------------
(* Three temporaries, two registers that calls overwrite and two they keep.   *)
EXTENDS Rega, TLC

CONSTANTS t1, t2, t3, r1, r2, r3, r4

MCTemps == {t1, t2, t3}
MCRegs  == {r1, r2, r3, r4}
MCSave  == {r1, r2}

Symmetric == Permutations(MCTemps) \cup Permutations(MCSave)
               \cup Permutations(MCRegs \ MCSave)
=============================================================================
