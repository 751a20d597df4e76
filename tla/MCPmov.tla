------------------------------- MODULE MCPmov -------------------------------
(* Three registers and a slot, up to four moves: cycles of two and three     *)
(* moves, through a slot or not, chains that hang from a cycle and end in r3, *)
(* sources read twice.                                                       *)
EXTENDS Pmov

CONSTANTS r1, r2, r3, s1

MCRegs    == {r1, r2, r3}
MCSlots   == {s1}
AnySource == {r1, r2, s1}
=============================================================================
