------------------------------- MODULE MCUnit -------------------------------
(***************************************************************************)
(* Inputs of a few definitions, with two files, two symbols, and constants *)
(* of which one is the start of another.                                   *)
(***************************************************************************)
EXTENDS Unit

MCBits == {<<1>>, <<1, 2>>, <<1, 2, 3, 4>>}

\* The names of files are only compared.
MCSymmetry == Permutations(Files)

=============================================================================
