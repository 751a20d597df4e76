---------------------------- MODULE ParallelMove ----------------------------
(***************************************************************************)
(* What pmadd() and pmgen() of rega.c promise: moves are collected, with   *)
(* no destination twice, and then done all at once.  A location that no    *)
(* move writes keeps all of its bits, and a destination gets at least the  *)
(* bits of its move's class.                                               *)
(***************************************************************************)
EXTENDS Integers, Sequences

CONSTANTS
  Locs,        (* registers and slots                                      *)
  Moves,       (* records with src, dst and cls                            *)
  MaxMoves     (* how many can be collected                                *)

VARIABLES
  moves,       (* those collected                                          *)
  done,        (* TRUE once they were done                                 *)
  has,         (* whose old value a location has                           *)
  wide         (* 1 if all 64 bits of it, 0 if only 32                     *)

Written == {moves[i].dst : i \in 1..Len(moves)}

Init ==
  /\ moves = << >> /\ done = FALSE
  /\ has = [x \in Locs |-> x]
  /\ wide = [x \in Locs |-> 1]

Add(m) ==
  /\ ~ done
  /\ Len(moves) < MaxMoves
  /\ m.dst \notin Written
  /\ moves' = Append(moves, m)
  /\ UNCHANGED <<done, has, wide>>

MoveAll ==
  /\ ~ done /\ done' = TRUE
  /\ has' \in [Locs -> Locs \cup {moves[i].src : i \in 1..Len(moves)}]
  /\ wide' \in [Locs -> {0, 1}]
  /\ \A i \in 1..Len(moves) :
       has'[moves[i].dst] = moves[i].src /\ wide'[moves[i].dst] >= moves[i].cls
  /\ \A x \in Locs \ Written : has'[x] = x /\ wide'[x] = 1
  /\ UNCHANGED moves

Next == (\E m \in Moves : Add(m)) \/ MoveAll

Spec == Init /\ [][Next]_<<moves, done, has, wide>>
=============================================================================
