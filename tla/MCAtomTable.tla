----------------------------- MODULE MCAtomTable -----------------------------
(* Model checking AtomTable: of three names, two have the same hash code.   *)
(* Threads, objects and those two are interchangeable; no liveness is       *)
(* checked.                                                                 *)
EXTENDS AtomTable, TLC
CONSTANTS x, y, z
MCNames == {x, y, z}
MCCode == [n \in MCNames |-> IF n = z THEN 2 ELSE 1]
MCSymmetry == Permutations(Threads) \cup Permutations(Objects) \cup Permutations({x, y})
=============================================================================
