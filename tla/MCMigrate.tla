------------------------------ MODULE MCMigrate -------------------------------
(* A small instance of Migrate for TLC: an old build, its successor, and one in
   which a file was edited. *)
EXTENDS Migrate

CONSTANTS a, b, edited

Old == [v \in Versions |-> IF v = 1 THEN a ELSE None]
New == [v \in Versions |-> IF v = 1 THEN a ELSE b]
Edited == [v \in Versions |-> IF v = 1 THEN edited ELSE b]

MCBuilds == {Old, New, Edited}
=============================================================================
