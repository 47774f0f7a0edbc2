----------------------------- MODULE MCRegistry -----------------------------
(* Model-checking instance of Registry.                                    *)
EXTENDS Registry

\* Allocations are interchangeable (safety runs only).
ObjSymmetry == Permutations(Objs)
=============================================================================
