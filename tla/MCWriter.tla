------------------------------ MODULE MCWriter ------------------------------
(* Model-checking instance of Writer: model values for the threads, keys, *)
(* columns and values are given in the .cfg files.                        *)
EXTENDS Writer

CONSTANTS t1, t2, k1, k2, c1, c2, v1, v2

(* Keys, columns and values are interchangeable model values; used only   *)
(* in runs that check no liveness property.                               *)
Symmetry == Permutations({k1, k2}) \cup Permutations({v1, v2})
====
