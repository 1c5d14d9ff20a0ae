--------------------------- MODULE MCWriterStream ---------------------------
EXTENDS WriterStream, Sequences, TLC

CONSTANTS o1, o2, h1, h2

(* Key rows over a one-column schema, two columns of different widths,   *)
(* and 32 and 33 one-byte columns (one bitmap word, and just over it),    *)
(* each with no, the first, the last or every column null; value rows of *)
(* two columns with the last null, and of 33 columns with the first null. *)
MCSchemas == {<<4>>, <<8, 1>>, [i \in 1..32 |-> 1], [i \in 1..33 |-> 1]}

MCNullSets(s) == {{}, {1}, {Len(s)}, 1..Len(s)}

MCKeyRows == UNION {{<<s, n>> : n \in MCNullSets(s)} : s \in MCSchemas}

MCValueRows == {<<<<8, 1>>, {2}>>, <<[i \in 1..33 |-> 1], {1}>>}

MCEventRows == {[ks |-> k[1], kn |-> k[2], vs |-> v[1], vn |-> v[2]] :
                   k \in MCKeyRows, v \in MCValueRows}

Symmetry == Permutations({o1, o2}) \cup Permutations({h1, h2})
====
