---------------------------- MODULE MCGenerating ----------------------------
(* One owner with two specs.  k1 is of a kind with an informer, k2 of one   *)
(* that Apply lists in the API server.                                      *)
EXTENDS Generating

CONSTANTS s1, k1, k2, v1, v2, image

MCKeyOrder == <<k1, k2>>
MCGK == [x \in {k1, k2, v1, v2} |-> IF x \in {k1, v1} THEN "A" ELSE "B"]

At1(g, i) == [gvk |-> g, data |-> [f \in {image} |-> i]]
Both(a, b) == [k \in Keys |-> IF k = k1 THEN a ELSE b]

\* The second spec drops k1.
MCGenerated ==
  [s \in Sets |-> [x \in Specs |->
     IF x = 1 THEN Both(At1(v1, 1), At1(v2, 1)) ELSE Both(None, At1(v2, 1))]]
=============================================================================
