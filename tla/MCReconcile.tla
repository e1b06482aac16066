----------------------------- MODULE MCReconcile -----------------------------
(* Two keys of one kind that comes in two versions, and one set.            *)
EXTENDS Reconcile

CONSTANTS s1, k1, k2, v1, v2, image, env, note

MCKeyOrder == <<k1, k2>>
MCGK == [x \in {k1, k2, v1, v2} |-> "kind"]

D(i, e) == [f \in {image, env, note} |->
              CASE f = image -> i [] f = env -> e [] OTHER -> None]
At(g, d) == [gvk |-> g, data |-> d]
Both(a, b) == [k \in Keys |-> IF k = k1 THEN a ELSE b]

\* The owner adds a second object, turns to another image (a replacement) in
\* the other version, or drops everything.
MCWants ==
  [s \in Sets |-> {Both(At(v1, D(1, 1)), None),
                   Both(At(v1, D(1, 1)), At(v2, D(1, None))),
                   Both(At(v2, D(2, 1)), None),
                   Both(None, None)}]

\* An environment comes, and goes again together with a new image.
EnvWants ==
  [s \in Sets |-> {Both(At(v1, D(1, None)), None),
                   Both(At(v1, D(1, 1)), None),
                   Both(At(v1, D(2, None)), None)}]
=============================================================================
