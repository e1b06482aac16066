----------------------------- MODULE MCLifecycle -----------------------------
(* Two controllers on one object: c1 runs handlers a and b, c2 is an older  *)
(* replica that runs a only.                                                *)
EXTENDS Lifecycle

CONSTANTS c1, c2, a, b

MCControllers == {c1, c2}
MCNames == {a, b}
MCHandlers == [c \in MCControllers |-> IF c = c1 THEN <<a, b>> ELSE <<a>>]
=============================================================================
