---------------------------- MODULE Finalization ----------------------------
(***************************************************************************)
(* What remove handlers promise, without the machinery that keeps the      *)
(* promise: no caches, queues, versions or retries.  An object lives, is   *)
(* then deleted, and while a handler holds it, it stays until the cleanup  *)
(* of that handler has succeeded for it.                                   *)
(***************************************************************************)
EXTENDS Naturals

CONSTANT Names    \* names of remove handlers

VARIABLES phase,   \* the object is "absent", "live" or "deleting"
          born,    \* the number of this incarnation, or of the last one
          held,    \* names of the handlers that hold it
          cleaned  \* <<incarnation, name>> whose cleanup succeeded

vars == <<phase, born, held, cleaned>>

Init == phase = "absent" /\ born = 0 /\ held = {} /\ cleaned = {}

Create ==
  /\ phase = "absent" /\ phase' = "live"
  /\ born' = born + 1
  /\ UNCHANGED <<held, cleaned>>

\* Only an object that nobody has asked to delete can be held.
Protect(n) ==
  /\ phase = "live" /\ n \notin held
  /\ held' = held \cup {n}
  /\ UNCHANGED <<phase, born, cleaned>>

Delete ==
  /\ phase = "live"
  /\ phase' = IF held = {} THEN "absent" ELSE "deleting"
  /\ UNCHANGED <<born, held, cleaned>>

\* A cleanup may be late and may run again, but never for a live object.
Cleanup(u, n) ==
  /\ u < born \/ (u = born /\ phase # "live")
  /\ cleaned' = cleaned \cup {<<u, n>>}
  /\ UNCHANGED <<phase, born, held>>

Release(n) ==
  /\ phase = "deleting" /\ n \in held /\ <<born, n>> \in cleaned
  /\ held' = held \ {n}
  /\ phase' = IF held = {n} THEN "absent" ELSE "deleting"
  /\ UNCHANGED <<born, cleaned>>

Next ==
  \/ Create \/ Delete
  \/ \E n \in Names : Protect(n) \/ Release(n)
  \/ \E u \in 0..born, n \in Names : Cleanup(u, n)

Spec == Init /\ [][Next]_vars
=============================================================================
