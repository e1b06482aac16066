----------------------------- MODULE Conditions -----------------------------
(***************************************************************************)
(* pkg/condition: the conditions of a status, found by their type and set  *)
(* field by field.  An error is its text, NoError for nil.  The time of    *)
(* the last update, which setValue moves when it changes something, is     *)
(* left out: it differs only where the rest does.                          *)
(***************************************************************************)
EXTENDS Naturals, Sequences

NoError == ""
ErrSkip == "skip"

\* The first condition of the type, 0 if there is none.
findCond(conds, c) ==
  LET hits == {i \in DOMAIN conds : conds[i].type = c}
  IN  IF hits = {} THEN 0 ELSE CHOOSE i \in hits : \A j \in hits : i <= j

\* The first condition of the type, after one was appended if there was none.
findOrCreateCond(conds, c) ==
  IF findCond(conds, c) # 0 THEN conds
  ELSE Append(conds, [type |-> c, status |-> "Unknown", message |-> "", reason |-> ""])

\* setStatus, Message and Reason, one after the other.
Set(conds, c, status, message, reason) ==
  LET cs == findOrCreateCond(conds, c)
  IN  [cs EXCEPT ![findCond(cs, c)] =
         [@ EXCEPT !.status = status, !.message = message, !.reason = reason]]

SetError(conds, c, reason, err) ==
  IF err \in {NoError, ErrSkip} THEN Set(conds, c, "True", "", reason)
  ELSE Set(conds, c, "False", err, IF reason = "" THEN "Error" ELSE reason)

\* A condition that is missing reads as one of empty strings.
Cond(conds, c) ==
  IF findCond(conds, c) = 0 THEN [type |-> c, status |-> "", message |-> "", reason |-> ""]
  ELSE conds[findCond(conds, c)]

\* Unlike SetError it does not know ErrSkip.
MatchesError(conds, c, reason, err) ==
  LET is == Cond(conds, c)
  IN  IF err = NoError
      THEN is.status = "True" /\ is.message = "" /\ is.reason = reason
      ELSE is.status = "False" /\ is.message = err
           /\ is.reason = IF reason = "" THEN "Error" ELSE reason
=============================================================================
