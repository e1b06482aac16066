------------------------------ MODULE Summary ------------------------------
(* SummarizeWithOptions and NormalizeConditions on an object: the chain of  *)
(* summarizers, one step each, then the final touches, then the conditions  *)
(* summarized one by one.                                                   *)
EXTENDS Summarizers

CONSTANT Inputs   \* families of inputs: an object, the contents of the variable
                  \* CATTLE_WRANGLER_CHECK_GVK_ERROR_MAPPING and the schema's
                  \* hasObservedGeneration attribute

\* Conditions are in sequence, and the lower case of a lower case state is the
\* same.
ASSUME SummaryAssumption ==
    /\ \A i \in DOMAIN Inputs : \A in \in Inputs[i] :
          in.obj.conds \in Seq({in.obj.conds[n] : n \in DOMAIN in.obj.conds})
    /\ \A s \in {"succeeded", "bound"} \cap DOMAIN LowerState : LowerState[s] = s

VARIABLES obj,         \* the object
          mapping,     \* GVKConditionErrorMapping after init
          at,          \* summarizers run so far, ChainLength + 1 once finished
          summary,
          normal       \* what NormalizeConditions sets on each status condition
summaryVars == <<obj, mapping, at, summary, normal>>

\* An attribute that is missing or no boolean counts as false.
generateSummarizeOpts(attr) == attr = "true"

SummaryInit ==
    /\ \E i \in DOMAIN Inputs : \E in \in Inputs[i] :
          /\ obj = in.obj
          /\ mapping = initializeCheckErrors(in.env)
          /\ summary = [NoSummary EXCEPT !.hasObserved = generateSummarizeOpts(in.attr)]
    /\ at = 0
    /\ normal = <<>>

\* No object is summarized.
SummaryRest == obj = <<>> /\ mapping = <<>> /\ at = 0 /\ summary = NoSummary /\ normal = <<>>

Summarize ==
    /\ at < ChainLength
    /\ summary' = Summarizers(at + 1, mapping, obj, getConditions(obj), summary)
    /\ at' = at + 1
    /\ UNCHANGED <<obj, mapping, normal>>

Finish ==
    /\ at = ChainLength
    /\ summary' = Finished(summary)
    /\ at' = at + 1
    /\ UNCHANGED <<obj, mapping, normal>>

Normalize ==
    /\ at = ChainLength + 1
    /\ normal' = NormalizeConditions(mapping, obj)
    /\ at' = at + 1
    /\ UNCHANGED <<obj, mapping, summary>>

SummaryNext == Summarize \/ Finish \/ Normalize
SummarySpec == SummaryInit /\ [][SummaryNext]_summaryVars

(***************************************************************************)
(* Properties.                                                             *)
(***************************************************************************)
Done == at = ChainLength + 2
Generic(o) == ~(isCAPI(o, {"Machine", "MachineSet", "MachineDeployment", "Cluster"})
                \/ isOperation(o))
Undisplayed(o) == o.display = <<>> /\ o.summary = <<>>
SomeNormal(field) == \E i \in DOMAIN normal : normal[i][field]

\* The summary of an object and the flags of its conditions come from two
\* chains but agree, for a kind without rules of its own and an object that
\* says nothing itself: an error has a condition that is in error, or an
\* overdue removal, or the verdict of kstatus; and what reads as active and
\* ready has no condition that is in error or in transition.
FlagsAgree ==
    Done /\ Generic(obj) /\ Undisplayed(obj) /\ obj.annConds = <<>> =>
        /\ summary.error => \/ SomeNormal("error") \/ obj.removed = "old"
                            \/ obj.kstatus = "Failed"
        /\ summary.state = "active" /\ ~summary.error /\ ~summary.transitioning =>
              ~SomeNormal("error") /\ ~SomeNormal("transitioning")
=============================================================================
