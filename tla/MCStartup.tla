----------------------------- MODULE MCStartup ------------------------------
(* Two processes: p1 calls BatchCreateCRDs of crd.go for both CRDs; p2 calls *)
(* Factory.BatchCreateCRDs with them in the other order and with one GVK.    *)
EXTENDS Startup

CONSTANTS p1, p2, c1, c2, w1, w2

MCCrds == [x \in Worker |-> IF x = w1 THEN <<c1, c2>> ELSE <<c2, c1>>]
MCUses == [x \in Worker |-> IF x = w1 THEN "batch" ELSE "factory"]
MCSelects == [x \in Worker |-> {w1}]
MCKey == [x \in Worker |-> [c \in CRD |-> "unset"]]
MCProcOf == [x \in Worker |-> IF x = w1 THEN p1 ELSE p2]
Vars(dev, lse) == [dev |-> dev, lease |-> lse, renew |-> Unset, retry |-> Unset]
MCEnvs == [p \in Proc |-> IF p = p1 THEN {Vars(TRUE, Unset)}
                          ELSE {Vars(FALSE, Unset), Vars(FALSE, 2), Vars(FALSE, Unparsable)}]
MCHostname == [p \in Proc |-> p]
=============================================================================
