---------------------------- MODULE MCNeedACert ----------------------------
EXTENDS NeedACert, TLC
CONSTANTS s1, s2, h1, c1
MCCalls == h1 :> <<s1, s2>> @@ c1 :> <<s1>>
MCExisting == s1 :> 1 @@ s2 :> 0
MCKeys == [services |-> {s1, s2}, configs |-> {h1, c1}]
MCVariants == {[annotated |-> TRUE, dns |-> 1, caOnly |-> FALSE],
               [annotated |-> TRUE, dns |-> 2, caOnly |-> TRUE],
               [annotated |-> FALSE, dns |-> 1, caOnly |-> FALSE]}
=============================================================================
