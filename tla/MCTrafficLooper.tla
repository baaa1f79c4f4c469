-------------------------- MODULE MCTrafficLooper --------------------------
(* TrafficLooper with the chain of p1 and p2 under "proxy", that of p2 and p3*)
(* under "g" and p3 by itself under "h", listed in the order h, proxy, g.    *)
EXTENDS TrafficLooper

CONSTANTS p1, p2, p3
MCTagsOf == [e \in Ents |-> IF e = p1 THEN {"proxy"} ELSE IF e = p2 THEN {"proxy", "g"}
                            ELSE {"h", "g"}]
MCTagOf == [e \in Ents |-> IF e = p1 THEN "proxy" ELSE "g"]
MCTags == {"proxy", "g", "h"}
=============================================================================
