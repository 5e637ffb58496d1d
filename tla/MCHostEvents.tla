---------------------------- MODULE MCHostEvents ----------------------------
(* Three endpoints and three events: two decisions a second apart, and one *)
(* that is no decision.                                                    *)
EXTENDS HostEvents, TLC

CONSTANTS e1, e2, e3, approve, deny, other

MCEndpoints == {e1, e2, e3}
MCEvents == {approve, deny, other}
MCUndecided == {other}
MCStamp == (approve :> 2) @@ (deny :> 3) @@ (other :> 2)
EndpointSymmetry == Permutations(MCEndpoints)
=============================================================================
