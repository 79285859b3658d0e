-------------------------- MODULE MCOvnControllers ---------------------------
(***************************************************************************)
(* Instances of OvnControllers for TLC.                                    *)
(***************************************************************************)
EXTENDS OvnControllers, TLC

CONSTANTS n1, r1, r2, v1, c1, m1, mds1, d1

OneNic == v1 :> n1
OneMac == v1 :> m1
OneCidr == n1 :> c1
OneRouter == n1 :> r1
OneService == r2 :> mds1

\* No routes; one route, listed twice.
Routes == {d1 :> 0, d1 :> 2}
GivenRoutes == r1 :> (d1 :> 0) @@ r2 :> (d1 :> 2)

\* Two neighbouring controllers at a time, and the router with the service.
Neighbours == {{n1, v1}, {n1, r1}, {r2}}
NetworkAndVm == {{n1, v1}}

WiringBudget == "delete" :> 2 @@ "change" :> 1 @@ "trouble" :> 1
NoEvents == [event \in {"delete", "change", "trouble"} |-> 0]
=============================================================================
