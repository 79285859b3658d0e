-------------------------- MODULE MCMetadataService --------------------------
(***************************************************************************)
(* An instance of MetadataService for TLC: two VMs, one with userdata, in  *)
(* networks that use the same addresses, and a channel with room for one   *)
(* request.  The other guest may have an address that was set by hand.     *)
(***************************************************************************)
EXTENDS MetadataService, TLC

CONSTANTS v1, v2, n1, n2, a1

TwoNetworks == v1 :> n1 @@ v2 :> n2
Addresses == {v1 :> None @@ v2 :> None, v1 :> None @@ v2 :> a1}
ServiceBudget == "trouble" :> 2 @@ "abort" :> 1 @@ "leave" :> 1
=============================================================================
