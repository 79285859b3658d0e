---------------------------- MODULE MCCephStorage ----------------------------
(***************************************************************************)
(* An instance of CephStorage for TLC: a volume and its template; two      *)
(* volumes in a pool of which get_images can list one; and a volume whose  *)
(* size is malformed.                                                      *)
(***************************************************************************)
EXTENDS CephStorage, TLC

CONSTANTS v1, v2, v3, v4, i1

FromTemplate == v1 :> i1 @@ [v \in {v2, v3, v4} |-> None]
Worlds == {{v1, i1}, {v2, v3}, {v4}}

StorageBudget == "delete" :> 2 @@ "change" :> 1 @@ "trouble" :> 1 @@ "admin" :> 3
                 @@ "attach" :> 1
=============================================================================
