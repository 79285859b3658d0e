---------------------------- MODULE MCHostAgent -----------------------------
(***************************************************************************)
(* Instances of HostAgent for TLC.                                         *)
(***************************************************************************)
EXTENDS HostAgent, TLC

CONSTANTS n1, n2

\* The given events, and none of the others.
Events(some) == some @@ [e \in EnvEvent |-> 0]

\* The hosts are alike, as long as only safety is checked.
Hosts == Permutations(Node)

SafetyBudget == Events("move" :> 2 @@ "rebalance" :> 1 @@ "delete" :> 1
                       @@ "fault" :> 1 @@ "stop" :> 1 @@ "crash" :> 1)
LivenessBudget == Events("move" :> 1 @@ "delete" :> 1 @@ "foreign" :> 1
                         @@ "fault" :> 1)
DeletionBudget == Events("move" :> 1 @@ "delete" :> 1)
StopBudget == Events("stop" :> 1)

=============================================================================
