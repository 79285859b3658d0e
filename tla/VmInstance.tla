------------------------------ MODULE VmInstance -------------------------------
(***************************************************************************)
(* What the host agents promise about the running instances of one VM: an  *)
(* instance is started only by an agent that has seen that none is         *)
(* running, and otherwise instances only move and stop.  Seeing and        *)
(* starting are two steps.  HostAgent implements this specification.       *)
(***************************************************************************)
CONSTANT Node

VARIABLES
  where,      \* the nodes with a running instance
  permitted   \* the nodes that have seen that there is none

vars == <<where, permitted>>

Permit(n) ==
  /\ where = {}
  /\ permitted' = permitted \cup {n}
  /\ UNCHANGED where

Withdraw(n) ==
  /\ permitted' = permitted \ {n}
  /\ UNCHANGED where

\* A permission is good for one start.
Start(n) ==
  /\ n \in permitted
  /\ permitted' = permitted \ {n}
  /\ where' = where \cup {n}

\* A live migration: there are never more instances after it.
Move(n, m) ==
  /\ n \in where
  /\ where' = (where \ {n}) \cup {m}
  /\ UNCHANGED permitted

\* The instance ends, and with the node its agent may.
Stop(n) ==
  /\ n \in where
  /\ where' = where \ {n}
  /\ permitted' \in {permitted, permitted \ {n}}

Init == where = {} /\ permitted = {}

Next == \E n \in Node :
  \/ Permit(n) \/ Withdraw(n) \/ Start(n) \/ Stop(n)
  \/ \E m \in Node : Move(n, m)

Spec == Init /\ [][Next]_vars
=============================================================================
