-------------------------- MODULE FinalizedResource ---------------------------
(***************************************************************************)
(* What a controller promises about the things outside the cluster that it *)
(* makes for API objects (a logical switch or router, a Ceph image): it    *)
(* makes one only for an object that carries its finalizer, removes it     *)
(* only while that object is being deleted, and gives the finalizer back   *)
(* only once it is gone.  So nothing is left behind, nothing in use is     *)
(* lost, and an object created again under the same name starts from       *)
(* nothing.                                                                *)
(***************************************************************************)
CONSTANTS
  Name,         \* the names of the objects
  None          \* no object

VARIABLES
  object,       \* per name: None, or whether it is claimed and being deleted
  resource      \* the names whose resource exists

New == [claimed |-> FALSE, deleted |-> FALSE]
Set(x, value) == object' = [object EXCEPT ![x] = value] /\ UNCHANGED resource

Init == object \in [Name -> {None, New}] /\ resource = {}

Create(x) == object[x] = None /\ Set(x, New)

Claim(x) ==
  /\ object[x] = New
  /\ Set(x, [New EXCEPT !.claimed = TRUE])

Delete(x) ==
  /\ object[x] # None
  /\ ~object[x].deleted
  /\ Set(x, [object[x] EXCEPT !.deleted = TRUE])

Claimed(x) == object[x] # None /\ object[x].claimed

Release(x) ==
  /\ Claimed(x) /\ object[x].deleted /\ x \notin resource
  /\ Set(x, [object[x] EXCEPT !.claimed = FALSE])

Remove(x) ==
  /\ object[x] # None
  /\ object[x].deleted /\ ~object[x].claimed
  /\ Set(x, None)

\* A pass that began before the deletion may still make it.
Make(x) == Claimed(x) /\ resource' = resource \cup {x} /\ UNCHANGED object

Unmake(x) ==
  /\ Claimed(x) /\ object[x].deleted
  /\ resource' = resource \ {x}
  /\ UNCHANGED object

Next ==
  \E x \in Name :
    \/ Create(x) \/ Claim(x) \/ Delete(x) \/ Release(x) \/ Remove(x)
    \/ Make(x) \/ Unmake(x)

Spec == Init /\ [][Next]_<<object, resource>>
=============================================================================
