------------------------------ MODULE Reconciler ------------------------------
(***************************************************************************)
(* Reconcile passes over API objects, as utils/resource_controller.rs runs *)
(* them for a pair of functions, and the writes of utils/traits/kube.rs    *)
(* they are made of: setting and removing a finalizer, and the status.     *)
(*                                                                         *)
(* There is one pass per object at a time.  It works on a copy out of the  *)
(* controller's cache, which a watch of the API server fills and which may *)
(* be behind.  A copy is FRESH while it is the stored version.  A write    *)
(* from a stale copy is a 409 Conflict and ends the pass, and an accepted  *)
(* write that changes the object makes the writer's copy stale too, since  *)
(* the version the server returns is discarded.  A pass that ends in an    *)
(* error is repeated 15 s later, one that ends well 600 s later or when    *)
(* the object changes.                                                     *)
(***************************************************************************)
EXTENDS Naturals

CONSTANTS
  None,      \* no object, no row
  Object     \* the names of the API objects

VARIABLES
  obj,       \* the stored objects, None when there is none
  cache,     \* what the controller's cache has of each object
  pass,      \* the reconcile pass of each object
  budget     \* how often each kind of environment event may still happen

\* missing: a lookup found nothing, and the next call creates it.  handle:
\* what an earlier call returned for a later one.
Idle == [at |-> "idle", copy |-> None, fresh |-> FALSE, missing |-> FALSE,
         handle |-> None]

\* The cache has the stored version, and otherwise, while it is behind, a copy.
Current == [behind |-> FALSE, copy |-> None, fresh |-> FALSE]
Cached(x) == IF cache[x].behind THEN cache[x].copy ELSE obj[x]

At(x, stage) == pass[x].at = stage
End(x) == pass' = [pass EXCEPT ![x] = Idle]
Continue(x, next) == pass' = [pass EXCEPT ![x].at = next]
Hold(x, row, next) == pass' = [pass EXCEPT ![x].at = next, ![x].handle = row]

Alive(x) == obj[x] # None /\ ~obj[x].deleted
Deleted(x) == obj[x] # None /\ obj[x].deleted
Claimed(x) == obj[x] # None /\ obj[x].finalizer

\* What FinalizedResource sees of an object.
Claim(x) == IF obj[x] = None THEN None
            ELSE [claimed |-> obj[x].finalizer, deleted |-> obj[x].deleted]

-----------------------------------------------------------------------------
(* Passes                                                                  *)

\* A pass starts from what the cache has.
Take(x, first) ==
  /\ At(x, "idle")
  /\ Cached(x) # None
  /\ pass' = [pass EXCEPT ![x] = [Idle EXCEPT
                !.at = first, !.copy = Cached(x),
                !.fresh = cache[x].behind => cache[x].fresh]]

\* The stored object changes, and what is behind is an old version.
Store(x, new) ==
  /\ obj' = [obj EXCEPT ![x] = new]
  /\ cache' = [cache EXCEPT ![x].fresh = FALSE]

\* Mutant: the deletion timestamp is not looked at.
StartUpdate(x, remove) ==
  /\ Take(x, "finalizer")
  /\ UNCHANGED <<obj, cache, budget>>

\* run: update_fn, or remove_fn once the copy has a deletion timestamp.
Start(x, remove) ==
  /\ Take(x, IF Cached(x).deleted THEN remove ELSE "finalizer")
  /\ UNCHANGED <<obj, cache, budget>>

\* commit, set_status: the pass stores `new` and goes on, or ends in a conflict.
Write(x, new, next) ==
  \/ /\ pass[x].fresh
     /\ IF new = obj[x] THEN UNCHANGED <<obj, cache>> ELSE Store(x, new)
     /\ pass' = [pass EXCEPT ![x] = IF next = "idle" THEN Idle
                   ELSE [@ EXCEPT !.at = next, !.copy = new, !.fresh = (new = obj[x])]]
  \/ ~pass[x].fresh /\ End(x) /\ UNCHANGED <<obj, cache>>

\* Mutant: a refused write is taken for a success.
ClaimWithoutCheck(x, next) ==
  /\ At(x, "finalizer")
  /\ IF pass[x].fresh THEN Store(x, [obj[x] EXCEPT !.finalizer = TRUE])
                     ELSE UNCHANGED <<obj, cache>>
  /\ pass' = [pass EXCEPT ![x].at = next, ![x].fresh = FALSE]
  /\ UNCHANGED budget

\* ensure_finalizer: no write if the copy has it.
EnsureFinalizer(x, next) ==
  /\ At(x, "finalizer")
  /\ IF pass[x].copy.finalizer
       THEN Continue(x, next) /\ UNCHANGED <<obj, cache>>
       ELSE Write(x, [pass[x].copy EXCEPT !.finalizer = TRUE], next)
  /\ UNCHANGED budget

\* remove_finalizer, the last call of a remove pass.
RemoveFinalizer(x) ==
  /\ At(x, "unfinalize")
  /\ IF pass[x].copy.finalizer
       THEN Write(x, [pass[x].copy EXCEPT !.finalizer = FALSE], "idle")
       ELSE End(x) /\ UNCHANGED <<obj, cache>>
  /\ UNCHANGED budget

-----------------------------------------------------------------------------
(* The environment                                                         *)

Spend(event) ==
  /\ budget[event] > 0
  /\ budget' = [budget EXCEPT ![event] = @ - 1]

\* The object changes: the copy of its pass is stale.
Change(x, new) ==
  /\ Store(x, new)
  /\ pass' = [pass EXCEPT ![x].fresh = FALSE]

Delete(x) == Spend("delete") /\ Alive(x) /\ Change(x, [obj[x] EXCEPT !.deleted = TRUE])

Create(x, new) == Spend("change") /\ obj[x] = None /\ Change(x, new)

\* Some other writer changes a part of the object that is not modelled.
Foreign(x) == Spend("trouble") /\ obj[x] # None /\ Change(x, obj[x])

\* A call of the pass fails and the `?` ends it.
Fault(x, stages) == Spend("trouble") /\ pass[x].at \in stages /\ End(x) /\ UNCHANGED <<obj, cache>>

\* The process ends, by a panic in any pass or by the supervisor; when it
\* restarts it lists the objects again.
Crash ==
  /\ Spend("trouble")
  /\ pass' = [x \in Object |-> Idle]
  /\ cache' = [x \in Object |-> Current]
  /\ UNCHANGED obj

\* The events of an object are late,
FallBehind(x) ==
  /\ Spend("trouble")
  /\ obj[x] # None /\ ~cache[x].behind
  /\ cache' = [cache EXCEPT ![x] = [behind |-> TRUE, copy |-> obj[x], fresh |-> TRUE]]
  /\ UNCHANGED <<obj, pass>>

\* ... and arrive: the cache never goes back.
CatchUp(x) ==
  /\ cache[x].behind
  /\ cache' = [cache EXCEPT ![x] = Current]
  /\ UNCHANGED <<obj, pass, budget>>

\* The API server removes a deleted object without finalizers; those of other
\* controllers may hold it for a while.
Reap(x) == Deleted(x) /\ ~Claimed(x) /\ Change(x, None) /\ UNCHANGED budget

-----------------------------------------------------------------------------
(* What a pass knows                                                       *)

\* Passes over objects with these fields, in these stages, with these handles.
Passes(stages, fields, handles) ==
  [Object -> [at: stages, copy: fields \cup {None}, fresh: BOOLEAN, missing: BOOLEAN,
              handle: handles]]

Caches(fields) ==
  [Object -> [behind: BOOLEAN, copy: fields \cup {None}, fresh: BOOLEAN]]

\* A copy that the cache has, however old, stays true of the stored object in
\* what matters: the finalizer is not gone before the cache shows a deletion,
\* and not set again after one.  No pass has a newer copy.
CacheInv(x) ==
  /\ cache[x].behind => cache[x].copy # None
  /\ cache[x].fresh => cache[x].behind /\ cache[x].copy = obj[x]
  /\ cache[x].behind /\ pass[x].fresh => cache[x].fresh
  /\ cache[x].behind =>
       IF cache[x].copy.deleted THEN Claimed(x) => Deleted(x)
                                ELSE cache[x].copy.finalizer => Claimed(x)

\* A fresh copy is the stored object.  What the stage of a pass says of the
\* object, however old its copy is: in the stages behind ensure_finalizer the
\* object carries the finalizer, and so it does if a pass of update_fn has seen
\* it; in those of remove_fn it is being deleted, if it carries the finalizer.
PassInv(x, updating, removing) ==
  /\ pass[x].fresh => pass[x].at # "idle" /\ pass[x].copy = obj[x]
  /\ pass[x].at # "idle" => pass[x].copy # None
  /\ At(x, "finalizer") => /\ ~pass[x].copy.deleted
                           /\ pass[x].copy.finalizer => Claimed(x)
  /\ pass[x].at \in updating => Claimed(x)
  /\ pass[x].at \in removing => pass[x].copy.deleted /\ (Claimed(x) => Deleted(x))
  /\ CacheInv(x)

=============================================================================
