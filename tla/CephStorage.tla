----------------------------- MODULE CephStorage -----------------------------
(***************************************************************************)
(* Volumes and images on Ceph: the `volumes` controller, which keeps an    *)
(* RBD image in the pool `volumes` for every Volume object, cloned from a  *)
(* template or empty (cluster/controllers/volumes.rs), the `images`        *)
(* controller, which guards the templates (images.rs), and the calls to    *)
(* librbd they make (shared/ceph).  An object's RBD image has the          *)
(* namespace-prefixed name of the object; names are taken to be distinct.  *)
(*                                                                         *)
(* Every step is one call.  Ceph is external: it lists a pool only into a  *)
(* buffer that is large enough, clones only from the snapshot `default`,   *)
(* and refuses to remove an image that a client has open or that has       *)
(* snapshots.  Handles that error paths leave open are not modelled.       *)
(*                                                                         *)
(* The environment: users and administrators create and delete objects,    *)
(* upload templates and snapshot them; host agents attach volumes to       *)
(* guests; calls fail and the process restarts.                            *)
(***************************************************************************)
EXTENDS Reconciler, FiniteSets

CONSTANTS
  Volume,        \* the Volume objects
  Image,         \* the Image objects
  Template,      \* spec.template of each volume: an image, or None
  Malformed,     \* the volumes whose spec.size does not parse
  Capacity,      \* how many names fit the buffer of get_images
  Budget,        \* how often each kind of environment event may happen
  World          \* the sets of objects that users may have at the start

ASSUME ObjectAssumption == Object = Volume \cup Image /\ Volume \cap Image = {}
ASSUME TemplateAssumption == Template \in [Volume -> Image \cup {None}]
ASSUME MalformedAssumption == Malformed \subseteq Volume
ASSUME CapacityAssumption == Capacity \in Nat
ASSUME BudgetAssumption == \A event \in DOMAIN Budget : Budget[event] \in Nat
ASSUME WorldAssumption == World \subseteq SUBSET Object

VARIABLES
  world,       \* the objects that users have, and may recreate
  running,     \* whether the controllers have started
  secret,      \* whether the keyring secret exists
  volumes,     \* the RBD images in the pool of volumes
  templates,   \* the RBD images in the pool of templates
  snapshots,   \* the templates with the snapshot `default`
  attached     \* the volumes that a guest has open and locked

process == <<world, running, secret>>
pools == <<volumes, templates, snapshots, attached>>
vars == <<obj, cache, pass, budget, world, running, secret, volumes, templates, snapshots,
          attached>>

Fields == [finalizer: BOOLEAN, deleted: BOOLEAN]
ASSUME NoneAssumption ==
  None \notin Image \cup Fields \cup [claimed: BOOLEAN, deleted: BOOLEAN]

NewObject == [finalizer |-> FALSE, deleted |-> FALSE]
Pool(x) == IF x \in Volume THEN volumes ELSE templates

\* The calls of update_fn behind ensure_finalizer, and those of remove_fn.
Updating == {"list", "create"}
Removing == {"delete", "remove", "unfinalize"}

-----------------------------------------------------------------------------
(* Calls to Ceph                                                           *)

\* get_images fails with ERANGE, in every pass, once the names do not fit.
Overflow(pool) == Cardinality(pool) > Capacity

\* clone_image: the features of the snapshot are read, then it is cloned.
Clonable(i) == i \in templates /\ i \in snapshots

\* has_locks; a volume that is not there cannot be opened.
HasLocks(v) == v \in attached

\* What rbd_remove refuses.
Busy(x) == x \in snapshots \/ HasLocks(x)

\* remove_image
RemoveImage(x) ==
  /\ ~Busy(x)
  /\ volumes' = volumes \ {x}
  /\ templates' = templates \ {x}
  /\ UNCHANGED <<snapshots, attached>>

-----------------------------------------------------------------------------
(* The controllers                                                         *)

\* The volume controller's create: ensure_keyring fetches the key of libvirt
\* unless the secret exists; if that fails the process exits and tries again.
Boot ==
  /\ ~running
  /\ running' = TRUE
  /\ secret' = TRUE
  /\ UNCHANGED <<obj, cache, pass, budget, world, pools>>

\* The two controllers are tasks of their own, and only that of volumes waits
\* for the keyring.  The size is parsed before anything else.
StartPass(x) ==
  /\ x \in Volume => running
  /\ Start(x, "delete")
  /\ x \in Malformed => Cached(x).deleted
  /\ UNCHANGED <<process, pools>>

\* Mutant: the image is made only in the pass that claims the volume.
EnsureExistsOnce(v) ==
  /\ At(v, "list")
  /\ IF Overflow(volumes) \/ v \in volumes \/ pass[v].fresh
       THEN End(v) ELSE Continue(v, "create")
  /\ UNCHANGED <<obj, cache, budget, process, pools>>

\* ensure_exists: look the name up,
EnsureExists(v) ==
  /\ At(v, "list")
  /\ IF Overflow(volumes) \/ v \in volumes THEN End(v) ELSE Continue(v, "create")
  /\ UNCHANGED <<obj, cache, budget, process, pools>>

\* ... and clone the template, an error without its snapshot, or create it.
CreateVolume(v) ==
  /\ At(v, "create")
  /\ volumes' = IF Template[v] = None \/ Clonable(Template[v])
                  THEN volumes \cup {v} ELSE volumes
  /\ End(v)
  /\ UNCHANGED <<obj, cache, budget, process, templates, snapshots, attached>>

\* ceph_ensure_image_exists: found, or "not implemented".
EnsureImageExists(i) ==
  /\ At(i, "list")
  /\ End(i)
  /\ UNCHANGED <<obj, cache, budget, process, pools>>

\* Mutant: an image that cannot be listed is taken to be gone.
EnsureRemovedIfListed(x) ==
  /\ At(x, "delete")
  /\ Continue(x, IF x \in Pool(x) /\ ~Overflow(Pool(x)) THEN "remove" ELSE "unfinalize")
  /\ UNCHANGED <<obj, cache, budget, process, pools>>

\* Mutant: no image is an error, as in remove_router.
EnsureRemovedFound(x) ==
  /\ At(x, "delete")
  /\ IF Overflow(Pool(x)) \/ x \notin Pool(x) THEN End(x) ELSE Continue(x, "remove")
  /\ UNCHANGED <<obj, cache, budget, process, pools>>

\* ensure_removed and ceph_ensure_image_removed: look the name up,
EnsureRemoved(x) ==
  /\ At(x, "delete")
  /\ IF Overflow(Pool(x)) THEN End(x)
     ELSE Continue(x, IF x \in Pool(x) THEN "remove" ELSE "unfinalize")
  /\ UNCHANGED <<obj, cache, budget, process, pools>>

\* Mutant: a refusal is logged and the finalizer of the image released.
RemoveImageAnyway(x) ==
  /\ At(x, "remove")
  /\ \/ RemoveImage(x) /\ Continue(x, "unfinalize")
     \/ /\ Busy(x)
        /\ IF x \in Image THEN Continue(x, "unfinalize") ELSE End(x)
        /\ UNCHANGED pools
  /\ UNCHANGED <<obj, cache, budget, process>>

\* ... and remove the image, an error while Ceph refuses.
RemoveFound(x) ==
  /\ At(x, "remove")
  /\ \/ RemoveImage(x) /\ Continue(x, "unfinalize")
     \/ Busy(x) /\ End(x) /\ UNCHANGED pools
  /\ UNCHANGED <<obj, cache, budget, process>>

PassStep(x) ==
  \/ /\ EnsureFinalizer(x, "list") \/ RemoveFinalizer(x)
     /\ UNCHANGED <<process, pools>>
  \/ x \in Volume /\ (EnsureExists(x) \/ CreateVolume(x))
  \/ x \in Image /\ EnsureImageExists(x)
  \/ EnsureRemoved(x) \/ RemoveFound(x)

-----------------------------------------------------------------------------
(* The environment                                                         *)

ReapObject(x) == Reap(x) /\ UNCHANGED <<process, pools>>
Watch(x) == CatchUp(x) /\ UNCHANGED <<process, pools>>

Trouble ==
  /\ \/ /\ \E x \in Object : \/ Foreign(x) \/ FallBehind(x)
                             \/ Fault(x, {"finalizer", "list", "create", "delete",
                                         "remove", "unfinalize"})
        /\ UNCHANGED running
     \/ Crash /\ running' = FALSE
  /\ UNCHANGED <<world, secret, pools>>

Users ==
  /\ \E x \in world : Delete(x) \/ Create(x, NewObject)
  /\ UNCHANGED <<process, pools>>

\* Administrators upload the template of an image they declared, snapshot it,
\* and may delete a snapshot that no volume was cloned from.
Upload(i) ==
  /\ Alive(i) /\ i \notin templates
  /\ templates' = templates \cup {i}
  /\ UNCHANGED snapshots

Snapshot(i) ==
  /\ i \in templates /\ i \notin snapshots
  /\ snapshots' = snapshots \cup {i}
  /\ UNCHANGED templates

DropSnapshot(i) ==
  /\ i \in snapshots
  /\ \A v \in volumes : Template[v] # i
  /\ snapshots' = snapshots \ {i}
  /\ UNCHANGED templates

Administrators ==
  /\ Spend("admin")
  /\ \E i \in Image : Upload(i) \/ Snapshot(i) \/ DropSnapshot(i)
  /\ UNCHANGED <<obj, cache, pass, process, volumes, attached>>

\* A host agent starts a guest on a volume without locks; the guest stops.
Guests ==
  /\ \/ \E v \in volumes : ~HasLocks(v) /\ Spend("attach") /\ attached' = attached \cup {v}
     \/ \E v \in attached : attached' = attached \ {v} /\ UNCHANGED budget
  /\ UNCHANGED <<obj, cache, pass, process, volumes, templates, snapshots>>

-----------------------------------------------------------------------------
(* Specification                                                           *)

Init ==
  /\ world \in World
  /\ obj = [x \in Object |-> IF x \in world THEN NewObject ELSE None]
  /\ cache = [x \in Object |-> Current]
  /\ pass = [x \in Object |-> Idle]
  /\ budget = Budget
  /\ running = FALSE
  /\ secret = FALSE
  /\ volumes = {}
  /\ templates = {}
  /\ snapshots = {}
  /\ attached = {}

Next ==
  \/ Boot
  \/ \E x \in Object : StartPass(x) \/ PassStep(x) \/ ReapObject(x) \/ Watch(x)
  \/ Trouble \/ Users \/ Administrators \/ Guests

Spec == Init /\ [][Next]_vars

\* The process is restarted by its deployment, failed passes are repeated
\* after 15 s and others after 600 s, calls return and watches catch up.
Fairness ==
  /\ WF_vars(Boot)
  /\ \A x \in Object :
       /\ WF_vars(StartPass(x)) /\ WF_vars(PassStep(x))
       /\ WF_vars(ReapObject(x)) /\ WF_vars(Watch(x))

FairSpec == Spec /\ Fairness

-----------------------------------------------------------------------------
(* Properties                                                              *)

StorageTypeInv ==
  /\ obj \in [Object -> Fields \cup {None}]
  /\ cache \in Caches(Fields)
  /\ pass \in Passes({"idle", "finalizer"} \cup Updating \cup Removing, Fields, {None})
  /\ world \subseteq Object
  /\ volumes \subseteq Volume /\ attached \subseteq volumes
  /\ snapshots \subseteq templates /\ templates \subseteq Image
  /\ running => secret
  /\ \A v \in Volume : running \/ At(v, "idle")

\* The induction invariant.  The image of a volume is covered by the finalizer,
\* which a pass gives back only when it has seen, or made, the image go.  The
\* template of an image is gone as well by then, as far as the write can still
\* be accepted.  Ceph keeps the template of a clone.
StorageInv ==
  /\ StorageTypeInv
  /\ \A x \in Object : PassInv(x, Updating, Removing)
  /\ \A v \in volumes : Claimed(v)
  /\ \A v \in Volume : At(v, "unfinalize") => v \notin volumes
  /\ \A i \in Image : At(i, "unfinalize") /\ pass[i].fresh => i \notin templates
  /\ \A v \in volumes : Template[v] # None => Clonable(Template[v])

\* The RBD image of a volume keeps the promise of FinalizedResource: no data is
\* left behind, none is lost while the volume is not deleted, and a volume
\* created again under an old name does not start with the old one's data,
\* whichever call fails and whenever the process restarts.
Managed == INSTANCE FinalizedResource WITH
  Name <- Volume,
  object <- [v \in Volume |-> Claim(v)],
  resource <- volumes

ManagedVolumes == Managed!Spec

\* An image gives its finalizer up only when its template is gone and no volume
\* is left that was cloned from it, although remove_fn never looks for clones
\* or snapshots: it has to notice that Ceph refuses, in every pass, and keep the
\* finalizer.
TemplatesGuarded ==
  [][\A i \in Image : Claimed(i) /\ ~Claimed(i)' =>
       i \notin templates /\ \A v \in volumes : Template[v] # i]_vars

\* A volume that stays gets its image, once its template has been uploaded.
VolumesCreated ==
  \A v \in Volume \ Malformed :
    <>[](Alive(v) /\ ~Overflow(volumes) /\ (Template[v] = None \/ Clonable(Template[v])))
      => <>[](v \in volumes)

\* A deleted volume or image goes, unless Ceph refuses to remove it for ever
\* (a guest holds it, the template's snapshot is never dropped) or the pool has
\* outgrown the buffer of get_images, after which nothing can be removed from
\* it either.
VolumesAndImagesGo ==
  \A x \in Object : Deleted(x) ~> (obj[x] = None \/ []Overflow(Pool(x)) \/ []<>Busy(x))

=============================================================================
