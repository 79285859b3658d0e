-------------------------- MODULE CephStorageProofs --------------------------
EXTENDS CephStorage, ReconcilerProofs

(***************************************************************************)
(* The proof that the controllers of volumes and images keep StorageInv,   *)
(* and with it guard the templates and keep the promise of                 *)
(* FinalizedResource, for any volumes and images, any templates, any       *)
(* capacity of get_images and any budget of the environment.               *)
(*                                                                         *)
(* "An RBD image exists only while the volume carries the finalizer" is    *)
(* not inductive: whether a pass may create or release depends on what its *)
(* stage says of the object stored by then.  PassInv says it, and the      *)
(* lemmas of ReconcilerProofs carry it over every call.  What is left here *)
(* are the calls to Ceph.                                                  *)
(***************************************************************************)

AllStages == {"idle", "finalizer"} \cup Updating \cup Removing

\* The objects and stages are of the kind ReconcilerProofs is about.
LEMMA Shape == Finalizable(Fields) /\ Stages(AllStages, Updating, Removing)
<1>1. Finalizable(Fields)
  <2>1. ASSUME NEW o \in Fields
        PROVE  /\ o.finalizer \in BOOLEAN /\ o.deleted \in BOOLEAN
               /\ [o EXCEPT !.finalizer = TRUE] \in Fields
               /\ [o EXCEPT !.finalizer = TRUE].finalizer = TRUE
               /\ [o EXCEPT !.finalizer = TRUE].deleted = o.deleted
               /\ [o EXCEPT !.finalizer = FALSE] \in Fields
               /\ [o EXCEPT !.finalizer = FALSE].finalizer = FALSE
               /\ [o EXCEPT !.finalizer = FALSE].deleted = o.deleted
               /\ [o EXCEPT !.deleted = TRUE] \in Fields
               /\ [o EXCEPT !.deleted = TRUE].deleted = TRUE
               /\ [o EXCEPT !.deleted = TRUE].finalizer = o.finalizer
    BY DEF Fields
  <2>2. None \notin Fields
    BY NoneAssumption
  <2>3. QED
    BY <2>1, <2>2 DEF Finalizable
<1>2. Stages(AllStages, Updating, Removing)
  BY DEF Stages, AllStages, Updating, Removing
<1>3. QED
  BY <1>1, <1>2

\* The parts of the invariant that ReconcilerProofs is about.
LEMMA Parts ==
  ASSUME StorageInv
  PROVE  /\ Typed(AllStages, Fields, {None})
         /\ \A x \in Object : PassInv(x, Updating, Removing)
         /\ None \in {None}
BY DEF StorageInv, StorageTypeInv, Typed, AllStages

\* The part that the steps outside the pools do not touch.
ClonesInv == \A v \in volumes : Template[v] # None => Clonable(Template[v])

-----------------------------------------------------------------------------
(* The invariant                                                           *)

\* A step of the pass of x, or around it, that calls nothing of Ceph and takes
\* the finalizer from no volume that has an image.
LEMMA QuietStep ==
  ASSUME StorageInv, NEW x \in Object,
         Typed(AllStages, Fields, {None})', Only(x), PassInv(x, Updating, Removing)',
         UNCHANGED <<world, running, secret, pools>>,
         Claimed(x) /\ x \in volumes => Claimed(x)',
         pass'[x].at = "unfinalize" /\ x \in Volume => x \notin volumes,
         pass'[x].at = "unfinalize" /\ pass'[x].fresh /\ x \in Image => x \notin templates,
         pass'[x].at # "idle" /\ x \in Volume => running
  PROVE  StorageInv'
<1>1. /\ world' = world /\ running' = running /\ secret' = secret /\ volumes' = volumes
      /\ templates' = templates /\ snapshots' = snapshots /\ attached' = attached
  BY DEF pools
<1>2. \A y \in Object : PassInv(y, Updating, Removing)'
  BY OnlyInv, Parts
<1>3. StorageTypeInv'
  BY <1>1, ObjectAssumption DEF StorageInv, StorageTypeInv, Typed, Only, At, AllStages
<1>4. \A v \in volumes' : Claimed(v)'
  <2>1. ASSUME NEW v \in volumes PROVE Claimed(v)'
    <3>1. v \in Object /\ Claimed(v)
      BY ObjectAssumption DEF StorageInv, StorageTypeInv
    <3>2. QED
      BY <3>1 DEF Only, Claimed
  <2>2. QED
    BY <1>1, <2>1
<1>5. \A v \in Volume : At(v, "unfinalize")' => v \notin volumes'
  BY <1>1, ObjectAssumption DEF StorageInv, Only, At
<1>6. \A i \in Image : At(i, "unfinalize")' /\ pass'[i].fresh => i \notin templates'
  BY <1>1, ObjectAssumption DEF StorageInv, Only, At
<1>7. ClonesInv'
  BY <1>1 DEF StorageInv, ClonesInv, Clonable
<1>8. QED
  BY <1>2, <1>3, <1>4, <1>5, <1>6, <1>7 DEF StorageInv, ClonesInv

\* Every call that changes nothing but the stage of a pass.
LEMMA ContinueStep ==
  ASSUME StorageInv, NEW x \in Object, NEW STATE next,
         Continue(x, next), UNCHANGED <<obj, cache, world, running, secret, pools>>,
         \/ pass[x].at \in Updating /\ next \in Updating
         \/ pass[x].at \in Removing /\ next \in Removing,
         next = "unfinalize" => x \notin Pool(x)
  PROVE  StorageInv'
<1>1. next \in AllStages
  BY DEF AllStages
<1>2. /\ pass' \in Passes(AllStages, Fields, {None})
      /\ pass'[x] = [pass[x] EXCEPT !.at = next]
      /\ \A y \in Object \ {x} : pass'[y] = pass[y]
  BY <1>1, ContinueEffect, Parts DEF Typed
<1>3. pass'[x].at = next /\ pass'[x].copy = pass[x].copy /\ pass'[x].fresh = pass[x].fresh
  BY <1>2, Parts DEF Typed, Passes
<1>4. /\ Typed(AllStages, Fields, {None})'
      /\ Only(x)
      /\ PassInv(x, Updating, Removing)'
  BY <1>2, <1>3, ContinueInv, Parts, Shape
<1>5. x \in Volume => running
  BY DEF StorageInv, StorageTypeInv, At, Updating, Removing
<1>6. /\ pass'[x].at = "unfinalize" /\ x \in Volume => x \notin volumes
      /\ pass'[x].at = "unfinalize" /\ pass'[x].fresh /\ x \in Image => x \notin templates
      /\ pass'[x].at # "idle" /\ x \in Volume => running
  BY <1>3, <1>5, ObjectAssumption DEF Pool
<1>7. Claimed(x) /\ x \in volumes => Claimed(x)'
  BY DEF Claimed
<1>8. QED
  BY <1>4, <1>6, <1>7, QuietStep

\* Every call that ends a pass.
LEMMA EndStep ==
  ASSUME StorageInv, NEW x \in Object,
         End(x), UNCHANGED <<obj, cache, world, running, secret, pools>>
  PROVE  StorageInv'
<1>1. /\ Typed(AllStages, Fields, {None})'
      /\ Only(x)
      /\ PassInv(x, Updating, Removing)'
      /\ pass'[x].at = "idle"
  BY EndInv, Parts, Shape
<1>2. QED
  BY <1>1, QuietStep DEF Claimed

\* A pass of update_fn creates the image of a volume that still carries the
\* finalizer.
LEMMA CreateStep ==
  ASSUME StorageInv, NEW v \in Volume, CreateVolume(v)
  PROVE  StorageInv'
<1>1. v \in Object /\ pass[v].at = "create" /\ Claimed(v) /\ obj' = obj
  BY ObjectAssumption DEF CreateVolume, StorageInv, PassInv, At, Updating
<1>2. /\ Typed(AllStages, Fields, {None})'
      /\ Only(v)
      /\ PassInv(v, Updating, Removing)'
      /\ pass'[v].at = "idle"
  BY <1>1, EndInv, Parts, Shape DEF CreateVolume
<1>3. \A y \in Object : PassInv(y, Updating, Removing)'
  BY <1>1, <1>2, OnlyInv, Parts
<1>4. /\ volumes' \subseteq volumes \cup {v} /\ volumes \subseteq volumes'
      /\ UNCHANGED <<world, running, secret, templates, snapshots, attached>>
  BY DEF CreateVolume, process
<1>5. StorageTypeInv'
  BY <1>1, <1>2, <1>4 DEF StorageInv, StorageTypeInv, Typed, Only, At, AllStages
<1>6. \A w \in volumes' : Claimed(w)'
  BY <1>1, <1>4 DEF StorageInv, Claimed
<1>7. \A w \in Volume : At(w, "unfinalize")' => w \notin volumes'
  BY <1>2, <1>4, ObjectAssumption DEF StorageInv, At, Only
<1>8. \A i \in Image : At(i, "unfinalize")' /\ pass'[i].fresh => i \notin templates'
  BY <1>2, <1>4, ObjectAssumption DEF StorageInv, At, Only
<1>9. ClonesInv'
  BY <1>4 DEF StorageInv, ClonesInv, Clonable, CreateVolume
<1>10. QED
  BY <1>3, <1>5, <1>6, <1>7, <1>8, <1>9 DEF StorageInv, ClonesInv

\* Ceph removes an image, and only then may the pass give the finalizer back.
LEMMA RemoveStep ==
  ASSUME StorageInv, NEW x \in Object, RemoveFound(x)
  PROVE  StorageInv'
<1>1. pass[x].at = "remove" /\ UNCHANGED <<obj, cache, world, running, secret>>
  BY DEF RemoveFound, At, process
<1>2. CASE Busy(x) /\ End(x) /\ UNCHANGED pools
  BY <1>1, <1>2, EndStep
<1>3. CASE RemoveImage(x) /\ Continue(x, "unfinalize")
  <2>1. /\ pass' \in Passes(AllStages, Fields, {None})
        /\ pass'[x] = [pass[x] EXCEPT !.at = "unfinalize"]
        /\ \A y \in Object \ {x} : pass'[y] = pass[y]
    BY <1>3, ContinueEffect, Parts, Shape DEF Typed, Stages
  <2>2. /\ pass'[x].at = "unfinalize"
        /\ pass'[x].copy = pass[x].copy
        /\ pass'[x].fresh = pass[x].fresh
    BY <2>1, Parts DEF Typed, Passes
  <2>3. Typed(AllStages, Fields, {None})' /\ Only(x) /\ PassInv(x, Updating, Removing)'
    BY <1>1, <2>1, <2>2, ContinueInv, Parts, Shape DEF Removing
  <2>4. \A y \in Object : PassInv(y, Updating, Removing)'
    BY <2>3, OnlyInv, Parts
  <2>5. /\ volumes' = volumes \ {x} /\ templates' = templates \ {x}
        /\ snapshots' = snapshots /\ attached' = attached
        /\ x \notin snapshots /\ x \notin attached
    BY <1>3 DEF RemoveImage, Busy, HasLocks
  <2>6. StorageTypeInv'
    BY <1>1, <2>1, <2>3, <2>5, ObjectAssumption
       DEF StorageInv, StorageTypeInv, Typed, At, AllStages
  <2>7. \A w \in volumes' : Claimed(w)'
    BY <1>1, <2>5 DEF StorageInv, Claimed
  <2>8. \A w \in Volume : At(w, "unfinalize")' => w \notin volumes'
    BY <2>1, <2>5, ObjectAssumption DEF StorageInv, At
  <2>9. \A i \in Image : At(i, "unfinalize")' /\ pass'[i].fresh => i \notin templates'
    BY <2>1, <2>5, ObjectAssumption DEF StorageInv, At
  <2>10. ClonesInv'
    BY <2>5 DEF StorageInv, ClonesInv, Clonable
  <2>11. QED
    BY <2>4, <2>6, <2>7, <2>8, <2>9, <2>10 DEF StorageInv, ClonesInv
<1>4. QED
  BY <1>2, <1>3 DEF RemoveFound

\* Every other call of a pass.
LEMMA PassStepInv ==
  ASSUME StorageInv, NEW x \in Object, PassStep(x)
  PROVE  StorageInv'
<1>1. ASSUME EnsureFinalizer(x, "list"), UNCHANGED <<process, pools>>
      PROVE  StorageInv'
  <2>1. /\ Typed(AllStages, Fields, {None})'
        /\ Only(x)
        /\ PassInv(x, Updating, Removing)'
        /\ pass[x].at = "finalizer"
        /\ pass'[x].at \in {"idle", "list"}
        /\ obj' = obj \/ ~obj[x].finalizer
    <3>1. "list" \in Updating
      BY DEF Updating
    <3>2. QED
      BY <1>1, <3>1, EnsureFinalizerInv, Parts, Shape
  <2>2. (x \in Volume => running) /\ UNCHANGED <<world, running, secret, pools>>
    BY <1>1, <2>1 DEF StorageInv, StorageTypeInv, At, process
  <2>3. Claimed(x) => Claimed(x)'
    BY <2>1 DEF Claimed
  <2>4. QED
    BY <2>1, <2>2, <2>3, QuietStep
<1>2. ASSUME RemoveFinalizer(x), UNCHANGED <<process, pools>>
      PROVE  StorageInv'
  <2>1. /\ Typed(AllStages, Fields, {None})'
        /\ Only(x)
        /\ PassInv(x, Updating, Removing)'
        /\ pass[x].at = "unfinalize"
        /\ pass'[x].at = "idle"
    BY <1>2, RemoveFinalizerInv, Parts, Shape
  <2>2. (x \in Volume => x \notin volumes) /\ volumes \subseteq Volume
    BY <2>1 DEF StorageInv, StorageTypeInv, At
  <2>3. UNCHANGED <<world, running, secret, pools>>
    BY <1>2 DEF process
  <2>4. QED
    BY <2>1, <2>2, <2>3, QuietStep
<1>3. ASSUME EnsureExists(x) PROVE StorageInv'
  <2>1. \/ End(x) /\ UNCHANGED <<obj, cache, world, running, secret, pools>>
        \/ /\ pass[x].at = "list"
           /\ Continue(x, "create") /\ UNCHANGED <<obj, cache, world, running, secret, pools>>
    BY <1>3 DEF EnsureExists, At, process
  <2>2. QED
    BY <2>1, EndStep, ContinueStep DEF Updating
<1>4. ASSUME EnsureImageExists(x) PROVE StorageInv'
  BY <1>4, EndStep DEF EnsureImageExists, process
<1>5. ASSUME EnsureRemoved(x) PROVE StorageInv'
  <2>1. \/ End(x) /\ UNCHANGED <<obj, cache, world, running, secret, pools>>
        \/ /\ pass[x].at = "delete" /\ x \in Pool(x)
           /\ Continue(x, "remove") /\ UNCHANGED <<obj, cache, world, running, secret, pools>>
        \/ /\ pass[x].at = "delete" /\ x \notin Pool(x)
           /\ Continue(x, "unfinalize") /\ UNCHANGED <<obj, cache, world, running, secret, pools>>
    BY <1>5 DEF EnsureRemoved, At, process
  <2>2. QED
    BY <2>1, EndStep, ContinueStep DEF Removing, Pool
<1>6. QED
  BY <1>1, <1>2, <1>3, <1>4, <1>5, CreateStep, RemoveStep DEF PassStep

\* The watch of an object catches up, or falls behind.
LEMMA WatchStep ==
  ASSUME StorageInv, NEW x \in Object, CatchUp(x) \/ FallBehind(x),
         UNCHANGED <<world, running, secret, pools>>
  PROVE  StorageInv'
<1>1. /\ Typed(AllStages, Fields, {None})' /\ Only(x)
      /\ PassInv(x, Updating, Removing)'
      /\ obj' = obj /\ pass' = pass
  BY CacheStep, Parts
<1>2. QED
  BY <1>1, QuietStep DEF Claimed, StorageInv, StorageTypeInv, At

\* Users, other writers, failing calls and restarts.
LEMMA EnvironmentInv ==
  ASSUME StorageInv, Trouble \/ Users \/ \E x \in Object : ReapObject(x)
  PROVE  StorageInv'
<1>1. ASSUME NEW x \in Object, Foreign(x), UNCHANGED <<world, running, secret, pools>>
      PROVE  StorageInv'
  <2>1. /\ Typed(AllStages, Fields, {None})' /\ Only(x)
        /\ PassInv(x, Updating, Removing)'
        /\ obj' = obj /\ pass'[x].at = pass[x].at /\ ~pass'[x].fresh
    BY <1>1, ForeignInv, Parts, Shape
  <2>2. QED
    BY <1>1, <2>1, QuietStep DEF Claimed, StorageInv, StorageTypeInv, At
<1>2. ASSUME NEW x \in Object, NEW T, Fault(x, T), UNCHANGED <<world, running, secret, pools>>
      PROVE  StorageInv'
  BY <1>2, EndStep DEF Fault
<1>3. ASSUME Crash, running' = FALSE, UNCHANGED <<world, secret, pools>>
      PROVE  StorageInv'
  <2>1. /\ Typed(AllStages, Fields, {None})'
        /\ \A x \in Object : PassInv(x, Updating, Removing)' /\ pass'[x].at = "idle"
        /\ obj' = obj
    BY <1>3, CrashInv, Parts, Shape
  <2>2. UNCHANGED <<volumes, templates, snapshots, attached>>
    BY <1>3 DEF pools
  <2>3. StorageTypeInv'
    BY <1>3, <2>1, <2>2, ObjectAssumption DEF StorageInv, StorageTypeInv, Typed, At, AllStages
  <2>4. QED
    BY <2>1, <2>2, <2>3, ObjectAssumption DEF StorageInv, Claimed, At, Clonable
<1>4. ASSUME NEW x \in Object, Delete(x), UNCHANGED <<world, running, secret, pools>>
      PROVE  StorageInv'
  <2>1. /\ Typed(AllStages, Fields, {None})' /\ Only(x)
        /\ PassInv(x, Updating, Removing)'
        /\ obj'[x] \in Fields /\ obj'[x].finalizer = obj[x].finalizer
        /\ pass'[x].at = pass[x].at /\ ~pass'[x].fresh
    BY <1>4, DeleteInv, Parts, Shape
  <2>2. Claimed(x) => Claimed(x)'
    BY <2>1, NoneAssumption DEF Claimed
  <2>3. QED
    BY <1>4, <2>1, <2>2, QuietStep DEF StorageInv, StorageTypeInv, At
<1>5. ASSUME NEW x \in Object, Create(x, NewObject), UNCHANGED <<world, running, secret, pools>>
      PROVE  StorageInv'
  <2>1. NewObject \in Fields /\ ~NewObject.finalizer
    BY DEF NewObject, Fields
  <2>2. /\ Typed(AllStages, Fields, {None})' /\ Only(x)
        /\ PassInv(x, Updating, Removing)'
        /\ obj[x] = None /\ pass'[x].at = pass[x].at /\ ~pass'[x].fresh
    BY <1>5, <2>1, CreateInv, Parts, Shape
  <2>3. QED
    BY <1>5, <2>2, QuietStep DEF Claimed, StorageInv, StorageTypeInv, At
<1>6. ASSUME NEW x \in Object, ReapObject(x)
      PROVE  StorageInv'
  <2>1. /\ Typed(AllStages, Fields, {None})' /\ Only(x)
        /\ PassInv(x, Updating, Removing)'
        /\ ~obj[x].finalizer /\ pass'[x].at = pass[x].at /\ ~pass'[x].fresh
    BY <1>6, ReapInv, Parts, Shape DEF ReapObject
  <2>2. QED
    BY <1>6, <2>1, QuietStep DEF Claimed, StorageInv, StorageTypeInv, At, ReapObject, process
<1>7. CASE Trouble
  <2>1. ASSUME NEW x \in Object, FallBehind(x), UNCHANGED <<world, running, secret, pools>>
        PROVE  StorageInv'
    BY <2>1, WatchStep
  <2>2. QED
    BY <1>1, <1>2, <1>3, <1>7, <2>1 DEF Trouble
<1>8. CASE Users
  <2>1. world \subseteq Object /\ UNCHANGED <<world, running, secret, pools>>
    BY <1>8 DEF Users, process, StorageInv, StorageTypeInv
  <2>2. QED
    BY <1>4, <1>5, <1>8, <2>1 DEF Users
<1>9. QED
  BY <1>6, <1>7, <1>8

\* Administrators and guests touch the pools only.  A template is uploaded for an
\* image that is not being deleted, which a pass that is about to release it
\* would have to know.
LEMMA PoolInv ==
  ASSUME StorageInv, Administrators \/ Guests
  PROVE  StorageInv'
<1>1. /\ UNCHANGED <<obj, cache, pass, volumes>>
      /\ world' = world /\ running' = running /\ secret' = secret
  BY DEF Administrators, Guests, process
<1>2. /\ snapshots' \subseteq templates' /\ templates' \subseteq Image
      /\ attached' \subseteq volumes'
  BY DEF Administrators, Guests, StorageInv, StorageTypeInv, Upload, Snapshot, DropSnapshot
<1>3. StorageTypeInv'
  BY <1>1, <1>2 DEF StorageInv, StorageTypeInv, At
<1>4. \A i \in Image : At(i, "unfinalize") /\ pass[i].fresh => i \notin templates'
  <2>1. CASE Guests
    BY <2>1 DEF Guests, StorageInv
  <2>2. CASE Administrators
    <3>1. PICK i \in Image : Upload(i) \/ Snapshot(i) \/ DropSnapshot(i)
      BY <2>2 DEF Administrators
    <3>2. CASE Upload(i)
      <4>1. ~(At(i, "unfinalize") /\ pass[i].fresh)
        BY <3>2, ObjectAssumption DEF StorageInv, PassInv, At, Removing, Upload, Alive
      <4>2. QED
        BY <3>2, <4>1 DEF Upload, StorageInv
    <3>3. CASE Snapshot(i) \/ DropSnapshot(i)
      BY <3>3 DEF Snapshot, DropSnapshot, StorageInv
    <3>4. QED
      BY <3>1, <3>2, <3>3
  <2>3. QED
    BY <2>1, <2>2
<1>5. ClonesInv'
  <2>1. CASE Guests
    BY <2>1 DEF Guests, StorageInv, ClonesInv, Clonable
  <2>2. CASE Administrators
    <3>1. PICK i \in Image : Upload(i) \/ Snapshot(i) \/ DropSnapshot(i)
      BY <2>2 DEF Administrators
    <3>2. QED
      BY <1>1, <3>1 DEF StorageInv, ClonesInv, Clonable, Upload, Snapshot, DropSnapshot
  <2>3. QED
    BY <2>1, <2>2
<1>6. QED
  BY <1>1, <1>3, <1>4, <1>5
     DEF StorageInv, ClonesInv, PassInv, CacheInv, At, Claimed, Deleted

\* The controllers start.
LEMMA StartStep ==
  ASSUME StorageInv, Boot \/ \E x \in Object : StartPass(x)
  PROVE  StorageInv'
<1>1. CASE Boot
  <2>1. /\ UNCHANGED <<obj, cache, pass, world, volumes, templates, snapshots, attached>>
        /\ running' /\ secret'
    BY <1>1 DEF Boot, pools
  <2>2. StorageTypeInv'
    BY <2>1 DEF StorageInv, StorageTypeInv, At
  <2>3. ClonesInv'
    BY <2>1 DEF StorageInv, ClonesInv, Clonable
  <2>4. QED
    BY <2>1, <2>2, <2>3 DEF StorageInv, ClonesInv, PassInv, CacheInv, At, Claimed, Deleted
<1>2. ASSUME NEW x \in Object, StartPass(x) PROVE StorageInv'
  <2>1. /\ Typed(AllStages, Fields, {None})' /\ Only(x)
        /\ PassInv(x, Updating, Removing)'
        /\ obj' = obj /\ pass'[x].at \in {"finalizer", "delete"}
    BY <1>2, StartInv, Parts, Shape DEF StartPass, Removing
  <2>2. (x \in Volume => running) /\ UNCHANGED <<world, running, secret, pools>>
    BY <1>2 DEF StartPass, process
  <2>3. QED
    BY <2>1, <2>2, QuietStep DEF Claimed
<1>3. QED
  BY <1>1, <1>2

\* The induction invariant holds at first: nothing has a finalizer or an image.
LEMMA StorageInit == Init => StorageInv
<1> SUFFICES ASSUME Init PROVE StorageInv
  OBVIOUS
<1>1. obj \in [Object -> Fields \cup {None}]
  BY DEF Init, NewObject, Fields
<1>2. /\ pass \in Passes({"idle", "finalizer"} \cup Updating \cup Removing, Fields, {None})
      /\ cache \in Caches(Fields)
  BY DEF Init, Idle, Current, Passes, Caches
<1>3. \A x \in Object : /\ pass[x].at = "idle" /\ pass[x].fresh = FALSE
                        /\ cache[x].behind = FALSE /\ cache[x].fresh = FALSE
  BY DEF Init, Idle, Current
<1>4. QED
  BY <1>1, <1>2, <1>3, ObjectAssumption, WorldAssumption
     DEF Init, StorageInv, StorageTypeInv, PassInv, CacheInv, At, Updating, Removing

LEMMA StorageStep == StorageInv /\ [Next]_vars => StorageInv'
<1> SUFFICES ASSUME StorageInv, [Next]_vars PROVE StorageInv'
  OBVIOUS
<1>1. CASE UNCHANGED vars
  <2>1. UNCHANGED <<obj, cache, pass, world, running, secret, volumes, templates, snapshots,
                    attached>>
    BY <1>1 DEF vars
  <2>2. QED
    BY <2>1 DEF StorageInv, StorageTypeInv, PassInv, CacheInv, At, Claimed, Deleted, Clonable
<1>2. CASE Next
  <2>1. ASSUME NEW x \in Object, Watch(x) PROVE StorageInv'
    BY <2>1, WatchStep DEF Watch, process
  <2>2. QED
    BY <1>2, <2>1, StartStep, PassStepInv, EnvironmentInv, PoolInv DEF Next
<1>3. QED
  BY <1>1, <1>2

-----------------------------------------------------------------------------
(* Templates                                                               *)

\* A step that takes the finalizer from an object is the last call of a remove
\* pass with the stored version at hand.
LEMMA ReleaseStep ==
  ASSUME StorageInv, [Next]_vars, NEW i \in Image, Claimed(i), ~Claimed(i)'
  PROVE  At(i, "unfinalize") /\ pass[i].fresh
<1>1. obj'[i] # obj[i] /\ i \in Object /\ obj[i] # None /\ obj[i].finalizer
  BY ObjectAssumption DEF Claimed
<1>2. ASSUME NEW x \in Object, Only(x) PROVE x = i
  BY <1>1, <1>2 DEF Only
<1>3. ASSUME NEW x \in Object, EnsureFinalizer(x, "list") PROVE FALSE
  <2>1. "list" \in Updating
    BY DEF Updating
  <2>2. /\ Typed(AllStages, Fields, {None})' /\ Only(x)
        /\ \/ obj' = obj
           \/ /\ obj[x] \in Fields /\ ~obj[x].finalizer /\ ~obj[x].deleted
              /\ obj'[x] \in Fields /\ obj'[x].finalizer /\ ~obj'[x].deleted
    BY <1>3, <2>1, EnsureFinalizerInv, Parts, Shape
  <2>3. QED
    BY <1>1, <1>2, <2>2
<1>4. ASSUME NEW x \in Object, RemoveFinalizer(x)
      PROVE  At(i, "unfinalize") /\ pass[i].fresh
  <2>1. Only(x) /\ pass[x].at = "unfinalize"
    BY <1>4, RemoveFinalizerInv, Parts, Shape
  <2>2. x = i
    BY <1>2, <2>1
  <2>3. pass[x].fresh
    BY <1>1, <1>4, <2>2 DEF RemoveFinalizer, Write
  <2>4. QED
    BY <2>1, <2>2, <2>3 DEF At
<1>5. ASSUME NEW x \in Object, PassStep(x)
      PROVE  At(i, "unfinalize") /\ pass[i].fresh
  BY <1>1, <1>3, <1>4, <1>5
     DEF PassStep, EnsureExists, CreateVolume, EnsureImageExists, EnsureRemoved, RemoveFound
<1>6. ASSUME NEW x \in Object, Foreign(x) PROVE FALSE
  BY <1>1, <1>6, ForeignInv, Parts, Shape
<1>7. ASSUME NEW x \in Object, Delete(x) PROVE FALSE
  <2>1. Only(x) /\ obj'[x] \in Fields /\ obj'[x].finalizer = obj[x].finalizer
    BY <1>7, DeleteInv, Parts, Shape
  <2>2. QED
    BY <1>1, <1>2, <2>1, NoneAssumption DEF Claimed
<1>8. ASSUME NEW x \in Object, Create(x, NewObject) PROVE FALSE
  <2>1. NewObject \in Fields /\ ~NewObject.finalizer
    BY DEF NewObject, Fields
  <2>2. Only(x) /\ obj[x] = None
    BY <1>8, <2>1, CreateInv, Parts, Shape
  <2>3. QED
    BY <1>1, <1>2, <2>2
<1>9. ASSUME NEW x \in Object, ReapObject(x) PROVE FALSE
  <2>1. Only(x) /\ ~obj[x].finalizer
    BY <1>9, ReapInv, Parts, Shape DEF ReapObject
  <2>2. QED
    BY <1>1, <1>2, <2>1
<1>10. CASE Trouble
  BY <1>1, <1>6, <1>10 DEF Trouble, FallBehind, Fault, Crash
<1>11. CASE Users
  BY <1>7, <1>8, <1>11 DEF Users, StorageInv, StorageTypeInv
<1>12. CASE \/ Boot \/ Administrators \/ Guests \/ UNCHANGED vars
            \/ \E x \in Object : StartPass(x) \/ Watch(x)
  BY <1>1, <1>12 DEF Boot, Administrators, Guests, vars, StartPass, Start, Watch, CatchUp
<1>13. QED
  BY <1>5, <1>9, <1>10, <1>11, <1>12 DEF Next

LEMMA TemplatesStep ==
  StorageInv /\ [Next]_vars =>
    [\A i \in Image : Claimed(i) /\ ~Claimed(i)' =>
       i \notin templates /\ \A v \in volumes : Template[v] # i]_vars
<1> SUFFICES ASSUME StorageInv, [Next]_vars, NEW i \in Image, Claimed(i), ~Claimed(i)'
             PROVE  i \notin templates /\ \A v \in volumes : Template[v] # i
  OBVIOUS
<1>1. i \notin templates
  BY ReleaseStep DEF StorageInv
<1>2. ASSUME NEW v \in volumes, Template[v] = i PROVE FALSE
  BY <1>1, <1>2, NoneAssumption DEF StorageInv, Clonable
<1>3. QED
  BY <1>1, <1>2

-----------------------------------------------------------------------------
(* The refinement                                                          *)

Objects == [v \in Volume |-> Claim(v)]

\* What FinalizedResource sees of a step that concerns x alone.
LEMMA ObjectsStep ==
  ASSUME NEW x \in Object, \A y \in Object \ {x} : obj'[y] = obj[y]
  PROVE  /\ x \notin Volume => Objects' = Objects
         /\ obj'[x] = obj[x] => Objects' = Objects
         /\ Objects' = [Objects EXCEPT ![x] = Claim(x)']
BY ObjectAssumption DEF Objects, Claim

\* A step that FinalizedResource does not see.
LEMMA Unseen ==
  ASSUME obj' = obj, volumes' = volumes
  PROVE  UNCHANGED <<Objects, volumes>>
BY DEF Objects, Claim

\* What FinalizedResource sees of a volume.
LEMMA ClaimOf ==
  ASSUME NEW v \in Volume
  PROVE  /\ Objects[v] = Claim(v)
         /\ obj[v] = None => Claim(v) = None
         /\ obj[v] \in Fields =>
              /\ Claim(v) = [claimed |-> obj[v].finalizer, deleted |-> obj[v].deleted]
              /\ Claim(v) # None
              /\ Claim(v).claimed = obj[v].finalizer
              /\ Claim(v).deleted = obj[v].deleted
<1>1. ASSUME obj[v] \in Fields
      PROVE  /\ Claim(v) = [claimed |-> obj[v].finalizer, deleted |-> obj[v].deleted]
             /\ Claim(v) \in [claimed: BOOLEAN, deleted: BOOLEAN]
             /\ Claim(v).claimed = obj[v].finalizer
             /\ Claim(v).deleted = obj[v].deleted
  BY <1>1, NoneAssumption DEF Claim, Fields
<1>2. QED
  BY <1>1, NoneAssumption DEF Objects, Claim

\* A change of the object of x, seen by FinalizedResource if x is a volume.
LEMMA ObjectRefines ==
  ASSUME StorageInv, NEW x \in Object, Only(x), volumes' = volumes,
         obj'[x] \in Fields \cup {None},
         \/ obj'[x] = obj[x]
         \/ obj[x] = None /\ obj'[x] \in Fields /\ ~obj'[x].finalizer /\ ~obj'[x].deleted
         \/ /\ obj[x] \in Fields /\ ~obj[x].finalizer /\ ~obj[x].deleted
            /\ obj'[x] \in Fields /\ obj'[x].finalizer /\ ~obj'[x].deleted
         \/ /\ obj[x] \in Fields /\ ~obj[x].deleted
            /\ obj'[x] \in Fields /\ obj'[x].deleted /\ obj'[x].finalizer = obj[x].finalizer
         \/ /\ obj[x] \in Fields /\ obj[x].finalizer /\ obj[x].deleted /\ x \notin volumes
            /\ obj'[x] \in Fields /\ ~obj'[x].finalizer /\ obj'[x].deleted
         \/ obj[x] \in Fields /\ obj[x].deleted /\ ~obj[x].finalizer /\ obj'[x] = None
  PROVE  [Managed!Next]_<<Objects, volumes>>
<1>1. CASE x \notin Volume \/ obj'[x] = obj[x]
  BY <1>1, ObjectsStep DEF Only
<1>2. CASE x \in Volume /\ obj'[x] # obj[x]
  <2>1. /\ Objects' = [Objects EXCEPT ![x] = Claim(x)']
        /\ Objects[x] = Claim(x)
    BY <1>2, ObjectsStep, ClaimOf DEF Only
  <2>2. /\ obj[x] = None => Claim(x) = None
        /\ obj[x] \in Fields =>
              /\ Claim(x) = [claimed |-> obj[x].finalizer, deleted |-> obj[x].deleted]
              /\ Claim(x) # None
              /\ Claim(x).claimed = obj[x].finalizer
              /\ Claim(x).deleted = obj[x].deleted
    BY <1>2, ClaimOf
  <2>3. /\ obj'[x] = None => Claim(x)' = None
        /\ obj'[x] \in Fields =>
              Claim(x)' = [claimed |-> obj'[x].finalizer, deleted |-> obj'[x].deleted]
    BY NoneAssumption DEF Claim
  <2>4. \A o \in Fields : o.finalizer \in BOOLEAN /\ o.deleted \in BOOLEAN
    BY DEF Fields
  <2>5. CASE obj[x] = None /\ obj'[x] \in Fields /\ ~obj'[x].finalizer /\ ~obj'[x].deleted
    <3>1. Claim(x)' = [claimed |-> FALSE, deleted |-> FALSE]
      BY <2>3, <2>4, <2>5
    <3>2. Managed!Create(x)
      BY <2>1, <2>2, <2>5, <3>1 DEF Objects, Managed!Create, Managed!Set, Managed!New
    <3>3. QED
      BY <1>2, <3>2 DEF Managed!Next
  <2>6. CASE /\ obj[x] \in Fields /\ ~obj[x].finalizer /\ ~obj[x].deleted
             /\ obj'[x] \in Fields /\ obj'[x].finalizer /\ ~obj'[x].deleted
    <3>1. /\ Claim(x) = [claimed |-> FALSE, deleted |-> FALSE]
          /\ Claim(x)' = [claimed |-> TRUE, deleted |-> FALSE]
      BY <2>2, <2>3, <2>4, <2>6
    <3>2. Managed!Claim(x)
      BY <2>1, <3>1 DEF Objects, Managed!Claim, Managed!Set, Managed!New
    <3>3. QED
      BY <1>2, <3>2 DEF Managed!Next
  <2>7. CASE /\ obj[x] \in Fields /\ ~obj[x].deleted
             /\ obj'[x] \in Fields /\ obj'[x].deleted /\ obj'[x].finalizer = obj[x].finalizer
    <3>1. /\ Claim(x)' = [claimed |-> Claim(x).claimed, deleted |-> TRUE]
          /\ Claim(x) \in [claimed: BOOLEAN, deleted: BOOLEAN]
      BY <2>2, <2>3, <2>4, <2>7
    <3>2. Objects' = [Objects EXCEPT ![x] = [Objects[x] EXCEPT !.deleted = TRUE]]
      BY <2>1, <3>1, ClaimUpdate, Zenon
    <3>3. Objects[x] # None /\ ~Objects[x].deleted
      BY <2>1, <2>2, <2>7
    <3>4. Managed!Delete(x)
      BY <3>2, <3>3, Zenon DEF Objects, Managed!Delete, Managed!Set
    <3>5. QED
      BY <1>2, <3>4 DEF Managed!Next
  <2>8. CASE /\ obj[x] \in Fields /\ obj[x].finalizer /\ obj[x].deleted /\ x \notin volumes
             /\ obj'[x] \in Fields /\ ~obj'[x].finalizer /\ obj'[x].deleted
    <3>1. /\ Claim(x)' = [claimed |-> FALSE, deleted |-> TRUE]
          /\ Claim(x) \in [claimed: BOOLEAN, deleted: BOOLEAN]
          /\ Claim(x).deleted = TRUE
      BY <2>2, <2>3, <2>4, <2>8
    <3>2. [Claim(x) EXCEPT !.claimed = FALSE] = [claimed |-> FALSE, deleted |-> TRUE]
      BY <3>1, ClaimUpdate, Zenon
    <3>3. Objects' = [Objects EXCEPT ![x] = [Objects[x] EXCEPT !.claimed = FALSE]]
      BY <2>1, <3>1, <3>2, Zenon
    <3>4. Objects[x] # None /\ Objects[x].claimed /\ Objects[x].deleted
      BY <2>1, <2>2, <2>8
    <3>5. Managed!Release(x)
      BY <2>8, <3>3, <3>4, Zenon DEF Objects, Managed!Release, Managed!Claimed, Managed!Set
    <3>6. QED
      BY <1>2, <3>5 DEF Managed!Next
  <2>9. CASE obj[x] \in Fields /\ obj[x].deleted /\ ~obj[x].finalizer /\ obj'[x] = None
    <3>1. Managed!Remove(x)
      BY <2>1, <2>2, <2>3, <2>9 DEF Objects, Managed!Remove, Managed!Set
    <3>2. QED
      BY <1>2, <3>1 DEF Managed!Next
  <2>10. QED
    BY <1>2, <2>5, <2>6, <2>7, <2>8, <2>9
<1>3. QED
  BY <1>1, <1>2

\* A pass makes an image only for a volume that carries the finalizer, and
\* removes it only from one that is being deleted.
LEMMA PoolRefines ==
  ASSUME StorageInv, NEW x \in Object, (CreateVolume(x) /\ x \in Volume) \/ RemoveFound(x)
  PROVE  [Managed!Next]_<<Objects, volumes>>
<1>1. obj' = obj
  BY DEF CreateVolume, RemoveFound
<1>2. volumes \subseteq Volume /\ Volume \subseteq Object
  BY ObjectAssumption DEF StorageInv, StorageTypeInv
<1>3. Objects' = Objects
  BY <1>1 DEF Objects, Claim
<1>4. \A v \in Volume : Claimed(v) => Objects[v] # None /\ Objects[v].claimed
                                      /\ Objects[v].deleted = obj[v].deleted
  BY <1>2, ClaimOf DEF Claimed, StorageInv, StorageTypeInv
<1>5. CASE volumes' = volumes
  BY <1>3, <1>5
<1>6. CASE CreateVolume(x) /\ x \in Volume /\ volumes' # volumes
  <2>1. Claimed(x) /\ volumes' = volumes \cup {x}
    BY <1>6 DEF CreateVolume, StorageInv, PassInv, At, Updating
  <2>2. Managed!Make(x)
    BY <1>3, <1>4, <1>6, <2>1 DEF Managed!Make, Managed!Claimed, Objects
  <2>3. QED
    BY <1>6, <2>2 DEF Managed!Next
<1>7. CASE RemoveFound(x) /\ volumes' # volumes
  <2>1. volumes' = volumes \ {x}
    BY <1>7 DEF RemoveFound, RemoveImage, pools
  <2>2. x \in Volume /\ Claimed(x)
    BY <1>2, <1>7, <2>1 DEF StorageInv
  <2>3. obj[x].deleted
    BY <1>7, <2>2 DEF RemoveFound, StorageInv, PassInv, At, Removing, Deleted
  <2>4. Managed!Unmake(x)
    BY <1>3, <1>4, <2>1, <2>2, <2>3 DEF Managed!Unmake, Managed!Claimed, Objects
  <2>5. QED
    BY <2>2, <2>4 DEF Managed!Next
<1>8. QED
  BY <1>5, <1>6, <1>7

LEMMA StorageRefines == StorageInv /\ [Next]_vars => [Managed!Next]_<<Objects, volumes>>
<1> SUFFICES ASSUME StorageInv, [Next]_vars
             PROVE  [Managed!Next]_<<Objects, volumes>>
  OBVIOUS
<1>1. ASSUME obj' = obj, volumes' = volumes
      PROVE  [Managed!Next]_<<Objects, volumes>>
  BY <1>1, Unseen
<1>2. ASSUME NEW x \in Object, PassStep(x)
      PROVE  [Managed!Next]_<<Objects, volumes>>
  <2>1. CASE EnsureFinalizer(x, "list") /\ UNCHANGED <<process, pools>>
    <3>1. "list" \in Updating
      BY DEF Updating
    <3>2. /\ Typed(AllStages, Fields, {None})' /\ Only(x)
          /\ \/ obj' = obj
             \/ /\ obj[x] \in Fields /\ ~obj[x].finalizer /\ ~obj[x].deleted
                /\ obj'[x] \in Fields /\ obj'[x].finalizer /\ ~obj'[x].deleted
      BY <2>1, <3>1, EnsureFinalizerInv, Parts, Shape
    <3>3. QED
      BY <2>1, <3>2, ObjectRefines DEF pools, Typed
  <2>2. CASE RemoveFinalizer(x) /\ UNCHANGED <<process, pools>>
    <3>1. /\ Typed(AllStages, Fields, {None})' /\ Only(x)
          /\ pass[x].at = "unfinalize"
          /\ \/ obj' = obj
             \/ /\ obj[x] \in Fields /\ obj[x].finalizer /\ obj[x].deleted
                /\ obj'[x] \in Fields /\ ~obj'[x].finalizer /\ obj'[x].deleted
      BY <2>2, RemoveFinalizerInv, Parts, Shape
    <3>2. x \notin volumes
      BY <3>1 DEF StorageInv, StorageTypeInv, At
    <3>3. QED
      BY <2>2, <3>1, <3>2, ObjectRefines DEF pools, Typed
  <2>3. CASE EnsureExists(x) \/ EnsureImageExists(x) \/ EnsureRemoved(x)
    BY <1>1, <2>3 DEF EnsureExists, EnsureImageExists, EnsureRemoved, pools
  <2>4. QED
    BY <1>2, <2>1, <2>2, <2>3, PoolRefines DEF PassStep
<1>3. ASSUME NEW x \in Object, Delete(x), volumes' = volumes
      PROVE  [Managed!Next]_<<Objects, volumes>>
  <2>1. /\ Only(x) /\ obj[x] \in Fields /\ ~obj[x].deleted
        /\ obj'[x] \in Fields /\ obj'[x].deleted /\ obj'[x].finalizer = obj[x].finalizer
    BY <1>3, DeleteInv, Parts, Shape
  <2>2. QED
    BY <1>3, <2>1, ObjectRefines
<1>4. ASSUME NEW x \in Object, Create(x, NewObject), volumes' = volumes
      PROVE  [Managed!Next]_<<Objects, volumes>>
  <2>1. NewObject \in Fields /\ ~NewObject.finalizer /\ ~NewObject.deleted
    BY DEF NewObject, Fields
  <2>2. Only(x) /\ obj[x] = None /\ obj'[x] = NewObject
    BY <1>4, <2>1, CreateInv, Parts, Shape
  <2>3. QED
    BY <1>4, <2>1, <2>2, ObjectRefines
<1>5. ASSUME NEW x \in Object, ReapObject(x)
      PROVE  [Managed!Next]_<<Objects, volumes>>
  <2>1. /\ Only(x) /\ obj[x] \in Fields /\ obj[x].deleted /\ ~obj[x].finalizer
        /\ obj'[x] = None
    BY <1>5, ReapInv, Parts, Shape DEF ReapObject
  <2>2. QED
    BY <1>5, <2>1, ObjectRefines DEF ReapObject, pools
<1>6. CASE Users
  <2>1. world \subseteq Object /\ volumes' = volumes
    BY <1>6 DEF Users, pools, StorageInv, StorageTypeInv
  <2>2. QED
    BY <1>3, <1>4, <1>6, <2>1 DEF Users
<1>7. CASE Trouble
  <2>1. volumes' = volumes
    BY <1>7 DEF Trouble, pools
  <2>2. ASSUME NEW x \in Object, Foreign(x) PROVE obj' = obj
    BY <2>2, ForeignInv, Parts, Shape
  <2>3. obj' = obj
    BY <1>7, <2>2 DEF Trouble, FallBehind, Fault, Crash
  <2>4. QED
    BY <1>1, <2>1, <2>3
<1>8. CASE Boot \/ Administrators \/ Guests \/ UNCHANGED vars
  BY <1>1, <1>8 DEF Boot, Administrators, Guests, vars, pools
<1>9. CASE \E x \in Object : StartPass(x)
  BY <1>1, <1>9 DEF StartPass, Start, pools
<1>10. CASE \E x \in Object : Watch(x)
  BY <1>1, <1>10 DEF Watch, CatchUp, pools
<1>11. QED
  BY <1>2, <1>5, <1>6, <1>7, <1>8, <1>9, <1>10 DEF Next

\* At first no volume is claimed or deleted, and none has an image.
LEMMA ManagedInit == Init => Managed!Init
<1> SUFFICES ASSUME Init PROVE Managed!Init
  OBVIOUS
<1>1. ASSUME NEW v \in Volume
      PROVE  Claim(v) \in {None, [claimed |-> FALSE, deleted |-> FALSE]}
  BY ObjectAssumption DEF Init, Claim, NewObject
<1>2. QED
  BY <1>1 DEF Init, Managed!Init, Managed!New

-----------------------------------------------------------------------------
(* The theorems                                                            *)

\* The invariant is inductive: whatever call fails, whenever the process
\* restarts and however old the copy of a pass is, an RBD image belongs to a
\* volume with the finalizer, and a pass that is about to give the finalizer
\* back has no image left (volumes.rs 74-150, resource_controller.rs).
THEOREM StorageInductive == Spec => []StorageInv
BY StorageInit, StorageStep, PTL DEF Spec

\* The finalizer of an image outlasts its template, and the volumes cloned from
\* it: remove_fn looks for neither snapshots nor clones (images.rs), but no pass
\* of it, however old its copy, gets past Ceph's refusal to the release.
THEOREM TemplatesKept == Spec => TemplatesGuarded
BY TemplatesStep, StorageInductive, PTL DEF Spec, TemplatesGuarded

\* The controller of volumes implements FinalizedResource: every step is one of
\* its steps, or changes neither the claim of a volume nor an image.
THEOREM VolumesManaged == Spec => ManagedVolumes
<1>1. StorageInv /\ [Next]_vars => [Managed!Next]_<<[v \in Volume |-> Claim(v)], volumes>>
  BY StorageRefines DEF Objects
<1>2. QED
  BY <1>1, ManagedInit, StorageInductive, PTL DEF Spec, ManagedVolumes, Managed!Spec

=============================================================================
