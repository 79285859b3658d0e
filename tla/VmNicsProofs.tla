---------------------------- MODULE VmNicsProofs -----------------------------
EXTENDS VmNics, TLAPS

(***************************************************************************)
(* That removing v1beta2 leaves no VM behind that could not be read.       *)
(*                                                                         *)
(* UpgradeInv is inductive.  Steps of three kinds are told apart: those    *)
(* that leave the definition and the migration alone and write VMs in the  *)
(* storage version at most (passes, users and other controllers), those of *)
(* the migration itself, and the end of the process.                       *)
(***************************************************************************)

-----------------------------------------------------------------------------
(* VMs and passes                                                          *)

\* What is written is in the storage version, and is a VM.
LEMMA EncodedVm ==
  ASSUME NEW STATE o, IsVm(o), crd \in Definition
  PROVE  IsVm(Encoded(o)) /\ Encoded(o).encoding = crd.storage
<1> DEFINE new == [encoding |-> crd.storage, spec |-> o.spec, status |-> o.status]
<1>1. Encoded(o) = new
  BY DEF Encoded, IsVm
<1>2. crd.storage \in {Old, Latest}
  BY DEF Definition
<1>3. IsVm(new) /\ new.encoding = crd.storage
  BY <1>2 DEF IsVm
<1>4. QED
  BY <1>1, <1>3

\* A new status or a new spec leaves a VM a VM.
LEMMA EditedVm ==
  ASSUME NEW STATE o, NEW STATE part, IsVm(o)
  PROVE  IsVm([o EXCEPT !.status = part]) /\ IsVm([o EXCEPT !.spec = part])
<1>1. /\ [o EXCEPT !.status = part]
           = [encoding |-> o.encoding, spec |-> o.spec, status |-> part]
      /\ [o EXCEPT !.spec = part]
           = [encoding |-> o.encoding, spec |-> part, status |-> o.status]
  BY DEF IsVm
<1>2. /\ IsVm([encoding |-> o.encoding, spec |-> o.spec, status |-> part])
      /\ IsVm([encoding |-> o.encoding, spec |-> part, status |-> o.status])
  BY DEF IsVm
<1>3. QED
  BY <1>1, <1>2

\* A pass is a record, and NicPassInv says four things of it.
IsPass(p) == DOMAIN p = {"at", "copy", "fresh", "missing", "handle"}

LEMMA PassFields ==
  ASSUME NEW v
  PROVE  NicPassInv(v) <=>
           /\ IsPass(pass[v])
           /\ pass[v].at \in {"idle", "status", "nics", "commit"}
           /\ pass[v].at # "idle" => IsVm(pass[v].copy)
           /\ pass[v].fresh => pass[v].at # "idle" /\ pass[v].copy = obj[v]
<1>1. DOMAIN Idle = {"at", "copy", "fresh", "missing", "handle"}
  BY DEF Idle
<1>2. QED
  BY <1>1 DEF NicPassInv, IsPass

LEMMA NextPassFields ==
  ASSUME NEW v, IsPass(pass'[v]),
         pass'[v].at \in {"idle", "status", "nics", "commit"},
         pass'[v].at # "idle" => IsVm(pass'[v].copy),
         pass'[v].fresh => pass'[v].at # "idle" /\ pass'[v].copy = obj'[v]
  PROVE  NicPassInv(v)'
<1>1. DOMAIN Idle = {"at", "copy", "fresh", "missing", "handle"}
  BY DEF Idle
<1>2. QED
  BY <1>1 DEF NicPassInv, IsPass

\* Nothing is expected of a pass that does not run.
LEMMA IdlePass ==
  ASSUME NEW v, pass'[v] = Idle
  PROVE  NicPassInv(v)' /\ pass'[v].at = "idle"
<1>1. pass'[v].at = "idle" /\ pass'[v].fresh = FALSE
  BY DEF Idle
<1>2. QED
  BY <1>1 DEF NicPassInv

-----------------------------------------------------------------------------
(* The cache                                                               *)

\* It stays as it is, and so does the VM; no pass gets a newer copy.
LEMMA KeptCache ==
  ASSUME NEW v, NicCacheInv(v), cache'[v] = cache[v], obj'[v] = obj[v],
         cache[v].behind /\ pass'[v].fresh => cache[v].fresh
  PROVE  NicCacheInv(v)'
BY DEF NicCacheInv

\* The VM changes: what is behind is an old version, and so is the copy of the
\* pass.
LEMMA OutdatedCache ==
  ASSUME NEW v, NicCacheInv(v), cache'[v] = [cache[v] EXCEPT !.fresh = FALSE],
         pass'[v].fresh => ~cache[v].behind
  PROVE  NicCacheInv(v)'
<1>1. cache'[v] = [behind |-> cache[v].behind, copy |-> cache[v].copy, fresh |-> FALSE]
  BY DEF NicCacheInv
<1>2. QED
  BY <1>1 DEF NicCacheInv

\* It has the stored version.
LEMMA CurrentCache ==
  ASSUME NEW v, cache'[v] = Current
  PROVE  NicCacheInv(v)'
<1>1. cache'[v] = [behind |-> FALSE, copy |-> None, fresh |-> FALSE]
  BY DEF Current
<1>2. QED
  BY <1>1 DEF NicCacheInv

-----------------------------------------------------------------------------
(* Steps that leave the definition alone                                   *)

\* What a step of a pass, a user or another controller may do to v: remove it,
\* leave its version, or write it in the storage version.
Written(v) ==
  obj'[v] # None => /\ IsVm(obj'[v])
                    /\ \/ obj[v] # None /\ obj'[v].encoding = obj[v].encoding
                       \/ crd # None /\ obj'[v].encoding = crd.storage

\* ... and to its pass and what the cache has of it.
Passed(v) ==
  /\ NicPassInv(v)' /\ NicCacheInv(v)'
  /\ pass'[v].at = "idle" \/ pass[v].at # "idle" \/ Up

\* Such steps concern one VM.
Local(v) ==
  /\ obj' = [w \in Object |-> IF w = v THEN obj'[v] ELSE obj[w]]
  /\ pass' = [w \in Object |-> IF w = v THEN pass'[v] ELSE pass[w]]
  /\ cache' = [w \in Object |-> IF w = v THEN cache'[v] ELSE cache[w]]
  /\ Written(v) /\ Passed(v)
  /\ crd' = crd /\ boot' = boot

LEMMA LocalStep ==
  ASSUME UpgradeInv, NEW v \in Object, Local(v)
  PROVE  UpgradeInv'
<1>1. \A w \in Object : Written(w) /\ Passed(w)
  BY DEF Local, Written, Passed, UpgradeInv, NicTypeInv, NicPassInv, NicCacheInv
<1>2. /\ obj' = [w \in Object |-> obj'[w]] /\ pass' = [w \in Object |-> pass'[w]]
      /\ cache' = [w \in Object |-> cache'[w]]
  BY DEF Local
<1>3. NicTypeInv'
  BY <1>1, <1>2 DEF Local, Written, Passed, UpgradeInv, NicTypeInv
<1>4. Up' = Up
  BY DEF Local, Up
<1>5. \A w \in Object : obj'[w] # None => crd # None /\ obj'[w].encoding \in crd.stored
  BY <1>1 DEF Written, UpgradeInv
<1>6. \A w \in Object : At(w, "idle")' \/ Up
  BY <1>1 DEF Passed, UpgradeInv, At
<1>7. boot.at = "patch" =>
        \A w \in Object : obj'[w] # None /\ obj'[w].encoding = Old => w \in DOMAIN boot.todo
  BY <1>1 DEF Written, UpgradeInv, Old, Latest
<1>8. QED
  BY <1>3, <1>4, <1>5, <1>6, <1>7 DEF Local, UpgradeInv

\* The pass of v ends, and the VM stays as it is.
LEMMA EndStep ==
  ASSUME UpgradeInv, NEW v \in Object, End(v), obj' = obj, cache' = cache,
         crd' = crd, boot' = boot
  PROVE  UpgradeInv'
<1>1. pass'[v] = Idle /\ pass' = [w \in Object |-> IF w = v THEN pass'[v] ELSE pass[w]]
  BY DEF End, UpgradeInv, NicTypeInv
<1>2. Passed(v)
  <2>1. NicPassInv(v)' /\ pass'[v].at = "idle"
    BY <1>1, IdlePass
  <2>2. ~pass'[v].fresh
    BY <1>1 DEF Idle
  <2>3. NicCacheInv(v)'
    BY <2>2, KeptCache DEF UpgradeInv, NicTypeInv
  <2>4. QED
    BY <2>1, <2>3 DEF Passed
<1>3. Written(v)
  BY DEF Written, UpgradeInv, NicTypeInv
<1>4. Local(v)
  BY <1>1, <1>2, <1>3 DEF Local, UpgradeInv, NicTypeInv
<1>5. QED
  BY <1>4, LocalStep

\* A write of the pass of v, of a VM in the storage version.
LEMMA WriteStep ==
  ASSUME UpgradeInv, NEW v \in Object, pass[v].at # "idle", NEW STATE new,
         NEW next \in {"idle", "commit"}, IsVm(new), new.encoding = crd.storage,
         Write(v, new, next), crd' = crd, boot' = boot
  PROVE  UpgradeInv'
<1>1. CASE ~pass[v].fresh
  BY <1>1, EndStep DEF Write
<1>2. CASE pass[v].fresh
  <2> DEFINE f == new = obj[v]
  <2>1. Up /\ crd # None
    BY DEF UpgradeInv, At, Up
  <2>2. /\ obj' = [obj EXCEPT ![v] = new]
        /\ pass' = [pass EXCEPT ![v] = IF next = "idle" THEN Idle
                      ELSE [@ EXCEPT !.at = next, !.copy = new, !.fresh = f]]
        /\ cache' = IF f THEN cache ELSE [cache EXCEPT ![v].fresh = FALSE]
    BY <1>2 DEF Write, Store, UpgradeInv, NicTypeInv
  <2>3. IsPass(pass[v])
    BY PassFields DEF UpgradeInv, NicTypeInv
  <2>4. obj'[v] = new
    BY <2>2 DEF UpgradeInv, NicTypeInv
  <2>5. IF next = "idle" THEN pass'[v] = Idle
        ELSE /\ IsPass(pass'[v])
             /\ pass'[v].at = next /\ pass'[v].copy = new /\ pass'[v].fresh = f
    <3>1. CASE next = "idle"
      BY <2>2, <3>1 DEF UpgradeInv, NicTypeInv
    <3>2. CASE next # "idle"
      <4> DEFINE r == [pass[v] EXCEPT !.at = next, !.copy = new, !.fresh = f]
      <4>1. pass' = [pass EXCEPT ![v] = r]
        BY <2>2, <3>2, Zenon
      <4> HIDE DEF r
      <4>2. pass'[v] = r
        BY <4>1 DEF UpgradeInv, NicTypeInv
      <4> USE DEF r
      <4> HIDE DEF f
      <4>3. QED
        BY <2>3, <3>2, <4>2 DEF IsPass
    <3>3. QED
      BY <3>1, <3>2
  <2>6. /\ obj' = [w \in Object |-> IF w = v THEN obj'[v] ELSE obj[w]]
        /\ pass' = [w \in Object |-> IF w = v THEN pass'[v] ELSE pass[w]]
        /\ cache' = [w \in Object |-> IF w = v THEN cache'[v] ELSE cache[w]]
    BY <2>2 DEF UpgradeInv, NicTypeInv
  <2>7. NicPassInv(v)'
    <3>1. CASE next = "idle"
      BY <2>5, <3>1, IdlePass
    <3>2. CASE next = "commit"
      BY <2>4, <2>5, <3>2, NextPassFields
    <3>3. QED
      BY <3>1, <3>2
  <2>8. NicCacheInv(v)'
    <3> HIDE DEF f
    <3>1. pass'[v].fresh => f
      <4>1. Idle.fresh = FALSE
        BY DEF Idle
      <4>2. QED
        BY <2>5, <4>1
    <3>2. CASE f
      <4>1. cache' = cache /\ obj'[v] = obj[v]
        BY <2>2, <2>4, <3>2 DEF f
      <4>2. QED
        BY <1>2, <4>1, KeptCache DEF UpgradeInv, NicTypeInv, NicCacheInv
    <3>3. CASE ~f
      <4>1. cache'[v] = [cache[v] EXCEPT !.fresh = FALSE]
        BY <2>2, <3>3 DEF UpgradeInv, NicTypeInv
      <4>2. QED
        BY <3>1, <3>3, <4>1, OutdatedCache DEF UpgradeInv, NicTypeInv
    <3>4. QED
      BY <3>2, <3>3
  <2>9. Local(v)
    BY <2>1, <2>4, <2>6, <2>7, <2>8 DEF Local, Written, Passed
  <2>10. QED
    BY <2>9, LocalStep
<1>3. QED
  BY <1>1, <1>2

\* A change by someone else, which makes the copy of the pass stale.
LEMMA ChangeStep ==
  ASSUME UpgradeInv, NEW v \in Object, NEW STATE new, Change(v, new),
         new # None => /\ IsVm(new)
                       /\ \/ obj[v] # None /\ new.encoding = obj[v].encoding
                          \/ crd # None /\ new.encoding = crd.storage,
         crd' = crd, boot' = boot
  PROVE  UpgradeInv'
<1>1. /\ obj' = [obj EXCEPT ![v] = new]
      /\ pass' = [pass EXCEPT ![v].fresh = FALSE]
      /\ cache' = [cache EXCEPT ![v].fresh = FALSE]
  BY DEF Change, Store
<1>2. IsPass(pass[v])
  BY PassFields DEF UpgradeInv, NicTypeInv
<1>3. obj'[v] = new /\ pass'[v] = [pass[v] EXCEPT !.fresh = FALSE]
  BY <1>1 DEF UpgradeInv, NicTypeInv
<1>4. /\ IsPass(pass'[v]) /\ pass'[v].fresh = FALSE
      /\ pass'[v].at = pass[v].at /\ pass'[v].copy = pass[v].copy
  BY <1>2, <1>3 DEF IsPass
<1>5. Passed(v)
  <2>1. NicPassInv(v)'
    BY <1>4, PassFields, NextPassFields DEF UpgradeInv, NicTypeInv
  <2>2. cache'[v] = [cache[v] EXCEPT !.fresh = FALSE]
    BY <1>1 DEF UpgradeInv, NicTypeInv
  <2>3. NicCacheInv(v)'
    BY <1>4, <2>2, OutdatedCache DEF UpgradeInv, NicTypeInv
  <2>4. QED
    BY <1>4, <2>1, <2>3, PassFields DEF Passed, UpgradeInv, NicTypeInv, At
<1>6. /\ obj' = [w \in Object |-> IF w = v THEN obj'[v] ELSE obj[w]]
      /\ pass' = [w \in Object |-> IF w = v THEN pass'[v] ELSE pass[w]]
      /\ cache' = [w \in Object |-> IF w = v THEN cache'[v] ELSE cache[w]]
  BY <1>1 DEF UpgradeInv, NicTypeInv
<1>7. Local(v)
  BY <1>3, <1>5, <1>6 DEF Local, Written
<1>8. QED
  BY <1>7, LocalStep

\* The cache of v falls behind or catches up.
LEMMA CacheStep ==
  ASSUME UpgradeInv, NEW v \in Object, NEW new, cache' = [cache EXCEPT ![v] = new],
         NicCacheInv(v)', obj' = obj, pass' = pass, crd' = crd, boot' = boot
  PROVE  UpgradeInv'
<1>1. NicPassInv(v)' /\ (pass'[v].at = "idle" \/ pass[v].at # "idle")
  BY DEF UpgradeInv, NicTypeInv, NicPassInv
<1>2. Local(v)
  BY <1>1 DEF Local, Passed, Written, UpgradeInv, NicTypeInv
<1>3. QED
  BY <1>2, LocalStep

-----------------------------------------------------------------------------
(* The vm controller, users and others                                     *)

LEMMA BeginStep ==
  ASSUME UpgradeInv, NEW v \in Object, Begin(v)
  PROVE  UpgradeInv'
<1> DEFINE s == IF Cached(v).status = None THEN "status" ELSE "nics"
           f == cache[v].behind => cache[v].fresh
           r == [Idle EXCEPT !.at = s, !.copy = Cached(v), !.fresh = f]
<1>1. /\ pass' = [pass EXCEPT ![v] = r] /\ Up /\ Cached(v) # None
      /\ obj' = obj /\ cache' = cache
  BY DEF Begin, Take
<1>2. IsPass(Idle)
  BY DEF Idle, IsPass
<1>3. IsPass(r) /\ r.at = s /\ r.copy = Cached(v) /\ r.fresh = f
  <2> HIDE DEF s, f
  <2>1. QED
    BY <1>2 DEF IsPass
<1> HIDE DEF r
<1>4. pass'[v] = r /\ pass' = [w \in Object |-> IF w = v THEN pass'[v] ELSE pass[w]]
  BY <1>1 DEF UpgradeInv, NicTypeInv
<1>5. NicCacheInv(v) /\ (obj[v] # None => IsVm(obj[v]))
  BY DEF UpgradeInv, NicTypeInv
<1>6. IsVm(Cached(v)) /\ (f => Cached(v) = obj[v])
  BY <1>1, <1>5 DEF Cached, NicCacheInv
<1>7. Passed(v)
  <2>1. pass'[v].at \in {"status", "nics"}
    BY <1>3, <1>4
  <2>2. NicPassInv(v)'
    BY <1>1, <1>3, <1>4, <1>6, <2>1, NextPassFields
  <2>3. NicCacheInv(v)'
    BY <1>1, <1>3, <1>4, <1>5, KeptCache
  <2>4. QED
    BY <1>1, <2>2, <2>3 DEF Passed
<1>8. Written(v)
  BY DEF Written, Begin, UpgradeInv, NicTypeInv
<1>9. Local(v)
  BY <1>4, <1>7, <1>8 DEF Local, Begin, UpgradeInv, NicTypeInv
<1>10. QED
  BY <1>9, LocalStep

\* A pass that works has a VM at hand, and the latest version is the only one.
LEMMA Working ==
  ASSUME UpgradeInv, NEW v \in Object, pass[v].at # "idle"
  PROVE  IsVm(pass[v].copy) /\ crd \in Definition /\ crd # None
BY DEF UpgradeInv, NicTypeInv, NicPassInv, At, Up

LEMMA InitializeStatusStep ==
  ASSUME UpgradeInv, NEW v \in Object, InitializeStatus(v)
  PROVE  UpgradeInv'
<1> DEFINE o == [pass[v].copy EXCEPT !.status = <<>>]
           new == Encoded(o)
<1>1. pass[v].at # "idle" /\ Write(v, new, "idle") /\ crd' = crd /\ boot' = boot
  BY DEF InitializeStatus, At
<1>2. IsVm(o) /\ crd \in Definition
  BY <1>1, Working, EditedVm
<1> HIDE DEF o
<1>3. IsVm(new) /\ new.encoding = crd.storage
  BY <1>2, EncodedVm
<1> HIDE DEF new
<1>4. QED
  BY <1>1, <1>3, WriteStep

LEMMA CommitNicsStep ==
  ASSUME UpgradeInv, NEW v \in Object, CommitNics(v)
  PROVE  UpgradeInv'
<1> DEFINE o == pass[v].copy
           new == Encoded(o)
<1>1. pass[v].at # "idle" /\ Write(v, new, "idle") /\ crd' = crd /\ boot' = boot
  BY DEF CommitNics, At
<1>2. IsVm(o) /\ crd \in Definition
  BY <1>1, Working
<1> HIDE DEF o
<1>3. IsVm(new) /\ new.encoding = crd.storage
  BY <1>2, EncodedVm
<1> HIDE DEF new
<1>4. QED
  BY <1>1, <1>3, WriteStep

LEMMA FillNicsStep ==
  ASSUME UpgradeInv, NEW v \in Object, FillNics(v)
  PROVE  UpgradeInv'
<1> DEFINE filled == FilledNics(v, pass[v].copy)
           o == [pass[v].copy EXCEPT !.status = filled]
           new == Encoded(o)
<1>1. /\ pass[v].at = "nics" /\ crd' = crd /\ boot' = boot
      /\ \/ End(v) /\ obj' = obj /\ cache' = cache
         \/ Continue(v, "commit") /\ obj' = obj /\ cache' = cache
         \/ Write(v, new, "commit")
  BY DEF FillNics, At
<1> HIDE DEF filled
<1>2. IsVm(o) /\ crd \in Definition
  BY <1>1, Working, EditedVm
<1> HIDE DEF o
<1>3. IsVm(new) /\ new.encoding = crd.storage
  BY <1>2, EncodedVm
<1> HIDE DEF new
<1>4. CASE End(v) /\ obj' = obj /\ cache' = cache
  BY <1>1, <1>4, EndStep
<1>5. CASE Continue(v, "commit") /\ obj' = obj /\ cache' = cache
  <2>1. IsPass(pass[v]) /\ pass' = [pass EXCEPT ![v].at = "commit"]
    BY <1>5, PassFields DEF Continue, UpgradeInv, NicTypeInv
  <2>2. /\ pass'[v] = [pass[v] EXCEPT !.at = "commit"]
        /\ pass' = [w \in Object |-> IF w = v THEN pass'[v] ELSE pass[w]]
    BY <2>1 DEF UpgradeInv, NicTypeInv
  <2>3. /\ IsPass(pass'[v]) /\ pass'[v].at = "commit"
        /\ pass'[v].copy = pass[v].copy /\ pass'[v].fresh = pass[v].fresh
    BY <2>1, <2>2 DEF IsPass
  <2>4. Passed(v)
    <3>1. NicPassInv(v)'
      BY <1>1, <1>5, <2>3, PassFields, NextPassFields DEF UpgradeInv, NicTypeInv
    <3>2. NicCacheInv(v)'
      BY <1>5, <2>3, KeptCache DEF UpgradeInv, NicTypeInv, NicCacheInv
    <3>3. QED
      BY <1>1, <3>1, <3>2 DEF Passed
  <2>5. Written(v)
    BY <1>5 DEF Written, UpgradeInv, NicTypeInv
  <2>6. Local(v)
    BY <1>1, <1>5, <2>2, <2>4, <2>5 DEF Local, UpgradeInv, NicTypeInv
  <2>7. QED
    BY <2>6, LocalStep
<1>6. CASE Write(v, new, "commit")
  BY <1>1, <1>3, <1>6, WriteStep
<1>7. QED
  BY <1>1, <1>4, <1>5, <1>6

LEMMA UsersStep ==
  ASSUME UpgradeInv, Users
  PROVE  UpgradeInv'
<1>1. PICK v \in Object, nics \in NicList :
        \/ Create(v, NewVm(nics))
        \/ /\ obj[v] # None
           /\ Change(v, Encoded([obj[v] EXCEPT !.spec = nics]))
        \/ Change(v, None)
  BY DEF Users
<1>2. crd \in Definition /\ crd # None /\ crd' = crd /\ boot' = boot
  BY DEF Users, UpgradeInv, NicTypeInv
<1>3. CASE Create(v, NewVm(nics))
  <2> DEFINE new == NewVm(nics)
  <2>1. new = [encoding |-> crd.storage, spec |-> nics, status |-> None]
        /\ crd.storage \in {Old, Latest}
    BY <1>2 DEF NewVm, Definition
  <2> HIDE DEF new
  <2>2. IsVm(new) /\ new.encoding = crd.storage
    BY <2>1 DEF IsVm
  <2>3. Change(v, new)
    BY <1>3 DEF Create, new
  <2>4. QED
    BY <1>2, <2>2, <2>3, ChangeStep
<1>4. CASE obj[v] # None /\ Change(v, Encoded([obj[v] EXCEPT !.spec = nics]))
  <2> DEFINE o == [obj[v] EXCEPT !.spec = nics]
             new == Encoded(o)
  <2>1. IsVm(obj[v])
    BY <1>4 DEF UpgradeInv, NicTypeInv
  <2>2. IsVm(o)
    BY <2>1, EditedVm
  <2> HIDE DEF o
  <2>3. IsVm(new) /\ new.encoding = crd.storage
    BY <1>2, <2>2, EncodedVm
  <2>4. Change(v, new)
    BY <1>4 DEF o
  <2> HIDE DEF new
  <2>5. QED
    BY <1>2, <2>3, <2>4, ChangeStep
<1>5. CASE Change(v, None)
  BY <1>2, <1>5, ChangeStep
<1>6. QED
  BY <1>1, <1>3, <1>4, <1>5

LEMMA OthersStep ==
  ASSUME UpgradeInv, Others
  PROVE  UpgradeInv'
<1>1. CASE \E v \in Object : Foreign(v) /\ UNCHANGED <<crd, boot, networks>>
  <2>1. PICK v \in Object : obj[v] # None /\ Change(v, obj[v]) /\ crd' = crd /\ boot' = boot
    BY <1>1 DEF Foreign
  <2>2. IsVm(obj[v])
    BY <2>1 DEF UpgradeInv, NicTypeInv
  <2>3. QED
    BY <2>1, <2>2, ChangeStep
<1>2. CASE \E v \in Object : /\ Fault(v, {"status", "nics", "commit"})
                             /\ UNCHANGED <<crd, boot, networks>>
  <2>1. PICK v \in Object : /\ End(v) /\ obj' = obj /\ cache' = cache
                            /\ crd' = crd /\ boot' = boot
    BY <1>2 DEF Fault
  <2>2. QED
    BY <2>1, EndStep
<1>3. CASE \E v \in Object : FallBehind(v) /\ UNCHANGED <<crd, boot, networks>>
  <2>1. PICK v \in Object :
          /\ obj[v] # None
          /\ cache' = [cache EXCEPT ![v] = [behind |-> TRUE, copy |-> obj[v], fresh |-> TRUE]]
          /\ obj' = obj /\ pass' = pass /\ crd' = crd /\ boot' = boot
    BY <1>3 DEF FallBehind
  <2>2. cache'[v] = [behind |-> TRUE, copy |-> obj[v], fresh |-> TRUE]
    BY <2>1 DEF UpgradeInv, NicTypeInv
  <2>3. NicCacheInv(v)'
    BY <2>1, <2>2 DEF NicCacheInv, UpgradeInv, NicTypeInv
  <2>4. QED
    BY <2>1, <2>3, CacheStep
<1>4. CASE UNCHANGED <<obj, cache, pass, crd, boot>>
  BY <1>4 DEF UpgradeInv, NicTypeInv, NicPassInv, NicCacheInv, At, Up
<1>5. QED
  BY <1>1, <1>2, <1>3, <1>4 DEF Others

LEMMA WatchStep ==
  ASSUME UpgradeInv, NEW v \in Object, Watch(v)
  PROVE  UpgradeInv'
<1>1. /\ cache' = [cache EXCEPT ![v] = Current]
      /\ obj' = obj /\ pass' = pass /\ crd' = crd /\ boot' = boot
  BY DEF Watch, CatchUp
<1>2. NicCacheInv(v)'
  BY <1>1, CurrentCache DEF UpgradeInv, NicTypeInv
<1>3. QED
  BY <1>1, <1>2, CacheStep

-----------------------------------------------------------------------------
(* The migration                                                           *)

\* The process ends; the VMs and the definition stay.
LEMMA ExitStep ==
  ASSUME UpgradeInv, Exit, obj' = obj, crd' = crd
  PROVE  UpgradeInv'
<1>1. /\ pass' = [v \in Object |-> pass'[v]] /\ cache' = [v \in Object |-> cache'[v]]
      /\ \A v \in Object : pass'[v] = Idle /\ cache'[v] = Current
  BY DEF Exit
<1>2. \A v \in Object : NicPassInv(v)' /\ NicCacheInv(v)' /\ pass'[v].at = "idle"
  BY <1>1, IdlePass, CurrentCache
<1>3. /\ boot' = [at |-> boot'.at, todo |-> boot'.todo, fresh |-> boot'.fresh]
      /\ boot'.at = "get"
  BY DEF Exit, Booting
<1>4. NicTypeInv'
  BY <1>1, <1>2, <1>3 DEF UpgradeInv, NicTypeInv
<1>5. QED
  BY <1>2, <1>3, <1>4 DEF UpgradeInv, At, Up

\* While the definition changes no pass is working.
LEMMA Quiet ==
  ASSUME UpgradeInv, ~Up
  PROVE  \A v \in Object : pass[v].at = "idle"
BY DEF UpgradeInv, At

\* Setting the stage of the migration.
LEMMA BootStage ==
  ASSUME NicTypeInv, NEW next, boot' = [boot EXCEPT !.at = next]
  PROVE  /\ boot' = [at |-> boot'.at, todo |-> boot'.todo, fresh |-> boot'.fresh]
         /\ boot'.at = next /\ boot'.todo = boot.todo
<1>1. boot' = [at |-> next, todo |-> boot.todo, fresh |-> boot.fresh]
  BY DEF NicTypeInv
<1>2. QED
  BY <1>1

\* The types after a step that changes the migration, and perhaps the definition.
LEMMA BootTypes ==
  ASSUME NicTypeInv, obj' = obj, pass' = pass, cache' = cache, crd' \in Definition \cup {None},
         boot' = [at |-> boot'.at, todo |-> boot'.todo, fresh |-> boot'.fresh],
         boot'.at \in {"get", "merge", "migrate", "patch", "reread", "replace", "final", "run"}
  PROVE  NicTypeInv'
BY DEF NicTypeInv, NicPassInv, NicCacheInv

\* Replacing the definition: accepted if every version it remembers is served,
\* which a stage of the migration rests on; the end of the process otherwise.
LEMMA ReplaceStep ==
  ASSUME UpgradeInv, ~Up, NEW STATE new, new \in Definition,
         NEW next \in {"migrate", "reread", "final", "run"},
         new.storage = Latest, Latest \in new.stored,
         \A v \in Object : obj[v] # None => obj[v].encoding \in new.stored,
         next \in {"reread", "final"} => Old \notin new.stored,
         next = "run" => new.versions = {Latest},
         ReplaceCrd(new, next), obj' = obj
  PROVE  UpgradeInv'
<1>1. CASE ~(new.stored \subseteq new.versions)
  BY <1>1, ExitStep DEF ReplaceCrd
<1>2. CASE new.stored \subseteq new.versions
  <2>1. /\ crd' = new /\ boot' = [boot EXCEPT !.at = next]
        /\ pass' = pass /\ cache' = cache
    BY <1>2 DEF ReplaceCrd
  <2>2. /\ boot' = [at |-> boot'.at, todo |-> boot'.todo, fresh |-> boot'.fresh]
        /\ boot'.at = next
    BY <2>1, BootStage DEF UpgradeInv
  <2>3. NicTypeInv'
    BY <2>1, <2>2, BootTypes DEF UpgradeInv
  <2>4. new # None
    BY NoneAssumption
  <2>5. QED
    BY <1>2, <2>1, <2>2, <2>3, <2>4, Quiet DEF UpgradeInv, At, Up
<1>3. QED
  BY <1>1, <1>2

LEMMA GetCrdStep ==
  ASSUME UpgradeInv, GetCrd
  PROVE  UpgradeInv'
<1>1. PICK next \in {"run", "merge"} :
        /\ boot' = [boot EXCEPT !.at = next]
        /\ next = "run" => crd # None /\ crd.versions = {Latest}
  BY DEF GetCrd
<1>2. boot.at = "get" /\ obj' = obj /\ pass' = pass /\ cache' = cache /\ crd' = crd
  BY DEF GetCrd
<1>3. /\ boot' = [at |-> boot'.at, todo |-> boot'.todo, fresh |-> boot'.fresh]
      /\ boot'.at = next
  BY <1>1, BootStage DEF UpgradeInv
<1>4. NicTypeInv'
  BY <1>2, <1>3, BootTypes DEF UpgradeInv, NicTypeInv
<1>5. \A v \in Object : pass[v].at = "idle"
  BY <1>2, Quiet DEF Up
<1>6. next = "run" => crd.storage = Latest
  BY <1>1 DEF UpgradeInv, NicTypeInv
<1>7. QED
  BY <1>1, <1>2, <1>3, <1>4, <1>5, <1>6 DEF UpgradeInv, At, Up

LEMMA MergeVersionsStep ==
  ASSUME UpgradeInv, MergeVersions
  PROVE  UpgradeInv'
<1> DEFINE new == [versions |-> {Old, Latest}, storage |-> Latest,
                   stored |-> {Latest} \cup (IF crd = None THEN {} ELSE crd.stored)]
<1>1. ReplaceCrd(new, "migrate") /\ ~Up /\ obj' = obj
  BY DEF MergeVersions, Up
<1>2. crd # None => crd.stored \subseteq {Old, Latest}
  BY DEF UpgradeInv, NicTypeInv, Definition
<1>3. new \in Definition
  BY <1>2 DEF Definition
<1>4. /\ new.storage = Latest /\ Latest \in new.stored
      /\ crd # None => crd.stored \subseteq new.stored
  OBVIOUS
<1>5. \A v \in Object : obj[v] # None => obj[v].encoding \in new.stored
  BY <1>4 DEF UpgradeInv
<1> HIDE DEF new
<1>6. QED
  BY <1>1, <1>3, <1>4, <1>5, ReplaceStep

LEMMA RunMigrationsStep ==
  ASSUME UpgradeInv, RunMigrations
  PROVE  UpgradeInv'
<1> DEFINE todo == [v \in {w \in Object : obj[w] # None} |-> obj[v].spec]
<1>1. boot.at = "migrate" /\ obj' = obj /\ pass' = pass /\ cache' = cache /\ crd' = crd
  BY DEF RunMigrations
<1>2. \A v \in Object : pass[v].at = "idle"
  BY <1>1, Quiet DEF Up
<1>3. CASE Old \in crd.stored
  <2>1. boot' = [boot EXCEPT !.at = "patch", !.todo = todo]
    BY <1>3 DEF RunMigrations
  <2>2. \A v \in Object : obj[v] # None => v \in DOMAIN todo
    OBVIOUS
  <2> HIDE DEF todo
  <2>3. boot' = [at |-> "patch", todo |-> todo, fresh |-> boot.fresh]
    BY <2>1 DEF UpgradeInv, NicTypeInv
  <2>4. /\ boot' = [at |-> boot'.at, todo |-> boot'.todo, fresh |-> boot'.fresh]
        /\ boot'.at = "patch" /\ boot'.todo = todo
    BY <2>3
  <2>5. NicTypeInv'
    BY <1>1, <2>4, BootTypes DEF UpgradeInv, NicTypeInv
  <2>6. QED
    BY <1>1, <1>2, <1>3, <2>2, <2>4, <2>5 DEF UpgradeInv, At, Up
<1>4. CASE Old \notin crd.stored
  <2>1. boot' = [boot EXCEPT !.at = "final"]
    BY <1>4 DEF RunMigrations
  <2>2. /\ boot' = [at |-> boot'.at, todo |-> boot'.todo, fresh |-> boot'.fresh]
        /\ boot'.at = "final"
    BY <2>1, BootStage DEF UpgradeInv
  <2>3. NicTypeInv'
    BY <1>1, <2>2, BootTypes DEF UpgradeInv, NicTypeInv
  <2>4. QED
    BY <1>1, <1>2, <1>4, <2>2, <2>3 DEF UpgradeInv, At, Up
<1>5. QED
  BY <1>3, <1>4

\* A VM that has been patched is in the latest version, and is struck off.
LEMMA PatchStatusStep ==
  ASSUME UpgradeInv, NEW v \in Object, PatchStatus(v)
  PROVE  UpgradeInv'
<1>1. boot.at = "patch" /\ crd' = crd /\ crd # None /\ crd \in Definition /\ crd.storage = Latest
  BY DEF PatchStatus, UpgradeInv, NicTypeInv
<1>2. CASE ~(obj[v] # None /\ obj[v].status # None)
  BY <1>1, <1>2, ExitStep DEF PatchStatus
<1>3. CASE obj[v] # None /\ obj[v].status # None
  <2> DEFINE o == [obj[v] EXCEPT !.status = boot.todo[v]]
             new == Encoded(o)
             todo == [w \in DOMAIN boot.todo \ {v} |-> boot.todo[w]]
  <2>1. /\ obj' = [obj EXCEPT ![v] = new]
        /\ boot' = [boot EXCEPT !.todo = todo]
        /\ pass' = pass
        /\ cache' = [cache EXCEPT ![v].fresh = FALSE]
    BY <1>3 DEF PatchStatus, Store
  <2>2. IsVm(o)
    BY <1>3, EditedVm DEF UpgradeInv, NicTypeInv
  <2> HIDE DEF o
  <2>3. IsVm(new) /\ new.encoding = Latest
    BY <1>1, <2>2, EncodedVm
  <2> HIDE DEF new
  <2>4. DOMAIN todo = DOMAIN boot.todo \ {v}
    OBVIOUS
  <2> HIDE DEF todo
  <2>5. boot' = [at |-> "patch", todo |-> todo, fresh |-> boot.fresh]
    BY <1>1, <2>1 DEF UpgradeInv, NicTypeInv
  <2>6. /\ boot' = [at |-> boot'.at, todo |-> boot'.todo, fresh |-> boot'.fresh]
        /\ boot'.at = "patch" /\ boot'.todo = todo
    BY <2>5
  <2>7. /\ obj' = [w \in Object |-> obj'[w]] /\ obj'[v] = new
        /\ \A w \in Object \ {v} : obj'[w] = obj[w]
    BY <2>1 DEF UpgradeInv, NicTypeInv
  <2>8. \A w \in Object : pass[w].at = "idle"
    BY <1>1, Quiet DEF Up
  <2>9. \A w \in Object : NicPassInv(w)' /\ NicCacheInv(w)'
    <3>1. \A w \in Object : NicPassInv(w)' /\ ~pass'[w].fresh
      BY <2>1, <2>8 DEF NicPassInv, UpgradeInv, NicTypeInv
    <3>2. cache'[v] = [cache[v] EXCEPT !.fresh = FALSE]
      BY <2>1 DEF UpgradeInv, NicTypeInv
    <3>3. NicCacheInv(v)'
      BY <3>1, <3>2, OutdatedCache DEF UpgradeInv, NicTypeInv
    <3>4. \A w \in Object \ {v} : cache'[w] = cache[w]
      BY <2>1 DEF UpgradeInv, NicTypeInv
    <3>5. \A w \in Object \ {v} : NicCacheInv(w)'
      BY <2>7, <3>1, <3>4, KeptCache DEF UpgradeInv, NicTypeInv
    <3>6. QED
      BY <3>1, <3>3, <3>5
  <2>10. NicTypeInv'
    BY <1>1, <2>1, <2>3, <2>6, <2>7, <2>9 DEF UpgradeInv, NicTypeInv
  <2>11. Old # Latest
    BY DEF Old, Latest
  <2>12. QED
    BY <1>1, <2>1, <2>3, <2>4, <2>6, <2>7, <2>8, <2>10, <2>11 DEF UpgradeInv, At, Up
<1>4. QED
  BY <1>2, <1>3

\* None of the listed VMs is left, and so none in the old version.
LEMMA RemoveStoredStep ==
  ASSUME UpgradeInv, RemoveStored
  PROVE  UpgradeInv'
<1> DEFINE new == [crd EXCEPT !.stored = @ \ {Old}]
<1>1. ReplaceCrd(new, "reread") /\ ~Up /\ obj' = obj /\ boot.at = "patch" /\ boot.todo = <<>>
  BY DEF RemoveStored, Up
<1>2. crd \in Definition /\ crd.storage = Latest /\ Latest \in crd.stored
  BY <1>1 DEF UpgradeInv, NicTypeInv
<1>3. new \in Definition /\ new.storage = Latest /\ new.stored = crd.stored \ {Old}
  BY <1>2 DEF Definition
<1>4. DOMAIN boot.todo = {}
  BY <1>1
<1>5. \A v \in Object : obj[v] # None => obj[v].encoding \in new.stored
  BY <1>1, <1>3, <1>4 DEF UpgradeInv
<1> HIDE DEF new
<1>6. Latest \in new.stored /\ Old \notin new.stored
  BY <1>2, <1>3 DEF Old, Latest
<1>7. QED
  BY <1>1, <1>3, <1>5, <1>6, ReplaceStep

LEMMA RereadCrdStep ==
  ASSUME UpgradeInv, RereadCrd
  PROVE  UpgradeInv'
<1>1. boot.at = "reread" /\ obj' = obj /\ pass' = pass /\ cache' = cache /\ crd' = crd
  BY DEF RereadCrd
<1>2. boot' = [at |-> "replace", todo |-> boot.todo, fresh |-> TRUE]
  BY DEF RereadCrd, UpgradeInv, NicTypeInv
<1>3. /\ boot' = [at |-> boot'.at, todo |-> boot'.todo, fresh |-> boot'.fresh]
      /\ boot'.at = "replace"
  BY <1>2
<1>4. NicTypeInv'
  BY <1>1, <1>3, BootTypes DEF UpgradeInv, NicTypeInv
<1>5. \A v \in Object : pass[v].at = "idle"
  BY <1>1, Quiet DEF Up
<1>6. QED
  BY <1>1, <1>3, <1>4, <1>5 DEF UpgradeInv, At, Up

LEMMA RemoveVersionStep ==
  ASSUME UpgradeInv, RemoveVersion
  PROVE  UpgradeInv'
<1>1. CASE ~boot.fresh
  BY <1>1, ExitStep DEF RemoveVersion
<1>2. CASE boot.fresh
  <2> DEFINE new == [crd EXCEPT !.versions = @ \ {Old}]
  <2>1. ReplaceCrd(new, "final") /\ ~Up /\ obj' = obj /\ boot.at = "replace"
    BY <1>2 DEF RemoveVersion, Up
  <2>2. crd \in Definition /\ crd.storage = Latest /\ Latest \in crd.stored
    BY <2>1 DEF UpgradeInv, NicTypeInv
  <2>3. new \in Definition /\ new.storage = Latest /\ new.stored = crd.stored
    BY <2>2 DEF Definition
  <2> HIDE DEF new
  <2>4. /\ \A v \in Object : obj[v] # None => obj[v].encoding \in new.stored
        /\ Old \notin new.stored /\ Latest \in new.stored
    BY <2>1, <2>2, <2>3 DEF UpgradeInv
  <2>5. QED
    BY <2>1, <2>3, <2>4, ReplaceStep
<1>3. QED
  BY <1>1, <1>2

LEMMA ApplyLatestStep ==
  ASSUME UpgradeInv, ApplyLatest
  PROVE  UpgradeInv'
<1> DEFINE new == [crd EXCEPT !.versions = {Latest}, !.storage = Latest]
<1>1. ReplaceCrd(new, "run") /\ ~Up /\ obj' = obj /\ boot.at = "final"
  BY DEF ApplyLatest, Up
<1>2. crd \in Definition /\ crd.storage = Latest /\ Latest \in crd.stored
  BY <1>1 DEF UpgradeInv, NicTypeInv
<1>3. /\ new \in Definition /\ new.storage = Latest /\ new.stored = crd.stored
      /\ new.versions = {Latest}
  BY <1>2 DEF Definition
<1> HIDE DEF new
<1>4. /\ \A v \in Object : obj[v] # None => obj[v].encoding \in new.stored
      /\ Latest \in new.stored
  BY <1>1, <1>2, <1>3 DEF UpgradeInv
<1>5. QED
  BY <1>1, <1>3, <1>4, ReplaceStep

LEMMA TouchCrdStep ==
  ASSUME UpgradeInv, TouchCrd
  PROVE  UpgradeInv'
<1>1. boot.at = "replace" /\ obj' = obj /\ pass' = pass /\ cache' = cache /\ crd' = crd
  BY DEF TouchCrd
<1>2. boot' = [boot EXCEPT !.fresh = FALSE]
  BY DEF TouchCrd
<1>3. /\ boot' = [at |-> boot'.at, todo |-> boot'.todo, fresh |-> boot'.fresh]
      /\ boot'.at = boot.at
  BY <1>2 DEF UpgradeInv, NicTypeInv
<1>4. NicTypeInv'
  BY <1>1, <1>3, BootTypes DEF UpgradeInv, NicTypeInv
<1>5. \A v \in Object : pass[v].at = "idle"
  BY <1>1, Quiet DEF Up
<1>6. QED
  BY <1>1, <1>3, <1>4, <1>5 DEF UpgradeInv, At, Up

-----------------------------------------------------------------------------
(* Theorems                                                                *)

LEMMA InitUpgrade == Init => UpgradeInv
<1> SUFFICES ASSUME Init PROVE UpgradeInv
  OBVIOUS
<1>1. PICK w \in World : crd = w.crd /\ obj = w.vms
  BY DEF Init
<1>2. boot.at = "get" /\ boot = [at |-> boot.at, todo |-> boot.todo, fresh |-> boot.fresh]
  BY DEF Init, Booting
<1>3. \A v \in Object : pass[v] = Idle /\ pass[v].at = "idle" /\ pass[v].fresh = FALSE
  BY DEF Init, Idle
<1>4. /\ pass = [v \in Object |-> pass[v]]
      /\ cache = [v \in Object |-> cache[v]]
      /\ \A v \in Object : cache[v] = [behind |-> FALSE, copy |-> None, fresh |-> FALSE]
  BY DEF Init, Current
<1>5. /\ crd \in Definition \cup {None}
      /\ crd # None => crd.storage \in crd.stored /\ crd.stored \subseteq crd.versions
      /\ obj = [v \in Object |-> obj[v]]
      /\ \A v \in Object : obj[v] # None => /\ IsVm(obj[v])
                                            /\ crd # None
                                            /\ obj[v].encoding \in crd.stored
  BY <1>1, WorldAssumption
<1>6. NicTypeInv
  BY <1>2, <1>3, <1>4, <1>5 DEF NicTypeInv, NicPassInv, NicCacheInv
<1>7. QED
  BY <1>2, <1>3, <1>5, <1>6 DEF UpgradeInv, At, Up

LEMMA NextUpgrade == UpgradeInv /\ [Next]_vars => UpgradeInv'
<1> SUFFICES ASSUME UpgradeInv, [Next]_vars PROVE UpgradeInv'
  OBVIOUS
<1>1. CASE Upgrade
  BY <1>1, GetCrdStep, MergeVersionsStep, RunMigrationsStep, PatchStatusStep,
     RemoveStoredStep, RereadCrdStep, RemoveVersionStep, ApplyLatestStep DEF Upgrade
<1>2. CASE Stop
  BY <1>2, ExitStep DEF Stop
<1>3. CASE TouchCrd
  BY <1>3, TouchCrdStep
<1>4. CASE \E v \in Object : Begin(v) \/ PassStep(v) \/ Watch(v)
  BY <1>4, BeginStep, InitializeStatusStep, FillNicsStep, CommitNicsStep, WatchStep
  DEF PassStep
<1>5. CASE Users
  BY <1>5, UsersStep
<1>6. CASE Others
  BY <1>6, OthersStep
<1>7. CASE UNCHANGED vars
  BY <1>7 DEF vars, UpgradeInv, NicTypeInv, NicPassInv, NicCacheInv, At, Up
<1>8. QED
  BY <1>1, <1>2, <1>3, <1>4, <1>5, <1>6, <1>7 DEF Next

\* Wherever the migration to v1beta3 has been cut off, however often it was
\* started over and whatever users and controllers do meanwhile: a VM is stored
\* in a version that the definition remembers, the VMs still to be patched
\* include all that are in v1beta2, and the controllers run on v1beta3 alone.
THEOREM UpgradeInductive == Spec => []UpgradeInv
<1>1. QED
  BY InitUpgrade, NextUpgrade, PTL DEF Spec

\* Every stored VM is in a version that is served (create and run_migrations,
\* crd/virtualmachine.rs; remove_crd_version, crd/utils.rs): no removal of
\* v1beta2 makes one unreadable.
THEOREM VmsStayReadable == Spec => []EncodingsReadable
<1>1. UpgradeInv => EncodingsReadable
  BY DEF UpgradeInv, EncodingsReadable
<1>2. QED
  BY <1>1, UpgradeInductive, PTL

=============================================================================
