-------------------------- MODULE ReconcilerProofs ---------------------------
EXTENDS Reconciler, TLAPS

(***************************************************************************)
(* What the calls of a reconcile pass and the events around it do, and     *)
(* that PassInv survives all of them, whatever the objects and the stages  *)
(* of the controller are.  CephStorageProofs and OvnControllersProofs rest *)
(* on these lemmas.                                                        *)
(***************************************************************************)

\* A step that concerns no object but x.
Only(x) == \A y \in Object \ {x} :
  obj'[y] = obj[y] /\ cache'[y] = cache[y] /\ pass'[y] = pass[y]

-----------------------------------------------------------------------------
(* Effects                                                                 *)

\* Ending a pass makes it idle.
LEMMA EndEffect ==
  ASSUME NEW S, NEW F, NEW H, pass \in Passes(S, F, H), "idle" \in S, None \in H,
         NEW x \in Object, End(x)
  PROVE  /\ pass' \in Passes(S, F, H)
         /\ pass'[x] = Idle
         /\ \A y \in Object \ {x} : pass'[y] = pass[y]
<1>1. Idle \in [at: S, copy: F \cup {None}, fresh: BOOLEAN, missing: BOOLEAN, handle: H]
  BY DEF Idle
<1>2. QED
  BY <1>1 DEF End, Passes

\* The process ends, and every pass with it.
LEMMA CrashEffect ==
  ASSUME NEW S, NEW F, NEW H, "idle" \in S, None \in H, Crash
  PROVE  /\ pass' \in Passes(S, F, H)
         /\ \A y \in Object : pass'[y] = Idle /\ cache'[y] = Current
         /\ cache' \in Caches(F)
         /\ obj' = obj
<1>1. Idle \in [at: S, copy: F \cup {None}, fresh: BOOLEAN, missing: BOOLEAN, handle: H]
  BY DEF Idle
<1>2. Current \in [behind: BOOLEAN, copy: F \cup {None}, fresh: BOOLEAN]
  BY DEF Current
<1>3. QED
  BY <1>1, <1>2 DEF Crash, Passes, Caches

\* The next call of a pass.
LEMMA ContinueEffect ==
  ASSUME NEW S, NEW F, NEW H, pass \in Passes(S, F, H),
         NEW x \in Object, NEW STATE next, next \in S, Continue(x, next)
  PROVE  /\ pass' \in Passes(S, F, H)
         /\ pass'[x] = [pass[x] EXCEPT !.at = next]
         /\ \A y \in Object \ {x} : pass'[y] = pass[y]
<1>1. [pass[x] EXCEPT !.at = next]
        \in [at: S, copy: F \cup {None}, fresh: BOOLEAN, missing: BOOLEAN, handle: H]
  BY DEF Passes
<1>2. QED
  BY <1>1 DEF Continue, Passes

\* A pass takes what the cache has and chooses its function by it.
LEMMA StartEffect ==
  ASSUME NEW S, NEW F, NEW H, pass \in Passes(S, F, H), obj \in [Object -> F \cup {None}],
         cache \in Caches(F), None \in H, "finalizer" \in S,
         NEW x \in Object, NEW remove \in S, Start(x, remove)
  PROVE  /\ pass' \in Passes(S, F, H)
         /\ pass'[x].at = (IF Cached(x).deleted THEN remove ELSE "finalizer")
         /\ pass'[x].copy = Cached(x) /\ ~pass'[x].missing
         /\ pass'[x].fresh = (cache[x].behind => cache[x].fresh)
         /\ pass[x].at = "idle" /\ Cached(x) # None
         /\ \A y \in Object \ {x} : pass'[y] = pass[y]
         /\ UNCHANGED <<obj, cache>>
<1> DEFINE first == IF Cached(x).deleted THEN remove ELSE "finalizer"
           new == [Idle EXCEPT !.at = first, !.copy = Cached(x),
                               !.fresh = cache[x].behind => cache[x].fresh]
<1>1. /\ new \in [at: S, copy: F \cup {None}, fresh: BOOLEAN, missing: BOOLEAN, handle: H]
      /\ new.at = first
      /\ new.copy = Cached(x) /\ ~new.missing
      /\ new.fresh = (cache[x].behind => cache[x].fresh)
  BY DEF Idle, Cached, Caches
<1>2. pass' = [pass EXCEPT ![x] = new] /\ obj' = obj /\ cache' = cache
  BY DEF Start, Take
<1>3. pass[x].at = "idle" /\ Cached(x) # None
  BY DEF Start, Take, At
<1>4. QED
  BY <1>1, <1>2, <1>3 DEF Passes

\* A write: accepted from a fresh copy only, refused and the end of the pass
\* otherwise.
LEMMA WriteEffect ==
  ASSUME NEW S, NEW F, NEW H, pass \in Passes(S, F, H), obj \in [Object -> F \cup {None}],
         cache \in Caches(F), "idle" \in S, None \in H,
         NEW x \in Object, NEW STATE new, NEW STATE next, new \in F \cup {None}, next \in S,
         Write(x, new, next)
  PROVE  /\ pass' \in Passes(S, F, H)
         /\ obj' \in [Object -> F \cup {None}]
         /\ cache' \in Caches(F)
         /\ Only(x)
         /\ cache'[x].behind = cache[x].behind /\ cache'[x].copy = cache[x].copy
         /\ pass[x].fresh =>
              /\ obj'[x] = new
              /\ cache'[x].fresh = (cache[x].fresh /\ new = obj[x])
              /\ IF next = "idle" THEN pass'[x] = Idle
                 ELSE /\ pass'[x].at = next /\ pass'[x].copy = new
                      /\ pass'[x].fresh = (new = obj[x])
                      /\ (pass'[x].missing => pass[x].missing)
         /\ ~pass[x].fresh => obj' = obj /\ cache' = cache /\ pass'[x] = Idle
<1>1. CASE pass[x].fresh
  <2> DEFINE r == IF next = "idle" THEN Idle
                  ELSE [pass[x] EXCEPT !.at = next, !.copy = new, !.fresh = (new = obj[x])]
  <2>1. /\ r \in [at: S, copy: F \cup {None}, fresh: BOOLEAN, missing: BOOLEAN, handle: H]
        /\ next # "idle" => r.at = next /\ r.copy = new /\ r.fresh = (new = obj[x])
                            /\ (r.missing => pass[x].missing)
    BY DEF Idle, Passes
  <2>2. pass' = [pass EXCEPT ![x] = r]
    BY <1>1 DEF Write, Passes
  <2>3. /\ obj' = [obj EXCEPT ![x] = new]
        /\ \A y \in Object \ {x} : cache'[y] = cache[y]
        /\ cache'[x].behind = cache[x].behind /\ cache'[x].copy = cache[x].copy
        /\ cache'[x].fresh = (cache[x].fresh /\ new = obj[x])
        /\ cache' \in Caches(F)
    <3>1. CASE new = obj[x]
      BY <1>1, <3>1 DEF Write, Caches
    <3>2. CASE new # obj[x]
      <4>1. obj' = [obj EXCEPT ![x] = new] /\ cache' = [cache EXCEPT ![x].fresh = FALSE]
        BY <1>1, <3>2 DEF Write, Store
      <4>2. QED
        BY <3>2, <4>1 DEF Caches
    <3>3. QED
      BY <3>1, <3>2
  <2>4. pass'[x] = r /\ obj'[x] = new
    BY <2>1, <2>2, <2>3 DEF Passes
  <2>5. pass' \in Passes(S, F, H) /\ \A y \in Object \ {x} : pass'[y] = pass[y]
    BY <2>1, <2>2 DEF Passes
  <2>6. QED
    BY <1>1, <2>1, <2>3, <2>4, <2>5 DEF Only
<1>2. CASE ~pass[x].fresh
  <2>1. End(x) /\ obj' = obj /\ cache' = cache
    BY <1>2 DEF Write
  <2>2. QED
    BY <1>2, <2>1, EndEffect DEF Only
<1>3. QED
  BY <1>1, <1>2

\* A change by someone else makes what is read stale, and nothing more.
LEMMA ChangeEffect ==
  ASSUME NEW S, NEW F, NEW H, pass \in Passes(S, F, H), obj \in [Object -> F \cup {None}],
         cache \in Caches(F), NEW x \in Object, NEW STATE new, new \in F \cup {None},
         Change(x, new)
  PROVE  /\ pass' \in Passes(S, F, H)
         /\ obj' \in [Object -> F \cup {None}]
         /\ cache' \in Caches(F)
         /\ Only(x)
         /\ obj'[x] = new
         /\ pass'[x] = [pass[x] EXCEPT !.fresh = FALSE]
         /\ cache'[x] = [cache[x] EXCEPT !.fresh = FALSE]
<1>1. [pass[x] EXCEPT !.fresh = FALSE]
        \in [at: S, copy: F \cup {None}, fresh: BOOLEAN, missing: BOOLEAN, handle: H]
  BY DEF Passes
<1>2. [cache[x] EXCEPT !.fresh = FALSE]
        \in [behind: BOOLEAN, copy: F \cup {None}, fresh: BOOLEAN]
  BY DEF Caches
<1>3. QED
  BY <1>1, <1>2 DEF Change, Store, Passes, Caches, Only

-----------------------------------------------------------------------------
(* Objects with a finalizer                                                *)

\* The two fields that every object has can be set, and nothing else changes.
Finalizable(F) ==
  /\ None \notin F
  /\ \A o \in F :
       /\ o.finalizer \in BOOLEAN /\ o.deleted \in BOOLEAN
       /\ [o EXCEPT !.finalizer = TRUE] \in F
       /\ [o EXCEPT !.finalizer = TRUE].finalizer = TRUE
       /\ [o EXCEPT !.finalizer = TRUE].deleted = o.deleted
       /\ [o EXCEPT !.finalizer = FALSE] \in F
       /\ [o EXCEPT !.finalizer = FALSE].finalizer = FALSE
       /\ [o EXCEPT !.finalizer = FALSE].deleted = o.deleted
       /\ [o EXCEPT !.deleted = TRUE] \in F
       /\ [o EXCEPT !.deleted = TRUE].deleted = TRUE
       /\ [o EXCEPT !.deleted = TRUE].finalizer = o.finalizer

\* The stages of a controller: `finalizer` is the first of update_fn, and no
\* stage belongs to both functions.
Stages(S, U, R) ==
  /\ S = {"idle", "finalizer"} \cup U \cup R
  /\ "unfinalize" \in R
  /\ U \cap R = {}
  /\ {"idle", "finalizer"} \cap (U \cup R) = {}

Typed(S, F, H) ==
  pass \in Passes(S, F, H) /\ obj \in [Object -> F \cup {None}] /\ cache \in Caches(F)

\* A step that changes neither an object nor what the cache has of it, and
\* starts no pass from it.
LEMMA CacheKept ==
  ASSUME NEW x \in Object, CacheInv(x), obj'[x] = obj[x], cache'[x] = cache[x],
         pass'[x].fresh => pass[x].fresh
  PROVE  CacheInv(x)'
BY DEF CacheInv, Claimed, Deleted

\* An idle pass knows nothing that could be wrong.
LEMMA IdleInv ==
  ASSUME NEW S, NEW U, NEW R, Stages(S, U, R), NEW x \in Object, pass'[x] = Idle, CacheInv(x)'
  PROVE  PassInv(x, U, R)'
<1>1. pass'[x].at = "idle" /\ pass'[x].fresh = FALSE
  BY DEF Idle
<1>2. QED
  BY <1>1 DEF PassInv, At, Stages

\* A step that concerns x alone can break what is known of x only.
LEMMA OnlyInv ==
  ASSUME NEW U, NEW R, NEW x \in Object, Only(x),
         \A y \in Object : PassInv(y, U, R),
         PassInv(x, U, R)'
  PROVE  \A y \in Object : PassInv(y, U, R)'
BY DEF Only, PassInv, CacheInv, At, Claimed, Deleted

\* A pass that starts knows what is true of the object, however old its copy.
LEMMA StartInv ==
  ASSUME NEW S, NEW F, NEW H, NEW U, NEW R, Typed(S, F, H), Finalizable(F), Stages(S, U, R),
         None \in H, NEW x \in Object, NEW remove \in R, PassInv(x, U, R), Start(x, remove)
  PROVE  /\ Typed(S, F, H)'
         /\ Only(x)
         /\ obj' = obj
         /\ PassInv(x, U, R)'
         /\ pass'[x].at \in {"finalizer", remove}
         /\ ~pass'[x].missing
<1>1. /\ pass' \in Passes(S, F, H)
      /\ pass'[x].at = (IF Cached(x).deleted THEN remove ELSE "finalizer")
      /\ pass'[x].copy = Cached(x) /\ ~pass'[x].missing
      /\ pass'[x].fresh = (cache[x].behind => cache[x].fresh)
      /\ Cached(x) # None
      /\ \A y \in Object \ {x} : pass'[y] = pass[y]
      /\ UNCHANGED <<obj, cache>>
  <2>1. "finalizer" \in S /\ remove \in S
    BY DEF Stages
  <2>2. QED
    BY <2>1, StartEffect DEF Typed
<1>2. /\ IF Cached(x).deleted THEN Claimed(x) => Deleted(x)
                              ELSE Cached(x).finalizer => Claimed(x)
      /\ pass'[x].fresh => Cached(x) = obj[x]
      /\ Cached(x) \in F /\ Cached(x).deleted \in BOOLEAN
  <2>1. Cached(x) \in F
    BY <1>1 DEF Cached, Typed, Caches
  <2>2. Cached(x).deleted \in BOOLEAN
    BY <2>1 DEF Finalizable
  <2>3. CASE cache[x].behind
    BY <1>1, <2>1, <2>2, <2>3 DEF PassInv, CacheInv, Cached
  <2>4. CASE ~cache[x].behind
    BY <1>1, <2>1, <2>2, <2>4 DEF Cached, Claimed, Deleted
  <2>5. QED
    BY <2>3, <2>4
<1>3. CacheInv(x)'
  BY <1>1 DEF PassInv, CacheInv, Claimed, Deleted
<1>4. PassInv(x, U, R)'
  BY <1>1, <1>2, <1>3 DEF PassInv, At, Claimed, Deleted, Stages
<1>5. QED
  BY <1>1, <1>4 DEF Typed, Only, Stages

\* Going on within one of the two functions, an object's pass knows what it
\* knew.
LEMMA ContinueInv ==
  ASSUME NEW S, NEW F, NEW H, NEW U, NEW R, Typed(S, F, H), Stages(S, U, R),
         NEW x \in Object, PassInv(x, U, R), UNCHANGED <<obj, cache>>,
         pass' \in Passes(S, F, H),
         \/ pass[x].at \in U /\ pass'[x].at \in U
         \/ pass[x].at \in R /\ pass'[x].at \in R,
         pass'[x].copy = pass[x].copy, pass'[x].fresh = pass[x].fresh,
         \A y \in Object \ {x} : pass'[y] = pass[y]
  PROVE  Typed(S, F, H)' /\ Only(x) /\ PassInv(x, U, R)'
<1>1. CacheInv(x)'
  BY CacheKept DEF PassInv
<1>2. QED
  BY <1>1 DEF Typed, Only, PassInv, At, Claimed, Deleted, Stages

\* ensure_finalizer finds the finalizer, sets it on an object that is stored as
\* the copy is, or ends the pass.
LEMMA EnsureFinalizerInv ==
  ASSUME NEW S, NEW F, NEW H, NEW U, NEW R, Typed(S, F, H), Finalizable(F), Stages(S, U, R),
         None \in H, NEW x \in Object, NEW next \in U, PassInv(x, U, R),
         EnsureFinalizer(x, next)
  PROVE  /\ Typed(S, F, H)'
         /\ Only(x)
         /\ PassInv(x, U, R)'
         /\ pass[x].at = "finalizer"
         /\ pass'[x].at \in {"idle", next}
         /\ pass'[x].missing => pass[x].missing
         /\ \/ obj' = obj
            \/ /\ obj[x] \in F /\ ~obj[x].finalizer /\ ~obj[x].deleted
               /\ obj'[x] \in F /\ obj'[x].finalizer /\ ~obj'[x].deleted
<1>1. At(x, "finalizer") /\ pass[x].copy \in F /\ ~pass[x].copy.deleted
  BY DEF EnsureFinalizer, PassInv, Typed, Passes, At
<1>2. CASE pass[x].copy.finalizer
  <2>1. Continue(x, next) /\ UNCHANGED <<obj, cache>>
    BY <1>2 DEF EnsureFinalizer
  <2>2. /\ pass' \in Passes(S, F, H)
        /\ pass'[x] = [pass[x] EXCEPT !.at = next]
        /\ \A y \in Object \ {x} : pass'[y] = pass[y]
    BY <2>1, ContinueEffect DEF Typed, Stages
  <2>3. /\ pass'[x].at = next /\ pass'[x].copy = pass[x].copy
        /\ pass'[x].fresh = pass[x].fresh /\ (pass'[x].missing => pass[x].missing)
    BY <2>2 DEF Typed, Passes
  <2>4. Claimed(x)
    BY <1>1, <1>2 DEF PassInv, At
  <2>5. CacheInv(x)'
    BY <2>1, <2>3, CacheKept DEF PassInv
  <2>6. PassInv(x, U, R)'
    BY <1>1, <2>1, <2>3, <2>4, <2>5 DEF PassInv, At, Claimed, Stages
  <2>7. QED
    BY <1>1, <2>1, <2>2, <2>3, <2>6 DEF Typed, Only, At
<1>3. CASE ~pass[x].copy.finalizer
  <2> DEFINE new == [pass[x].copy EXCEPT !.finalizer = TRUE]
  <2>1. Write(x, new, next)
    BY <1>3 DEF EnsureFinalizer
  <2>2. new \in F /\ new.finalizer = TRUE /\ new.deleted = pass[x].copy.deleted /\ new # None
    <3>1. new \in F /\ new.finalizer = TRUE /\ new.deleted = pass[x].copy.deleted
      BY <1>1, Zenon DEF Finalizable
    <3>2. QED
      BY <3>1 DEF Finalizable
  <2> HIDE DEF new
  <2>3. /\ Typed(S, F, H)'
        /\ Only(x)
        /\ pass[x].fresh => /\ obj'[x] = new /\ pass'[x].at = next /\ pass'[x].copy = new
                            /\ (pass'[x].missing => pass[x].missing)
                            /\ pass'[x].fresh = (new = obj[x])
                            /\ cache'[x].fresh = (cache[x].fresh /\ new = obj[x])
        /\ cache'[x].behind = cache[x].behind /\ cache'[x].copy = cache[x].copy
        /\ ~pass[x].fresh => obj' = obj /\ cache' = cache /\ pass'[x] = Idle
    <3>1. "idle" \in S /\ next \in S /\ next # "idle"
      BY DEF Stages
    <3>2. QED
      BY <2>1, <2>2, <3>1, WriteEffect DEF Typed
  <2>4. CASE pass[x].fresh
    <3>1. obj[x] = pass[x].copy
      BY <2>4 DEF PassInv
    <3>2. CacheInv(x)'
      <4>1. cache[x].behind => cache[x].fresh /\ cache[x].copy = pass[x].copy
        BY <2>4, <3>1 DEF PassInv, CacheInv
      <4>2. new # obj[x]
        BY <1>3, <2>2, <3>1
      <4>3. ~pass'[x].fresh /\ ~cache'[x].fresh
        BY <2>3, <2>4, <4>2
      <4>4. QED
        BY <1>1, <1>3, <2>3, <4>1, <4>3 DEF PassInv, CacheInv
    <3>3. PassInv(x, U, R)'
      BY <2>2, <2>3, <2>4, <3>2 DEF PassInv, At, Claimed, Stages
    <3>4. QED
      BY <1>1, <1>3, <2>2, <2>3, <2>4, <3>1, <3>3 DEF At
  <2>5. CASE ~pass[x].fresh
    <3>1. pass'[x] = Idle /\ pass'[x].at = "idle" /\ ~pass'[x].missing
      BY <2>3, <2>5 DEF Idle
    <3>2. ~pass'[x].fresh
      BY <2>3, <2>5 DEF Idle
    <3>3. CacheInv(x)'
      BY <2>3, <2>5, <3>2, CacheKept DEF PassInv
    <3>4. QED
      BY <1>1, <2>3, <2>5, <3>1, <3>3, IdleInv DEF At
  <2>6. QED
    BY <2>4, <2>5
<1>4. QED
  BY <1>2, <1>3

\* remove_finalizer takes the finalizer from an object that is being deleted,
\* or changes nothing; either way it is the last call of the pass.
LEMMA RemoveFinalizerInv ==
  ASSUME NEW S, NEW F, NEW H, NEW U, NEW R, Typed(S, F, H), Finalizable(F), Stages(S, U, R),
         None \in H, NEW x \in Object, PassInv(x, U, R), RemoveFinalizer(x)
  PROVE  /\ Typed(S, F, H)'
         /\ Only(x)
         /\ PassInv(x, U, R)'
         /\ pass[x].at = "unfinalize"
         /\ pass'[x].at = "idle" /\ ~pass'[x].missing
         /\ \/ obj' = obj
            \/ /\ obj[x] \in F /\ obj[x].finalizer /\ obj[x].deleted
               /\ obj'[x] \in F /\ ~obj'[x].finalizer /\ obj'[x].deleted
<1>1. pass[x].at = "unfinalize" /\ pass[x].copy \in F /\ pass[x].copy.deleted
  BY DEF RemoveFinalizer, PassInv, Typed, Passes, At, Stages
<1>2. CASE ~pass[x].copy.finalizer
  <2>1. End(x) /\ UNCHANGED <<obj, cache>>
    BY <1>2 DEF RemoveFinalizer
  <2>2. pass' \in Passes(S, F, H) /\ pass'[x] = Idle /\ \A y \in Object \ {x} : pass'[y] = pass[y]
    BY <2>1, EndEffect DEF Typed, Stages
  <2>3. pass'[x].at = "idle" /\ ~pass'[x].missing /\ ~pass'[x].fresh
    BY <2>2 DEF Idle
  <2>4. CacheInv(x)'
    BY <2>1, <2>3, CacheKept DEF PassInv
  <2>5. QED
    BY <1>1, <2>1, <2>2, <2>3, <2>4, IdleInv DEF Typed, Only
<1>3. CASE pass[x].copy.finalizer
  <2> DEFINE new == [pass[x].copy EXCEPT !.finalizer = FALSE]
  <2>1. Write(x, new, "idle")
    BY <1>3 DEF RemoveFinalizer
  <2>2. new \in F /\ new.finalizer = FALSE /\ new.deleted = pass[x].copy.deleted
    BY <1>1, Zenon DEF Finalizable
  <2> HIDE DEF new
  <2>3. /\ Typed(S, F, H)'
        /\ Only(x)
        /\ pass'[x] = Idle
        /\ pass[x].fresh => /\ obj'[x] = new
                            /\ cache'[x].fresh = (cache[x].fresh /\ new = obj[x])
        /\ cache'[x].behind = cache[x].behind /\ cache'[x].copy = cache[x].copy
        /\ ~pass[x].fresh => obj' = obj /\ cache' = cache
    <3>1. "idle" \in S
      BY DEF Stages
    <3>2. QED
      BY <2>1, <2>2, <3>1, WriteEffect DEF Typed
  <2>4. pass'[x].at = "idle" /\ ~pass'[x].missing /\ ~pass'[x].fresh
    BY <2>3 DEF Idle
  <2>5. pass[x].fresh => obj[x] = pass[x].copy
    BY DEF PassInv
  <2>6. PassInv(x, U, R)'
    <3>1. CASE pass[x].fresh
      <4>1. cache[x].behind => cache[x].copy = pass[x].copy
        BY <2>5, <3>1 DEF PassInv, CacheInv
      <4>2. ~cache'[x].fresh /\ ~Claimed(x)'
        BY <1>3, <2>2, <2>3, <2>5, <3>1 DEF Claimed
      <4>3. CacheInv(x)'
        BY <1>1, <2>3, <2>4, <4>1, <4>2 DEF PassInv, CacheInv
      <4>4. QED
        BY <2>3, <4>3, IdleInv
    <3>2. CASE ~pass[x].fresh
      <4>1. CacheInv(x)'
        BY <2>3, <2>4, <3>2, CacheKept DEF PassInv
      <4>2. QED
        BY <2>3, <4>1, IdleInv
    <3>3. QED
      BY <3>1, <3>2
  <2>7. QED
    BY <1>1, <1>3, <2>2, <2>3, <2>4, <2>5, <2>6
<1>4. QED
  BY <1>2, <1>3

-----------------------------------------------------------------------------
(* Events                                                                  *)

\* What a change by someone else may do to an object: nothing that takes the
\* finalizer from it or its deletion back.
Benign(x, new) ==
  \/ obj[x] # None /\ new # None /\ new.finalizer = obj[x].finalizer
     /\ (obj[x].deleted => new.deleted)
  \/ obj[x] = None /\ new # None /\ ~new.finalizer
  \/ new = None /\ ~Claimed(x)

\* After such a change the pass still knows what it knew.
LEMMA ChangeInv ==
  ASSUME NEW S, NEW F, NEW H, NEW U, NEW R, Typed(S, F, H), Finalizable(F), Stages(S, U, R),
         NEW x \in Object, NEW STATE new, new \in F \cup {None}, PassInv(x, U, R),
         Benign(x, new), Change(x, new)
  PROVE  /\ Typed(S, F, H)'
         /\ Only(x)
         /\ PassInv(x, U, R)'
         /\ obj'[x] = new
         /\ pass'[x].at = pass[x].at /\ ~pass'[x].fresh
         /\ (pass'[x].missing => pass[x].missing) /\ pass'[x].handle = pass[x].handle
<1>1. /\ Typed(S, F, H)'
      /\ Only(x)
      /\ obj'[x] = new
      /\ pass'[x] = [pass[x] EXCEPT !.fresh = FALSE]
      /\ cache'[x] = [cache[x] EXCEPT !.fresh = FALSE]
  BY ChangeEffect DEF Typed
<1>2. /\ pass'[x].at = pass[x].at /\ pass'[x].copy = pass[x].copy /\ pass'[x].fresh = FALSE
      /\ (pass'[x].missing => pass[x].missing) /\ pass'[x].handle = pass[x].handle
  BY <1>1 DEF Typed, Passes
<1>3. cache'[x].behind = cache[x].behind /\ cache'[x].copy = cache[x].copy
      /\ cache'[x].fresh = FALSE
  BY <1>1 DEF Typed, Caches
<1>4. CacheInv(x)'
  BY <1>1, <1>2, <1>3 DEF PassInv, CacheInv, Claimed, Deleted, Benign
<1>5. PassInv(x, U, R)'
  BY <1>1, <1>2, <1>4 DEF PassInv, At, Claimed, Deleted, Stages, Benign
<1>6. QED
  BY <1>1, <1>2, <1>5

\* A deletion is such a change,
LEMMA DeleteInv ==
  ASSUME NEW S, NEW F, NEW H, NEW U, NEW R, Typed(S, F, H), Finalizable(F), Stages(S, U, R),
         NEW x \in Object, PassInv(x, U, R), Delete(x)
  PROVE  /\ Typed(S, F, H)'
         /\ Only(x)
         /\ PassInv(x, U, R)'
         /\ obj[x] \in F /\ ~obj[x].deleted
         /\ obj'[x] \in F /\ obj'[x].deleted /\ obj'[x].finalizer = obj[x].finalizer
         /\ pass'[x].at = pass[x].at /\ ~pass'[x].fresh
         /\ (pass'[x].missing => pass[x].missing) /\ pass'[x].handle = pass[x].handle
<1> DEFINE new == [obj[x] EXCEPT !.deleted = TRUE]
<1>1. obj[x] \in F /\ ~obj[x].deleted /\ Change(x, new)
  BY DEF Delete, Alive, Typed
<1>2. new \in F /\ new.finalizer = obj[x].finalizer /\ new.deleted = TRUE /\ new # None
  <2>1. new \in F /\ new.finalizer = obj[x].finalizer /\ new.deleted = TRUE
    BY <1>1, Zenon DEF Finalizable
  <2>2. QED
    BY <2>1 DEF Finalizable
<1> HIDE DEF new
<1>3. Benign(x, new)
  BY <1>1, <1>2 DEF Benign, Finalizable
<1>4. QED
  BY <1>1, <1>2, <1>3, ChangeInv

\* ... and so are the creation of an object without finalizers,
LEMMA CreateInv ==
  ASSUME NEW S, NEW F, NEW H, NEW U, NEW R, Typed(S, F, H), Finalizable(F), Stages(S, U, R),
         NEW x \in Object, PassInv(x, U, R), NEW new \in F, ~new.finalizer, Create(x, new)
  PROVE  /\ Typed(S, F, H)'
         /\ Only(x)
         /\ PassInv(x, U, R)'
         /\ obj[x] = None /\ obj'[x] = new
         /\ pass'[x].at = pass[x].at /\ ~pass'[x].fresh
         /\ (pass'[x].missing => pass[x].missing) /\ pass'[x].handle = pass[x].handle
<1>1. Benign(x, new)
  BY DEF Benign, Create, Finalizable
<1>2. QED
  BY <1>1, ChangeInv DEF Create

\* ... a write to other parts of the object,
LEMMA ForeignInv ==
  ASSUME NEW S, NEW F, NEW H, NEW U, NEW R, Typed(S, F, H), Finalizable(F), Stages(S, U, R),
         NEW x \in Object, PassInv(x, U, R), Foreign(x)
  PROVE  /\ Typed(S, F, H)'
         /\ Only(x)
         /\ PassInv(x, U, R)'
         /\ obj' = obj
         /\ pass'[x].at = pass[x].at /\ ~pass'[x].fresh
         /\ (pass'[x].missing => pass[x].missing) /\ pass'[x].handle = pass[x].handle
<1>1. Benign(x, obj[x]) /\ obj[x] \in F \cup {None} /\ Change(x, obj[x])
  BY DEF Benign, Foreign, Typed
<1>2. obj' = obj
  BY <1>1 DEF Change, Store, Typed
<1>3. QED
  BY <1>1, <1>2, ChangeInv

\* ... and the removal of a deleted object without finalizers.
LEMMA ReapInv ==
  ASSUME NEW S, NEW F, NEW H, NEW U, NEW R, Typed(S, F, H), Finalizable(F), Stages(S, U, R),
         NEW x \in Object, PassInv(x, U, R), Reap(x)
  PROVE  /\ Typed(S, F, H)'
         /\ Only(x)
         /\ PassInv(x, U, R)'
         /\ obj[x] \in F /\ obj[x].deleted /\ ~obj[x].finalizer /\ obj'[x] = None
         /\ pass'[x].at = pass[x].at /\ ~pass'[x].fresh
         /\ (pass'[x].missing => pass[x].missing) /\ pass'[x].handle = pass[x].handle
<1>1. Benign(x, None) /\ Change(x, None)
  BY DEF Benign, Reap
<1>2. QED
  BY <1>1, ChangeInv DEF Reap, Deleted, Claimed, Typed

\* A pass may end at any call.
LEMMA EndInv ==
  ASSUME NEW S, NEW F, NEW H, NEW U, NEW R, Typed(S, F, H), Stages(S, U, R),
         None \in H, NEW x \in Object, PassInv(x, U, R), End(x), UNCHANGED <<obj, cache>>
  PROVE  /\ Typed(S, F, H)'
         /\ Only(x)
         /\ PassInv(x, U, R)'
         /\ pass'[x] = Idle
         /\ pass'[x].at = "idle" /\ ~pass'[x].missing
<1>1. /\ pass' \in Passes(S, F, H)
      /\ pass'[x] = Idle
      /\ \A y \in Object \ {x} : pass'[y] = pass[y]
  BY EndEffect DEF Typed, Stages
<1>2. pass'[x].at = "idle" /\ ~pass'[x].missing /\ ~pass'[x].fresh
  BY <1>1 DEF Idle
<1>3. CacheInv(x)'
  BY <1>2, CacheKept DEF PassInv
<1>4. QED
  BY <1>1, <1>2, <1>3, IdleInv DEF Typed, Only

\* The cache falls behind, and catches up again.
LEMMA CacheStep ==
  ASSUME NEW S, NEW F, NEW H, NEW U, NEW R, Typed(S, F, H), NEW x \in Object,
         PassInv(x, U, R), FallBehind(x) \/ CatchUp(x)
  PROVE  /\ Typed(S, F, H)'
         /\ Only(x)
         /\ PassInv(x, U, R)'
         /\ obj' = obj /\ pass' = pass
<1>1. CASE FallBehind(x)
  <2> DEFINE new == [behind |-> TRUE, copy |-> obj[x], fresh |-> TRUE]
  <2>1. /\ obj' = obj /\ pass' = pass /\ cache' = [cache EXCEPT ![x] = new]
        /\ obj[x] # None
    BY <1>1 DEF FallBehind
  <2>2. new \in [behind: BOOLEAN, copy: F \cup {None}, fresh: BOOLEAN]
    BY DEF Typed
  <2>3. cache' \in Caches(F) /\ cache'[x] = new /\ \A y \in Object \ {x} : cache'[y] = cache[y]
    BY <2>1, <2>2 DEF Typed, Caches
  <2>4. CacheInv(x)'
    BY <2>1, <2>3 DEF CacheInv, Claimed, Deleted
  <2>5. QED
    BY <2>1, <2>3, <2>4 DEF Typed, Only, PassInv, At, Claimed, Deleted
<1>2. CASE CatchUp(x)
  <2>1. obj' = obj /\ pass' = pass /\ cache' = [cache EXCEPT ![x] = Current]
    BY <1>2 DEF CatchUp
  <2>2. Current \in [behind: BOOLEAN, copy: F \cup {None}, fresh: BOOLEAN]
    BY DEF Current
  <2>3. cache' \in Caches(F) /\ cache'[x] = Current
        /\ \A y \in Object \ {x} : cache'[y] = cache[y]
    BY <2>1, <2>2 DEF Typed, Caches
  <2>4. CacheInv(x)'
    BY <2>1, <2>3 DEF CacheInv, Current
  <2>5. QED
    BY <2>1, <2>3, <2>4 DEF Typed, Only, PassInv, At, Claimed, Deleted
<1>3. QED
  BY <1>1, <1>2

\* The process may end at any call.
LEMMA CrashInv ==
  ASSUME NEW S, NEW F, NEW H, NEW U, NEW R, Typed(S, F, H), Stages(S, U, R),
         None \in H, Crash
  PROVE  /\ Typed(S, F, H)'
         /\ \A x \in Object : /\ PassInv(x, U, R)' /\ pass'[x] = Idle
                              /\ pass'[x].at = "idle" /\ ~pass'[x].missing
         /\ obj' = obj
<1>1. /\ pass' \in Passes(S, F, H)
      /\ \A y \in Object : pass'[y] = Idle /\ cache'[y] = Current
      /\ cache' \in Caches(F)
      /\ obj' = obj
  BY CrashEffect DEF Stages
<1>2. \A x \in Object : pass'[x].at = "idle" /\ ~pass'[x].missing
  BY <1>1 DEF Idle
<1>3. \A x \in Object : CacheInv(x)'
  BY <1>1 DEF CacheInv, Current
<1>4. QED
  BY <1>1, <1>2, <1>3, IdleInv DEF Typed

-----------------------------------------------------------------------------
(* What FinalizedResource sees                                             *)

\* Setting one field of what FinalizedResource sees of an object.
LEMMA ClaimUpdate ==
  ASSUME NEW r \in [claimed: BOOLEAN, deleted: BOOLEAN]
  PROVE  /\ [r EXCEPT !.deleted = TRUE] = [claimed |-> r.claimed, deleted |-> TRUE]
         /\ [r EXCEPT !.claimed = FALSE] = [claimed |-> FALSE, deleted |-> r.deleted]
<1>1. ASSUME NEW a \in [claimed: BOOLEAN, deleted: BOOLEAN],
             NEW b \in [claimed: BOOLEAN, deleted: BOOLEAN],
             a.claimed = b.claimed, a.deleted = b.deleted
      PROVE  a = b
  BY <1>1
<1>2. /\ [r EXCEPT !.deleted = TRUE] \in [claimed: BOOLEAN, deleted: BOOLEAN]
      /\ [r EXCEPT !.deleted = TRUE].claimed = r.claimed
      /\ [r EXCEPT !.deleted = TRUE].deleted = TRUE
  OBVIOUS
<1>3. /\ [claimed |-> r.claimed, deleted |-> TRUE] \in [claimed: BOOLEAN, deleted: BOOLEAN]
      /\ [claimed |-> r.claimed, deleted |-> TRUE].claimed = r.claimed
      /\ [claimed |-> r.claimed, deleted |-> TRUE].deleted = TRUE
  OBVIOUS
<1>4. /\ [r EXCEPT !.claimed = FALSE] \in [claimed: BOOLEAN, deleted: BOOLEAN]
      /\ [r EXCEPT !.claimed = FALSE].claimed = FALSE
      /\ [r EXCEPT !.claimed = FALSE].deleted = r.deleted
  OBVIOUS
<1>5. /\ [claimed |-> FALSE, deleted |-> r.deleted] \in [claimed: BOOLEAN, deleted: BOOLEAN]
      /\ [claimed |-> FALSE, deleted |-> r.deleted].claimed = FALSE
      /\ [claimed |-> FALSE, deleted |-> r.deleted].deleted = r.deleted
  OBVIOUS
<1>6. [r EXCEPT !.deleted = TRUE] = [claimed |-> r.claimed, deleted |-> TRUE]
  BY <1>1, <1>2, <1>3, Zenon
<1>7. [r EXCEPT !.claimed = FALSE] = [claimed |-> FALSE, deleted |-> r.deleted]
  BY <1>1, <1>4, <1>5, Zenon
<1>8. QED
  BY <1>6, <1>7

=============================================================================
