--------------------------- MODULE HostAgentProofs ---------------------------
EXTENDS HostAgent, FiniteSetTheorems, TLAPS

(***************************************************************************)
(* The proof that the host agents keep HostInv, for any nodes and any      *)
(* budget of the environment; with it that they implement VmInstance, that *)
(* announced moves leave one instance, and that the object outlives the    *)
(* domain of a VM that was not moved.                                      *)
(*                                                                         *)
(* Every step is one of few kinds: what happens to the object and its      *)
(* copies (Step) is separate from what happens to domains and locks, so    *)
(* that each part of HostInv is proved once for each kind.                 *)
(***************************************************************************)

-----------------------------------------------------------------------------
(* Effects                                                                 *)

LEMMA IdleType == Idle \in Pass /\ Idle.at = "idle" /\ Idle.copy = None /\ Idle.fresh = FALSE
BY DEF Idle, Pass, Stage

\* The pass of n ends.
LEMMA IdleEffect ==
  ASSUME TypeOK, NEW n \in Node, pass' = [pass EXCEPT ![n] = Idle]
  PROVE  /\ pass' \in [Node -> Pass]
         /\ pass'[n] = Idle
         /\ \A m \in Node \ {n} : pass'[m] = pass[m]
BY IdleType DEF TypeOK

\* The pass of n goes on to its next call.
LEMMA ContinueEffect ==
  ASSUME TypeOK, NEW n \in Node, NEW next \in Stage, Continue(n, next)
  PROVE  /\ pass' \in [Node -> Pass]
         /\ pass'[n].at = next
         /\ pass'[n].copy = pass[n].copy
         /\ pass'[n].fresh = pass[n].fresh
         /\ \A m \in Node \ {n} : pass'[m] = pass[m]
<1> DEFINE r == [pass[n] EXCEPT !.at = next]
<1>1. r \in Pass /\ r.at = next /\ r.copy = pass[n].copy /\ r.fresh = pass[n].fresh
  BY DEF TypeOK, Pass
<1>2. pass' = [pass EXCEPT ![n] = r]
  BY DEF Continue
<1>3. pass'[n] = r
  BY <1>2 DEF TypeOK
<1>4. QED
  BY <1>1, <1>2, <1>3 DEF TypeOK

\* The object changes, and the copies in the caches are out of date.
LEMMA ReplaceEffect ==
  ASSUME TypeOK, NEW STATE new, Replace(new)
  PROVE  /\ obj' = new
         /\ cache' \in [Node -> [copy: Object \cup {None}, fresh: BOOLEAN]]
         /\ \A m \in Node : cache'[m].copy = cache[m].copy /\ cache'[m].fresh = FALSE
BY DEF TypeOK, Replace

\* Every pass has an outdated copy.
LEMMA OutdatedEffect ==
  ASSUME TypeOK
  PROVE  /\ Outdated \in [Node -> Pass]
         /\ \A m \in Node : /\ Outdated[m].at = pass[m].at
                            /\ Outdated[m].copy = pass[m].copy
                            /\ Outdated[m].fresh = FALSE
BY DEF TypeOK, Outdated, Pass

-----------------------------------------------------------------------------
(* Steps                                                                   *)

CacheEntry == [copy: Object \cup {None}, fresh: BOOLEAN]

\* What all steps have in common: every copy is one that was there or the
\* object, a fresh one is the object, and only the pass of n, if any, goes on.
Step(n) ==
  /\ obj' \in Object \cup {None}
  /\ cache' \in [Node -> CacheEntry]
  /\ pass' \in [Node -> Pass]
  /\ \A m \in Node :
       /\ cache'[m].copy \in {cache[m].copy, obj'}
       /\ cache'[m].fresh => cache'[m].copy = obj'
       /\ pass'[m].copy \in {pass[m].copy, cache[m].copy, obj', None}
       /\ pass'[m].fresh => pass'[m].at # "idle" /\ pass'[m].copy = obj'
       /\ m # n => pass'[m].at = pass[m].at /\ pass'[m].copy = pass[m].copy

\* Nothing happens to the object, its copies and the passes.
LEMMA StutterStep ==
  ASSUME TypeOK, CopyInv, NEW n, UNCHANGED <<obj, cache, pass>>
  PROVE  Step(n)
BY DEF TypeOK, CopyInv, Step, CacheEntry

\* The pass of n ends.
LEMMA IdleStep ==
  ASSUME TypeOK, CopyInv, NEW n \in Node, UNCHANGED <<obj, cache>>,
         pass' = [pass EXCEPT ![n] = Idle]
  PROVE  Step(n) /\ pass'[n].at = "idle"
<1>1. /\ pass' \in [Node -> Pass] /\ pass'[n] = Idle
      /\ \A m \in Node \ {n} : pass'[m] = pass[m]
  BY IdleEffect
<1>2. QED
  BY <1>1, IdleType DEF TypeOK, CopyInv, Step, CacheEntry

\* The pass of n goes on to its next call.
LEMMA ContinueStep ==
  ASSUME TypeOK, CopyInv, NEW n \in Node, NEW next \in Stage \ {"idle"},
         UNCHANGED <<obj, cache>>, Continue(n, next)
  PROVE  Step(n) /\ pass'[n].at = next /\ pass'[n].copy = pass[n].copy
<1>1. /\ pass' \in [Node -> Pass] /\ pass'[n].at = next /\ pass'[n].copy = pass[n].copy
      /\ pass'[n].fresh = pass[n].fresh
      /\ \A m \in Node \ {n} : pass'[m] = pass[m]
  BY ContinueEffect
<1>2. QED
  BY <1>1 DEF TypeOK, CopyInv, Step, CacheEntry

\* The cache of n is brought up to date, and its pass goes on or ends.
LEMMA CacheStep ==
  ASSUME TypeOK, CopyInv, NEW n \in Node, obj' = obj,
         cache' = [cache EXCEPT ![n] = [copy |-> obj, fresh |-> TRUE]],
         pass' = pass \/ pass' = [pass EXCEPT ![n] = Idle]
  PROVE  Step(n) /\ (pass' = pass \/ pass'[n].at = "idle")
<1>1. /\ cache' \in [Node -> CacheEntry] /\ cache'[n].copy = obj
      /\ \A m \in Node \ {n} : cache'[m] = cache[m]
  BY DEF TypeOK, CacheEntry
<1>2. CASE pass' = pass
  BY <1>1, <1>2 DEF TypeOK, CopyInv, Step, CacheEntry
<1>3. CASE pass' = [pass EXCEPT ![n] = Idle]
  <2>1. /\ pass' \in [Node -> Pass] /\ pass'[n] = Idle
        /\ \A m \in Node \ {n} : pass'[m] = pass[m]
    BY <1>3, IdleEffect
  <2>2. QED
    BY <1>1, <2>1, IdleType DEF TypeOK, CopyInv, Step, CacheEntry
<1>4. QED
  BY <1>2, <1>3

\* Someone else writes the object.
LEMMA ForeignStep ==
  ASSUME TypeOK, NEW STATE new, new \in Object \cup {None}, NEW n, ForeignReplace(new)
  PROVE  /\ Step(n) /\ obj' = new
         /\ \A m \in Node : /\ pass'[m].at = pass[m].at
                            /\ pass'[m].copy = pass[m].copy
                            /\ cache'[m].copy = cache[m].copy
<1>1. /\ obj' = new /\ cache' \in [Node -> CacheEntry]
      /\ \A m \in Node : cache'[m].copy = cache[m].copy /\ cache'[m].fresh = FALSE
  BY ReplaceEffect DEF ForeignReplace, CacheEntry
<1>2. pass' = Outdated
  BY DEF ForeignReplace
<1>3. QED
  BY <1>1, <1>2, OutdatedEffect DEF Step

\* The pass of n writes the object: refused and ended, or the new object is
\* stored and the pass goes on with it.
LEMMA WriteStep ==
  ASSUME TypeOK, CopyInv, NEW n \in Node, NEW STATE new, new \in Object,
         NEW STATE next, next \in Stage, pass[n].at # "idle", Write(n, new, next)
  PROVE  /\ Step(n)
         /\ \A m \in Node : cache'[m].copy = cache[m].copy
         /\ \/ ~pass[n].fresh /\ obj' = obj /\ pass'[n].at = "idle"
            \/ /\ pass[n].fresh /\ pass[n].copy = obj /\ obj' = new
               /\ pass'[n].at = next
               /\ next # "idle" => pass'[n].copy = new
<1>1. CASE ~pass[n].fresh
  <2>1. UNCHANGED <<obj, cache>> /\ pass' = [pass EXCEPT ![n] = Idle]
    BY <1>1 DEF Write
  <2>2. QED
    BY <1>1, <2>1, IdleStep
<1>2. CASE pass[n].fresh
  <2> DEFINE old == IF new = obj THEN pass ELSE Outdated
             r == IF next = "idle" THEN Idle ELSE [old[n] EXCEPT !.at = next, !.copy = new]
  <2>1. pass' = [old EXCEPT ![n] = r]
    BY <1>2 DEF Write
  <2>2. /\ old \in [Node -> Pass]
        /\ \A m \in Node : /\ old[m].at = pass[m].at /\ old[m].copy = pass[m].copy
                           /\ old[m].fresh => new = obj /\ pass[m].fresh
    BY OutdatedEffect DEF TypeOK
  <2>3. /\ r \in Pass
        /\ next = "idle" => r = Idle
        /\ next # "idle" => r.at = next /\ r.copy = new /\ r.fresh = old[n].fresh
    BY <2>2, IdleType DEF Pass
  <2> HIDE DEF old, r
  <2>4. /\ pass' \in [Node -> Pass] /\ pass'[n] = r
        /\ \A m \in Node \ {n} : pass'[m] = old[m]
    BY <2>1, <2>2, <2>3
  <2>5. /\ obj' = new /\ cache' \in [Node -> CacheEntry]
        /\ \A m \in Node : /\ cache'[m].copy = cache[m].copy
                           /\ cache'[m].fresh => new = obj /\ cache[m].fresh
    <3>1. CASE new = obj
      <4>1. obj' = obj /\ cache' = cache
        BY <1>2, <3>1 DEF Write
      <4>2. QED
        BY <3>1, <4>1 DEF TypeOK, CacheEntry
    <3>2. CASE new # obj
      <4>1. Replace(new)
        BY <1>2, <3>2 DEF Write
      <4>2. QED
        BY <4>1, ReplaceEffect DEF CacheEntry
    <3>3. QED
      BY <3>1, <3>2
  <2>6. pass[n].copy = obj
    BY <1>2 DEF CopyInv
  <2>7. pass'[n].at = next /\ (next # "idle" => pass'[n].copy = new)
    BY <2>3, <2>4, IdleType
  <2>8. Step(n)
    BY <2>2, <2>3, <2>4, <2>5, IdleType DEF TypeOK, CopyInv, Step
  <2>9. QED
    BY <1>2, <2>5, <2>6, <2>7, <2>8
<1>3. QED
  BY <1>1, <1>2

\* No copy comes from elsewhere.
LEMMA CopiesStep ==
  ASSUME NEW n, Step(n)
  PROVE  Copies' \subseteq Copies \cup {obj'}
BY DEF Step, Copies

LEMMA CopiesType ==
  ASSUME TypeOK
  PROVE  Copies \subseteq Object
BY DEF TypeOK, Copies, Pass

-----------------------------------------------------------------------------
(* The parts of the invariant, over any step                               *)

\* An object is not created again, taken off the nodes or undeleted.
Grows ==
  obj' # None => /\ obj # None
                 /\ obj.node # None => obj'.node # None
                 /\ obj.deleted => obj'.deleted

LEMMA CopyKept ==
  ASSUME TypeOK, CopyInv, NEW n, Step(n), Grows
  PROVE  CopyInv'
<1>1. \A m \in Node : /\ cache'[m].fresh => cache'[m].copy = obj'
                      /\ pass'[m].fresh => pass'[m].at # "idle" /\ pass'[m].copy = obj'
  BY DEF Step
<1>2. ASSUME obj' # None, NEW o \in Copies'
      PROVE  (o.node # None => obj'.node # None) /\ (o.deleted => obj'.deleted)
  <2>1. o \in Copies \/ o = obj'
    BY CopiesStep
  <2>2. QED
    BY <1>2, <2>1 DEF CopyInv, Grows
<1>3. QED
  BY <1>1, <1>2 DEF CopyInv

LEMMA StageKept ==
  ASSUME StageInv, NEW n, Step(n), n \in Node => StageAt(n)'
  PROVE  StageInv'
<1>1. ASSUME NEW m \in Node, m # n
      PROVE  StageAt(m)'
  BY <1>1 DEF Step, StageInv, StageAt, At
<1>2. QED
  BY <1>1 DEF StageInv

LEMMA UnmovedKept ==
  ASSUME TypeOK, CopyInv, StageInv, UnmovedInv, NEW n, Step(n), Grows,
         migration' = None,
         obj' # None => \A o \in Copies : SamePlace(obj', o),
         \A m \in Node \ {n} :
           /\ HasDomain(m)' => HasDomain(m)
           /\ obj # None /\ obj.node = m /\ obj.finalizer
                => obj' # None /\ obj'.node = m /\ obj'.finalizer,
         n \in Node => UnmovedAt(n)'
  PROVE  UnmovedInv'
<1>1. ASSUME NEW o \in Copies', NEW q \in Copies'
      PROVE  SamePlace(o, q)
  <2>1. (o \in Copies \/ o = obj') /\ (q \in Copies \/ q = obj') /\ o # None /\ q # None
    BY CopiesStep DEF Copies
  <2>2. QED
    BY <2>1 DEF UnmovedInv, SamePlace
<1>2. ASSUME NEW m \in Node, m # n
      PROVE  UnmovedAt(m)'
  <2>1. UnmovedAt(m) /\ StageAt(m)
    BY DEF UnmovedInv, StageInv
  <2>2. /\ pass'[m].at = pass[m].at /\ pass'[m].copy = pass[m].copy
        /\ cache'[m].copy = cache[m].copy \/ cache'[m].copy = obj'
    BY <1>2 DEF Step
  <2>3. /\ HasDomain(m)' => HasDomain(m)
        /\ obj # None /\ obj.node = m /\ obj.finalizer
             => obj' # None /\ obj'.node = m /\ obj'.finalizer
    BY <1>2
  <2>4. ~At(m, "migrate")'
    BY <2>1, <2>2 DEF UnmovedAt, At
  <2>5. HasDomain(m)' \/ pass'[m].at \in {"check", "create"}
          => obj' # None /\ obj'.node = m /\ obj'.finalizer
    BY <2>1, <2>2, <2>3 DEF UnmovedAt
  <2>6. ASSUME NEW o \in Copies, Claims(m, o), obj # None, obj.finalizer
        PROVE  obj' # None /\ obj'.finalizer
    <3>1. obj \in Copies /\ SamePlace(o, obj) /\ obj.node # None
      BY <2>6, NoneAssumption DEF Copies, UnmovedInv, CopyInv, Claims
    <3>2. obj.node = m
      BY <2>6, <3>1, NoneAssumption DEF SamePlace, Claims
    <3>3. QED
      BY <2>3, <2>6, <3>2
  <2>7. Claims(m, cache'[m].copy) => obj' # None /\ obj'.finalizer
    <3>1. CASE cache'[m].copy = obj'
      BY <3>1 DEF Claims
    <3>2. CASE cache'[m].copy = cache[m].copy /\ Claims(m, cache[m].copy)
      <4>1. cache[m].copy \in Copies
        BY <3>2 DEF Claims, Copies
      <4>2. QED
        BY <2>1, <2>6, <3>2, <4>1 DEF UnmovedAt
    <3>3. QED
      BY <2>2, <3>1, <3>2
  <2>8. At(m, "finalizer")' /\ Claims(m, pass'[m].copy) => obj' # None /\ obj'.finalizer
    <3>1. SUFFICES ASSUME At(m, "finalizer"), Claims(m, pass[m].copy)
                   PROVE  obj' # None /\ obj'.finalizer
      BY <2>2 DEF At
    <3>2. pass[m].copy \in Copies
      BY <3>1 DEF Claims, Copies
    <3>3. QED
      BY <2>1, <2>6, <3>1, <3>2 DEF UnmovedAt
  <2>9. pass'[m].at \in {"destroy", "unfinalize"}
          => cache'[m].copy = None \/ cache'[m].copy.deleted
    <3>1. SUFFICES ASSUME pass[m].at \in {"destroy", "unfinalize"},
                          cache'[m].copy = obj', obj' # None
                   PROVE  obj'.deleted
      BY <2>1, <2>2 DEF UnmovedAt
    <3>2. pass[m].copy \in Copies /\ pass[m].copy.deleted
      BY <2>1, <3>1, NoneAssumption DEF StageAt, Copies
    <3>3. QED
      BY <3>1, <3>2 DEF CopyInv, Grows
  <2>10. At(m, "unfinalize")' => ~HasDomain(m)'
    BY <2>1, <2>2, <2>3 DEF UnmovedAt, At
  <2>11. QED
    BY <2>4, <2>5, <2>7, <2>8, <2>9, <2>10 DEF UnmovedAt
<1>3. QED
  BY <1>1, <1>2 DEF UnmovedInv

LEMMA AnnouncedKept ==
  ASSUME TypeOK, AnnouncedInv, NEW n, Step(n),
         obj' # None /\ ~obj'.deleted,
         locks' = {} => locks = {},
         locks = {} => \A o \in Copies : ~obj'.pending /\ ~o.pending => SamePlace(obj', o),
         n \in Node => /\ At(n, "clear")' => locks' # {}
                       /\ At(n, "create")' => locks' = {},
         \A m \in Node \ {n} : At(m, "create") => locks' = {},
         \A m, k \in Node : domain'[m] = "running" /\ domain'[k] = "running" => m = k
  PROVE  AnnouncedInv'
<1>1. ASSUME locks' = {}, NEW o \in Copies', NEW q \in Copies', ~o.pending, ~q.pending
      PROVE  SamePlace(o, q)
  <2>1. (o \in Copies \/ o = obj') /\ (q \in Copies \/ q = obj')
    BY CopiesStep
  <2>2. QED
    BY <1>1, <2>1 DEF AnnouncedInv, SamePlace
<1>2. ASSUME NEW m \in Node
      PROVE  (locks' = {} => ~At(m, "clear")') /\ (At(m, "create")' => locks' = {})
  <2>1. CASE m = n
    BY <2>1
  <2>2. CASE m # n
    <3>1. pass'[m].at = pass[m].at
      BY <2>2 DEF Step
    <3>2. QED
      BY <2>2, <3>1 DEF AnnouncedInv, At
  <2>3. QED
    BY <2>1, <2>2
<1>3. QED
  BY <1>1, <1>2 DEF AnnouncedInv

-----------------------------------------------------------------------------
(* The whole invariant, by kind of step                                    *)

Unmoved == Without({"move", "rebalance"})
Announced == Without({"rebalance", "stop", "delete"})

\* Events are spent, never earned.
Spending ==
  budget' \in [EnvEvent -> Nat] /\ \A e \in EnvEvent : budget'[e] <= budget[e]

LEMMA SpendEffect ==
  ASSUME TypeOK, NEW e \in EnvEvent, Spend(e)
  PROVE  Spending /\ budget'[e] # Budget[e]
<1>1. /\ budget' = [budget EXCEPT ![e] = budget[e] - 1]
      /\ budget[e] > 0 /\ budget \in [EnvEvent -> Nat] /\ budget[e] <= Budget[e]
      /\ Budget[e] \in Nat
  BY BudgetAssumption DEF Spend, TypeOK
<1>2. QED
  BY <1>1 DEF Spending

LEMMA NothingSpent ==
  ASSUME TypeOK, UNCHANGED budget
  PROVE  Spending
BY DEF TypeOK, Spending

\* What has not happened by now had not happened before.
LEMMA WithoutBefore ==
  ASSUME TypeOK, Spending, NEW E, E \subseteq EnvEvent, Without(E)'
  PROVE  Without(E)
<1>1. ASSUME NEW e \in E
      PROVE  budget[e] = Budget[e]
  <2>1. budget'[e] = Budget[e]
    BY DEF Without
  <2>2. /\ budget'[e] <= budget[e] /\ budget[e] <= Budget[e]
        /\ budget[e] \in Nat /\ Budget[e] \in Nat
    BY BudgetAssumption DEF TypeOK, Spending
  <2>3. QED
    BY <2>1, <2>2
<1>2. QED
  BY <1>1 DEF Without

\* A step keeps the invariant if it keeps each part.
LEMMA HostStep ==
  ASSUME HostInv, NEW n, Step(n), Grows, Spending, due' \subseteq Node,
         domain' \in [Node -> Domain], locks' \subseteq Node,
         migration' \in [from: Node, to: Node] \cup {None},
         DomainInv', n \in Node => StageAt(n)',
         Unmoved' /\ UnmovedInv => UnmovedInv',
         Announced' /\ AnnouncedInv => AnnouncedInv'
  PROVE  HostInv'
<1>1. TypeOK'
  <2>1. \A e \in EnvEvent : budget'[e] <= Budget[e]
    BY BudgetAssumption DEF HostInv, TypeOK, Spending
  <2>2. QED
    BY <2>1 DEF TypeOK, Step, CacheEntry, Spending
<1>2. CopyInv' /\ StageInv'
  BY CopyKept, StageKept DEF HostInv
<1>3. Unmoved' => Unmoved
  BY WithoutBefore DEF HostInv, Unmoved, EnvEvent
<1>4. Announced' => Announced
  BY WithoutBefore DEF HostInv, Announced, EnvEvent
<1>5. QED
  BY <1>1, <1>2, <1>3, <1>4 DEF HostInv, Unmoved, Announced

\* The objects a step may store while the VM has not been moved: ...
UnmovedStore(n) ==
  /\ obj' # None => \A o \in Copies : SamePlace(obj', o)
  /\ \A m \in Node \ {n} :
       obj # None /\ obj.node = m /\ obj.finalizer
         => obj' # None /\ obj'.node = m /\ obj'.finalizer

\* ... and while its moves have been announced.
AnnouncedStore ==
  /\ obj' # None /\ ~obj'.deleted
  /\ locks = {} => \A o \in Copies : ~obj'.pending /\ ~o.pending => SamePlace(obj', o)

\* A step that leaves the domains alone.
LEMMA ObjectStep ==
  ASSUME HostInv, NEW n, Step(n), Grows, Spending, due' \subseteq Node,
         UNCHANGED <<domain, locks, migration>>,
         n \in Node => StageAt(n)',
         Unmoved' /\ UnmovedInv => UnmovedStore(n) /\ (n \in Node => UnmovedAt(n)'),
         Announced' /\ AnnouncedInv =>
           /\ AnnouncedStore
           /\ n \in Node => /\ At(n, "clear")' => locks # {}
                            /\ At(n, "create")' => locks = {}
  PROVE  HostInv'
<1>1. /\ domain' \in [Node -> Domain] /\ locks' \subseteq Node
      /\ migration' \in [from: Node, to: Node] \cup {None}
  BY DEF HostInv, TypeOK
<1>2. DomainInv'
  BY DEF HostInv, DomainInv
<1>3. ASSUME Unmoved', UnmovedInv
      PROVE  UnmovedInv'
  <2>1. migration' = None /\ \A m \in Node : HasDomain(m)' => HasDomain(m)
    BY <1>3 DEF UnmovedInv, HasDomain
  <2>2. QED
    BY <1>3, <2>1, UnmovedKept DEF HostInv, UnmovedStore
<1>4. ASSUME Announced', AnnouncedInv
      PROVE  AnnouncedInv'
  <2>1. /\ \A m \in Node \ {n} : At(m, "create") => locks' = {}
        /\ \A m, k \in Node : domain'[m] = "running" /\ domain'[k] = "running" => m = k
        /\ locks' = locks
    BY <1>4 DEF AnnouncedInv
  <2>2. QED
    BY <1>4, <2>1, AnnouncedKept DEF HostInv, AnnouncedStore
<1>5. QED
  BY <1>1, <1>2, <1>3, <1>4, HostStep

\* The object stays as it is.
LEMMA SameStore ==
  ASSUME HostInv, obj' = obj, NEW n
  PROVE  /\ Grows
         /\ UnmovedInv => UnmovedStore(n)
         /\ AnnouncedInv => AnnouncedStore
<1>1. Grows
  BY DEF Grows
<1>2. obj # None => obj \in Copies
  BY DEF Copies
<1>3. UnmovedInv => UnmovedStore(n)
  BY <1>2 DEF UnmovedInv, UnmovedStore
<1>4. AnnouncedInv => AnnouncedStore
  BY <1>2 DEF AnnouncedInv, AnnouncedStore
<1>5. QED
  BY <1>1, <1>3, <1>4

\* A step of the pass of n that leaves the object and the domains alone.
LEMMA PassStep ==
  ASSUME HostInv, NEW n \in Node, Step(n), obj' = obj, Spending, due' \subseteq Node,
         UNCHANGED <<domain, locks, migration>>,
         StageAt(n)', UnmovedInv => UnmovedAt(n)',
         AnnouncedInv => /\ At(n, "clear")' => locks # {}
                         /\ At(n, "create")' => locks = {}
  PROVE  HostInv'
BY SameStore, ObjectStep

\* What an idle agent knows: nothing but its cache, which is the old one or the
\* object.
LEMMA IdleAt ==
  ASSUME HostInv, NEW n \in Node, Step(n), obj' = obj, pass'[n].at = "idle",
         HasDomain(n)' => HasDomain(n)
  PROVE  /\ StageAt(n)'
         /\ UnmovedInv => UnmovedAt(n)'
         /\ ~At(n, "clear")' /\ ~At(n, "create")'
<1>1. StageAt(n)'
  BY DEF StageAt, At
<1>2. cache'[n].copy = cache[n].copy \/ cache'[n].copy = obj
  BY DEF Step
<1>3. ASSUME UnmovedInv
      PROVE  UnmovedAt(n)'
  BY <1>2, <1>3 DEF UnmovedInv, UnmovedAt, Claims, At
<1>4. QED
  BY <1>1, <1>3 DEF At

\* A pass ends and changes nothing else.
LEMMA EndStep ==
  ASSUME HostInv, NEW n \in Node, Step(n), obj' = obj, pass'[n].at = "idle", Spending,
         due' \subseteq Node, UNCHANGED <<domain, locks, migration>>
  PROVE  HostInv'
BY IdleAt, PassStep DEF HasDomain

-----------------------------------------------------------------------------
(* The invariant, action by action                                         *)

LEMMA SyncKeeps ==
  ASSUME HostInv, NEW n \in Node, Sync(n)
  PROVE  HostInv'
<1>1. Step(n) /\ obj' = obj /\ pass' = pass
  BY CacheStep DEF Sync, HostInv
<1>2. /\ Spending /\ due' \subseteq Node /\ UNCHANGED <<domain, locks, migration>>
  BY NothingSpent DEF Sync, HostInv, TypeOK
<1>3. StageAt(n)'
  BY <1>1 DEF HostInv, StageInv, StageAt, At
<1>4. ASSUME UnmovedInv
      PROVE  UnmovedAt(n)'
  <2>1. cache'[n].copy = obj
    BY DEF Sync, HostInv, TypeOK
  <2>2. StageAt(n) /\ UnmovedAt(n)
    BY <1>4 DEF HostInv, StageInv, UnmovedInv
  <2>3. pass[n].at \in {"destroy", "unfinalize"} /\ obj # None => obj.deleted
    <3>1. SUFFICES ASSUME pass[n].at \in {"destroy", "unfinalize"}, obj # None
                   PROVE  obj.deleted
      OBVIOUS
    <3>2. pass[n].copy \in Copies /\ pass[n].copy.deleted
      BY <2>2, <3>1, NoneAssumption DEF StageAt, Copies
    <3>3. QED
      BY <3>1, <3>2 DEF HostInv, CopyInv
  <2>4. QED
    BY <1>1, <1>2, <2>1, <2>2, <2>3 DEF UnmovedAt, Claims, At, HasDomain
<1>5. AnnouncedInv => /\ At(n, "clear")' => locks # {}
                      /\ At(n, "create")' => locks = {}
  BY <1>1 DEF AnnouncedInv, At
<1>6. QED
  BY <1>1, <1>2, <1>3, <1>4, <1>5, PassStep

LEMMA BeginKeeps ==
  ASSUME HostInv, NEW n \in Node, Begin(n)
  PROVE  HostInv'
<1> DEFINE o == cache[n].copy
           r == [at |-> FirstCall(n, o), copy |-> o, fresh |-> cache[n].fresh]
<1>1. /\ UNCHANGED <<obj, cache, domain, locks, migration>> /\ At(n, "idle")
      /\ Spending /\ due' \subseteq Node
  BY NothingSpent DEF Begin, HostInv, TypeOK
<1>2. CASE pass' = pass
  <2>1. Step(n) /\ obj' = obj /\ pass'[n].at = "idle"
    BY <1>1, <1>2, StutterStep DEF HostInv, At
  <2>2. QED
    BY <1>1, <2>1, EndStep
<1>3. CASE pass' # pass
  <2>1. /\ o # None /\ FirstCall(n, o) # "idle"
        /\ pass' = [pass EXCEPT ![n] = r]
    BY <1>3 DEF Begin
  <2>2. /\ o \in Object
        /\ FirstCall(n, o) \in {"active", "migrate", "destroy", "finalizer"}
        /\ FirstCall(n, o) = "finalizer" => o.node = n /\ ~o.pending /\ ~o.deleted
        /\ FirstCall(n, o) = "migrate" => o.node \in Node \ {n} /\ HasDomain(n)
        /\ FirstCall(n, o) = "destroy" => o.node = n /\ o.deleted
    BY <2>1 DEF FirstCall, HostInv, TypeOK, Object
  <2>3. r \in Pass /\ r.at = FirstCall(n, o) /\ r.copy = o /\ r.fresh = cache[n].fresh
    BY <2>2 DEF HostInv, TypeOK, Pass, Stage
  <2> HIDE DEF r
  <2>4. /\ pass' \in [Node -> Pass] /\ pass'[n] = r
        /\ \A m \in Node \ {n} : pass'[m] = pass[m]
    BY <2>1, <2>3 DEF HostInv, TypeOK
  <2>5. Step(n)
    BY <1>1, <2>1, <2>2, <2>3, <2>4 DEF HostInv, TypeOK, CopyInv, Step, CacheEntry
  <2>6. pass'[n].at = FirstCall(n, o) /\ pass'[n].copy = o /\ cache'[n].copy = o /\ obj' = obj
    BY <1>1, <2>3, <2>4
  <2>7. StageAt(n)'
    BY <2>2, <2>6 DEF StageAt, At
  <2>8. ASSUME UnmovedInv
        PROVE  UnmovedAt(n)'
    <3>1. UnmovedAt(n)
      BY <2>8 DEF UnmovedInv
    <3>2. FirstCall(n, o) # "migrate"
      <4>1. SUFFICES ASSUME FirstCall(n, o) = "migrate"
                     PROVE  FALSE
        OBVIOUS
      <4>2. obj # None /\ obj.node = n /\ o.node \in Node \ {n}
        BY <2>2, <3>1, <4>1 DEF UnmovedAt
      <4>3. SamePlace(obj, o)
        BY <2>1, <2>8, <4>2 DEF UnmovedInv, Copies
      <4>4. QED
        BY <4>2, <4>3, NoneAssumption DEF SamePlace
    <3>3. HasDomain(n)' = HasDomain(n)
      BY <1>1 DEF HasDomain
    <3>4. QED
      BY <2>2, <2>6, <3>1, <3>2, <3>3 DEF UnmovedAt, At
  <2>9. ~At(n, "clear")' /\ ~At(n, "create")'
    BY <2>2, <2>6 DEF At
  <2>10. QED
    BY <1>1, <2>5, <2>7, <2>8, <2>9, PassStep
<1>4. QED
  BY <1>2, <1>3

\* The pass of n goes on with the copy it has.
LEMMA GoOn ==
  ASSUME HostInv, NEW n \in Node, NEW next \in Stage \ {"idle"}, UNCHANGED <<obj, cache>>,
         Continue(n, next)
  PROVE  /\ Step(n) /\ obj' = obj /\ cache'[n].copy = cache[n].copy
         /\ pass'[n].at = next /\ pass'[n].copy = pass[n].copy
BY ContinueStep DEF HostInv

\* An agent that has its finalizer checks the volumes.
LEMMA ToCheck ==
  ASSUME HostInv, NEW n \in Node, At(n, "finalizer"), pass[n].copy.finalizer,
         UNCHANGED <<obj, cache, domain, locks, migration>>, Spending, due' \subseteq Node,
         Continue(n, "check")
  PROVE  HostInv'
<1>1. /\ Step(n) /\ obj' = obj /\ cache'[n].copy = cache[n].copy
      /\ pass'[n].at = "check" /\ pass'[n].copy = pass[n].copy
  BY GoOn DEF Stage
<1>2. StageAt(n)
  BY DEF HostInv, StageInv
<1>3. StageAt(n)'
  BY <1>1, <1>2 DEF StageAt, At
<1>4. ASSUME UnmovedInv
      PROVE  UnmovedAt(n)'
  <2>1. UnmovedAt(n)
    BY <1>4 DEF UnmovedInv
  <2>2. Claims(n, pass[n].copy)
    BY <1>2, NoneAssumption DEF StageAt, Claims, At
  <2>3. obj # None /\ obj.finalizer
    BY <2>1, <2>2 DEF UnmovedAt
  <2>4. obj \in Copies /\ pass[n].copy \in Copies
    BY <2>2, <2>3 DEF Copies, Claims
  <2>5. obj.node = n
    BY <1>4, <2>2, <2>3, <2>4, NoneAssumption
    DEF UnmovedInv, SamePlace, Claims, HostInv, CopyInv
  <2>6. HasDomain(n)' = HasDomain(n)
    BY DEF HasDomain
  <2>7. QED
    BY <1>1, <2>1, <2>3, <2>5, <2>6 DEF UnmovedAt, At
<1>5. ~At(n, "clear")' /\ ~At(n, "create")'
  BY <1>1 DEF At
<1>6. QED
  BY <1>1, <1>3, <1>4, <1>5, PassStep

\* An agent writes the object from a fresh copy, and leaves its place, its
\* deletion and its finalizer as they are.
LEMMA OwnWrite ==
  ASSUME HostInv, NEW n \in Node, Step(n), Spending, due' \subseteq Node,
         UNCHANGED <<domain, locks, migration>>,
         obj \in Object, obj' \in Object, obj'.node = obj.node,
         obj'.deleted = obj.deleted, obj.finalizer => obj'.finalizer,
         AnnouncedInv /\ locks = {} => obj'.pending = obj.pending,
         StageAt(n)', UnmovedInv => UnmovedAt(n)',
         ~At(n, "clear")', ~At(n, "create")'
  PROVE  HostInv'
<1>1. obj # None /\ obj' # None /\ obj \in Copies
  BY NoneAssumption DEF Copies
<1>2. Grows
  BY <1>1 DEF Grows
<1>3. UnmovedInv => UnmovedStore(n)
  BY <1>1 DEF UnmovedInv, UnmovedStore, SamePlace
<1>4. AnnouncedInv => AnnouncedStore
  BY <1>1 DEF AnnouncedInv, AnnouncedStore, SamePlace
<1>5. QED
  BY <1>2, <1>3, <1>4, ObjectStep

\* Such a write ends the pass.
LEMMA LastWrite ==
  ASSUME HostInv, NEW n \in Node, NEW STATE new, new \in Object, pass[n].at # "idle",
         Write(n, new, "idle"), Spending, due' \subseteq Node,
         UNCHANGED <<domain, locks, migration>>,
         new.node = pass[n].copy.node, new.deleted = pass[n].copy.deleted,
         pass[n].copy.finalizer => new.finalizer,
         AnnouncedInv /\ locks = {} => new.pending = pass[n].copy.pending
  PROVE  HostInv'
<1>1. /\ Step(n) /\ pass'[n].at = "idle" /\ cache'[n].copy = cache[n].copy
      /\ obj' = obj \/ (pass[n].copy = obj /\ obj' = new)
  BY WriteStep DEF HostInv, Stage
<1>2. CASE obj' = obj
  BY <1>1, <1>2, EndStep
<1>3. CASE pass[n].copy = obj /\ obj' = new
  <2>1. obj \in Object
    BY <1>3 DEF HostInv, StageInv, StageAt
  <2>2. StageAt(n)' /\ ~At(n, "clear")' /\ ~At(n, "create")'
    BY <1>1 DEF StageAt, At
  <2>3. ASSUME UnmovedInv
        PROVE  UnmovedAt(n)'
    <3>1. UnmovedAt(n) /\ obj' # None /\ obj # None
      BY <1>3, <2>1, <2>3, NoneAssumption DEF UnmovedInv
    <3>2. HasDomain(n)' = HasDomain(n)
      BY DEF HasDomain
    <3>3. /\ ~At(n, "migrate")' /\ ~At(n, "unfinalize")' /\ ~At(n, "finalizer")'
          /\ pass'[n].at \notin {"check", "create", "destroy", "unfinalize"}
      BY <1>1 DEF At
    <3>4. HasDomain(n) => obj'.node = n /\ obj'.finalizer
      BY <1>3, <3>1 DEF UnmovedAt
    <3>5. Claims(n, cache'[n].copy) => obj'.finalizer
      BY <1>1, <1>3, <3>1 DEF UnmovedAt
    <3>6. QED
      BY <3>1, <3>2, <3>3, <3>4, <3>5 DEF UnmovedAt
  <2>4. QED
    BY <1>1, <1>3, <2>1, <2>2, <2>3, OwnWrite
<1>4. QED
  BY <1>1, <1>2, <1>3

LEMMA EnsureFinalizerKeeps ==
  ASSUME HostInv, NEW n \in Node, EnsureFinalizer(n)
  PROVE  HostInv'
<1> DEFINE o == pass[n].copy
           new == [o EXCEPT !.finalizer = TRUE]
<1>1. /\ At(n, "finalizer") /\ UNCHANGED <<domain, locks, migration>> /\ Spending
      /\ due' \subseteq Node
  BY NothingSpent DEF EnsureFinalizer, Requeue, HostInv, TypeOK
<1>2. o \in Object /\ StageAt(n) /\ pass[n].at = "finalizer"
  BY <1>1 DEF HostInv, StageInv, StageAt, At
<1>3. /\ new \in Object /\ new.node = o.node /\ new.deleted = o.deleted
      /\ new.pending = o.pending /\ new.powerOn = o.powerOn
  BY <1>2 DEF Object
<1>4. new.finalizer
  BY <1>2 DEF Object
<1>5. CASE o.finalizer
  <2>1. /\ UNCHANGED <<obj, cache>>
        /\ \/ Continue(n, "check")
           \/ pass' = [pass EXCEPT ![n] = Idle]
    BY <1>5 DEF EnsureFinalizer, Requeue
  <2>2. CASE Continue(n, "check")
    BY <1>1, <1>5, <2>1, <2>2, ToCheck
  <2>3. CASE pass' = [pass EXCEPT ![n] = Idle]
    BY <1>1, <2>1, <2>3, IdleStep, EndStep DEF HostInv
  <2>4. QED
    BY <2>1, <2>2, <2>3
<1> HIDE DEF new
<1>6. CASE ~o.finalizer /\ ~new.powerOn
  <2>1. Write(n, new, "idle")
    BY <1>6 DEF EnsureFinalizer, new
  <2>2. QED
    BY <1>1, <1>2, <1>3, <1>4, <2>1, LastWrite
<1>7. CASE ~o.finalizer /\ new.powerOn
  <2>1. Write(n, new, "check")
    BY <1>7 DEF EnsureFinalizer, new
  <2>2. /\ Step(n) /\ cache'[n].copy = cache[n].copy
        /\ \/ obj' = obj /\ pass'[n].at = "idle"
           \/ o = obj /\ obj' = new /\ pass'[n].at = "check" /\ pass'[n].copy = new
    BY <1>2, <1>3, <2>1, WriteStep DEF HostInv, Stage
  <2>3. CASE obj' = obj /\ pass'[n].at = "idle"
    BY <1>1, <2>2, <2>3, EndStep
  <2>4. CASE o = obj /\ obj' = new /\ pass'[n].at = "check" /\ pass'[n].copy = new
    <3>1. new.node = n /\ ~new.pending /\ ~new.deleted
      BY <1>2, <1>3 DEF StageAt
    <3>2. StageAt(n)' /\ ~At(n, "clear")' /\ ~At(n, "create")'
      BY <1>3, <2>4, <3>1 DEF StageAt, At
    <3>3. UnmovedAt(n)'
      <4>1. obj' # None /\ obj'.node = n /\ obj'.finalizer
        BY <1>3, <1>4, <2>4, <3>1, NoneAssumption
      <4>2. /\ ~At(n, "migrate")' /\ ~At(n, "unfinalize")'
            /\ pass'[n].at \notin {"destroy", "unfinalize"}
        BY <2>4 DEF At
      <4>3. QED
        BY <4>1, <4>2 DEF UnmovedAt
    <3>4. QED
      BY <1>1, <1>2, <1>3, <1>4, <2>2, <2>4, <3>2, <3>3, OwnWrite
  <2>5. QED
    BY <2>2, <2>3, <2>4
<1>8. QED
  BY <1>5, <1>6, <1>7

LEMMA ReportRunningKeeps ==
  ASSUME HostInv, NEW n \in Node, ReportRunning(n)
  PROVE  HostInv'
<1> DEFINE new == [pass[n].copy EXCEPT !.running = TRUE]
<1>1. /\ pass[n].at = "report" /\ UNCHANGED <<domain, locks, migration>> /\ Spending
      /\ due' \subseteq Node /\ Write(n, new, "idle")
  BY NothingSpent DEF ReportRunning, HostInv, TypeOK, At
<1>2. pass[n].copy \in Object
  BY <1>1 DEF HostInv, StageInv, StageAt
<1>3. /\ new \in Object /\ new.node = pass[n].copy.node
      /\ new.deleted = pass[n].copy.deleted /\ new.pending = pass[n].copy.pending
      /\ new.finalizer = pass[n].copy.finalizer
  BY <1>2 DEF Object
<1> HIDE DEF new
<1>4. QED
  BY <1>1, <1>3, LastWrite

LEMMA ClearPendingKeeps ==
  ASSUME HostInv, NEW n \in Node, ClearPending(n)
  PROVE  HostInv'
<1> DEFINE new == [pass[n].copy EXCEPT !.pending = FALSE]
<1>1. /\ pass[n].at = "clear" /\ UNCHANGED <<domain, locks, migration>> /\ Spending
      /\ due' \subseteq Node /\ Write(n, new, "idle")
  BY NothingSpent DEF ClearPending, HostInv, TypeOK, At
<1>2. pass[n].copy \in Object
  BY <1>1 DEF HostInv, StageInv, StageAt
<1>3. /\ new \in Object /\ new.node = pass[n].copy.node
      /\ new.deleted = pass[n].copy.deleted /\ new.finalizer = pass[n].copy.finalizer
  BY <1>2 DEF Object
<1>4. AnnouncedInv => locks # {}
  BY <1>1 DEF AnnouncedInv, At
<1> HIDE DEF new
<1>5. QED
  BY <1>1, <1>3, <1>4, LastWrite

LEMMA CheckVolumesKeeps ==
  ASSUME HostInv, NEW n \in Node, CheckVolumes(n)
  PROVE  HostInv'
<1>1. /\ pass[n].at = "check" /\ UNCHANGED <<obj, cache, domain, locks, migration>>
      /\ Spending /\ due' \subseteq Node
      /\ \/ locks = {} /\ Continue(n, "create")
         \/ pass' = [pass EXCEPT ![n] = Idle]
  BY NothingSpent DEF CheckVolumes, Requeue, HostInv, TypeOK, At
<1>2. CASE pass' = [pass EXCEPT ![n] = Idle]
  BY <1>1, <1>2, IdleStep, EndStep DEF HostInv
<1>3. CASE locks = {} /\ Continue(n, "create")
  <2>1. /\ Step(n) /\ obj' = obj /\ cache'[n].copy = cache[n].copy
        /\ pass'[n].at = "create" /\ pass'[n].copy = pass[n].copy
    BY <1>1, <1>3, GoOn DEF Stage
  <2>2. StageAt(n)'
    BY <1>1, <2>1 DEF HostInv, StageInv, StageAt, At
  <2>3. ASSUME UnmovedInv
        PROVE  UnmovedAt(n)'
    <3>1. UnmovedAt(n) /\ HasDomain(n)' = HasDomain(n)
      BY <1>1, <2>3 DEF UnmovedInv, HasDomain
    <3>2. QED
      BY <1>1, <2>1, <3>1 DEF UnmovedAt, At
  <2>4. ~At(n, "clear")' /\ locks = {}
    BY <1>3, <2>1 DEF At
  <2>5. QED
    BY <1>1, <2>1, <2>2, <2>3, <2>4, PassStep
<1>4. QED
  BY <1>1, <1>2, <1>3

\* While there is a domain, its node or the source of its migration has the
\* lock.
LEMMA DomainLocked ==
  ASSUME HostInv, NEW n \in Node, HasDomain(n)
  PROVE  locks # {}
<1>1. domain[n] \in {"incoming", "running"}
  BY DEF HostInv, TypeOK, Domain, HasDomain
<1>2. QED
  BY <1>1 DEF HostInv, TypeOK, DomainInv

LEMMA CheckActiveKeeps ==
  ASSUME HostInv, NEW n \in Node, CheckActive(n)
  PROVE  HostInv'
<1>1. /\ pass[n].at = "active" /\ UNCHANGED <<obj, cache, domain, locks, migration>>
      /\ Spending /\ due' \subseteq Node
      /\ \/ HasDomain(n) /\ Continue(n, "clear")
         \/ pass' = [pass EXCEPT ![n] = Idle]
  BY NothingSpent DEF CheckActive, Requeue, HostInv, TypeOK, At
<1>2. CASE pass' = [pass EXCEPT ![n] = Idle]
  BY <1>1, <1>2, IdleStep, EndStep DEF HostInv
<1>3. CASE HasDomain(n) /\ Continue(n, "clear")
  <2>1. /\ Step(n) /\ obj' = obj /\ cache'[n].copy = cache[n].copy
        /\ pass'[n].at = "clear" /\ pass'[n].copy = pass[n].copy
    BY <1>1, <1>3, GoOn DEF Stage
  <2>2. StageAt(n)'
    BY <1>1, <2>1 DEF HostInv, StageInv, StageAt, At
  <2>3. ASSUME UnmovedInv
        PROVE  UnmovedAt(n)'
    <3>1. UnmovedAt(n) /\ HasDomain(n)' = HasDomain(n)
      BY <1>1, <2>3 DEF UnmovedInv, HasDomain
    <3>2. QED
      BY <1>1, <2>1, <3>1 DEF UnmovedAt, At
  <2>4. ~At(n, "create")' /\ locks # {}
    BY <1>3, <2>1, DomainLocked DEF At
  <2>5. QED
    BY <1>1, <2>1, <2>2, <2>3, <2>4, PassStep
<1>4. QED
  BY <1>1, <1>2, <1>3

LEMMA AwaitMigrationKeeps ==
  ASSUME HostInv, NEW n \in Node, AwaitMigration(n)
  PROVE  HostInv'
<1>1. /\ UNCHANGED <<obj, cache, domain, locks, migration>>
      /\ Spending /\ due' \subseteq Node /\ pass' = [pass EXCEPT ![n] = Idle]
  BY NothingSpent DEF AwaitMigration, Requeue, HostInv, TypeOK
<1>2. QED
  BY <1>1, IdleStep, EndStep DEF HostInv

LEMMA FaultKeeps ==
  ASSUME HostInv, NEW n \in Node, Fault(n)
  PROVE  HostInv'
<1>1. /\ UNCHANGED <<obj, cache, domain, locks, migration>>
      /\ due' \subseteq Node /\ pass' = [pass EXCEPT ![n] = Idle]
  BY DEF Fault, Requeue, HostInv, TypeOK
<1>2. Spending
  BY SpendEffect DEF Fault, HostInv, EnvEvent
<1>3. QED
  BY <1>1, <1>2, IdleStep, EndStep DEF HostInv

\* An agent that starts again has no pass and the current object.
LEMMA StartAgainStep ==
  ASSUME HostInv, NEW n \in Node, StartAgain(n), obj' = obj
  PROVE  Step(n) /\ pass'[n].at = "idle" /\ due' \subseteq Node
<1>1. due' \subseteq Node
  BY DEF StartAgain, HostInv, TypeOK
<1>2. pass' = [pass EXCEPT ![n] = Idle]
  BY DEF StartAgain
<1>3. pass'[n].at = "idle"
  BY <1>2, IdleEffect, IdleType DEF HostInv
<1>4. QED
  BY <1>1, <1>3, CacheStep DEF StartAgain, HostInv

LEMMA AgentRestartKeeps ==
  ASSUME HostInv, NEW n \in Node, AgentRestart(n)
  PROVE  HostInv'
<1>1. StartAgain(n) /\ UNCHANGED <<obj, domain, locks, migration>>
  BY DEF AgentRestart
<1>2. Spending
  BY SpendEffect DEF AgentRestart, HostInv, EnvEvent
<1>3. QED
  BY <1>1, <1>2, StartAgainStep, EndStep

\* The finalizer goes after the domain, by the agent that knows of the deletion.
LEMMA RemoveFinalizerKeeps ==
  ASSUME HostInv, NEW n \in Node, RemoveFinalizer(n)
  PROVE  HostInv'
<1> DEFINE o == pass[n].copy
           new == [o EXCEPT !.finalizer = FALSE]
<1>1. /\ pass[n].at = "unfinalize" /\ UNCHANGED <<domain, locks, migration>> /\ Spending
      /\ due' \subseteq Node
  BY NothingSpent DEF RemoveFinalizer, EndPass, HostInv, TypeOK, At
<1>2. o \in Object /\ o.node = n /\ o.deleted
  BY <1>1 DEF HostInv, StageInv, StageAt
<1>3. new \in Object /\ new.node = o.node /\ new.deleted = o.deleted
  BY <1>2 DEF Object
<1>4. CASE ~o.finalizer
  BY <1>1, <1>4, IdleStep, EndStep DEF RemoveFinalizer, EndPass, HostInv
<1>5. CASE o.finalizer
  <2>1. Write(n, new, "idle")
    BY <1>5 DEF RemoveFinalizer
  <2> HIDE DEF new
  <2>2. /\ Step(n) /\ pass'[n].at = "idle" /\ cache'[n].copy = cache[n].copy
        /\ obj' = obj \/ (o = obj /\ obj' = new)
    BY <1>1, <1>3, <2>1, WriteStep DEF HostInv, Stage
  <2>3. CASE obj' = obj
    BY <1>1, <2>2, <2>3, EndStep
  <2>4. CASE o = obj /\ obj' = new
    <3>1. /\ obj # None /\ obj' # None /\ obj \in Copies
          /\ obj'.node = n /\ obj'.deleted /\ obj.node = n /\ obj.deleted
      BY <1>2, <1>3, <2>4, NoneAssumption DEF Copies
    <3>2. Grows
      BY <3>1, NoneAssumption DEF Grows
    <3>3. StageAt(n)' /\ ~At(n, "clear")' /\ ~At(n, "create")'
      BY <2>2 DEF StageAt, At
    <3>4. UnmovedInv => UnmovedStore(n)
      BY <3>1 DEF UnmovedInv, UnmovedStore, SamePlace
    <3>5. ASSUME UnmovedInv
          PROVE  UnmovedAt(n)'
      <4>1. UnmovedAt(n) /\ HasDomain(n)' = HasDomain(n)
        BY <1>1, <3>5 DEF UnmovedInv, HasDomain
      <4>2. ~HasDomain(n) /\ (cache[n].copy = None \/ cache[n].copy.deleted)
        BY <1>1, <4>1 DEF UnmovedAt, At
      <4>3. ~Claims(n, cache'[n].copy)
        BY <2>2, <4>2 DEF Claims
      <4>4. QED
        BY <2>2, <4>1, <4>2, <4>3 DEF UnmovedAt, At
    <3>6. ~AnnouncedInv
      BY <3>1 DEF AnnouncedInv
    <3>7. QED
      BY <1>1, <2>2, <3>2, <3>3, <3>4, <3>5, <3>6, ObjectStep
  <2>5. QED
    BY <2>2, <2>3, <2>4
<1>6. QED
  BY <1>4, <1>5

\* A write by someone other than an agent.
LEMMA ForeignKeeps ==
  ASSUME HostInv, NEW STATE new, new \in Object \cup {None}, ForeignReplace(new), Spending,
         obj' = new => Grows,
         Unmoved' /\ UnmovedInv /\ obj' = new => UnmovedStore(None),
         Announced' /\ AnnouncedInv /\ obj' = new => AnnouncedStore
  PROVE  HostInv'
<1>1. Step(None) /\ obj' = new
  BY ForeignStep DEF HostInv
<1>2. UNCHANGED <<due, domain, locks, migration>> /\ due' \subseteq Node
  BY DEF ForeignReplace, HostInv, TypeOK
<1>3. QED
  BY <1>1, <1>2, ObjectStep, NoneAssumption

LEMMA PlaceKeeps ==
  ASSUME HostInv, NEW n \in Node, Place(n)
  PROVE  HostInv'
<1> DEFINE new == [obj EXCEPT !.node = n]
<1>1. /\ obj \in Object /\ obj # None /\ obj.node = None /\ ~obj.deleted
      /\ ForeignReplace(new) /\ Spending
  BY NothingSpent DEF Place, HostInv, TypeOK
<1>2. new \in Object /\ new.node = n /\ new.deleted = obj.deleted
  BY <1>1 DEF Object
<1> HIDE DEF new
<1>3. \A o \in Copies : o.node = None
  BY <1>1 DEF HostInv, CopyInv
<1>4. obj' = new => Grows
  BY <1>1, <1>2 DEF Grows
<1>5. obj' = new => UnmovedStore(None)
  BY <1>1, <1>2, <1>3, NoneAssumption DEF UnmovedStore, SamePlace
<1>6. obj' = new => AnnouncedStore
  BY <1>1, <1>2, <1>3, NoneAssumption DEF AnnouncedStore, SamePlace
<1>7. QED
  BY <1>1, <1>2, <1>4, <1>5, <1>6, ForeignKeeps

LEMMA MoveVmKeeps ==
  ASSUME HostInv, NEW n \in Node, MoveVm(n)
  PROVE  HostInv'
<1> DEFINE new == [obj EXCEPT !.node = n, !.pending = TRUE]
<1>1. /\ obj \in Object /\ obj # None /\ ~obj.deleted /\ ForeignReplace(new)
  BY DEF MoveVm, HostInv, TypeOK
<1>2. Spending /\ ~Unmoved'
  BY SpendEffect DEF MoveVm, HostInv, EnvEvent, Unmoved, Without
<1>3. new \in Object /\ new.node = n /\ new.deleted = obj.deleted /\ new.pending = TRUE
  BY <1>1 DEF Object
<1> HIDE DEF new
<1>4. obj' = new => Grows
  BY <1>1, <1>3, NoneAssumption DEF Grows
<1>5. obj' = new => AnnouncedStore
  BY <1>1, <1>3, NoneAssumption DEF AnnouncedStore
<1>6. QED
  BY <1>1, <1>2, <1>3, <1>4, <1>5, ForeignKeeps

LEMMA RebalanceVmKeeps ==
  ASSUME HostInv, NEW n \in Node, RebalanceVm(n)
  PROVE  HostInv'
<1> DEFINE new == [obj EXCEPT !.node = n]
<1>1. /\ obj \in Object /\ obj # None /\ ~obj.deleted /\ ForeignReplace(new)
  BY DEF RebalanceVm, HostInv, TypeOK
<1>2. Spending /\ ~Unmoved' /\ ~Announced'
  BY SpendEffect DEF RebalanceVm, HostInv, EnvEvent, Unmoved, Announced, Without
<1>3. new \in Object /\ new.node = n /\ new.deleted = obj.deleted
  BY <1>1 DEF Object
<1> HIDE DEF new
<1>4. obj' = new => Grows
  BY <1>1, <1>3, NoneAssumption DEF Grows
<1>5. QED
  BY <1>1, <1>2, <1>3, <1>4, ForeignKeeps

LEMMA DeleteVmKeeps ==
  ASSUME HostInv, DeleteVm
  PROVE  HostInv'
<1> DEFINE new == [obj EXCEPT !.deleted = TRUE]
<1>1. /\ obj \in Object /\ obj # None /\ obj \in Copies /\ ForeignReplace(new)
  BY DEF DeleteVm, HostInv, TypeOK, Copies
<1>2. Spending /\ ~Announced'
  BY SpendEffect DEF DeleteVm, HostInv, EnvEvent, Announced, Without
<1>3. /\ new \in Object /\ new.node = obj.node /\ new.finalizer = obj.finalizer
      /\ new.deleted
  BY <1>1 DEF Object
<1> HIDE DEF new
<1>4. obj' = new => Grows
  BY <1>1, <1>3, NoneAssumption DEF Grows
<1>5. UnmovedInv /\ obj' = new => UnmovedStore(None)
  BY <1>1, <1>3, NoneAssumption DEF UnmovedInv, UnmovedStore, SamePlace
<1>6. QED
  BY <1>1, <1>2, <1>3, <1>4, <1>5, ForeignKeeps

LEMMA ReapKeeps ==
  ASSUME HostInv, Reap
  PROVE  HostInv'
<1>1. /\ obj # None /\ obj.deleted /\ ~obj.finalizer /\ ForeignReplace(None) /\ Spending
  BY NothingSpent DEF Reap, HostInv
<1>2. obj' = None => Grows
  BY DEF Grows
<1>3. obj' = None => UnmovedStore(None)
  BY <1>1 DEF UnmovedStore
<1>4. ~AnnouncedInv
  BY <1>1 DEF AnnouncedInv
<1>5. QED
  BY <1>1, <1>2, <1>3, <1>4, ForeignKeeps

LEMMA ForeignWriteKeeps ==
  ASSUME HostInv, ForeignWrite
  PROVE  HostInv'
<1>1. obj \in Object \cup {None} /\ ForeignReplace(obj)
  BY DEF ForeignWrite, HostInv, TypeOK
<1>2. Spending
  BY SpendEffect DEF ForeignWrite, HostInv, EnvEvent
<1>3. QED
  BY <1>1, <1>2, SameStore, ForeignKeeps

-----------------------------------------------------------------------------
(* ... and the ones that touch the domains                                 *)

LEMMA CreateDomainKeeps ==
  ASSUME HostInv, NEW n \in Node, CreateDomain(n)
  PROVE  HostInv'
<1>1. /\ pass[n].at = "create" /\ UNCHANGED <<obj, cache, migration>>
      /\ Spending /\ due' \subseteq Node
      /\ \/ UNCHANGED <<domain, locks>> /\ pass' = [pass EXCEPT ![n] = Idle]
         \/ /\ ~HasDomain(n) /\ domain' = [domain EXCEPT ![n] = "running"]
            /\ locks' = locks \cup {n} /\ Continue(n, "report")
  BY NothingSpent DEF CreateDomain, Requeue, HostInv, TypeOK, At
<1>2. CASE UNCHANGED <<domain, locks>> /\ pass' = [pass EXCEPT ![n] = Idle]
  BY <1>1, <1>2, IdleStep, EndStep DEF HostInv
<1>3. CASE /\ ~HasDomain(n) /\ domain' = [domain EXCEPT ![n] = "running"]
           /\ locks' = locks \cup {n} /\ Continue(n, "report")
  <2>1. /\ Step(n) /\ obj' = obj /\ cache'[n].copy = cache[n].copy
        /\ pass'[n].at = "report" /\ pass'[n].copy = pass[n].copy
    BY <1>1, <1>3, GoOn DEF Stage
  <2>2. /\ domain' \in [Node -> Domain] /\ domain'[n] = "running" /\ locks' \subseteq Node
        /\ \A m \in Node \ {n} : domain'[m] = domain[m]
    BY <1>3 DEF HostInv, TypeOK, Domain
  <2>3. DomainInv'
    BY <1>1, <1>3, <2>2 DEF HostInv, TypeOK, DomainInv, HasDomain
  <2>4. StageAt(n)'
    BY <1>1, <2>1 DEF HostInv, StageInv, StageAt, At
  <2>5. ASSUME UnmovedInv
        PROVE  UnmovedInv'
    <3>1. UnmovedAt(n)'
      <4>1. UnmovedAt(n)
        BY <2>5 DEF UnmovedInv
      <4>2. QED
        BY <1>1, <2>1, <4>1 DEF UnmovedAt, At
    <3>2. \A m \in Node \ {n} : HasDomain(m)' => HasDomain(m)
      BY <2>2 DEF HasDomain
    <3>3. migration' = None /\ UnmovedStore(n) /\ Grows
      BY <1>1, <2>1, <2>5, SameStore DEF UnmovedInv
    <3>4. QED
      BY <2>1, <2>5, <3>1, <3>2, <3>3, UnmovedKept DEF HostInv, UnmovedStore
  <2>6. ASSUME AnnouncedInv
        PROVE  AnnouncedInv'
    <3>1. locks = {} /\ locks' # {}
      BY <1>1, <1>3, <2>6 DEF AnnouncedInv, At
    <3>2. \A m \in Node : domain[m] # "running"
      BY <3>1 DEF HostInv, DomainInv
    <3>3. ASSUME NEW m \in Node \ {n}
          PROVE  ~At(m, "create")
      <4>1. SUFFICES ASSUME At(m, "create")
                     PROVE  FALSE
        OBVIOUS
      <4>2. StageAt(m) /\ StageAt(n)
        BY DEF HostInv, StageInv
      <4>3. /\ pass[m].copy \in Copies /\ ~pass[m].copy.pending /\ pass[m].copy.node = m
            /\ pass[n].copy \in Copies /\ ~pass[n].copy.pending /\ pass[n].copy.node = n
        BY <1>1, <4>1, <4>2, NoneAssumption DEF StageAt, Copies, At
      <4>4. SamePlace(pass[m].copy, pass[n].copy)
        BY <2>6, <3>1, <4>3 DEF AnnouncedInv
      <4>5. QED
        BY <4>3, <4>4, NoneAssumption DEF SamePlace
    <3>4. ~At(n, "clear")' /\ ~At(n, "create")'
      BY <2>1 DEF At
    <3>5. AnnouncedStore
      BY <2>1, <2>6, SameStore
    <3>6. \A m, k \in Node : domain'[m] = "running" /\ domain'[k] = "running" => m = k
      BY <2>2, <3>2
    <3>7. QED
      BY <2>1, <2>6, <3>1, <3>3, <3>4, <3>5, <3>6, AnnouncedKept DEF HostInv, AnnouncedStore
  <2>7. Grows /\ migration' \in [from: Node, to: Node] \cup {None}
    BY <1>1, <2>1 DEF Grows, HostInv, TypeOK
  <2>8. QED
    BY <1>1, <2>1, <2>2, <2>3, <2>4, <2>5, <2>6, <2>7, HostStep
<1>4. QED
  BY <1>1, <1>2, <1>3

LEMMA StartMigrationKeeps ==
  ASSUME HostInv, NEW n \in Node, StartMigration(n)
  PROVE  HostInv'
<1> DEFINE to == pass[n].copy.node
<1>1. /\ pass[n].at = "migrate" /\ UNCHANGED <<obj, locks>> /\ Spending
      /\ StageAt(n) /\ to \in Node \ {n}
  BY NothingSpent DEF StartMigration, HostInv, StageInv, StageAt, At
<1>2. CASE StartAgain(n) /\ UNCHANGED <<domain, migration>>
  BY <1>1, <1>2, StartAgainStep, EndStep
<1>3. CASE Requeue(n) /\ UNCHANGED <<cache, domain, migration>>
  <2>1. due' \subseteq Node /\ pass' = [pass EXCEPT ![n] = Idle]
    BY <1>3 DEF Requeue, HostInv, TypeOK
  <2>2. QED
    BY <1>1, <1>3, <2>1, IdleStep, EndStep DEF HostInv
<1>4. CASE /\ domain[n] = "running" /\ migration = None /\ ~HasDomain(to)
           /\ domain' = [domain EXCEPT ![to] = "incoming"]
           /\ migration' = [from |-> n, to |-> to]
           /\ Continue(n, "migrating") /\ UNCHANGED <<cache, due>>
  <2>1. /\ Step(n) /\ obj' = obj /\ cache'[n].copy = cache[n].copy
        /\ pass'[n].at = "migrating" /\ pass'[n].copy = pass[n].copy
    BY <1>1, <1>4, GoOn DEF Stage
  <2>2. /\ domain' \in [Node -> Domain] /\ domain'[to] = "incoming" /\ due' \subseteq Node
        /\ \A m \in Node \ {to} : domain'[m] = domain[m]
    BY <1>1, <1>4 DEF HostInv, TypeOK, Domain
  <2>3. /\ migration' \in [from: Node, to: Node] /\ migration'.from = n /\ migration'.to = to
    BY <1>1, <1>4
  <2>4. DomainInv'
    BY <1>1, <1>4, <2>2, <2>3, NoneAssumption DEF HostInv, DomainInv, HasDomain
  <2>5. StageAt(n)'
    BY <1>1, <2>1 DEF StageAt, At
  <2>6. ~UnmovedInv
    BY <1>1 DEF UnmovedInv, UnmovedAt, At
  <2>7. ASSUME AnnouncedInv
        PROVE  AnnouncedInv'
    <3>1. ~At(n, "clear")' /\ ~At(n, "create")' /\ AnnouncedStore
      BY <2>1, <2>7, SameStore DEF At
    <3>2. /\ \A m \in Node \ {n} : At(m, "create") => locks' = {}
          /\ \A m, k \in Node : domain'[m] = "running" /\ domain'[k] = "running" => m = k
          /\ locks' = locks
      BY <1>1, <2>2, <2>7 DEF AnnouncedInv
    <3>3. QED
      BY <2>1, <2>7, <3>1, <3>2, AnnouncedKept DEF HostInv, AnnouncedStore
  <2>8. Grows /\ locks' \subseteq Node
    BY <1>1, <2>1 DEF Grows, HostInv, TypeOK
  <2>9. QED
    BY <1>1, <2>1, <2>2, <2>3, <2>4, <2>5, <2>6, <2>7, <2>8, HostStep
<1>5. QED
  BY <1>2, <1>3, <1>4 DEF StartMigration

\* A domain ends: that of n, with the one that is coming from it.
LEMMA LoseEffect ==
  ASSUME HostInv, NEW n \in Node, Lose(n)
  PROVE  /\ domain' \in [Node -> Domain] /\ migration' \in [from: Node, to: Node] \cup {None}
         /\ domain'[n] = "none"
         /\ \A m \in Node : HasDomain(m)' => HasDomain(m)
         /\ \A m \in Node \ {n} : domain'[m] = "running" <=> domain[m] = "running"
         /\ migration = None => migration' = None
         /\ (\A m \in Node \ {n} : m \in locks => m \in locks') => DomainInv'
<1>1. /\ migration # None => migration.from \in Node /\ migration.to \in Node
      /\ DomainInv /\ domain \in [Node -> Domain]
      /\ migration \in [from: Node, to: Node] \cup {None}
  BY DEF HostInv, TypeOK
<1>2. CASE migration # None /\ n \in {migration.from, migration.to}
  <2>1. /\ domain' = [m \in Node |-> IF m = n \/ m = migration.to THEN "none" ELSE domain[m]]
        /\ migration' = None
    BY <1>2 DEF Lose
  <2>2. domain' \in [Node -> Domain]
    BY <1>1, <2>1 DEF Domain
  <2>3. QED
    BY <1>1, <1>2, <2>1, <2>2 DEF DomainInv, HasDomain
<1>3. CASE ~(migration # None /\ n \in {migration.from, migration.to})
  <2>1. /\ domain' = [m \in Node |-> IF m = n THEN "none" ELSE domain[m]]
        /\ migration' = migration
    BY <1>3 DEF Lose
  <2>2. domain' \in [Node -> Domain]
    BY <1>1, <2>1 DEF Domain
  <2>3. QED
    BY <1>1, <1>3, <2>1, <2>2 DEF DomainInv, HasDomain
<1>4. QED
  BY <1>2, <1>3

\* The domain of a deleted VM ends, and the lock goes with it.
LEMMA DestroyKeeps ==
  ASSUME HostInv, NEW n \in Node, Destroy(n)
  PROVE  HostInv'
<1>1. /\ pass[n].at = "destroy" /\ UNCHANGED <<obj, cache, due>> /\ Spending
      /\ Lose(n) /\ Continue(n, "unfinalize") /\ locks' \subseteq locks
      /\ \A m \in Node \ {n} : m \in locks => m \in locks'
  BY NothingSpent DEF Destroy, HostInv, At
<1>2. /\ Step(n) /\ obj' = obj /\ cache'[n].copy = cache[n].copy
      /\ pass'[n].at = "unfinalize" /\ pass'[n].copy = pass[n].copy
  BY <1>1, GoOn DEF Stage
<1>3. StageAt(n) /\ StageAt(n)'
  BY <1>1, <1>2 DEF HostInv, StageInv, StageAt, At
<1>4. ASSUME UnmovedInv
      PROVE  UnmovedInv'
  <2>1. migration' = None /\ \A m \in Node : HasDomain(m)' => HasDomain(m)
    BY <1>1, <1>4, LoseEffect DEF UnmovedInv
  <2>2. UnmovedAt(n)'
    <3>1. UnmovedAt(n) /\ ~HasDomain(n)'
      BY <1>1, <1>4, LoseEffect DEF UnmovedInv, HasDomain
    <3>2. QED
      BY <1>1, <1>2, <3>1 DEF UnmovedAt, At
  <2>3. UnmovedStore(n) /\ Grows
    BY <1>2, <1>4, SameStore
  <2>4. QED
    BY <1>2, <1>4, <2>1, <2>2, <2>3, UnmovedKept DEF HostInv, UnmovedStore
<1>5. ~AnnouncedInv
  <2>1. pass[n].copy \in Copies /\ pass[n].copy.deleted
    BY <1>1, <1>3, NoneAssumption DEF StageAt, Copies
  <2>2. QED
    BY <2>1 DEF AnnouncedInv, HostInv, CopyInv
<1>6. Grows /\ due' \subseteq Node /\ locks' \subseteq Node
  BY <1>1, <1>2 DEF Grows, HostInv, TypeOK
<1>7. QED
  BY <1>1, <1>2, <1>3, <1>4, <1>5, <1>6, LoseEffect, HostStep

LEMMA GuestStopsKeeps ==
  ASSUME HostInv, NEW n \in Node, GuestStops(n)
  PROVE  HostInv'
<1>1. /\ UNCHANGED <<obj, cache, due, pass>> /\ Lose(n) /\ locks' = locks \ {n}
      /\ \A m \in Node \ {n} : m \in locks => m \in locks'
  BY DEF GuestStops
<1>2. Spending /\ ~Announced'
  BY SpendEffect DEF GuestStops, HostInv, EnvEvent, Announced, Without
<1>3. Step(n) /\ StageAt(n)'
  BY <1>1, StutterStep DEF HostInv, StageInv, StageAt, At
<1>4. ASSUME UnmovedInv
      PROVE  UnmovedInv'
  <2>1. migration' = None /\ \A m \in Node : HasDomain(m)' => HasDomain(m)
    BY <1>1, <1>4, LoseEffect DEF UnmovedInv
  <2>2. UnmovedAt(n)'
    <3>1. UnmovedAt(n) /\ ~HasDomain(n)'
      BY <1>1, <1>4, LoseEffect DEF UnmovedInv, HasDomain
    <3>2. QED
      BY <1>1, <3>1 DEF UnmovedAt, At
  <2>3. UnmovedStore(n) /\ Grows
    BY <1>1, <1>4, SameStore
  <2>4. QED
    BY <1>3, <1>4, <2>1, <2>2, <2>3, UnmovedKept DEF HostInv, UnmovedStore
<1>5. Grows /\ due' \subseteq Node /\ locks' \subseteq Node
  BY <1>1 DEF Grows, HostInv, TypeOK
<1>6. QED
  BY <1>1, <1>2, <1>3, <1>4, <1>5, LoseEffect, HostStep

LEMMA NodeCrashKeeps ==
  ASSUME HostInv, NEW n \in Node, NodeCrash(n)
  PROVE  HostInv'
<1>1. UNCHANGED <<obj, locks>> /\ Lose(n) /\ StartAgain(n)
  BY DEF NodeCrash
<1>2. Spending
  BY SpendEffect DEF NodeCrash, HostInv, EnvEvent
<1>3. Step(n) /\ pass'[n].at = "idle" /\ due' \subseteq Node /\ obj' = obj
  BY <1>1, StartAgainStep
<1>4. \A m \in Node : HasDomain(m)' => HasDomain(m)
  BY <1>1, LoseEffect
<1>5. /\ StageAt(n)' /\ (UnmovedInv => UnmovedAt(n)')
      /\ ~At(n, "clear")' /\ ~At(n, "create")'
  BY <1>3, <1>4, IdleAt
<1>6. ASSUME UnmovedInv
      PROVE  UnmovedInv'
  <2>1. migration' = None /\ UnmovedStore(n) /\ Grows
    BY <1>1, <1>6, LoseEffect, SameStore DEF UnmovedInv
  <2>2. QED
    BY <1>3, <1>4, <1>5, <1>6, <2>1, UnmovedKept DEF HostInv, UnmovedStore
<1>7. ASSUME AnnouncedInv
      PROVE  AnnouncedInv'
  <2>1. \A m \in Node : domain'[m] = "running" => domain[m] = "running"
    BY <1>1, LoseEffect
  <2>2. AnnouncedStore
    BY <1>1, <1>7, SameStore
  <2>3. QED
    BY <1>1, <1>3, <1>5, <1>7, <2>1, <2>2, AnnouncedKept
    DEF HostInv, AnnouncedInv, AnnouncedStore
<1>8. Grows /\ locks' \subseteq Node
  BY <1>1 DEF Grows, HostInv, TypeOK
<1>9. QED
  BY <1>1, <1>2, <1>3, <1>5, <1>6, <1>7, <1>8, LoseEffect, HostStep

\* The instance is at the destination, and the lock with it.
LEMMA MigrationSucceedsKeeps ==
  ASSUME HostInv, MigrationSucceeds
  PROVE  HostInv'
<1> DEFINE from == migration.from
           to == migration.to
<1>1. /\ UNCHANGED <<obj, cache, due, pass>> /\ Spending /\ migration # None
      /\ migration' = None /\ locks' = (locks \ {from}) \cup {to}
      /\ domain' = [domain EXCEPT ![from] = "none", ![to] = "running"]
  BY NothingSpent DEF MigrationSucceeds, HostInv
<1>2. /\ from \in Node /\ to \in Node /\ from # to
      /\ domain[from] = "running" /\ domain[to] = "incoming"
      /\ \A m \in Node : domain[m] = "incoming" => m = to
  BY <1>1 DEF HostInv, TypeOK, DomainInv
<1> HIDE DEF from, to
<1>3. /\ domain' \in [Node -> Domain] /\ domain'[from] = "none" /\ domain'[to] = "running"
      /\ \A m \in Node \ {from, to} : domain'[m] = domain[m]
  BY <1>1, <1>2 DEF HostInv, TypeOK, Domain
<1>4. DomainInv'
  BY <1>1, <1>2, <1>3 DEF HostInv, DomainInv
<1>5. Step(None)
  BY <1>1, StutterStep DEF HostInv
<1>6. ~UnmovedInv
  BY <1>1 DEF UnmovedInv
<1>7. ASSUME AnnouncedInv
      PROVE  AnnouncedInv'
  <2>1. locks # {} /\ locks' # {} /\ AnnouncedStore
    BY <1>1, <1>2, <1>7, SameStore DEF HostInv, DomainInv
  <2>2. \A m \in Node : domain'[m] = "running" => m = to
    BY <1>2, <1>3, <1>7 DEF AnnouncedInv
  <2>3. \A m \in Node : ~At(m, "create")
    BY <1>7, <2>1 DEF AnnouncedInv
  <2>4. QED
    BY <1>5, <1>7, <2>1, <2>2, <2>3, AnnouncedKept, NoneAssumption DEF HostInv, AnnouncedStore
<1>8. Grows /\ locks' \subseteq Node /\ due' \subseteq Node
  BY <1>1, <1>2 DEF Grows, HostInv, TypeOK
<1>9. QED
  BY <1>1, <1>3, <1>4, <1>5, <1>6, <1>7, <1>8, HostStep, NoneAssumption

LEMMA MigrationFailsKeeps ==
  ASSUME HostInv, MigrationFails
  PROVE  HostInv'
<1> DEFINE to == migration.to
<1>1. /\ UNCHANGED <<obj, cache, due, pass, locks>> /\ migration # None
      /\ migration' = None /\ domain' = [domain EXCEPT ![to] = "none"]
  BY DEF MigrationFails
<1>2. Spending
  BY SpendEffect DEF MigrationFails, HostInv, EnvEvent
<1>3. to \in Node /\ \A m \in Node : domain[m] = "incoming" => m = to
  BY <1>1 DEF HostInv, TypeOK, DomainInv
<1> HIDE DEF to
<1>4. /\ domain' \in [Node -> Domain] /\ domain'[to] = "none"
      /\ \A m \in Node \ {to} : domain'[m] = domain[m]
  BY <1>1, <1>3 DEF HostInv, TypeOK, Domain
<1>5. DomainInv'
  BY <1>1, <1>3, <1>4 DEF HostInv, DomainInv
<1>6. Step(None)
  BY <1>1, StutterStep DEF HostInv
<1>7. ~UnmovedInv
  BY <1>1 DEF UnmovedInv
<1>8. ASSUME AnnouncedInv
      PROVE  AnnouncedInv'
  <2>1. AnnouncedStore /\ \A m \in Node : At(m, "create") => locks' = {}
    BY <1>1, <1>8, SameStore DEF AnnouncedInv
  <2>2. \A m \in Node : domain'[m] = "running" => domain[m] = "running"
    BY <1>4
  <2>3. \A m, k \in Node : domain'[m] = "running" /\ domain'[k] = "running" => m = k
    BY <1>8, <2>2 DEF AnnouncedInv
  <2>4. QED
    BY <1>1, <1>6, <1>8, <2>1, <2>3, AnnouncedKept, NoneAssumption
    DEF HostInv, AnnouncedStore
<1>9. Grows /\ locks' \subseteq Node /\ due' \subseteq Node
  BY <1>1 DEF Grows, HostInv, TypeOK
<1>10. QED
  BY <1>1, <1>2, <1>4, <1>5, <1>6, <1>7, <1>8, <1>9, HostStep, NoneAssumption

-----------------------------------------------------------------------------
(* The theorems                                                            *)

LEMMA InitHost == Init => HostInv
<1> SUFFICES ASSUME Init
             PROVE  HostInv
  OBVIOUS
<1>1. PICK on \in BOOLEAN : obj = NewObject(on)
  BY DEF Init
<1>2. /\ obj \in Object /\ obj.node = None /\ obj.pending = FALSE
      /\ obj.finalizer = FALSE /\ obj.deleted = FALSE
  BY <1>1 DEF NewObject, Object
<1>3. obj # None
  BY <1>2, NoneAssumption
<1>4. \A n \in Node : cache[n].copy = obj /\ cache[n].fresh = TRUE /\ pass[n] = Idle
  BY DEF Init
<1>5. TypeOK
  BY <1>2, IdleType, BudgetAssumption DEF Init, TypeOK, Domain
<1>6. Copies = {obj}
  BY <1>3, <1>4, IdleType DEF Copies
<1>7. CopyInv /\ StageInv
  BY <1>2, <1>4, <1>6, IdleType DEF CopyInv, StageInv, StageAt, At
<1>8. DomainInv
  BY DEF Init, DomainInv
<1>9. UnmovedInv
  <2>1. ASSUME NEW n \in Node
        PROVE  UnmovedAt(n)
    BY <1>2, <1>4, IdleType, NoneAssumption DEF UnmovedAt, Claims, At, HasDomain, Init
  <2>2. QED
    BY <1>6, <2>1 DEF UnmovedInv, SamePlace, Init
<1>10. AnnouncedInv
  BY <1>2, <1>3, <1>4, <1>6, IdleType DEF AnnouncedInv, SamePlace, At, Init
<1>11. QED
  BY <1>5, <1>7, <1>8, <1>9, <1>10 DEF HostInv

LEMMA NextHost == HostInv /\ [Next]_vars => HostInv'
<1> SUFFICES ASSUME HostInv, [Next]_vars
             PROVE  HostInv'
  OBVIOUS
<1>1. ASSUME NEW n \in Node, Sync(n) \/ AgentStep(n)
      PROVE  HostInv'
  BY <1>1, SyncKeeps, BeginKeeps, EnsureFinalizerKeeps, CheckVolumesKeeps, CreateDomainKeeps,
     ReportRunningKeeps, StartMigrationKeeps, AwaitMigrationKeeps, CheckActiveKeeps,
     ClearPendingKeeps, DestroyKeeps, RemoveFinalizerKeeps
  DEF AgentStep
<1>2. CASE Environment
  BY <1>2, PlaceKeeps, MoveVmKeeps, RebalanceVmKeeps, FaultKeeps, AgentRestartKeeps,
     GuestStopsKeeps, NodeCrashKeeps, DeleteVmKeeps, ReapKeeps, ForeignWriteKeeps,
     MigrationSucceedsKeeps, MigrationFailsKeeps
  DEF Environment
<1>3. CASE UNCHANGED vars
  <2>1. UNCHANGED <<obj, cache, due, pass, domain, locks, migration, budget>>
    BY <1>3 DEF vars
  <2>2. Copies' = Copies
    BY <2>1 DEF Copies
  <2>3. CopyInv' /\ StageInv' /\ DomainInv' /\ TypeOK'
    BY <2>1, <2>2 DEF HostInv, CopyInv, StageInv, StageAt, DomainInv, TypeOK, At
  <2>4. UnmovedInv => UnmovedInv'
    BY <2>1, <2>2 DEF UnmovedInv, UnmovedAt, At, HasDomain
  <2>5. AnnouncedInv => AnnouncedInv'
    BY <2>1, <2>2 DEF AnnouncedInv, At
  <2>6. QED
    BY <2>1, <2>3, <2>4, <2>5 DEF HostInv, Without
<1>4. QED
  BY <1>1, <1>2, <1>3 DEF Next

\* The agents keep the induction invariant: passes act on copies of the kind
\* their events call for (controller.rs get_event_type), migrations have both
\* ends, running domains hold the lock, and what is said of a VM that was not
\* moved, or whose moves were all announced.
THEOREM HostInductive == Spec => []HostInv
<1>1. QED
  BY InitHost, NextHost, PTL DEF Spec

\* While the VM stays where it was placed, its object outlives its domain: the
\* finalizer is there before the domain and goes after it (handlers.rs 42-66).
THEOREM ObjectOutlivesDomain == Spec => []KeptWhileRunning
<1>1. HostInv => KeptWhileRunning
  <2>1. SUFFICES ASSUME HostInv, Without({"move", "rebalance"}),
                        NEW n \in Node, domain[n] = "running"
                 PROVE  obj # None /\ obj.finalizer
    BY DEF KeptWhileRunning
  <2>2. UnmovedAt(n) /\ HasDomain(n)
    BY <2>1 DEF HostInv, UnmovedInv, HasDomain
  <2>3. QED
    BY <2>2 DEF UnmovedAt
<1>2. QED
  BY <1>1, HostInductive, PTL

\* Announced moves never leave the VM running twice, as long as its guest does
\* not stop by itself and it is not deleted (handlers.rs 102-129, lowlevel.rs
\* 96-98).
THEOREM OneInstance == Spec => []SingleInstance
<1>1. HostInv => SingleInstance
  <2> DEFINE W == {n \in Node : domain[n] = "running"}
  <2>1. SUFFICES ASSUME HostInv, Without({"rebalance", "stop", "delete"})
                 PROVE  Cardinality(W) <= 1
    BY DEF SingleInstance
  <2>2. \A m, n \in W : m = n
    BY <2>1 DEF HostInv, AnnouncedInv
  <2>3. CASE W = {}
    BY <2>3, FS_EmptySet
  <2>4. CASE W # {}
    <3>1. PICK n \in W : TRUE
      BY <2>4
    <3>2. W = {n}
      BY <2>2, <3>1
    <3>3. Cardinality(W) = 1
      BY <3>2, FS_Singleton
    <3>4. QED
      BY <3>3
  <2>5. QED
    BY <2>3, <2>4
<1>2. QED
  BY <1>1, HostInductive, PTL

-----------------------------------------------------------------------------
(* The refinement                                                          *)

Where == {n \in Node : domain[n] = "running"}
Permitted == {n \in Node : At(n, "create")}

\* The same instances run, and no start is permitted or withdrawn.
LEMMA Stutters ==
  ASSUME NEW n, Step(n),
         n \in Node => (At(n, "create")' <=> At(n, "create")),
         \A m \in Node : domain'[m] = "running" <=> domain[m] = "running"
  PROVE  UNCHANGED Instance!vars
<1>1. \A m \in Node : At(m, "create")' <=> At(m, "create")
  BY DEF Step, At
<1>2. Where' = Where /\ Permitted' = Permitted
  BY <1>1 DEF Where, Permitted
<1>3. QED
  BY <1>2 DEF Where, Permitted, Instance!vars

\* The pass of n ends, and with it the permission it may have had.
LEMMA Withdraws ==
  ASSUME NEW n \in Node, Step(n), pass'[n].at = "idle",
         \A m \in Node : domain'[m] = "running" <=> domain[m] = "running"
  PROVE  Instance!Next
<1>1. \A m \in Node \ {n} : At(m, "create")' <=> At(m, "create")
  BY DEF Step, At
<1>2. ~At(n, "create")'
  BY DEF At
<1>3. Where' = Where /\ Permitted' = Permitted \ {n}
  BY <1>1, <1>2 DEF Where, Permitted
<1>4. Instance!Withdraw(n)
  BY <1>3 DEF Where, Permitted, Instance!Withdraw
<1>5. QED
  BY <1>4 DEF Instance!Next

\* A call that fails or requeues ends the pass.
LEMMA EndRefines ==
  ASSUME HostInv, NEW n \in Node, UNCHANGED <<obj, cache, domain>>,
         pass' = [pass EXCEPT ![n] = Idle]
  PROVE  Instance!Next
BY IdleStep, Withdraws DEF HostInv

\* A call on the way to another than the creation of a domain.
LEMMA ContinueRefines ==
  ASSUME HostInv, NEW n \in Node, NEW next \in Stage \ {"idle", "create"},
         UNCHANGED <<obj, cache>>, Continue(n, next), pass[n].at # "create",
         \A m \in Node : domain'[m] = "running" <=> domain[m] = "running"
  PROVE  UNCHANGED Instance!vars
BY GoOn, Stutters DEF At

LEMMA WriteRefines ==
  ASSUME HostInv, NEW n \in Node, NEW STATE new, new \in Object,
         NEW STATE next, next \in {"idle", "check"},
         pass[n].at \notin {"idle", "create"}, Write(n, new, next), UNCHANGED domain
  PROVE  [Instance!Next]_(Instance!vars)
<1>1. Step(n) /\ pass'[n].at \in {"idle", "check"}
  BY WriteStep DEF HostInv, Stage
<1>2. CASE pass'[n].at = "idle"
  BY <1>1, <1>2, Withdraws
<1>3. CASE pass'[n].at = "check"
  BY <1>1, <1>3, Stutters DEF At
<1>4. QED
  BY <1>1, <1>2, <1>3

LEMMA ForeignRefines ==
  ASSUME HostInv, NEW STATE new, new \in Object \cup {None}, ForeignReplace(new)
  PROVE  UNCHANGED Instance!vars
<1>1. Step(None) /\ UNCHANGED domain
  BY ForeignStep DEF HostInv, ForeignReplace
<1>2. QED
  BY <1>1, Stutters, NoneAssumption

LEMMA AgentRefines ==
  ASSUME HostInv, NEW n \in Node, Sync(n) \/ AgentStep(n)
  PROVE  [Instance!Next]_(Instance!vars)
<1>1. CASE Sync(n)
  BY <1>1, CacheStep, Stutters DEF Sync, HostInv, At
<1>2. CASE Begin(n)
  <2>1. CASE pass' = pass
    BY <1>2, <2>1, StutterStep, Stutters DEF Begin, HostInv, At
  <2>2. CASE pass' # pass
    <3> DEFINE o == cache[n].copy
               r == [at |-> FirstCall(n, o), copy |-> o, fresh |-> cache[n].fresh]
    <3>1. pass' = [pass EXCEPT ![n] = r] /\ UNCHANGED domain /\ pass[n].at = "idle"
      BY <1>2, <2>2 DEF Begin, At
    <3>2. r.at # "create"
      BY DEF FirstCall
    <3> HIDE DEF r
    <3>3. pass'[n] = r /\ \A m \in Node \ {n} : pass'[m] = pass[m]
      BY <3>1 DEF HostInv, TypeOK
    <3>4. Where' = Where /\ Permitted' = Permitted
      BY <3>1, <3>2, <3>3 DEF Where, Permitted, At
    <3>5. QED
      BY <3>4 DEF Where, Permitted, Instance!vars
  <2>3. QED
    BY <2>1, <2>2
<1>3. CASE EnsureFinalizer(n)
  <2> DEFINE o == pass[n].copy
             new == [o EXCEPT !.finalizer = TRUE]
  <2>1. o \in Object /\ pass[n].at = "finalizer" /\ UNCHANGED domain
    BY <1>3 DEF EnsureFinalizer, HostInv, StageInv, StageAt, At
  <2>2. new \in Object
    BY <2>1 DEF Object
  <2>3. \/ UNCHANGED <<obj, cache>> /\ Continue(n, "check")
        \/ UNCHANGED <<obj, cache>> /\ pass' = [pass EXCEPT ![n] = Idle]
        \/ Write(n, new, IF new.powerOn THEN "check" ELSE "idle")
    BY <1>3 DEF EnsureFinalizer, Requeue
  <2> HIDE DEF new
  <2>4. QED
    BY <2>1, <2>2, <2>3, ContinueRefines, EndRefines, WriteRefines DEF Stage
<1>4. CASE CheckVolumes(n)
  <2>1. CASE locks = {}
    <3>1. Continue(n, "create") /\ UNCHANGED <<obj, cache, domain>>
      BY <1>4, <2>1 DEF CheckVolumes
    <3>2. Step(n) /\ pass'[n].at = "create"
      BY <3>1, GoOn DEF Stage
    <3>3. Where = {} /\ Where' = Where /\ Permitted' = Permitted \cup {n}
      BY <2>1, <3>1, <3>2 DEF Where, Permitted, HostInv, DomainInv, Step, At
    <3>4. Instance!Permit(n)
      BY <3>3 DEF Where, Permitted, Instance!Permit
    <3>5. QED
      BY <3>4 DEF Instance!Next
  <2>2. CASE locks # {}
    BY <1>4, <2>2, EndRefines DEF CheckVolumes, Requeue
  <2>3. QED
    BY <2>1, <2>2
<1>5. CASE CreateDomain(n)
  <2>1. CASE HasDomain(n)
    BY <1>5, <2>1, EndRefines DEF CreateDomain, Requeue
  <2>2. CASE ~HasDomain(n)
    <3>1. /\ Continue(n, "report") /\ UNCHANGED <<obj, cache>> /\ At(n, "create")
          /\ domain' = [domain EXCEPT ![n] = "running"]
      BY <1>5, <2>2 DEF CreateDomain
    <3>2. Step(n) /\ pass'[n].at = "report"
      BY <3>1, GoOn DEF Stage
    <3>3. Permitted' = Permitted \ {n} /\ n \in Permitted
      BY <3>1, <3>2 DEF Permitted, Step, At
    <3>4. Where' = Where \cup {n}
      BY <3>1 DEF Where, HostInv, TypeOK
    <3>5. Instance!Start(n)
      BY <3>3, <3>4 DEF Where, Permitted, Instance!Start
    <3>6. QED
      BY <3>5 DEF Instance!Next
  <2>3. QED
    BY <2>1, <2>2
<1>6. CASE ReportRunning(n)
  <2> DEFINE new == [pass[n].copy EXCEPT !.running = TRUE]
  <2>1. pass[n].at = "report" /\ UNCHANGED domain /\ Write(n, new, "idle")
    BY <1>6 DEF ReportRunning, At
  <2>2. pass[n].copy \in Object
    BY <2>1 DEF HostInv, StageInv, StageAt
  <2>3. new \in Object
    BY <2>2 DEF Object
  <2> HIDE DEF new
  <2>4. QED
    BY <2>1, <2>3, WriteRefines
<1>7. CASE ClearPending(n)
  <2> DEFINE new == [pass[n].copy EXCEPT !.pending = FALSE]
  <2>1. pass[n].at = "clear" /\ UNCHANGED domain /\ Write(n, new, "idle")
    BY <1>7 DEF ClearPending, At
  <2>2. pass[n].copy \in Object
    BY <2>1 DEF HostInv, StageInv, StageAt
  <2>3. new \in Object
    BY <2>2 DEF Object
  <2> HIDE DEF new
  <2>4. QED
    BY <2>1, <2>3, WriteRefines
<1>8. CASE RemoveFinalizer(n)
  <2> DEFINE new == [pass[n].copy EXCEPT !.finalizer = FALSE]
  <2>1. pass[n].at = "unfinalize" /\ UNCHANGED domain
    BY <1>8 DEF RemoveFinalizer, At
  <2>2. pass[n].copy \in Object
    BY <2>1 DEF HostInv, StageInv, StageAt
  <2>3. new \in Object
    BY <2>2 DEF Object
  <2>4. \/ UNCHANGED <<obj, cache>> /\ pass' = [pass EXCEPT ![n] = Idle]
        \/ Write(n, new, "idle")
    BY <1>8 DEF RemoveFinalizer, EndPass
  <2> HIDE DEF new
  <2>5. QED
    BY <2>1, <2>3, <2>4, EndRefines, WriteRefines
<1>9. CASE StartMigration(n)
  <2> DEFINE to == pass[n].copy.node
  <2>1. pass[n].at = "migrate" /\ obj' = obj /\ to \in Node
    BY <1>9 DEF StartMigration, HostInv, StageInv, StageAt, At
  <2>2. CASE StartAgain(n) /\ UNCHANGED domain
    BY <2>1, <2>2, StartAgainStep, Withdraws
  <2>3. CASE /\ ~HasDomain(to) /\ domain' = [domain EXCEPT ![to] = "incoming"]
             /\ Continue(n, "migrating") /\ UNCHANGED cache
    <3>1. \A m \in Node : domain'[m] = "running" <=> domain[m] = "running"
      BY <2>1, <2>3 DEF HasDomain, HostInv, TypeOK
    <3>2. QED
      BY <2>1, <2>3, <3>1, ContinueRefines DEF Stage
  <2>4. CASE Requeue(n) /\ UNCHANGED <<cache, domain>>
    BY <2>1, <2>4, EndRefines DEF Requeue
  <2>5. QED
    BY <1>9, <2>2, <2>3, <2>4 DEF StartMigration
<1>10. CASE AwaitMigration(n)
  BY <1>10, EndRefines DEF AwaitMigration, Requeue
<1>11. CASE CheckActive(n)
  BY <1>11, EndRefines, ContinueRefines DEF CheckActive, Requeue, At, Stage
<1>12. CASE Destroy(n)
  <2>1. /\ pass[n].at = "destroy" /\ UNCHANGED <<obj, cache>> /\ Lose(n)
        /\ Continue(n, "unfinalize")
    BY <1>12 DEF Destroy, At
  <2>2. Step(n) /\ pass'[n].at = "unfinalize"
    BY <2>1, GoOn DEF Stage
  <2>3. /\ domain'[n] = "none"
        /\ \A m \in Node \ {n} : domain'[m] = "running" <=> domain[m] = "running"
    BY <2>1, LoseEffect
  <2>4. CASE domain[n] # "running"
    <3>1. \A m \in Node : domain'[m] = "running" <=> domain[m] = "running"
      BY <2>3, <2>4
    <3>2. QED
      BY <2>1, <2>2, <3>1, Stutters DEF At
  <2>5. CASE domain[n] = "running"
    <3>1. Permitted' = Permitted
      BY <2>1, <2>2 DEF Permitted, Step, At
    <3>2. Where' = Where \ {n} /\ n \in Where
      BY <2>3, <2>5 DEF Where
    <3>3. Instance!Stop(n)
      BY <3>1, <3>2 DEF Where, Permitted, Instance!Stop
    <3>4. QED
      BY <3>3 DEF Instance!Next
  <2>6. QED
    BY <2>4, <2>5
<1>13. QED
  BY <1>1, <1>2, <1>3, <1>4, <1>5, <1>6, <1>7, <1>8, <1>9, <1>10, <1>11, <1>12
  DEF AgentStep

LEMMA EnvironmentRefines ==
  ASSUME HostInv, Environment
  PROVE  [Instance!Next]_(Instance!vars)
<1>1. ASSUME NEW n \in Node, Place(n) \/ MoveVm(n) \/ RebalanceVm(n)
      PROVE  UNCHANGED Instance!vars
  <2>1. obj \in Object
    BY <1>1 DEF Place, MoveVm, RebalanceVm, HostInv, TypeOK
  <2>2. /\ [obj EXCEPT !.node = n] \in Object
        /\ [obj EXCEPT !.node = n, !.pending = TRUE] \in Object
    BY <2>1 DEF Object
  <2>3. \/ ForeignReplace([obj EXCEPT !.node = n])
        \/ ForeignReplace([obj EXCEPT !.node = n, !.pending = TRUE])
    BY <1>1 DEF Place, MoveVm, RebalanceVm
  <2>4. QED
    BY <2>2, <2>3, ForeignRefines
<1>2. CASE DeleteVm
  <2>1. obj \in Object /\ ForeignReplace([obj EXCEPT !.deleted = TRUE])
    BY <1>2 DEF DeleteVm, HostInv, TypeOK
  <2>2. [obj EXCEPT !.deleted = TRUE] \in Object
    BY <2>1 DEF Object
  <2>3. QED
    BY <2>1, <2>2, ForeignRefines
<1>3. CASE Reap
  BY <1>3, ForeignRefines DEF Reap
<1>4. CASE ForeignWrite
  BY <1>4, ForeignRefines DEF ForeignWrite, HostInv, TypeOK
<1>5. ASSUME NEW n \in Node, Fault(n)
      PROVE  Instance!Next
  BY <1>5, EndRefines DEF Fault, Requeue
<1>6. ASSUME NEW n \in Node, AgentRestart(n)
      PROVE  Instance!Next
  BY <1>6, StartAgainStep, Withdraws DEF AgentRestart
<1>7. ASSUME NEW n \in Node, GuestStops(n)
      PROVE  Instance!Next
  <2>1. pass' = pass /\ Lose(n) /\ domain[n] = "running"
    BY <1>7 DEF GuestStops
  <2>2. /\ domain'[n] = "none"
        /\ \A m \in Node \ {n} : domain'[m] = "running" <=> domain[m] = "running"
    BY <2>1, LoseEffect
  <2>3. Permitted' = Permitted /\ Where' = Where \ {n} /\ n \in Where
    BY <2>1, <2>2 DEF Where, Permitted, At
  <2>4. Instance!Stop(n)
    BY <2>3 DEF Where, Permitted, Instance!Stop
  <2>5. QED
    BY <2>4 DEF Instance!Next
<1>8. ASSUME NEW n \in Node, NodeCrash(n)
      PROVE  Instance!Next
  <2>1. StartAgain(n) /\ Lose(n) /\ obj' = obj
    BY <1>8 DEF NodeCrash
  <2>2. Step(n) /\ pass'[n].at = "idle"
    BY <2>1, StartAgainStep
  <2>3. /\ domain'[n] = "none"
        /\ \A m \in Node \ {n} : domain'[m] = "running" <=> domain[m] = "running"
    BY <2>1, LoseEffect
  <2>4. CASE domain[n] # "running"
    <3>1. \A m \in Node : domain'[m] = "running" <=> domain[m] = "running"
      BY <2>3, <2>4
    <3>2. QED
      BY <2>2, <3>1, Withdraws
  <2>5. CASE domain[n] = "running"
    <3>1. Permitted' = Permitted \ {n}
      BY <2>2 DEF Permitted, Step, At
    <3>2. Where' = Where \ {n} /\ n \in Where
      BY <2>3, <2>5 DEF Where
    <3>3. Instance!Stop(n)
      BY <3>1, <3>2 DEF Where, Permitted, Instance!Stop
    <3>4. QED
      BY <3>3 DEF Instance!Next
  <2>6. QED
    BY <2>4, <2>5
<1>9. CASE MigrationSucceeds
  <2>1. PICK from \in Node, to \in Node : from = migration.from /\ to = migration.to
    BY <1>9 DEF MigrationSucceeds, HostInv, TypeOK
  <2>2. /\ pass' = pass /\ domain' = [domain EXCEPT ![from] = "none", ![to] = "running"]
        /\ from # to /\ domain[from] = "running"
    BY <1>9, <2>1 DEF MigrationSucceeds, HostInv, DomainInv
  <2>3. /\ domain'[from] = "none" /\ domain'[to] = "running"
        /\ \A m \in Node \ {from, to} : domain'[m] = domain[m]
    BY <2>2 DEF HostInv, TypeOK
  <2>4. Permitted' = Permitted /\ Where' = (Where \ {from}) \cup {to} /\ from \in Where
    BY <2>2, <2>3 DEF Where, Permitted, At
  <2>5. Instance!Move(from, to)
    BY <2>4 DEF Where, Permitted, Instance!Move
  <2>6. QED
    BY <2>5 DEF Instance!Next
<1>10. CASE MigrationFails
  <2>1. /\ UNCHANGED <<obj, cache, pass>> /\ migration # None
        /\ domain' = [domain EXCEPT ![migration.to] = "none"]
    BY <1>10 DEF MigrationFails
  <2>2. \A m \in Node : domain'[m] = "running" <=> domain[m] = "running"
    BY <2>1 DEF HostInv, TypeOK, DomainInv
  <2>3. Step(None)
    BY <2>1, StutterStep DEF HostInv
  <2>4. QED
    BY <2>2, <2>3, Stutters, NoneAssumption
<1>11. QED
  BY <1>1, <1>2, <1>3, <1>4, <1>5, <1>6, <1>7, <1>8, <1>9, <1>10 DEF Environment

\* Domains come and go as VmInstance says: every start was permitted by a look
\* at the volume's locks while no instance was running, and otherwise instances
\* only move and stop (lowlevel.rs 96-98).
THEOREM ImplementsVmInstance == Spec => InstanceSpec
<1>1. Init => Instance!Init
  BY IdleType DEF Init, Instance!Init, At
<1>2. HostInv /\ [Next]_vars => [Instance!Next]_(Instance!vars)
  <2> SUFFICES ASSUME HostInv, [Next]_vars
               PROVE  [Instance!Next]_(Instance!vars)
    OBVIOUS
  <2>1. CASE UNCHANGED vars
    <3>1. UNCHANGED <<pass, domain>>
      BY <2>1 DEF vars
    <3>2. Where' = Where /\ Permitted' = Permitted
      BY <3>1 DEF Where, Permitted, At
    <3>3. QED
      BY <3>2 DEF Where, Permitted, Instance!vars
  <2>2. QED
    BY <2>1, AgentRefines, EnvironmentRefines DEF Next
<1>3. QED
  BY <1>1, <1>2, HostInductive, PTL DEF Spec, InstanceSpec, Instance!Spec
=============================================================================
