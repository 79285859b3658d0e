------------------------- MODULE VmPlacementProofs --------------------------
EXTENDS VmSchedulingProofs

(***************************************************************************)
(* The proof that VmScheduling implements VmPlacement: each accepted write *)
(* of a node is a single placement that knows where the VM's peers are and *)
(* what has been requested of it, for any VMs, nodes and environment.      *)
(*                                                                         *)
(* On top of IInv it needs InformedInv, that decisions taken some calls    *)
(* ago still have their grounds when they are written.  The first part     *)
(* proves InformedInv, the second maps every step to a step of VmPlacement *)
(* or to a stutter.                                                        *)
(***************************************************************************)

(* Informed decisions.                                                     *)

\* Marking copies of v as outdated leaves no current copy of v, and no new one.
LEMMA OutdatedFresh ==
  ASSUME TypeOK, NEW v \in Vm, NEW n \in Node
  PROVE  Outdated(v)[n].fresh = eviction[n].fresh \ {v}
BY DEF TypeOK, Outdated, Eviction

\* A pass that ends decides nothing any more.
LEMMA EndPassInformed ==
  ASSUME TypeOK, InformedInv, NEW v \in Vm, EndPass(v), UNCHANGED <<vmObj, eviction>>
  PROVE  InformedInv'
BY DEF TypeOK, InformedInv, EndPass, Idle, At

\* What an accepted write leaves behind.
LEMMA WriteEffect ==
  ASSUME TypeOK, NEW v \in Vm, NEW STATE new, NEW STATE next,
         Write(v, new, next), pass[v].fresh
  PROVE  /\ \A w \in Vm \ {v} : pass'[w] = pass[w] /\ vmObj'[w] = vmObj[w]
         /\ vmObj'[v] = new
         /\ next = "idle" => pass'[v].at = "idle"
         /\ next # "idle" => pass'[v].at = next /\ pass'[v].copy = pass[v].copy
         /\ eviction' = IF new = vmObj[v] THEN eviction ELSE Outdated(v)
<1>1. /\ \A w \in Vm \ {v} : pass'[w] = pass[w] /\ vmObj'[w] = vmObj[w]
      /\ vmObj'[v] = new
      /\ eviction' = IF new = vmObj[v] THEN eviction ELSE Outdated(v)
  BY DEF TypeOK, Write
<1>2. CASE next = "idle"
  BY <1>1, <1>2 DEF TypeOK, Write, Idle
<1>3. CASE next # "idle"
  <2>1. pass'[v] = [pass[v] EXCEPT !.at = next, !.fresh = (new = vmObj[v])]
    BY <1>3 DEF TypeOK, Write
  <2>2. QED
    BY <1>1, <1>3, <2>1 DEF TypeOK, Pass
<1>4. QED
  BY <1>2, <1>3

\* A write by its own pass: current copies of the VM stay only if it says the
\* same as before.
LEMMA WriteInformed ==
  ASSUME TypeOK, InformedInv, NEW v \in Vm, NEW STATE new, NEW STATE next,
         Write(v, new, next),
         next \notin {"bypass", "place"},
         next = "clear" => ClearDue(pass[v].copy)
  PROVE  InformedInv'
<1>1. CASE pass[v].fresh
  <2>1. \A w \in Vm \ {v} : pass'[w] = pass[w] /\ vmObj'[w] = vmObj[w]
    BY <1>1, WriteEffect
  <2>2. pass'[v].at \notin {"bypass", "place"}
    BY <1>1, WriteEffect
  <2>3. pass'[v].at = "clear" => next = "clear" /\ pass'[v].copy = pass[v].copy
    BY <1>1, WriteEffect
  <2>4. \A n \in Node : \A w \in eviction'[n].fresh :
          /\ w \in eviction[n].fresh
          /\ w # v \/ vmObj'[v] = vmObj[v]
    BY <1>1, OutdatedFresh, WriteEffect DEF TypeOK
  <2>5. \A n \in Node : eviction[n].fresh \subseteq Vm
    BY DEF TypeOK, Eviction
  <2>6. QED
    BY <2>1, <2>2, <2>3, <2>4, <2>5 DEF InformedInv, At, ClearDue, MigrationRequested
<1>2. CASE ~pass[v].fresh
  BY <1>2, EndPassInformed DEF Write
<1>3. QED
  BY <1>1, <1>2

\* A write by somebody else leaves no current copy of the VM anywhere.
LEMMA DisturbInformed ==
  ASSUME TypeOK, InformedInv, NEW v \in Vm, Disturb(v),
         \A w \in Vm \ {v} : vmObj'[w] = vmObj[w]
  PROVE  InformedInv'
<1>1. \A w \in Vm : /\ pass'[w].at = pass[w].at
                    /\ pass'[w].copy = pass[w].copy
                    /\ pass'[w].choice = pass[w].choice
                    /\ pass'[w].bypassed = pass[w].bypassed
  BY DEF TypeOK, Disturb, Pass
<1>2. \A n \in Node : eviction'[n].fresh = eviction[n].fresh \ {v}
  BY OutdatedFresh DEF Disturb
<1>3. \A n \in Node : eviction[n].fresh \subseteq Vm
  BY DEF TypeOK, Eviction
<1>4. QED
  BY <1>1, <1>2, <1>3 DEF InformedInv, At, ClearDue, MigrationRequested

\* A pass that goes on to another call without a write, on the same copy.
LEMMA ContinueInformed ==
  ASSUME TypeOK, InformedInv, NEW v \in Vm, NEW STATE next, Continue(v, next),
         next \notin {"clear", "place"},
         next = "bypass" => MigrationRequested(pass[v].copy),
         UNCHANGED <<vmObj, eviction>>
  PROVE  InformedInv'
<1>1. pass'[v].at = next /\ pass'[v].copy = pass[v].copy
  BY DEF TypeOK, Continue, Pass
<1>2. \A w \in Vm \ {v} : pass'[w] = pass[w]
  BY DEF TypeOK, Continue
<1>3. QED
  BY <1>1, <1>2 DEF InformedInv, At, ClearDue, MigrationRequested

\* A chosen node is one the copy allows; the bypass is for requested migrations.
LEMMA PickInformed ==
  ASSUME TypeOK, InformedInv, NEW v \in Vm, NEW b \in BOOLEAN, Pick(v, b),
         b => MigrationRequested(pass[v].copy),
         UNCHANGED <<vmObj, eviction>>
  PROVE  InformedInv'
<1>1. /\ \A w \in Vm \ {v} : pass'[w] = pass[w]
      /\ pass'[v].at = "place"
      /\ pass'[v].copy = pass[v].copy
      /\ pass'[v].choice \in Candidates(v, pass[v].copy, b)
      /\ pass'[v].bypassed = b
  BY PickEffect
<1>2. IF Pinned[v] # None THEN pass'[v].choice = Pinned[v]
      ELSE pass'[v].choice \notin Cordoned /\ pass'[v].choice # pass[v].copy.request
  BY <1>1 DEF Candidates
<1>3. QED
  BY <1>1, <1>2 DEF InformedInv, At, ClearDue, MigrationRequested

\* Every step keeps decisions informed.
LEMMA InformedStep == TypeOK /\ CopyInv /\ InformedInv /\ [Next]_vars => InformedInv'
<1> SUFFICES ASSUME TypeOK, CopyInv, InformedInv, [Next]_vars PROVE InformedInv'
  OBVIOUS
<1>1. CASE UNCHANGED vars
  BY <1>1 DEF vars, InformedInv, At
<1>2. ASSUME NEW v \in Vm, PassStep(v) \/ AcquireMutex(v) PROVE InformedInv'
  <2>1. CASE Begin(v)
    <3>1. pass' = [pass EXCEPT ![v] = [Idle EXCEPT !.at = FirstCall(vmObj[v]),
                                         !.copy = vmObj[v], !.fresh = TRUE]]
          /\ vmObj' = vmObj /\ eviction' = eviction
      BY <2>1 DEF Begin
    <3>2. pass'[v].at = FirstCall(vmObj[v])
      BY <3>1 DEF TypeOK, Idle
    <3>3. \A w \in Vm \ {v} : pass'[w] = pass[w]
      BY <3>1 DEF TypeOK
    <3>4. QED
      BY <3>1, <3>2, <3>3 DEF InformedInv, FirstCall, At
  <2>2. CASE InitializeStatus(v)
    BY <2>2, WriteInformed DEF InitializeStatus, WriteStatus
  <2>3. CASE FillNics(v)
    BY <2>3, WriteInformed DEF FillNics, WriteStatus
  <2>4. CASE CommitNics(v)
    BY <2>4, WriteInformed DEF CommitNics, Commit
  <2>5. CASE FillUuid(v)
    BY <2>5, WriteInformed DEF FillUuid, Commit
  <2>6. CASE CheckPlacement(v)
    <3>1. /\ \A w \in Vm \ {v} : pass'[w] = pass[w]
          /\ vmObj' = vmObj /\ eviction' = eviction
      BY <2>6 DEF CheckPlacement, TypeOK
    <3>2. /\ pass'[v].at \in {"lock", "clear", "idle"}
          /\ pass'[v].at = "clear" =>
               pass'[v].copy = pass[v].copy /\ ClearDue(pass[v].copy)
      BY <2>6 DEF CheckPlacement, LastCall, TypeOK, Pass, Idle
    <3>3. QED
      BY <3>1, <3>2 DEF InformedInv, At
  <2>7. CASE AcquireMutex(v)
    BY <2>7, ContinueInformed DEF AcquireMutex
  <2>8. CASE Schedule(v)
    <3>1. CASE Pick(v, FALSE)
      BY <2>8, <3>1, PickInformed DEF Schedule
    <3>2. CASE EndPass(v)
      BY <2>8, <3>2, EndPassInformed DEF Schedule
    <3>3. CASE MigrationRequested(pass[v].copy) /\ Continue(v, "bypass")
      BY <2>8, <3>3, ContinueInformed DEF Schedule
    <3>4. QED
      BY <2>8, <3>1, <3>2, <3>3 DEF Schedule, ScheduleFailed
  <2>9. CASE ScheduleIgnoringAffinity(v)
    <3>1. CASE Pick(v, TRUE)
      BY <2>9, <3>1, PickInformed DEF ScheduleIgnoringAffinity, InformedInv
    <3>2. CASE EndPass(v)
      BY <2>9, <3>2, EndPassInformed DEF ScheduleIgnoringAffinity
    <3>3. QED
      BY <2>9, <3>1, <3>2 DEF ScheduleIgnoringAffinity
  <2>10. CASE Place(v)
    BY <2>10, WriteInformed DEF Place, WriteStatus, LastCall
  <2>11. CASE ClearRequest(v)
    BY <2>11, WriteInformed DEF ClearRequest, Commit
  <2>12. QED
    BY <1>2, <2>1, <2>2, <2>3, <2>4, <2>5, <2>6, <2>7, <2>8, <2>9, <2>10, <2>11
       DEF PassStep
<1>3. ASSUME NEW n \in Node, NodeStep(n) PROVE InformedInv'
  <2>1. CASE ReconcileNode(n)
    <3>1. \A m \in Node : eviction'[m].fresh = eviction[m].fresh
      BY <2>1 DEF ReconcileNode, TypeOK, Eviction
    <3>2. QED
      BY <2>1, <3>1 DEF ReconcileNode, InformedInv, At
  <2>2. CASE ListVms(n)
    <3>1. PICK todo \in SUBSET {v \in Vm : NodeOf(vmObj[v]) = n} :
            eviction' = [eviction EXCEPT ![n] =
                           IF todo = {} THEN NoEviction
                           ELSE [at |-> "request", todo |-> todo, fresh |-> todo]]
      BY <2>2 DEF ListVms
    <3>2. eviction'[n].fresh \subseteq todo /\ \A m \in Node \ {n} : eviction'[m] = eviction[m]
      BY <3>1 DEF TypeOK, NoEviction
    <3>3. QED
      BY <2>2, <3>1, <3>2 DEF ListVms, InformedInv, At
  <2>3. CASE RequestMigration(n)
    <3>1. PICK v \in eviction[n].todo : Ask(n, v)
      BY <2>3 DEF RequestMigration
    <3>2. v \in Vm
      BY DEF TypeOK, Eviction
    <3>3. \A w \in Vm : /\ pass'[w].at = pass[w].at
                        /\ pass'[w].copy = pass[w].copy
                        /\ pass'[w].choice = pass[w].choice
                        /\ pass'[w].bypassed = pass[w].bypassed
      BY <3>1, <3>2 DEF Ask, TypeOK, Pass
    <3>4. \A w \in Vm : NodeOf(vmObj'[w]) = NodeOf(vmObj[w])
      BY <3>1, <3>2 DEF Ask, TypeOK, Object, NodeOf
    <3>5. \A m \in Node : eviction'[m].fresh \subseteq eviction[m].fresh
      <4>1. eviction[n] \in Eviction
        BY DEF TypeOK
      <4>2. Remaining(eviction[n], v).fresh \subseteq eviction[n].fresh
        BY <4>1 DEF Remaining, NoEviction, Eviction
      <4>3. CASE v \in eviction[n].fresh
        <5>1. PICK e \in {eviction, Outdated(v)} :
                eviction' = [e EXCEPT ![n] = Remaining(eviction[n], v)]
          BY <3>1, <4>3 DEF Ask
        <5>2. e \in [Node -> Eviction] /\ \A m \in Node : e[m].fresh \subseteq eviction[m].fresh
          BY <3>2, <5>1, OutdatedFresh, OutdatedType DEF TypeOK
        <5>3. QED
          BY <4>2, <5>1, <5>2
      <4>4. CASE v \notin eviction[n].fresh
        BY <3>1, <4>4 DEF Ask, TypeOK, NoEviction
      <4>5. QED
        BY <4>3, <4>4
    <3>6. \A m \in Node : eviction[m].fresh \subseteq Vm
      BY DEF TypeOK, Eviction
    <3>7. QED
      BY <3>3, <3>4, <3>5, <3>6 DEF InformedInv, At, ClearDue, MigrationRequested
  <2>4. QED
    BY <1>3, <2>1, <2>2, <2>3 DEF NodeStep
<1>4. ASSUME Environment PROVE InformedInv'
  <2>1. CASE UNCHANGED <<vmObj, pass, eviction>>
    BY <2>1 DEF InformedInv, At
  <2>2. ASSUME NEW v \in Vm, CompleteMigration(v) PROVE InformedInv'
    BY <2>2, DisturbInformed DEF CompleteMigration, TypeOK
  <2>3. ASSUME NEW v \in Vm, ForeignWrite(v) PROVE InformedInv'
    BY <2>3, DisturbInformed DEF ForeignWrite
  <2>4. ASSUME NEW v \in Vm, Fault(v) PROVE InformedInv'
    <3>1. CASE EndPass(v)
      BY <2>4, <3>1, EndPassInformed DEF Fault
    <3>2. CASE MigrationRequested(pass[v].copy) /\ Continue(v, "bypass")
      BY <2>4, <3>2, ContinueInformed DEF Fault
    <3>3. QED
      BY <2>4, <3>1, <3>2 DEF Fault, ScheduleFailed
  <2>5. ASSUME NEW n \in Node, EvictionFault(n) PROVE InformedInv'
    <3>1. \A m \in Node : eviction'[m].fresh \subseteq eviction[m].fresh
      BY <2>5 DEF EvictionFault, TypeOK, NoEviction
    <3>2. QED
      BY <2>5, <3>1 DEF EvictionFault, InformedInv, At
  <2>6. ASSUME Restart PROVE InformedInv'
    BY <2>6 DEF Restart, Idle, NoEviction, InformedInv, At
  <2>7. QED
    BY <1>4, <2>1, <2>2, <2>3, <2>4, <2>5, <2>6 DEF Environment, ToggleMaintenance
<1>5. QED
  BY <1>1, <1>2, <1>3, <1>4 DEF Next

\* Every write is still grounded when it is made: the choice fits the copy it
\* is written on top of, and an eviction asks VMs to leave their own node only.
THEOREM Informed == Spec => []InformedInv
<1>1. Init => InformedInv
  BY DEF Init, InformedInv, Idle, NoEviction, At
<1>2. IInv /\ InformedInv /\ [Next]_vars => InformedInv'
  BY InformedStep DEF IInv
<1>3. QED
  BY <1>1, <1>2, Inductive, PTL DEF Spec

-----------------------------------------------------------------------------
(* The refinement.                                                         *)

\* A step in which VmPlacement sees nothing happen.
Unseen ==
  /\ \A v \in Vm : /\ NodeOf(vmObj'[v]) = NodeOf(vmObj[v])
                   /\ vmObj'[v].request = vmObj[v].request
                   /\ Announced(vmObj'[v]) = Announced(vmObj[v])
  /\ overridden' = overridden

\* Such a step is a stutter of VmPlacement.
LEMMA UnseenStep ==
  ASSUME Unseen
  PROVE  UNCHANGED Placement!vars
BY DEF Unseen, Placement!vars

\* A write that changes neither placement nor request nor announcement.
LEMMA WriteUnseen ==
  ASSUME TypeOK, NEW v \in Vm, NEW STATE new, NEW STATE next, Write(v, new, next),
         pass[v].fresh => /\ NodeOf(new) = NodeOf(vmObj[v])
                          /\ new.request = vmObj[v].request
                          /\ Announced(new) = Announced(vmObj[v]),
         UNCHANGED overridden
  PROVE  Unseen
<1>1. CASE pass[v].fresh
  BY <1>1, WriteEffect DEF Unseen
<1>2. CASE ~pass[v].fresh
  BY <1>2 DEF Write, Unseen
<1>3. QED
  BY <1>1, <1>2

\* An eviction asks a VM to leave the node that VmPlacement has it on.
LEMMA RequestRefines ==
  ASSUME TypeOK, InformedInv, NEW n \in Node, RequestMigration(n)
  PROVE  [Placement!Next]_(Placement!vars)
<1>1. PICK v \in eviction[n].todo : Ask(n, v)
  BY DEF RequestMigration
<1>2. v \in Vm /\ n # None
  BY NoneAssumption DEF TypeOK, Eviction
<1>3. CASE v \in eviction[n].fresh
  <2>1. /\ vmObj' = [vmObj EXCEPT ![v] = [vmObj[v] EXCEPT !.request = n]]
        /\ overridden' = overridden
    BY <1>1, <1>3 DEF Ask, RequestMigration
  <2>2. NodeOf(vmObj[v]) = n
    BY <1>3 DEF InformedInv
  <2>3. vmObj'[v].status = vmObj[v].status /\ vmObj'[v].request = n
    BY <1>2, <2>1 DEF TypeOK, Object
  <2>4. \A w \in Vm \ {v} : vmObj'[w] = vmObj[w]
    BY <1>2, <2>1 DEF TypeOK
  <2>5. \A w \in Vm : NodeOf(vmObj'[w]) = NodeOf(vmObj[w])
                      /\ Announced(vmObj'[w]) = Announced(vmObj[w])
    BY <2>3, <2>4 DEF NodeOf, Announced
  <2>6. Placement!Request(v)
    <3>1. [w \in Vm |-> vmObj'[w].request]
            = [[w \in Vm |-> vmObj[w].request] EXCEPT ![v] = n]
      BY <1>2, <2>3, <2>4
    <3>2. /\ [w \in Vm |-> NodeOf(vmObj'[w])] = [w \in Vm |-> NodeOf(vmObj[w])]
          /\ [w \in Vm |-> Announced(vmObj'[w])] = [w \in Vm |-> Announced(vmObj[w])]
      BY <2>5
    <3>3. QED
      BY <1>2, <2>1, <2>2, <3>1, <3>2 DEF Placement!Request
  <2>7. QED
    BY <1>2, <2>6 DEF Placement!Next
<1>4. CASE v \notin eviction[n].fresh
  <2>1. Unseen
    BY <1>1, <1>4 DEF Ask, RequestMigration, Unseen
  <2>2. QED
    BY <2>1, UnseenStep
<1>5. QED
  BY <1>3, <1>4

\* The report of a finished migration is the same in both.
LEMMA CompleteRefines ==
  ASSUME TypeOK, NEW v \in Vm, CompleteMigration(v)
  PROVE  Placement!Next
<1>1. vmObj[v] \in Object /\ vmObj[v].status \in Status /\ vmObj[v].status.pending
  BY DEF CompleteMigration, TypeOK, Object
<1>2. /\ vmObj'[v].status = [vmObj[v].status EXCEPT !.pending = FALSE]
      /\ vmObj'[v].request = vmObj[v].request
      /\ \A w \in Vm \ {v} : vmObj'[w] = vmObj[w]
  BY <1>1 DEF CompleteMigration, TypeOK, Object
<1>3. \A w \in Vm : NodeOf(vmObj'[w]) = NodeOf(vmObj[w])
                    /\ vmObj'[w].request = vmObj[w].request
  BY <1>1, <1>2, NoneAssumption DEF NodeOf, Status
<1>4. Announced(vmObj'[v]) = FALSE /\ Announced(vmObj[v])
  BY <1>1, <1>2, NoneAssumption DEF Announced, Status
<1>5. overridden' = overridden
  BY DEF CompleteMigration
<1>6. Placement!Complete(v)
  BY <1>2, <1>3, <1>4, <1>5 DEF Placement!Complete
<1>7. QED
  BY <1>6 DEF Placement!Next

\* An accepted status write is one placement: onto a node free of peers that
\* the VM was not asked to leave, or exempt.
LEMMA PlaceRefines ==
  ASSUME TypeOK, CopyInv, ChoiceInv, InformedInv, NEW v \in Vm, Place(v)
  PROVE  [Placement!Next]_(Placement!vars)
<1>1. CASE ~pass[v].fresh
  <2>1. Unseen
    BY <1>1 DEF Place, WriteStatus, Write, Unseen
  <2>2. QED
    BY <2>1, UnseenStep
<1>2. CASE pass[v].fresh
  <2> DEFINE n == pass[v].choice
             new == [vmObj[v] EXCEPT !.status = PlacedStatus(pass[v])]
  <2>1. /\ At(v, "place")
        /\ pass[v].copy = vmObj[v]
        /\ vmObj[v] \in Object
        /\ vmObj[v].status \in Status
        /\ n \in Node
    BY <1>2 DEF Place, At, CopyInv, ChoiceInv, TypeOK, Pass, Object
  <2>2. /\ vmObj'[v] = new
        /\ \A w \in Vm \ {v} : vmObj'[w] = vmObj[w]
    <3>1. Write(v, new, LastCall(pass[v].copy))
      BY DEF Place, WriteStatus
    <3>2. QED
      BY <1>2, <3>1, WriteEffect
  <2>3. new.status = PlacedStatus(pass[v]) /\ new.request = vmObj[v].request
    BY <2>1 DEF Object
  <2>4. /\ PlacedStatus(pass[v]).node = n
        /\ PlacedStatus(pass[v]).pending
             = (vmObj[v].status.pending \/ MigrationRequested(vmObj[v]))
        /\ PlacedStatus(pass[v]) \in Status
    BY <2>1 DEF PlacedStatus, Status, MigrationRequested
  <2>5. /\ NodeOf(vmObj'[v]) = n
        /\ vmObj'[v].request = vmObj[v].request
        /\ Announced(vmObj'[v]) = (Announced(vmObj[v]) \/ MigrationRequested(vmObj[v]))
    <3>1. vmObj[v].status # None /\ vmObj'[v].status # None
      BY <2>1, <2>2, <2>3, <2>4, NoneAssumption
    <3>2. vmObj'[v].status = PlacedStatus(pass[v]) /\ vmObj'[v].request = vmObj[v].request
      BY <2>2, <2>3
    <3>3. Announced(vmObj[v]) = vmObj[v].status.pending
      BY <3>1 DEF Announced
    <3>4. Announced(vmObj'[v]) = PlacedStatus(pass[v]).pending
      BY <3>1, <3>2 DEF Announced
    <3>5. NodeOf(vmObj'[v]) = n
      BY <2>4, <3>1, <3>2 DEF NodeOf
    <3>6. QED
      BY <2>4, <3>2, <3>3, <3>4, <3>5
  <2>6. Placement!Leaving(v) = MigrationRequested(vmObj[v])
    BY DEF Placement!Leaving, MigrationRequested
  <2>7. \/ Placement!Admissible(v, n) /\ overridden' = overridden \ {v}
        \/ Placement!Exempt(v, n) /\ overridden' = overridden \cup {v}
    <3>1. CASE Pinned[v] # None
      <4>1. Pinned[v] = n
        BY <2>1, <3>1 DEF InformedInv
      <4>2. QED
        BY <1>2, <3>1, <4>1 DEF Place, Placement!Exempt
    <3>2. CASE Pinned[v] = None
      <4>1. n \notin Cordoned /\ n # vmObj[v].request
        BY <2>1, <3>2 DEF InformedInv
      <4>2. CASE pass[v].bypassed
        <5>1. Placement!Leaving(v)
          BY <2>1, <2>6, <3>2, <4>2 DEF InformedInv
        <5>2. QED
          BY <1>2, <3>2, <4>1, <4>2, <5>1 DEF Place, Placement!Exempt
      <4>3. CASE ~pass[v].bypassed
        <5>1. \A w \in Peers(v) : NodeOf(vmObj[w]) # n
          BY <2>1, <3>2, <4>3 DEF ChoiceInv, At
        <5>2. \A w \in Placement!Peers(v) : w \in Vm /\ w \in Peers(v)
          BY DEF Peers, Group, Placement!Peers
        <5>3. Placement!Admissible(v, n)
          BY <3>2, <4>1, <5>1, <5>2 DEF Placement!Admissible
        <5>4. QED
          BY <1>2, <3>2, <4>3, <5>3 DEF Place
      <4>4. QED
        BY <4>2, <4>3
    <3>3. QED
      BY <3>1, <3>2
  <2>8. [w \in Vm |-> NodeOf(vmObj'[w])]
          = [[w \in Vm |-> NodeOf(vmObj[w])] EXCEPT ![v] = n]
    BY <2>2, <2>5
  <2>9. [w \in Vm |-> vmObj'[w].request] = [w \in Vm |-> vmObj[w].request]
    BY <2>2, <2>5
  <2>10. [w \in Vm |-> Announced(vmObj'[w])]
           = [[w \in Vm |-> Announced(vmObj[w])] EXCEPT ![v] = @ \/ Placement!Leaving(v)]
    BY <2>2, <2>5, <2>6
  <2>11. Placement!Place(v, n)
    BY <2>7, <2>8, <2>9, <2>10 DEF Placement!Place
  <2>12. QED
    BY <2>1, <2>11 DEF Placement!Next
<1>3. QED
  BY <1>1, <1>2

\* A request is withdrawn only once it names another node than the VM's.
LEMMA WithdrawRefines ==
  ASSUME TypeOK, CopyInv, InformedInv, NEW v \in Vm, ClearRequest(v)
  PROVE  [Placement!Next]_(Placement!vars)
<1>1. CASE ~pass[v].fresh
  <2>1. Unseen
    BY <1>1 DEF ClearRequest, Commit, Write, Unseen
  <2>2. QED
    BY <2>1, UnseenStep
<1>2. CASE pass[v].fresh
  <2> DEFINE new == [[pass[v].copy EXCEPT !.request = None]
                       EXCEPT !.status = vmObj[v].status]
  <2>1. pass[v].copy = vmObj[v] /\ vmObj[v] \in Object /\ ClearDue(vmObj[v])
    BY <1>2 DEF ClearRequest, CopyInv, InformedInv, TypeOK
  <2>2. new.status = vmObj[v].status /\ new.request = None
    BY <2>1 DEF Object
  <2>3. vmObj'[v] = new /\ \A w \in Vm \ {v} : vmObj'[w] = vmObj[w]
    <3>1. Write(v, new, "idle")
      BY DEF ClearRequest, Commit
    <3>2. QED
      BY <1>2, <3>1, WriteEffect
  <2>4. \A w \in Vm : NodeOf(vmObj'[w]) = NodeOf(vmObj[w])
                      /\ Announced(vmObj'[w]) = Announced(vmObj[w])
    BY <2>2, <2>3 DEF NodeOf, Announced
  <2>5. [w \in Vm |-> vmObj'[w].request]
          = [[w \in Vm |-> vmObj[w].request] EXCEPT ![v] = None]
    BY <2>2, <2>3
  <2>6. vmObj[v].request # None /\ ~Placement!Leaving(v)
    BY <2>1 DEF ClearDue, Placement!Leaving
  <2>7. /\ [w \in Vm |-> NodeOf(vmObj'[w])] = [w \in Vm |-> NodeOf(vmObj[w])]
        /\ [w \in Vm |-> Announced(vmObj'[w])] = [w \in Vm |-> Announced(vmObj[w])]
    BY <2>4
  <2>8. Placement!Withdraw(v)
    BY <2>5, <2>6, <2>7 DEF Placement!Withdraw, ClearRequest
  <2>9. QED
    BY <2>8 DEF Placement!Next
<1>3. QED
  BY <1>1, <1>2

\* Every step is a step or a stutter of VmPlacement.
LEMMA PlacementStep ==
  TypeOK /\ CopyInv /\ ChoiceInv /\ InformedInv /\ [Next]_vars
    => [Placement!Next]_(Placement!vars)
<1> SUFFICES ASSUME TypeOK, CopyInv, ChoiceInv, InformedInv, [Next]_vars
             PROVE  [Placement!Next]_(Placement!vars)
  OBVIOUS
<1>1. CASE UNCHANGED vars
  BY <1>1, UnseenStep DEF vars, Unseen
<1>2. ASSUME NEW v \in Vm, PassStep(v) \/ AcquireMutex(v)
      PROVE  [Placement!Next]_(Placement!vars)
  <2>1. /\ vmObj[v] \in Object
        /\ pass[v].fresh => pass[v].copy = vmObj[v]
    BY DEF TypeOK, CopyInv
  <2>2. CASE InitializeStatus(v)
    <3>1. pass[v].fresh => vmObj[v].status = None
      BY <2>1, <2>2 DEF InitializeStatus, At, CopyInv
    <3> DEFINE new == [vmObj[v] EXCEPT !.status = BlankStatus]
    <3>2. new.status = BlankStatus /\ new.request = vmObj[v].request
      BY <2>1 DEF Object
    <3>3. NodeOf(new) = None /\ Announced(new) = FALSE
      BY <3>2 DEF NodeOf, Announced, BlankStatus
    <3>4. pass[v].fresh => NodeOf(vmObj[v]) = None /\ Announced(vmObj[v]) = FALSE
      BY <3>1 DEF NodeOf, Announced
    <3>5. Write(v, new, "idle") /\ UNCHANGED overridden
      BY <2>2 DEF InitializeStatus, WriteStatus
    <3> HIDE DEF new
    <3>6. Unseen
      BY <3>2, <3>3, <3>4, <3>5, WriteUnseen
    <3>7. QED
      BY <3>6, UnseenStep
  <2>3. CASE FillNics(v)
    <3> DEFINE status == [pass[v].copy.status EXCEPT !.nics = TRUE]
    <3>1. pass[v].fresh => vmObj[v].status \in Status
      BY <2>1, <2>3 DEF FillNics, At, CopyInv, Object
    <3>2. pass[v].fresh => /\ status.node = vmObj[v].status.node
                           /\ status.pending = vmObj[v].status.pending
                           /\ status \in Status
      BY <2>1, <3>1 DEF Status
    <3>3. /\ [vmObj[v] EXCEPT !.status = status].status = status
          /\ [vmObj[v] EXCEPT !.status = status].request = vmObj[v].request
      BY <2>1 DEF Object
    <3>4. pass[v].fresh => status # None /\ vmObj[v].status # None
      BY <3>1, <3>2, NoneAssumption
    <3> DEFINE new == [vmObj[v] EXCEPT !.status = status]
    <3>5. pass[v].fresh => /\ NodeOf(new) = NodeOf(vmObj[v])
                           /\ new.request = vmObj[v].request
                           /\ Announced(new) = Announced(vmObj[v])
      BY <3>2, <3>3, <3>4 DEF NodeOf, Announced
    <3>6. Write(v, new, "idle") /\ UNCHANGED overridden
      BY <2>3 DEF FillNics, WriteStatus
    <3> HIDE DEF new
    <3>7. Unseen
      BY <3>5, <3>6, WriteUnseen
    <3>8. QED
      BY <3>7, UnseenStep
  <2>4. CASE CommitNics(v)
    <3>1. pass[v].fresh => [pass[v].copy EXCEPT !.status = vmObj[v].status] = vmObj[v]
      BY <2>1 DEF Object
    <3>2. Unseen
      BY <2>4, <3>1, WriteUnseen DEF CommitNics, Commit
    <3>3. QED
      BY <3>2, UnseenStep
  <2>5. CASE FillUuid(v)
    <3> DEFINE new == [[pass[v].copy EXCEPT !.uuid = TRUE]
                         EXCEPT !.status = vmObj[v].status]
    <3>1. pass[v].fresh => new.status = vmObj[v].status /\ new.request = vmObj[v].request
      BY <2>1 DEF Object
    <3>2. pass[v].fresh => /\ NodeOf(new) = NodeOf(vmObj[v])
                           /\ Announced(new) = Announced(vmObj[v])
      BY <3>1 DEF NodeOf, Announced
    <3>3. Write(v, new, "check") /\ UNCHANGED overridden
      BY <2>5 DEF FillUuid, Commit
    <3> HIDE DEF new
    <3>4. Unseen
      BY <3>1, <3>2, <3>3, WriteUnseen
    <3>5. QED
      BY <3>4, UnseenStep
  <2>6. CASE Place(v)
    BY <2>6, PlaceRefines
  <2>7. CASE ClearRequest(v)
    BY <2>7, WithdrawRefines
  <2>8. CASE UNCHANGED <<vmObj, overridden>>
    BY <2>8, UnseenStep DEF Unseen
  <2>9. QED
    BY <1>2, <2>2, <2>3, <2>4, <2>5, <2>6, <2>7, <2>8
       DEF PassStep, Begin, CheckPlacement, AcquireMutex, Schedule,
           ScheduleIgnoringAffinity
<1>3. ASSUME NEW n \in Node, NodeStep(n) PROVE [Placement!Next]_(Placement!vars)
  <2>1. CASE UNCHANGED <<vmObj, overridden>>
    BY <2>1, UnseenStep DEF Unseen
  <2>2. QED
    BY <1>3, <2>1, RequestRefines DEF NodeStep, ReconcileNode, ListVms
<1>4. CASE Environment
  <2>1. CASE UNCHANGED <<vmObj, overridden>>
    BY <2>1, UnseenStep DEF Unseen
  <2>2. QED
    BY <1>4, <2>1, CompleteRefines
       DEF Environment, ToggleMaintenance, EvictionFault, ForeignWrite, Fault, Restart
<1>5. QED
  BY <1>1, <1>2, <1>3, <1>4 DEF Next

\* No VM is placed, asked to leave or announced when the objects are created.
LEMMA PlacementInit == Init => Placement!Init
<1> SUFFICES ASSUME Init PROVE Placement!Init
  OBVIOUS
<1>1. ASSUME NEW v \in Vm
      PROVE  /\ NodeOf(vmObj[v]) = None
             /\ vmObj[v].request = None
             /\ Announced(vmObj[v]) = FALSE
  BY DEF Init, NodeOf, Announced, BlankStatus
<1>2. QED
  BY <1>1 DEF Init, Placement!Init

\* The controllers implement VmPlacement: every write they get through is a
\* placement, a request, a withdrawal or a completion that was right in the
\* very state it was made in.
THEOREM Implements == Spec => PlacementSpec
<1>1. IInv /\ InformedInv /\ [Next]_vars => [Placement!Next]_(Placement!vars)
  BY PlacementStep DEF IInv
<1>2. QED
  BY PlacementInit, <1>1, Inductive, Informed, PTL
     DEF Spec, PlacementSpec, Placement!Spec

=============================================================================
