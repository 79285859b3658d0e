-------------------------------- MODULE VmCrd --------------------------------
(***************************************************************************)
(* The VirtualMachine resource definition and its stored versions.         *)
(* Before the controllers start, crd/virtualmachine.rs brings a cluster    *)
(* that knows only v1beta2 to v1beta3, where the addresses of NICs are in  *)
(* the status: both versions are served in parallel, every VM's            *)
(* spec.networks is copied to its status, and v1beta2 is removed           *)
(* (crd/utils.rs).  An error at any call ends the process, and the next    *)
(* one starts over.                                                        *)
(*                                                                         *)
(* The API server is external.  It writes an object in the version that is *)
(* then the storage version, remembers in status.storedVersions which ones *)
(* it has used, refuses a definition that drops one of those, and refuses  *)
(* a status without the fields its schema requires: a status that has      *)
(* nothing but networks.  VMs in all namespaces are listed in one step.    *)
(***************************************************************************)
EXTENDS Reconciler

Old == "v1beta2"
Latest == "v1beta3"

\* What the API server knows of the definition: the versions it serves, the one
\* it writes, and those it may have written.
Definition ==
  [versions: SUBSET {Old, Latest}, storage: {Old, Latest}, stored: SUBSET {Old, Latest}]

ASSUME NoneAssumption == None \notin Definition

VARIABLES
  crd,    \* the definition, or None
  boot    \* where `create` is, the VMs it has listed, and whether its copy is current

Booting == [at |-> "get", todo |-> <<>>, fresh |-> FALSE]

\* The controllers of this process have been started.
Up == boot.at = "run"

\* What the API server stores of o: encoded in the storage version.
Encoded(o) == [o EXCEPT !.encoding = crd.storage]

\* std::process::exit, whether by the supervisor or by a panic.  The next
\* process lists the VMs again.
Exit ==
  /\ boot' = Booting
  /\ pass' = [v \in Object |-> Idle]
  /\ cache' = [v \in Object |-> Current]

\* The API server accepts the definition, or its refusal ends the process.
ReplaceCrd(new, next) ==
  IF new.stored \subseteq new.versions
    THEN crd' = new /\ boot' = [boot EXCEPT !.at = next] /\ UNCHANGED <<cache, pass>>
    ELSE Exit /\ UNCHANGED crd

-----------------------------------------------------------------------------
(* create                                                                  *)

\* Mutant: the latest version among others is taken for a finished migration.
GetCrdWithLatest ==
  /\ boot.at = "get"
  /\ boot' = [boot EXCEPT !.at = IF crd # None /\ Latest \in crd.versions
                                   THEN "run" ELSE "merge"]
  /\ UNCHANGED <<obj, cache, pass, crd, budget>>

\* One version, the latest: nothing to migrate, and the schema is applied
\* again.  A definition that could not be read is taken to be absent.
GetCrd ==
  /\ boot.at = "get"
  /\ \/ /\ crd # None
        /\ boot' = [boot EXCEPT !.at = IF crd.versions = {Latest} THEN "run" ELSE "merge"]
        /\ UNCHANGED budget
     \/ crd = None /\ boot' = [boot EXCEPT !.at = "merge"] /\ UNCHANGED budget
     \/ Spend("trouble") /\ boot' = [boot EXCEPT !.at = "merge"]
  /\ UNCHANGED <<obj, cache, pass, crd>>

\* All versions in parallel, the latest for storage.
MergeVersions ==
  /\ boot.at = "merge"
  /\ ReplaceCrd([versions |-> {Old, Latest}, storage |-> Latest,
                 stored |-> {Latest} \cup (IF crd = None THEN {} ELSE crd.stored)],
                "migrate")
  /\ UNCHANGED <<obj, budget>>

\* Mutant: VMs that cannot be patched are left out.
MigrateReported ==
  /\ boot.at = "migrate"
  /\ boot' = IF Old \in crd.stored
               THEN [boot EXCEPT !.at = "patch",
                       !.todo = [v \in {w \in Object : obj[w] # None /\ obj[w].status # None}
                                   |-> obj[v].spec]]
               ELSE [boot EXCEPT !.at = "final"]
  /\ UNCHANGED <<obj, cache, pass, crd, budget>>

\* run_migrations: list all VMs, if there may be some in the old version.
RunMigrations ==
  /\ boot.at = "migrate"
  /\ boot' = IF Old \in crd.stored
               THEN [boot EXCEPT !.at = "patch",
                       !.todo = [v \in {w \in Object : obj[w] # None} |-> obj[v].spec]]
               ELSE [boot EXCEPT !.at = "final"]
  /\ UNCHANGED <<obj, cache, pass, crd, budget>>

\* The listed spec.networks of a VM become its status.networks, whatever its
\* version is now.  No VM and no status are errors.
PatchStatus(v) ==
  /\ boot.at = "patch"
  /\ v \in DOMAIN boot.todo
  /\ IF obj[v] # None /\ obj[v].status # None
       THEN /\ Store(v, Encoded([obj[v] EXCEPT !.status = boot.todo[v]]))
            /\ boot' = [boot EXCEPT !.todo = [w \in DOMAIN @ \ {v} |-> @[w]]]
            /\ UNCHANGED pass
       ELSE Exit /\ UNCHANGED obj
  /\ UNCHANGED <<crd, budget>>

\* Mutant: the version goes from the definition first.
RemoveServedFirst ==
  /\ boot.at = "patch" /\ boot.todo = <<>>
  /\ ReplaceCrd([crd EXCEPT !.versions = @ \ {Old}], "reread")
  /\ UNCHANGED <<obj, budget>>

\* remove_crd_version: from the stored versions,
RemoveStored ==
  /\ boot.at = "patch" /\ boot.todo = <<>>
  /\ ReplaceCrd([crd EXCEPT !.stored = @ \ {Old}], "reread")
  /\ UNCHANGED <<obj, budget>>

\* ... and, read again, from the served ones,
RereadCrd ==
  /\ boot.at = "reread"
  /\ boot' = [boot EXCEPT !.at = "replace", !.fresh = TRUE]
  /\ UNCHANGED <<obj, cache, pass, crd, budget>>

\* ... unless it has changed since.
RemoveVersion ==
  /\ boot.at = "replace"
  /\ IF boot.fresh THEN ReplaceCrd([crd EXCEPT !.versions = @ \ {Old}], "final")
                   ELSE Exit /\ UNCHANGED crd
  /\ UNCHANGED <<obj, budget>>

\* Nothing but the latest version.
ApplyLatest ==
  /\ boot.at = "final"
  /\ ReplaceCrd([crd EXCEPT !.versions = {Latest}, !.storage = Latest], "run")
  /\ UNCHANGED <<obj, budget>>

Upgrade ==
  \/ GetCrd \/ MergeVersions \/ RunMigrations \/ RemoveStored \/ RereadCrd
  \/ RemoveVersion \/ ApplyLatest
  \/ \E v \in Object : PatchStatus(v)

-----------------------------------------------------------------------------
(* The environment                                                         *)

\* A call fails, or the process is stopped.
Stop ==
  /\ Spend("trouble")
  /\ Exit
  /\ UNCHANGED <<obj, crd>>

\* The API server updates the conditions of the definition.
TouchCrd ==
  /\ Spend("trouble")
  /\ boot.at = "replace"
  /\ boot' = [boot EXCEPT !.fresh = FALSE]
  /\ UNCHANGED <<obj, cache, pass, crd>>

-----------------------------------------------------------------------------
(* Properties                                                              *)

\* Every stored VM is in a version that is still served: none is written in the
\* old one after the VMs were listed, however often the migration is cut short
\* and started over, so that removing the version makes none unreadable.
EncodingsReadable == \A v \in Object : obj[v] # None => obj[v].encoding \in crd.versions

\* The migration finishes and the controllers run, whichever of its calls fails
\* and whatever users do meanwhile, unless there is a VM that was never
\* reconciled: its status cannot be patched, and every start ends there.
UpgradeCompletes == <>[]Up \/ <>[](\E v \in Object : obj[v] # None /\ obj[v].status = None)

=============================================================================
