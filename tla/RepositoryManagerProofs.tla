---------------------- MODULE RepositoryManagerProofs ----------------------
(* What RepositoryManager promises for every set of repositories, names    *)
(* and installations and every number of faults, changes and commands.     *)
EXTENDS RepositoryManager, TLAPS

-----------------------------------------------------------------------------
(* The functions over policies.                                            *)

(* A policy that parses.                                                   *)
Valid(p) == p \in Policies /\ Unambiguous(p)

(* The empty policy parses.                                                *)
LEMMA EmptyIsValid == Valid(EmptyPolicy) /\ IdsIn(EmptyPolicy) = {}
BY DEF Valid, EmptyPolicy, Policies, Unambiguous, IdsIn

(* An intersection parses and allows nothing that one side does not allow. *)
LEMMA IntersectionNarrows ==
    ASSUME NEW p, NEW q, Valid(p), Valid(q)
    PROVE  /\ Valid(IntersectPolicies(p, q))
           /\ IdsIn(IntersectPolicies(p, q)) \subseteq IdsIn(p)
BY DEF Valid, Policies, Unambiguous, IntersectPolicies, Smaller, IdsIn

(* A policy without a repository parses, and the rest is as it was.        *)
LEMMA WithoutNarrows ==
    ASSUME NEW p, NEW id, Valid(p)
    PROVE  /\ Valid(WithoutRepository(p, id))
           /\ IdsIn(WithoutRepository(p, id)) \subseteq IdsIn(p)
           /\ IdsIn(p) \subseteq IdsIn(WithoutRepository(p, id)) \cup {id}
BY DEF Valid, Policies, Unambiguous, WithoutRepository, IdsIn

(* A repository that conflicts with nothing can be added, and nothing else *)
(* is.                                                                     *)
LEMMA WithAddsOne ==
    ASSUME NEW p, NEW install \in Installs, NEW r \in Identities,
           Valid(p), ~Conflicts(p, install, r)
    PROVE  /\ Valid(WithRepository(p, install, r))
           /\ IdsIn(WithRepository(p, install, r))
                 \subseteq IdsIn(p) \cup {r.id}
           /\ IdsIn(p) \subseteq IdsIn(WithRepository(p, install, r))
<1> DEFINE e == EntryOf(install, r)
<1>1. e \in Entries /\ e.id = r.id /\ e.name = r.name
      /\ e.install = install
  BY DEF EntryOf, Entries, Identities
<1>2. CASE e \in p.entries
  BY <1>2 DEF WithRepository
<1>3. CASE e \notin p.entries
  <2> DEFINE w == WithRepository(p, install, r)
  <2>1. w = [revision |-> p.revision + 1, entries |-> p.entries \cup {e}]
    BY <1>3 DEF WithRepository
  <2>2. w \in Policies
    BY <2>1, <1>1 DEF Valid, Policies
  <2>3. \A f \in p.entries : f.id = e.id \/ f.name = e.name => f = e
    BY <1>1 DEF Conflicts, Valid, Policies, Entries
  <2>4. Unambiguous(w)
    BY <2>1, <2>3 DEF Valid, Unambiguous
  <2> QED  BY <2>1, <2>2, <2>4, <1>1 DEF Valid, IdsIn
<1> QED  BY <1>2, <1>3

-----------------------------------------------------------------------------
(* How steps change the command and the journal.                           *)

(* No command is a command.                                                *)
LEMMA IdleIsTyped == Idle \in Commands
BY EmptyIsValid, BoundsAssumption
   DEF Idle, Commands, NoOperation, RemoveOperation, Valid

(* The command that an add starts as.                                      *)
NewAdd(ref, repo, install, may, waiting) ==
    [Idle EXCEPT !.op = "add", !.ref = ref, !.repo = repo,
                 !.install = install, !.access = may, !.verify = waiting]

(* It holds what the journal and GitHub said.                              *)
LEMMA Adds ==
    ASSUME NEW ref \in Names, NEW repo \in Identities,
           NEW install \in 0..MaxInstalls, NEW may \in BOOLEAN,
           NEW waiting \in BOOLEAN
    PROVE  LET c == NewAdd(ref, repo, install, may, waiting)
           IN  /\ c \in Commands /\ c.op = "add" /\ c.ref = ref
               /\ c.repo = repo /\ c.install = install
               /\ c.verify = waiting
               /\ c.prior = EmptyPolicy /\ c.seen = EmptyPolicy
               /\ c.target = EmptyPolicy
<1> DEFINE c == NewAdd(ref, repo, install, may, waiting)
<1>1. /\ Idle.prior = EmptyPolicy /\ Idle.seen = EmptyPolicy
      /\ Idle.target = EmptyPolicy
  BY DEF Idle
<1>2. c \in Commands
  BY IdleIsTyped DEF Commands, NewAdd
<1>3. /\ c.op = "add" /\ c.ref = ref /\ c.repo = repo
      /\ c.install = install /\ c.verify = waiting
  BY IdleIsTyped DEF Commands, NewAdd
<1>4. /\ c.prior = EmptyPolicy /\ c.seen = EmptyPolicy
      /\ c.target = EmptyPolicy
  BY IdleIsTyped, <1>1 DEF Commands, NewAdd
<1> QED  BY <1>2, <1>3, <1>4

(* A command that ends forgets what it held.                               *)
LEMMA Ends ==
    ASSUME NEW s, cmd \in Commands, End(s)
    PROVE  /\ pc' = "idle" /\ status' = s /\ cmd' \in Commands
           /\ cmd'.prior = EmptyPolicy /\ cmd'.seen = EmptyPolicy
           /\ cmd'.target = EmptyPolicy /\ cmd'.omits = cmd.omits
           /\ cmd'.repo = cmd.repo /\ cmd'.ref = cmd.ref
<1>1. cmd' = [Idle EXCEPT !.op = cmd.op, !.ref = cmd.ref, !.repo = cmd.repo,
                          !.omits = cmd.omits]
  BY DEF End
<1>2. cmd' \in Commands
  BY <1>1, IdleIsTyped DEF Commands
<1> QED  BY <1>1, <1>2 DEF End, Idle

(* A change of KV holds its policy and where to go on, and what it held    *)
(* before.                                                                 *)
LEMMA GoesToCloud ==
    ASSUME NEW c \in Commands, NEW p \in Policies, NEW after \in Waypoints,
           ToCloud(p, after, c)
    PROVE  /\ pc' = "put" /\ status' = status /\ cmd' \in Commands
           /\ cmd'.target = p /\ cmd'.after = after
           /\ cmd'.op = c.op /\ cmd'.ref = c.ref /\ cmd'.keep = c.keep
           /\ cmd'.repo = c.repo /\ cmd'.install = c.install
           /\ cmd'.prior = c.prior /\ cmd'.seen = c.seen /\ cmd'.old = c.old
           /\ cmd'.omits = c.omits /\ cmd'.verify = c.verify
BY DEF ToCloud, Commands, Goto

(* A command can hold another policy that it read.                         *)
LEMMA Sees ==
    ASSUME NEW c \in Commands, NEW p \in Policies
    PROVE  LET d == [c EXCEPT !.seen = p]
           IN  /\ d \in Commands /\ d.seen = p
               /\ d.op = c.op /\ d.ref = c.ref /\ d.keep = c.keep
               /\ d.repo = c.repo /\ d.install = c.install
               /\ d.prior = c.prior /\ d.target = c.target /\ d.old = c.old
               /\ d.omits = c.omits
BY DEF Commands

(* An entry has a repository and an installation.                          *)
LEMMA EntriesAreNamed ==
    ASSUME NEW p \in Policies, NEW e \in p.entries
    PROVE  RepoOf(e) \in Identities /\ e.install \in Installs
BY DEF Policies, Entries, RepoOf, Identities

(* GitHub resolves a name to a repository under its present name.          *)
LEMMA ResolvedIsNamed ==
    ASSUME TypeInvariant, NEW ref \in Names, named[ref] # 0
    PROVE  Resolved(ref) \in Identities
BY DEF TypeInvariant, Resolved, Identities

(* What the journal is given are operations.                               *)
LEMMA OperationsAreTyped ==
    ASSUME NEW r \in Identities, NEW install \in 0..MaxInstalls
    PROVE  /\ AddOperation(r, install, TRUE) \in Operations
           /\ AddOperation(r, install, FALSE) \in Operations
           /\ RemoveOperation(r, install) \in Operations
BY DEF AddOperation, RemoveOperation, Operations

(* The journal keeps what it does not forget.                              *)
LEMMA JournalIsTyped ==
    ASSUME journal \subseteq Operations
    PROVE  /\ \A op \in Operations : Upsert(op) \subseteq Operations
           /\ \A kind, id : Forget(kind, id) \subseteq Operations
BY DEF Upsert, Forget

-----------------------------------------------------------------------------
(* The inductive invariant.                                                *)

(* The command is at a step of S, or changes KV and goes on at one of T.   *)
At(S, T) == pc \in S \/ (pc \in {"put", "verify"} /\ cmd.after \in T)

(* What a rerun of the same add would have to restore is no more than what *)
(* the local policy allows already.                                        *)
Restorable ==
    /\ cmd.op = "add"
    /\ IdsIn(cmd.prior) \subseteq IdsIn(local) \cup {cmd.repo.id}

(* Where a command may go on once it wrote KV or the journal.              *)
Afterwards ==
    /\ pc \in {"put", "verify"} =>
          cmd.after \in Adding \cup {"oldAccess", "noteAbsent", "revoked",
                                     "withdraw"}
    /\ pc = "noteRemoval" =>
          cmd.after \in {"readCloud", "narrow", "revokeCloudIdentity"}
    /\ pc = "revokeIdentity" => cmd.after = "revokeCloudIdentity"
    /\ pc \in {"notePropagation", "writeNext", "writeNextThenCloud"} =>
          cmd.after \in Adding

(* From which step on the command knows its repository, the installation,  *)
(* and the removal it has to finish.                                       *)
Known ==
    /\ pc # "idle" => cmd.ref \in Names
    /\ At({"revokeOld", "oldAccess"}, {"oldAccess"}) =>
          cmd.old \in Operations
    /\ At({"revokeOld", "oldAccess", "askInstall", "waitInstall",
           "policies"}, {"oldAccess"}) => cmd.op = "add"
    /\ At(Waypoints \ {"idle", "put", "verify", "readCloud", "narrow",
                       "revoked", "discover"},
          Adding \cup {"oldAccess", "noteAbsent", "withdraw"}) =>
          cmd.repo \in Identities
    /\ At({"policies", "notePropagation", "writeNext", "writeNextThenCloud",
           "restore", "grantAccess", "waitAccess", "forgetAdd"}, Adding) =>
          cmd.install \in Installs

(* An add writes a policy that allows no more than the local one and the   *)
(* repository it adds, and keeps what was allowed before to restore it.    *)
Widening ==
    /\ pc \in {"notePropagation", "writeNext", "writeNextThenCloud"} =>
          /\ Restorable
          /\ IdsIn(cmd.target) \subseteq IdsIn(local) \cup {cmd.repo.id}
          /\ IdsIn(cmd.prior) \subseteq IdsIn(cmd.target) \cup {cmd.repo.id}
    /\ At({"restore", "grantAccess", "waitAccess"}, Adding) => Restorable

(* The invariant.                                                          *)
PolicyInv == TypeInvariant /\ Afterwards /\ Known /\ Widening

-----------------------------------------------------------------------------
(* What the type invariant gives, and what it needs.                       *)

(* How a command ends; "none" before the first and while one runs.         *)
Statuses == {"none", "authorized", "pending", "removed", "mismatch",
             "github-access-pending", "conflict", "error"}

(* What the type invariant says of everything but GitHub.                  *)
Typed ==
    /\ Valid(local) /\ Valid(cloud) /\ Valid(visible)
    /\ Valid(cmd.prior) /\ Valid(cmd.seen) /\ Valid(cmd.target)
    /\ cmd \in Commands /\ journal \subseteq Operations
    /\ cmd.repo \in Identities \cup {NoRepo}
    /\ cmd.access \in BOOLEAN /\ cmd.install \in 0..MaxInstalls
    /\ 0 \in 0..MaxInstalls /\ installed \in 0..MaxInstalls
    /\ status \in Statuses

(* It holds wherever the type invariant does.                              *)
LEMMA Held == TypeInvariant => Typed
BY BoundsAssumption DEF TypeInvariant, Valid, Commands, Statuses, Typed

(* A step that leaves GitHub alone keeps the type invariant when what it   *)
(* writes is typed.                                                        *)
LEMMA TypesKept ==
    ASSUME TypeInvariant, UNCHANGED github, cmd' \in Commands,
           Valid(local'), Valid(cloud'), Valid(visible'),
           Valid(cmd'.prior), Valid(cmd'.seen), Valid(cmd'.target),
           journal' \subseteq Operations, pc' \in Waypoints,
           status' \in Statuses
    PROVE  TypeInvariant'
BY DEF TypeInvariant, Valid, Statuses, github

(* An ended command leaves nothing to keep track of.                       *)
LEMMA EndedInv ==
    ASSUME PolicyInv, NEW s \in Statuses, End(s), UNCHANGED github,
           journal' \subseteq Operations,
           Valid(local'), Valid(cloud'), Valid(visible')
    PROVE  PolicyInv'
<1>1. /\ pc' = "idle" /\ status' = s /\ cmd' \in Commands
      /\ cmd'.prior = EmptyPolicy /\ cmd'.seen = EmptyPolicy
      /\ cmd'.target = EmptyPolicy
  BY Held, Ends DEF PolicyInv, Typed
<1>2. TypeInvariant'
  BY <1>1, EmptyIsValid, TypesKept DEF PolicyInv, Waypoints
<1> QED
  BY <1>1, <1>2 DEF PolicyInv, Afterwards, Known, Widening, At, Waypoints

-----------------------------------------------------------------------------
(* Each step keeps the invariant.                                          *)

(* A repository is renamed, and an old name leads to it no more.           *)
LEMMA RenameStep ==
    ASSUME PolicyInv, NEW id \in Ids, NEW name \in Names,
           RenameRepository(id, name)
    PROVE  PolicyInv'
<1>1. TypeInvariant /\ Afterwards /\ Known /\ Widening
  BY DEF PolicyInv
<1>2. UNCHANGED <<local, cloud, visible, journal, pc, cmd, status>>
  BY DEF RenameRepository, process, policies
<1>3. TypeInvariant'
  BY <1>1, <1>2 DEF TypeInvariant, RenameRepository, Exists
<1> QED  BY <1>1, <1>2, <1>3
            DEF PolicyInv, Afterwards, Known, Widening, At, Restorable,
                Adding, Waypoints

(* A repository takes a name, and the one it replaces is gone.             *)
LEMMA CreateStep ==
    ASSUME PolicyInv, NEW id \in Ids, NEW name \in Names,
           CreateRepository(id, name)
    PROVE  PolicyInv'
<1>1. TypeInvariant /\ Afterwards /\ Known /\ Widening
  BY DEF PolicyInv
<1>2. UNCHANGED <<local, cloud, visible, journal, pc, cmd, status>>
  BY DEF CreateRepository, process, policies
<1>3. TypeInvariant'
  BY <1>1, <1>2, BoundsAssumption DEF TypeInvariant, CreateRepository
<1> QED  BY <1>1, <1>2, <1>3
            DEF PolicyInv, Afterwards, Known, Widening, At, Restorable,
                Adding, Waypoints

(* The App is installed anew.                                              *)
LEMMA InstallAppStep ==
    ASSUME PolicyInv, InstallApp
    PROVE  PolicyInv'
<1>1. TypeInvariant /\ Afterwards /\ Known /\ Widening
  BY DEF PolicyInv
<1>2. UNCHANGED <<local, cloud, visible, journal, pc, cmd, status, named,
                  canonical>>
  BY DEF InstallApp, process, policies
<1>3. /\ installs' \in 1..MaxInstalls /\ installed' \in 0..installs'
      /\ access' \subseteq Ids
  BY <1>1, BoundsAssumption DEF InstallApp, TypeInvariant
<1>4. TypeInvariant'
  BY <1>1, <1>2, <1>3 DEF TypeInvariant
<1> QED  BY <1>1, <1>2, <1>4
            DEF PolicyInv, Afterwards, Known, Widening, At, Restorable,
                Adding, Waypoints

(* The App is uninstalled.                                                 *)
LEMMA UninstallAppStep ==
    ASSUME PolicyInv, UninstallApp
    PROVE  PolicyInv'
<1>1. TypeInvariant /\ Afterwards /\ Known /\ Widening
  BY DEF PolicyInv
<1>2. UNCHANGED <<local, cloud, visible, journal, pc, cmd, status>>
  BY DEF UninstallApp, process, policies
<1>3. TypeInvariant'
  BY <1>1, <1>2 DEF TypeInvariant, UninstallApp
<1> QED  BY <1>1, <1>2, <1>3
            DEF PolicyInv, Afterwards, Known, Widening, At, Restorable,
                Adding, Waypoints

(* The App is given or denied access.                                      *)
LEMMA ChangeAccessStep ==
    ASSUME PolicyInv, NEW id \in Ids, ChangeAccess(id)
    PROVE  PolicyInv'
<1>1. TypeInvariant /\ Afterwards /\ Known /\ Widening
  BY DEF PolicyInv
<1>2. UNCHANGED <<local, cloud, visible, journal, pc, cmd, status>>
  BY DEF ChangeAccess, process, policies
<1>3. TypeInvariant'
  BY <1>1, <1>2 DEF TypeInvariant, ChangeAccess
<1> QED  BY <1>1, <1>2, <1>3
            DEF PolicyInv, Afterwards, Known, Widening, At, Restorable,
                Adding, Waypoints

(* What was written to KV parses, so what is read does.                    *)
LEMMA PropagateStep ==
    ASSUME PolicyInv, Propagate
    PROVE  PolicyInv'
<1>1. TypeInvariant /\ Afterwards /\ Known /\ Widening
  BY DEF PolicyInv
<1>2. UNCHANGED <<local, cloud, journal, github, pc, cmd, status>>
      /\ visible' = cloud
  BY DEF Propagate
<1>3. TypeInvariant'
  BY <1>1, <1>2 DEF TypeInvariant, github
<1> QED  BY <1>1, <1>2, <1>3
            DEF PolicyInv, Afterwards, Known, Widening, At, Restorable,
                Adding, Waypoints

(* A command that fails or is killed leaves the stores as they are.        *)
LEMMA InterruptStep ==
    ASSUME PolicyInv, Interrupt
    PROVE  PolicyInv'
<1>1. TypeInvariant /\ Afterwards /\ Known /\ Widening
  BY DEF PolicyInv
<1>2. Typed
  BY <1>1, Held
<1> USE DEF Typed
<1> QED  BY <1>2, EndedInv DEF Interrupt, policies, Statuses

(* What is written to KV is a policy that the command holds.               *)
LEMMA PutStep ==
    ASSUME PolicyInv, Put
    PROVE  PolicyInv'
<1>1. TypeInvariant /\ Afterwards /\ Known /\ Widening
  BY DEF PolicyInv
<1>2. Typed
  BY <1>1, Held
<1> USE DEF Typed
<1>3. /\ UNCHANGED <<local, visible, journal, github>>
      /\ cloud' \in {cloud, cmd.target} /\ cmd.ref \in Names
  BY <1>1 DEF Put, Known, Fault
<1>4. CASE End("error")
  BY <1>2, <1>3, <1>4, EndedInv DEF Statuses
<1>5. CASE ~End("error")
  <2>1. UNCHANGED <<cmd, status>>
        /\ (pc' = "verify" \/ (pc' = "restore" /\ cmd.after \in Adding))
    BY <1>5 DEF Put, Goto, Fault
  <2>2. TypeInvariant'
    BY <1>1, <1>2, <1>3, <2>1, TypesKept DEF Waypoints
  <2> QED  BY <1>1, <1>3, <2>1, <2>2
              DEF Put, PolicyInv, Afterwards, Known, Widening, At, Restorable,
                  Adding, Waypoints
<1> QED  BY <1>4, <1>5

(* A command whose policy did not settle restores or ends.                 *)
LEMMA VerifyStep ==
    ASSUME PolicyInv, Verify
    PROVE  PolicyInv'
<1>1. TypeInvariant /\ Afterwards /\ Known /\ Widening
  BY DEF PolicyInv
<1>2. Typed
  BY <1>1, Held
<1> USE DEF Typed
<1>3. /\ UNCHANGED <<local, cloud, journal, github>>
      /\ visible' \in {visible, cloud} /\ cmd.ref \in Names
  BY <1>1 DEF Verify, Known, Fault
<1>4. CASE End("error")
  BY <1>2, <1>3, <1>4, EndedInv DEF Statuses
<1>5. CASE ~End("error")
  <2>1. UNCHANGED <<cmd, status>>
        /\ (pc' = cmd.after \/ (pc' = "restore" /\ cmd.after \in Adding))
    BY <1>5 DEF Verify, Goto, Fault
  <2>2. cmd.after \in Adding \cup {"oldAccess", "noteAbsent", "revoked",
                                    "withdraw"}
    BY <1>1 DEF Verify, Afterwards
  <2>3. TypeInvariant'
    BY <1>1, <1>2, <1>3, <2>1, <2>2, TypesKept DEF Waypoints, Adding
  <2> QED  BY <1>1, <1>3, <2>1, <2>2, <2>3
              DEF Verify, PolicyInv, Afterwards, Known, Widening, At,
                  Restorable, Adding, Waypoints
<1> QED  BY <1>4, <1>5

(* An add starts with a repository that GitHub resolves.                   *)
LEMMA StartAddStep ==
    ASSUME PolicyInv, NEW ref \in Names, StartAdd(ref)
    PROVE  PolicyInv'
<1>1. TypeInvariant /\ Afterwards /\ Known /\ Widening
  BY DEF PolicyInv
<1>2. Typed
  BY <1>1, Held
<1> USE DEF Typed
<1> DEFINE repo == Resolved(ref)
           New(may, waiting) == NewAdd(ref, repo, installed, may, waiting)
           Straight(c) ==
              /\ cmd' = c
              /\ pc' = IF installed = 0 THEN "askInstall" ELSE "policies"
           Revoking(c) ==
              \E o \in journal :
                 cmd' = [c EXCEPT !.old = o] /\ pc' = "revokeOld"
           Starts(c) == Straight(c) \/ Revoking(c)
<1>3. repo \in Identities
  BY <1>1, ResolvedIsNamed DEF StartAdd
<1>4. /\ journal' \subseteq Operations /\ status' = "none"
      /\ UNCHANGED <<policies, github>>
  BY <1>2 DEF StartAdd
<1>5. PICK may \in BOOLEAN, waiting \in BOOLEAN : Starts(New(may, waiting))
  <2> DEFINE was == \E o \in journal : /\ o.kind = "add" /\ o.propagation
                                       /\ o.repo.id = repo.id
  <2>1. Starts(New(repo.id \in access, was))
    BY DEF StartAdd, NewAdd
  <2>2. (repo.id \in access) \in BOOLEAN /\ was \in BOOLEAN
    OBVIOUS
  <2> HIDE DEF New, Starts, was
  <2> QED  BY <2>1, <2>2, Zenon
<1> DEFINE c == New(may, waiting)
<1> HIDE DEF repo
<1>6. /\ c \in Commands /\ c.op = "add" /\ c.ref = ref /\ c.repo = repo
      /\ c.install = installed /\ c.prior = EmptyPolicy
      /\ c.seen = EmptyPolicy /\ c.target = EmptyPolicy
  <2>1. installed \in 0..MaxInstalls
    BY <1>2
  <2> QED  BY <1>3, <2>1, Adds
<1>7. Starts(c)
  BY <1>5
<1> HIDE DEF c
<1>8. ASSUME cmd' \in Commands, cmd'.op = "add", cmd'.ref = ref,
             cmd'.repo = repo, cmd'.prior = EmptyPolicy,
             cmd'.seen = EmptyPolicy, cmd'.target = EmptyPolicy,
             pc' \in {"revokeOld", "askInstall", "policies"},
             pc' = "revokeOld" => cmd'.old \in Operations,
             pc' = "policies" => cmd'.install \in Installs
      PROVE  PolicyInv'
  <2>1. TypeInvariant'
    BY <1>1, <1>2, <1>4, <1>8, TypesKept, EmptyIsValid
       DEF policies, Waypoints, Statuses
  <2> QED  BY <1>3, <1>8, <2>1
              DEF PolicyInv, Afterwards, Known, Widening, At, Restorable,
                  Adding, Waypoints
<1>9. CASE Straight(c)
  <2>1. installed # 0 => installed \in Installs
    BY <1>2, BoundsAssumption DEF Installs
  <2> QED  BY <1>6, <1>8, <1>9, <2>1
<1>10. CASE Revoking(c)
  <2> PICK o \in journal : cmd' = [c EXCEPT !.old = o] /\ pc' = "revokeOld"
    BY <1>10
  <2>1. /\ cmd' \in Commands /\ cmd'.old = o /\ cmd'.op = "add"
        /\ cmd'.ref = ref /\ cmd'.repo = repo /\ cmd'.prior = EmptyPolicy
        /\ cmd'.seen = EmptyPolicy /\ cmd'.target = EmptyPolicy
    BY <1>2, <1>6 DEF Commands
  <2>2. o \in Operations
    BY <1>2
  <2> QED  BY <1>8, <2>1, <2>2
<1> HIDE DEF Straight, Revoking
<1> QED  BY <1>7, <1>9, <1>10

(* The earlier removal is finished by narrowing both policies.             *)
LEMMA RevokeOldStep ==
    ASSUME PolicyInv, RevokeOld
    PROVE  PolicyInv'
<1>1. TypeInvariant /\ Afterwards /\ Known /\ Widening
  BY DEF PolicyInv
<1>2. Typed
  BY <1>1, Held
<1> USE DEF Typed
<1> DEFINE revoked == WithoutRepository(IntersectPolicies(local, visible),
                                        cmd.old.repo.id)
<1>3. Valid(revoked)
  BY <1>2, IntersectionNarrows, WithoutNarrows
<1>4. /\ UNCHANGED <<cloud, visible, journal, github>> /\ local' = revoked
      /\ cmd.ref \in Names /\ cmd.repo \in Identities
      /\ cmd.old \in Operations /\ cmd.op = "add"
  BY <1>1 DEF RevokeOld, Quiet, Known, At, Waypoints
<1>5. CASE visible = revoked
  <2>1. pc' = "oldAccess" /\ UNCHANGED <<cmd, status>>
    BY <1>5 DEF RevokeOld, Goto
  <2>2. TypeInvariant'
    BY <1>1, <1>2, <1>3, <1>4, <2>1, TypesKept DEF Waypoints
  <2> QED  BY <1>4, <2>1, <2>2
              DEF PolicyInv, Afterwards, Known, Widening, At, Restorable,
                  Adding, Waypoints
<1>6. CASE visible # revoked
  <2>1. ToCloud(revoked, "oldAccess", cmd)
    BY <1>6 DEF RevokeOld
  <2> HIDE DEF revoked
  <2>2. /\ pc' = "put" /\ status' = status /\ cmd' \in Commands
        /\ cmd'.target = revoked /\ cmd'.after = "oldAccess"
        /\ cmd'.op = cmd.op /\ cmd'.ref = cmd.ref /\ cmd'.old = cmd.old
        /\ cmd'.repo = cmd.repo /\ cmd'.prior = cmd.prior
        /\ cmd'.seen = cmd.seen
    BY <1>2, <1>3, <2>1, GoesToCloud DEF Valid, Waypoints
  <2>3. TypeInvariant'
    BY <1>1, <1>2, <1>3, <1>4, <2>2, TypesKept DEF Waypoints
  <2> QED  BY <1>4, <2>2, <2>3
              DEF PolicyInv, Afterwards, Known, Widening, At, Restorable,
                  Adding, Waypoints
<1> QED  BY <1>5, <1>6

(* An add goes on once the access of the earlier removal is gone.          *)
LEMMA OldAccessStep ==
    ASSUME PolicyInv, OldAccess
    PROVE  PolicyInv'
<1>1. TypeInvariant /\ Afterwards /\ Known /\ Widening
  BY DEF PolicyInv
<1>2. Typed
  BY <1>1, Held
<1> USE DEF Typed
<1> DEFINE id == cmd.old.repo.id
           Resumes(c) == /\ journal' = Forget("remove", id)
                         /\ cmd' = c /\ status' = status
                         /\ pc' = IF c.install = 0 THEN "askInstall"
                                                   ELSE "policies"
           kept == id # cmd.repo.id /\ cmd.access
<1>3. /\ UNCHANGED <<policies, github>> /\ cmd.repo \in Identities
      /\ cmd.op = "add" /\ cmd.ref \in Names
  BY <1>1 DEF OldAccess, Quiet, Known, At, Waypoints
<1>4. \/ End("pending") /\ UNCHANGED journal
      \/ Resumes(cmd) \/ Resumes([cmd EXCEPT !.install = 0])
      \/ Resumes([cmd EXCEPT !.access = kept])
  BY DEF OldAccess, Goto
<1>5. kept \in BOOLEAN
  BY <1>2
<1> HIDE DEF kept
<1>6. ASSUME NEW c \in Commands, Resumes(c), c.op = cmd.op,
             c.ref = cmd.ref, c.repo = cmd.repo, c.prior = cmd.prior,
             c.seen = cmd.seen, c.target = cmd.target
      PROVE  PolicyInv'
  <2>1. c.install # 0 => c.install \in Installs
    BY BoundsAssumption DEF Commands, Installs
  <2>2. journal' \subseteq Operations
    BY <1>2, <1>6, JournalIsTyped
  <2>3. TypeInvariant'
    BY <1>1, <1>2, <1>3, <1>6, <2>2, TypesKept DEF policies, Waypoints
  <2> QED  BY <1>3, <1>6, <2>1, <2>3
              DEF PolicyInv, Afterwards, Known, Widening, At, Restorable,
                  Adding, Waypoints
<1>7. ASSUME NEW c, c \in {[cmd EXCEPT !.install = 0],
                           [cmd EXCEPT !.access = kept]}
      PROVE  /\ c \in Commands /\ c.op = cmd.op /\ c.ref = cmd.ref
             /\ c.repo = cmd.repo /\ c.prior = cmd.prior
             /\ c.seen = cmd.seen /\ c.target = cmd.target
  BY <1>2, <1>5, <1>7 DEF Commands
<1> HIDE DEF Resumes
<1>8. CASE End("pending") /\ UNCHANGED journal
  BY <1>2, <1>3, <1>8, EndedInv DEF policies, Statuses
<1>9. CASE Resumes(cmd)
  BY <1>2, <1>6, <1>9
<1>10. CASE Resumes([cmd EXCEPT !.install = 0])
  BY <1>6, <1>7, <1>10
<1>11. CASE Resumes([cmd EXCEPT !.access = kept])
  BY <1>6, <1>7, <1>11
<1> QED  BY <1>4, <1>8, <1>9, <1>10, <1>11

(* The add is in the journal before the user is asked.                     *)
LEMMA AskInstallStep ==
    ASSUME PolicyInv, AskInstall
    PROVE  PolicyInv'
<1>1. TypeInvariant /\ Afterwards /\ Known /\ Widening
  BY DEF PolicyInv
<1>2. Typed
  BY <1>1, Held
<1> USE DEF Typed
<1>3. /\ UNCHANGED <<policies, cmd, status, github>> /\ pc' = "waitInstall"
      /\ cmd.ref \in Names /\ cmd.repo \in Identities /\ cmd.op = "add"
  BY <1>1 DEF AskInstall, Goto, Quiet, Known, Afterwards, At, Waypoints, Adding
<1>4. journal' \subseteq Operations
  BY <1>2, <1>3, OperationsAreTyped, JournalIsTyped DEF AskInstall, Installs
<1>5. TypeInvariant'
  BY <1>1, <1>2, <1>3, <1>4, TypesKept DEF policies, Waypoints
<1> QED  BY <1>1, <1>3, <1>5
            DEF AskInstall, policies, PolicyInv, Afterwards, Known, Widening,
                At, Restorable, Adding, Waypoints

(* An add goes on with the installation that has access.                   *)
LEMMA WaitInstallStep ==
    ASSUME PolicyInv, WaitInstall
    PROVE  PolicyInv'
<1>1. TypeInvariant /\ Afterwards /\ Known /\ Widening
  BY DEF PolicyInv
<1>2. Typed
  BY <1>1, Held
<1> USE DEF Typed
<1>3. /\ UNCHANGED <<policies, github>> /\ cmd.repo \in Identities
      /\ cmd.ref \in Names /\ cmd.op = "add"
  BY <1>1 DEF WaitInstall, Quiet, Known, At, Waypoints
<1>4. CASE Approved(cmd.ref)
  <2>1. /\ pc' = "policies" /\ status' = status /\ UNCHANGED journal
        /\ cmd' = [cmd EXCEPT !.install = installed, !.access = TRUE]
    BY <1>4 DEF WaitInstall, Goto
  <2>2. installed \in Installs
    BY <1>2, <1>4, BoundsAssumption DEF Approved, Installs
  <2>3. /\ cmd' \in Commands /\ cmd'.install = installed
        /\ cmd'.repo = cmd.repo /\ cmd'.ref = cmd.ref /\ cmd'.op = cmd.op
        /\ cmd'.prior = cmd.prior /\ cmd'.seen = cmd.seen
        /\ cmd'.target = cmd.target
    BY <1>2, <2>1 DEF Commands
  <2>4. TypeInvariant'
    BY <1>1, <1>2, <1>3, <2>1, <2>3, TypesKept DEF policies, Waypoints
  <2> QED  BY <1>3, <2>1, <2>2, <2>3, <2>4
              DEF PolicyInv, Afterwards, Known, Widening, At, Restorable,
                  Adding, Waypoints
<1>5. CASE ~Approved(cmd.ref)
  <2>1. journal' \subseteq Operations
    BY <1>2, <1>3, <1>5, OperationsAreTyped, JournalIsTyped DEF WaitInstall
  <2> QED
    BY <1>2, <1>3, <1>5, <2>1, EndedInv DEF WaitInstall, policies, Statuses
<1> QED  BY <1>4, <1>5

(* The policy to write parses, for a conflict ends the add, and it allows  *)
(* no more than what is allowed and the repository that is added.          *)
LEMMA ReadPoliciesStep ==
    ASSUME PolicyInv, ReadPolicies
    PROVE  PolicyInv'
<1>1. TypeInvariant /\ Afterwards /\ Known /\ Widening
  BY DEF PolicyInv
<1>2. Typed
  BY <1>1, Held
<1> USE DEF Typed
<1> DEFINE p == IntersectPolicies(local, visible)
           renamed == \E e \in p.entries :
                         /\ e.id = cmd.repo.id /\ e.install = cmd.install
                         /\ e.name # cmd.repo.name
           base == IF renamed THEN WithoutRepository(p, cmd.repo.id) ELSE p
           next == WithRepository(base, cmd.install, cmd.repo)
           after == IF cmd.access THEN "forgetAdd" ELSE "grantAccess"
           omits == local = next /\ p # next
<1>3. Valid(p)
  BY <1>2, IntersectionNarrows
<1>4. /\ Valid(base) /\ IdsIn(base) \subseteq IdsIn(p)
      /\ IdsIn(p) \subseteq IdsIn(base) \cup {cmd.repo.id}
  BY <1>3, WithoutNarrows
<1>5. /\ cmd.repo \in Identities
      /\ cmd.install \in Installs
      /\ cmd.op = "add" /\ cmd.ref \in Names
  BY <1>1 DEF ReadPolicies, Known, At, Waypoints
<1>6. local' = p /\ UNCHANGED <<cloud, visible, journal, github>>
  BY DEF ReadPolicies, Quiet
<1>7. CASE Conflicts(base, cmd.install, cmd.repo)
  <2>1. End("conflict")
    BY <1>7 DEF ReadPolicies
  <2> QED  BY <1>2, <1>3, <1>6, <2>1, EndedInv DEF Statuses
<1>8. CASE ~Conflicts(base, cmd.install, cmd.repo)
  <2>1. /\ cmd' = [cmd EXCEPT !.prior = p, !.target = next, !.after = after,
                              !.omits = omits]
        /\ pc' \in {"writeNext", "notePropagation"} /\ status' = status
    BY <1>8 DEF ReadPolicies, Goto
  <2>0. omits \in BOOLEAN
    OBVIOUS
  <2> HIDE DEF base
  <2>2. /\ Valid(next) /\ IdsIn(next) \subseteq IdsIn(p) \cup {cmd.repo.id}
        /\ IdsIn(p) \subseteq IdsIn(next) \cup {cmd.repo.id}
    BY <1>4, <1>5, <1>8, WithAddsOne
  <2> HIDE DEF p, next, omits
  <2>3. after \in Adding /\ after \in Waypoints
    BY DEF Adding, Waypoints
  <2> HIDE DEF after
  <2>4. /\ cmd' \in Commands /\ cmd'.prior = p /\ cmd'.target = next
        /\ cmd'.after = after /\ cmd'.op = cmd.op /\ cmd'.repo = cmd.repo
        /\ cmd'.install = cmd.install /\ cmd'.seen = cmd.seen
        /\ cmd'.ref = cmd.ref
    BY <1>2, <1>3, <2>0, <2>1, <2>2, <2>3 DEF Commands, Valid
  <2>5. TypeInvariant'
    BY <1>1, <1>2, <1>3, <1>6, <2>1, <2>2, <2>4, TypesKept DEF Waypoints
  <2>6. Afterwards' /\ Known'
    BY <1>5, <2>1, <2>3, <2>4 DEF Afterwards, Known, At, Waypoints
  <2>7. Widening'
    BY <1>5, <1>6, <2>1, <2>2, <2>4 DEF Widening, Restorable, At
  <2> QED  BY <2>5, <2>6, <2>7 DEF PolicyInv
<1> QED  BY <1>7, <1>8

(* The add is in the journal before the policies differ.                   *)
LEMMA NotePropagationStep ==
    ASSUME PolicyInv, NotePropagation
    PROVE  PolicyInv'
<1>1. TypeInvariant /\ Afterwards /\ Known /\ Widening
  BY DEF PolicyInv
<1>2. Typed
  BY <1>1, Held
<1> USE DEF Typed
<1>3. /\ UNCHANGED <<policies, cmd, status, github>>
      /\ pc' = "writeNextThenCloud"
      /\ cmd.ref \in Names /\ cmd.repo \in Identities
      /\ cmd.install \in Installs
  BY <1>1
     DEF NotePropagation, Goto, Quiet, Known, Afterwards, At, Waypoints,
         Adding
<1>4. journal' \subseteq Operations
  BY <1>2, <1>3, OperationsAreTyped, JournalIsTyped
     DEF NotePropagation, Installs
<1>5. TypeInvariant'
  BY <1>1, <1>2, <1>3, <1>4, TypesKept DEF policies, Waypoints
<1> QED  BY <1>1, <1>3, <1>5
            DEF NotePropagation, policies, PolicyInv, Afterwards, Known,
                Widening, At, Restorable, Adding, Waypoints

(* The policy before the add stays what may be restored.                   *)
LEMMA WriteNextStep ==
    ASSUME PolicyInv, WriteNext
    PROVE  PolicyInv'
<1>1. TypeInvariant /\ Afterwards /\ Known /\ Widening
  BY DEF PolicyInv
<1>2. Typed
  BY <1>1, Held
<1> USE DEF Typed
<1>3. /\ UNCHANGED <<cloud, visible, journal, cmd, status, github>>
      /\ local' \in {local, cmd.target} /\ pc' \in {"put", "verify", cmd.after}
      /\ cmd.after \in Adding /\ cmd.repo \in Identities
      /\ cmd.install \in Installs /\ cmd.ref \in Names
  BY <1>1 DEF WriteNext, Goto, Quiet, Known, Afterwards, At, Waypoints
<1>4. TypeInvariant'
  BY <1>1, <1>2, <1>3, TypesKept DEF Adding, Waypoints
<1>5. Widening'
  BY <1>1, <1>3 DEF WriteNext, Widening, Restorable, At, Adding
<1> QED  BY <1>3, <1>4, <1>5
            DEF PolicyInv, Afterwards, Known, Widening, At, Restorable,
                Adding, Waypoints

(* The policy before the add is put back.                                  *)
LEMMA RestoreStep ==
    ASSUME PolicyInv, Restore
    PROVE  PolicyInv'
<1>1. TypeInvariant /\ Afterwards /\ Known /\ Widening
  BY DEF PolicyInv
<1>2. Typed
  BY <1>1, Held
<1> USE DEF Typed
<1> QED  BY <1>2, EndedInv DEF Restore, Quiet, Statuses

(* The add is in the journal while the App has no access.                  *)
LEMMA GrantAccessStep ==
    ASSUME PolicyInv, GrantAccess
    PROVE  PolicyInv'
<1>1. TypeInvariant /\ Afterwards /\ Known /\ Widening
  BY DEF PolicyInv
<1>2. Typed
  BY <1>1, Held
<1> USE DEF Typed
<1>3. /\ UNCHANGED <<policies, cmd, status, github>> /\ pc' = "waitAccess"
      /\ cmd.ref \in Names /\ cmd.repo \in Identities
      /\ cmd.install \in Installs
  BY <1>1
     DEF GrantAccess, Goto, Quiet, Known, Afterwards, At, Waypoints, Adding
<1>4. journal' \subseteq Operations
  BY <1>2, <1>3, OperationsAreTyped, JournalIsTyped DEF GrantAccess, Installs
<1>5. TypeInvariant'
  BY <1>1, <1>2, <1>3, <1>4, TypesKept DEF policies, Waypoints
<1> QED  BY <1>1, <1>3, <1>5
            DEF GrantAccess, policies, PolicyInv, Afterwards, Known, Widening,
                At, Restorable, Adding, Waypoints

(* An add whose installation is gone takes its policies back.              *)
LEMMA WaitAccessStep ==
    ASSUME PolicyInv, WaitAccess
    PROVE  PolicyInv'
<1>1. TypeInvariant /\ Afterwards /\ Known /\ Widening
  BY DEF PolicyInv
<1>2. Typed
  BY <1>1, Held
<1> USE DEF Typed
<1>3. /\ UNCHANGED <<cloud, visible, journal, github>>
      /\ cmd.ref \in Names /\ cmd.repo \in Identities
      /\ cmd.install \in Installs
  BY <1>1 DEF WaitAccess, Quiet, Known, At, Waypoints
<1>4. CASE pc' = "forgetAdd" /\ UNCHANGED <<local, cmd, status>>
  <2>1. TypeInvariant'
    BY <1>1, <1>2, <1>3, <1>4, TypesKept DEF Waypoints
  <2> QED  BY <1>3, <1>4, <2>1
              DEF PolicyInv, Afterwards, Known, Widening, At, Restorable,
                  Adding, Waypoints
<1>5. CASE End("pending") /\ UNCHANGED local
  BY <1>2, <1>3, <1>5, EndedInv DEF Statuses
<1>6. CASE local' = cmd.prior /\ ToCloud(cmd.prior, "noteAbsent", cmd)
  <2>1. /\ pc' = "put" /\ status' = status /\ cmd' \in Commands
        /\ cmd'.target = cmd.prior /\ cmd'.after = "noteAbsent"
        /\ cmd'.ref = cmd.ref /\ cmd'.repo = cmd.repo
        /\ cmd'.prior = cmd.prior /\ cmd'.seen = cmd.seen
    BY <1>2, <1>6, GoesToCloud DEF Valid, Waypoints
  <2>2. TypeInvariant'
    BY <1>1, <1>2, <1>3, <1>6, <2>1, TypesKept DEF Waypoints
  <2> QED  BY <1>3, <2>1, <2>2
              DEF PolicyInv, Afterwards, Known, Widening, At, Restorable,
                  Adding, Waypoints
<1> QED  BY <1>4, <1>5, <1>6 DEF WaitAccess, Goto

(* The add stays in the journal without an installation.                   *)
LEMMA NoteAbsentStep ==
    ASSUME PolicyInv, NoteAbsent
    PROVE  PolicyInv'
<1>1. TypeInvariant /\ Afterwards /\ Known /\ Widening
  BY DEF PolicyInv
<1>2. Typed
  BY <1>1, Held
<1> USE DEF Typed
<1>3. cmd.repo \in Identities
  BY <1>1 DEF NoteAbsent, Known, At, Waypoints
<1>4. journal' \subseteq Operations
  BY <1>2, <1>3, OperationsAreTyped, JournalIsTyped DEF NoteAbsent
<1> QED  BY <1>2, <1>4, EndedInv DEF NoteAbsent, Quiet, policies, Statuses

(* A finished add leaves the journal.                                      *)
LEMMA ForgetAddStep ==
    ASSUME PolicyInv, ForgetAdd
    PROVE  PolicyInv'
<1>1. TypeInvariant /\ Afterwards /\ Known /\ Widening
  BY DEF PolicyInv
<1>2. Typed
  BY <1>1, Held
<1> USE DEF Typed
<1>3. journal' \subseteq Operations
  BY <1>2, JournalIsTyped DEF ForgetAdd
<1> QED  BY <1>2, <1>3, EndedInv DEF ForgetAdd, Quiet, policies, Statuses

(* A removal starts with what the policy or the journal knows of the name, *)
(* if anything.                                                            *)
LEMMA StartRemoveStep ==
    ASSUME PolicyInv, NEW ref \in Names, NEW keep \in BOOLEAN,
           StartRemove(ref, keep)
    PROVE  PolicyInv'
<1>1. TypeInvariant /\ Afterwards /\ Known /\ Widening
  BY DEF PolicyInv
<1>2. Typed
  BY <1>1, Held
<1> USE DEF Typed
<1> DEFINE Begins(repo, install) ==
             /\ local' = WithoutRepository(local, repo.id)
             /\ cmd' = [Idle EXCEPT !.op = "remove", !.ref = ref,
                           !.keep = keep, !.repo = repo,
                           !.install = install, !.after = "readCloud"]
             /\ pc' = IF repo = NoRepo THEN "readCloud" ELSE "noteRemoval"
           Remembered == Operations \cup {NoOperation}
<1>3. \A o \in Remembered : /\ o.repo \in Identities \cup {NoRepo}
                            /\ o.install \in 0..MaxInstalls
  BY BoundsAssumption DEF Operations, NoOperation, RemoveOperation
<1>4. PICK repo \in Identities \cup {NoRepo}, install \in 0..MaxInstalls :
         Begins(repo, install)
  <2>1. \/ \E e \in local.entries : Begins(RepoOf(e), e.install)
        \/ \E r \in Remembered, a \in Remembered :
              Begins(IF r = NoOperation THEN a.repo ELSE r.repo,
                     IF r.install = 0 THEN a.install ELSE r.install)
    <3> DEFINE configured == {e \in local.entries : e.name = ref}
               Recalled(kind) ==
                  LET ops == {o \in journal : o.kind = kind
                                             /\ o.repo.name = ref}
                  IN  IF ops = {} THEN {NoOperation} ELSE ops
    <3>1. \A kind : Recalled(kind) \subseteq Remembered
      BY <1>2
    <3>2. \/ \E e \in configured : Begins(RepoOf(e), e.install)
          \/ \E r \in Recalled("remove"), a \in Recalled("add") :
                Begins(IF r = NoOperation THEN a.repo ELSE r.repo,
                       IF r.install = 0 THEN a.install ELSE r.install)
      BY DEF StartRemove
    <3> HIDE DEF Begins, Recalled, Remembered
    <3> QED  BY <3>1, <3>2
  <2>2. \A e \in local.entries :
           RepoOf(e) \in Identities /\ e.install \in 0..MaxInstalls
    BY <1>2, EntriesAreNamed, BoundsAssumption DEF Valid, Installs
  <2> HIDE DEF Begins, Remembered
  <2> QED  BY <1>3, <2>1, <2>2
<1>5. /\ cmd' \in Commands /\ cmd'.ref = ref /\ cmd'.repo = repo
      /\ cmd'.after = "readCloud" /\ cmd'.prior = EmptyPolicy
      /\ cmd'.seen = EmptyPolicy /\ cmd'.target = EmptyPolicy
  BY <1>4, IdleIsTyped DEF Commands, Idle, Waypoints
<1>6. /\ Valid(local') /\ status' = "none"
      /\ UNCHANGED <<cloud, visible, journal, github>>
  BY <1>2, <1>4, WithoutNarrows DEF StartRemove
<1>7. TypeInvariant'
  BY <1>1, <1>2, <1>4, <1>5, <1>6, TypesKept, EmptyIsValid
     DEF Waypoints, Statuses
<1> QED  BY <1>4, <1>5, <1>7
            DEF PolicyInv, Afterwards, Known, Widening, At, Restorable,
                Adding, Waypoints

(* The removal is in the journal before KV is read or written.             *)
LEMMA NoteRemovalStep ==
    ASSUME PolicyInv, NoteRemoval
    PROVE  PolicyInv'
<1>1. TypeInvariant /\ Afterwards /\ Known /\ Widening
  BY DEF PolicyInv
<1>2. Typed
  BY <1>1, Held
<1> USE DEF Typed
<1>3. /\ UNCHANGED <<policies, cmd, status, github>> /\ pc' = cmd.after
      /\ cmd.ref \in Names /\ cmd.repo \in Identities
      /\ cmd.after \in {"readCloud", "narrow", "revokeCloudIdentity"}
  BY <1>1
     DEF NoteRemoval, Goto, Quiet, Known, Afterwards, At, Waypoints, Adding
<1>4. journal' \subseteq Operations
  BY <1>2, <1>3, OperationsAreTyped, JournalIsTyped DEF NoteRemoval, Installs
<1>5. TypeInvariant'
  BY <1>1, <1>2, <1>3, <1>4, TypesKept DEF policies, Waypoints
<1> QED  BY <1>1, <1>3, <1>5
            DEF NoteRemoval, policies, PolicyInv, Afterwards, Known, Widening,
                At, Restorable, Adding, Waypoints

(* A removal learns from KV what the local policy did not know.            *)
LEMMA ReadCloudStep ==
    ASSUME PolicyInv, ReadCloud
    PROVE  PolicyInv'
<1>1. TypeInvariant /\ Afterwards /\ Known /\ Widening
  BY DEF PolicyInv
<1>2. Typed
  BY <1>1, Held
<1> USE DEF Typed
<1> DEFINE Reads(repo, install) ==
             /\ cmd' = [cmd EXCEPT !.seen = visible, !.repo = repo,
                                   !.install = install, !.after = "narrow"]
             /\ pc' = (IF repo = NoRepo THEN "narrow" ELSE "noteRemoval")
<1>3. /\ UNCHANGED <<policies, journal, github, status>>
      /\ cmd.ref \in Names
  BY <1>1 DEF ReadCloud, Quiet, Goto, Known
<1>4. PICK repo \in Identities \cup {NoRepo}, install \in 0..MaxInstalls :
         Reads(repo, install)
  <2>1. \/ Reads(cmd.repo, cmd.install)
        \/ \E e \in visible.entries :
              Reads(IF cmd.repo = NoRepo THEN RepoOf(e) ELSE cmd.repo,
                    IF cmd.install = 0 THEN e.install ELSE cmd.install)
    BY DEF ReadCloud, Goto
  <2>2. \A e \in visible.entries :
           RepoOf(e) \in Identities /\ e.install \in 0..MaxInstalls
    BY <1>2, EntriesAreNamed, BoundsAssumption DEF Valid, Installs
  <2> HIDE DEF Reads
  <2> QED  BY <1>2, <2>1, <2>2
<1>5. /\ cmd' \in Commands /\ cmd'.seen = visible /\ cmd'.repo = repo
      /\ cmd'.after = "narrow" /\ cmd'.prior = cmd.prior
      /\ cmd'.target = cmd.target /\ cmd'.ref = cmd.ref
  BY <1>2, <1>4 DEF Commands, Valid, Waypoints
<1>6. TypeInvariant'
  BY <1>1, <1>2, <1>3, <1>4, <1>5, TypesKept DEF policies, Waypoints
<1> QED  BY <1>3, <1>4, <1>5, <1>6
            DEF PolicyInv, Afterwards, Known, Widening, At, Restorable,
                Adding, Waypoints

(* KV is given a narrower policy, or has it already.                       *)
LEMMA RevokeCloudStep ==
    ASSUME PolicyInv, UNCHANGED <<cloud, visible, journal, github>>,
           NEW next, Valid(next),
           NEW after \in {"revoked", "withdraw"}, RevokeCloud(next, after),
           Valid(local'), cmd.ref \in Names,
           after = "withdraw" => cmd.repo \in Identities
    PROVE  PolicyInv'
<1>1. TypeInvariant /\ Afterwards /\ Known /\ Widening
  BY DEF PolicyInv
<1>2. Typed
  BY <1>1, Held
<1> USE DEF Typed
<1>3. CASE cmd.seen = next
  <2>1. /\ pc' = after /\ status' = status
        /\ cmd' = [cmd EXCEPT !.omits = @ \/ cloud # next]
    BY <1>3 DEF RevokeCloud, Goto
  <2>3. /\ cmd' \in Commands /\ cmd'.ref = cmd.ref /\ cmd'.repo = cmd.repo
        /\ cmd'.prior = cmd.prior /\ cmd'.seen = cmd.seen
        /\ cmd'.target = cmd.target
    BY <1>2, <2>1 DEF Commands
  <2>2. TypeInvariant'
    BY <1>1, <1>2, <2>1, <2>3, TypesKept DEF Waypoints
  <2> QED  BY <2>1, <2>2, <2>3
              DEF PolicyInv, Afterwards, Known, Widening, At, Restorable,
                  Adding, Waypoints
<1>4. CASE cmd.seen # next
  <2> DEFINE c == [cmd EXCEPT !.seen = next]
  <2>1. /\ c \in Commands /\ c.seen = next /\ c.ref = cmd.ref
        /\ c.repo = cmd.repo /\ c.prior = cmd.prior
    BY <1>2, Sees DEF Valid
  <2>2. ToCloud(next, after, c)
    BY <1>4 DEF RevokeCloud
  <2> HIDE DEF c
  <2>3. /\ pc' = "put" /\ status' = status /\ cmd' \in Commands
        /\ cmd'.target = next /\ cmd'.after = after /\ cmd'.ref = cmd.ref
        /\ cmd'.repo = cmd.repo /\ cmd'.prior = cmd.prior
        /\ cmd'.seen = next
    BY <2>1, <2>2, GoesToCloud DEF Valid, Waypoints
  <2>4. TypeInvariant'
    BY <1>1, <1>2, <2>3, TypesKept DEF Waypoints
  <2> QED  BY <2>3, <2>4
              DEF PolicyInv, Afterwards, Known, Widening, At, Restorable,
                  Adding, Waypoints
<1> QED  BY <1>3, <1>4

(* Both policies are narrowed to what they agree on.                       *)
LEMMA NarrowStep ==
    ASSUME PolicyInv, Narrow
    PROVE  PolicyInv'
<1>1. TypeInvariant /\ Afterwards /\ Known /\ Widening
  BY DEF PolicyInv
<1>2. Typed
  BY <1>1, Held
<1> USE DEF Typed
<1> DEFINE p == IntersectPolicies(local, cmd.seen)
           next == WithoutRepository(p, cmd.repo.id)
<1>3. Valid(p) /\ Valid(next)
  BY <1>2, IntersectionNarrows, WithoutNarrows
<1>4. /\ local' = p /\ RevokeCloud(next, "revoked") /\ cmd.ref \in Names
      /\ UNCHANGED <<cloud, visible, journal, github>>
  BY <1>1 DEF Narrow, Quiet, Known
<1> QED  BY <1>3, <1>4, RevokeCloudStep

(* A revoked repository is asked of GitHub, or done with.                  *)
LEMMA RevokedStep ==
    ASSUME PolicyInv, Revoked
    PROVE  PolicyInv'
<1>1. TypeInvariant /\ Afterwards /\ Known /\ Widening
  BY DEF PolicyInv
<1>2. Typed
  BY <1>1, Held
<1> USE DEF Typed
<1>3. /\ UNCHANGED <<policies, cmd, status, github>>
      /\ pc' \in {"forgetRemoval", "discover"}
      /\ pc' = "forgetRemoval" => cmd.repo # NoRepo
  BY DEF Revoked, Goto, Quiet
<1>4. journal' \subseteq Operations
  BY <1>2, JournalIsTyped DEF Revoked
<1>5. TypeInvariant'
  BY <1>1, <1>2, <1>3, <1>4, TypesKept DEF policies, Waypoints
<1>6. cmd.ref \in Names
  BY <1>1 DEF Revoked, Known
<1> QED  BY <1>2, <1>3, <1>5, <1>6
            DEF PolicyInv, Afterwards, Known, Widening, At, Restorable,
                Adding, Waypoints

(* A removal goes on with the repository that GitHub resolves.             *)
LEMMA DiscoverStep ==
    ASSUME PolicyInv, Discover
    PROVE  PolicyInv'
<1>1. TypeInvariant /\ Afterwards /\ Known /\ Widening
  BY DEF PolicyInv
<1>2. Typed
  BY <1>1, Held
<1> USE DEF Typed
<1> DEFINE found == Resolved(cmd.ref)
<1>3. UNCHANGED <<policies, journal, github>> /\ cmd.ref \in Names
  BY <1>1 DEF Discover, Quiet, Known
<1>4. CASE End("error") \/ End("mismatch")
  BY <1>2, <1>3, <1>4, EndedInv DEF policies, Statuses
<1>5. CASE ~(End("error") \/ End("mismatch"))
  <2> DEFINE may == found.id \in access
  <2>1. /\ named[cmd.ref] # 0
        /\ cmd' = [cmd EXCEPT !.repo = found, !.install = installed,
                              !.access = may,
                              !.after = "revokeCloudIdentity"]
        /\ pc' \in {"revokeIdentity", "withdraw"} /\ status' = status
    BY <1>5 DEF Discover, Goto
  <2>2. found \in Identities
    BY <1>1, <1>3, <2>1, ResolvedIsNamed
  <2>3. may \in BOOLEAN
    OBVIOUS
  <2> HIDE DEF found, may
  <2>4. /\ cmd' \in Commands /\ cmd'.repo = found /\ cmd'.ref = cmd.ref
        /\ cmd'.after = "revokeCloudIdentity" /\ cmd'.prior = cmd.prior
        /\ cmd'.seen = cmd.seen /\ cmd'.target = cmd.target
    BY <1>2, <2>1, <2>2, <2>3 DEF Commands, Waypoints
  <2>5. TypeInvariant'
    BY <1>1, <1>2, <1>3, <2>1, <2>4, TypesKept DEF policies, Waypoints
  <2> QED  BY <1>3, <2>1, <2>2, <2>4, <2>5
              DEF PolicyInv, Afterwards, Known, Widening, At, Restorable,
                  Adding, Waypoints
<1> QED  BY <1>4, <1>5

(* A repository known by another name is revoked locally.                  *)
LEMMA RevokeIdentityStep ==
    ASSUME PolicyInv, RevokeIdentity
    PROVE  PolicyInv'
<1>1. TypeInvariant /\ Afterwards /\ Known /\ Widening
  BY DEF PolicyInv
<1>2. Typed
  BY <1>1, Held
<1> USE DEF Typed
<1>3. /\ UNCHANGED <<cloud, visible, journal, cmd, status, github>>
      /\ pc' = "noteRemoval" /\ cmd.after = "revokeCloudIdentity"
      /\ cmd.ref \in Names /\ cmd.repo \in Identities
  BY <1>1 DEF RevokeIdentity, Goto, Quiet, Known, Afterwards, At, Waypoints
<1>4. Valid(local')
  BY <1>2, WithoutNarrows DEF RevokeIdentity
<1>5. TypeInvariant'
  BY <1>1, <1>2, <1>3, <1>4, TypesKept DEF Waypoints
<1> QED  BY <1>3, <1>5
            DEF PolicyInv, Afterwards, Known, Widening, At, Restorable,
                Adding, Waypoints

(* A repository known by another name is revoked in KV.                    *)
LEMMA RevokeCloudIdentityStep ==
    ASSUME PolicyInv, RevokeCloudIdentity
    PROVE  PolicyInv'
<1>1. TypeInvariant /\ Afterwards /\ Known /\ Widening
  BY DEF PolicyInv
<1>2. Typed
  BY <1>1, Held
<1> USE DEF Typed
<1> DEFINE next == WithoutRepository(IntersectPolicies(local, cmd.seen),
                                     cmd.repo.id)
<1>3. Valid(next)
  BY <1>2, IntersectionNarrows, WithoutNarrows
<1>4. /\ RevokeCloud(next, "withdraw") /\ cmd.ref \in Names
      /\ cmd.repo \in Identities
      /\ UNCHANGED <<policies, journal, github>>
  BY <1>1 DEF RevokeCloudIdentity, Quiet, Known, At, Waypoints
<1> QED  BY <1>2, <1>3, <1>4, RevokeCloudStep DEF policies

(* The user is asked to withdraw the access that there is.                 *)
LEMMA WithdrawStep ==
    ASSUME PolicyInv, Withdraw
    PROVE  PolicyInv'
<1>1. TypeInvariant /\ Afterwards /\ Known /\ Widening
  BY DEF PolicyInv
<1>2. Typed
  BY <1>1, Held
<1> USE DEF Typed
<1>3. /\ UNCHANGED <<policies, cmd, status, github>>
      /\ pc' \in {"forgetRemoval", "waitRemoved"}
  BY DEF Withdraw, Goto, Quiet
<1>4. cmd.repo \in Identities /\ cmd.ref \in Names
  BY <1>1 DEF Withdraw, Known, At, Waypoints
<1>5. journal' \subseteq Operations
  BY <1>2, <1>4, OperationsAreTyped, JournalIsTyped DEF Withdraw
<1>6. TypeInvariant'
  BY <1>1, <1>2, <1>3, <1>5, TypesKept DEF policies, Waypoints
<1> QED  BY <1>3, <1>4, <1>6
            DEF PolicyInv, Afterwards, Known, Widening, At, Restorable,
                Adding, Waypoints

(* The access is gone, or the removal stays in the journal.                *)
LEMMA WaitRemovedStep ==
    ASSUME PolicyInv, WaitRemoved
    PROVE  PolicyInv'
<1>1. TypeInvariant /\ Afterwards /\ Known /\ Widening
  BY DEF PolicyInv
<1>2. Typed
  BY <1>1, Held
<1> USE DEF Typed
<1>3. /\ UNCHANGED <<policies, journal, github>>
      /\ cmd.ref \in Names /\ cmd.repo \in Identities
  BY <1>1 DEF WaitRemoved, Quiet, Known, At, Waypoints
<1>4. CASE End("github-access-pending")
  BY <1>2, <1>3, <1>4, EndedInv DEF policies, Statuses
<1>5. CASE pc' = "forgetRemoval" /\ UNCHANGED <<cmd, status>>
  <2>1. TypeInvariant'
    BY <1>1, <1>2, <1>3, <1>5, TypesKept DEF policies, Waypoints
  <2> QED  BY <1>3, <1>5, <2>1
              DEF PolicyInv, Afterwards, Known, Widening, At, Restorable,
                  Adding, Waypoints
<1> QED  BY <1>4, <1>5 DEF WaitRemoved, Goto

(* A finished removal leaves the journal.                                  *)
LEMMA ForgetRemovalStep ==
    ASSUME PolicyInv, ForgetRemoval
    PROVE  PolicyInv'
<1>1. TypeInvariant /\ Afterwards /\ Known /\ Widening
  BY DEF PolicyInv
<1>2. Typed
  BY <1>1, Held
<1> USE DEF Typed
<1>3. journal' \subseteq Operations
  BY <1>2, JournalIsTyped DEF ForgetRemoval
<1> QED  BY <1>2, <1>3, EndedInv DEF ForgetRemoval, Quiet, policies, Statuses

-----------------------------------------------------------------------------
(* The theorems.                                                           *)

(* No command has started, and all stores hold the same policy.            *)
LEMMA InitInv == Init => PolicyInv
<1> SUFFICES ASSUME Init PROVE PolicyInv
  OBVIOUS
<1>1. PICK r \in Identities :
         /\ local \in {EmptyPolicy, WithRepository(EmptyPolicy, 1, r)}
         /\ named = [n \in Names |-> IF n = r.name THEN r.id ELSE 0]
         /\ canonical = [i \in Ids |-> IF i = r.id THEN r.name ELSE "none"]
         /\ access \in SUBSET {r.id}
  BY DEF Init
<1>2. r.id \in Ids /\ r.name \in Names
  BY DEF Identities
<1>3. Valid(EmptyPolicy) /\ Valid(local)
  <2>1. 1 \in Installs /\ ~Conflicts(EmptyPolicy, 1, r)
    BY BoundsAssumption DEF Installs, Conflicts, EmptyPolicy
  <2> QED  BY <1>1, <2>1, EmptyIsValid, WithAddsOne
<1>4. /\ cloud = local /\ visible = local /\ cmd.prior = EmptyPolicy
      /\ cmd.seen = EmptyPolicy /\ cmd.target = EmptyPolicy
      /\ cmd \in Commands /\ pc = "idle" /\ status = "none"
      /\ journal = {} /\ installed = 1 /\ installs = 1
  BY IdleIsTyped DEF Init, Idle
<1>5. /\ named \in [Names -> Ids \cup {0}]
      /\ canonical \in [Ids -> Names \cup {"none"}]
      /\ \A n \in Names : named[n] # 0 => canonical[named[n]] \in Names
      /\ access \subseteq Ids
  BY <1>1, <1>2
<1>6. TypeInvariant
  BY <1>3, <1>4, <1>5, BoundsAssumption DEF TypeInvariant, Valid, Waypoints
<1> QED
  BY <1>4, <1>6 DEF PolicyInv, Afterwards, Known, Widening, At, Waypoints

(* Every step of a command, of GitHub and of KV keeps the invariant.       *)
LEMMA StepInv == PolicyInv /\ [Next]_vars => PolicyInv'
<1> SUFFICES ASSUME PolicyInv, [Next]_vars PROVE PolicyInv'
  OBVIOUS
<1>1. CASE \E id \in Ids, name \in Names : RenameRepository(id, name)
                                           \/ CreateRepository(id, name)
  BY <1>1, RenameStep, CreateStep
<1>2. CASE \/ InstallApp \/ UninstallApp \/ \E id \in Ids : ChangeAccess(id)
           \/ Propagate \/ Interrupt \/ Put \/ Verify
  BY <1>2, InstallAppStep, UninstallAppStep, ChangeAccessStep,
     PropagateStep, InterruptStep, PutStep, VerifyStep
<1>3. CASE \/ \E ref \in Names : StartAdd(ref)
           \/ RevokeOld \/ OldAccess \/ AskInstall \/ WaitInstall
           \/ ReadPolicies
  BY <1>3, StartAddStep, RevokeOldStep, OldAccessStep, AskInstallStep,
     WaitInstallStep, ReadPoliciesStep
<1>4. CASE \/ NotePropagation \/ WriteNext \/ Restore \/ GrantAccess
           \/ WaitAccess \/ NoteAbsent \/ ForgetAdd
  BY <1>4, NotePropagationStep, WriteNextStep, RestoreStep,
     GrantAccessStep, WaitAccessStep, NoteAbsentStep, ForgetAddStep
<1>5. CASE \/ \E ref \in Names, keep \in BOOLEAN : StartRemove(ref, keep)
           \/ NoteRemoval \/ ReadCloud \/ Narrow \/ Revoked \/ Discover
  BY <1>5, StartRemoveStep, NoteRemovalStep, ReadCloudStep, NarrowStep,
     RevokedStep, DiscoverStep
<1>6. CASE \/ RevokeIdentity \/ RevokeCloudIdentity \/ Withdraw
           \/ WaitRemoved \/ ForgetRemoval
  BY <1>6, RevokeIdentityStep, RevokeCloudIdentityStep, WithdrawStep,
     WaitRemovedStep, ForgetRemovalStep
<1>7. CASE UNCHANGED vars
  BY <1>7 DEF vars, PolicyInv, TypeInvariant, Afterwards, Known, Widening,
              At, Restorable
<1> QED  BY <1>1, <1>2, <1>3, <1>4, <1>5, <1>6, <1>7 DEF Next

(* It holds in every state that can be reached.                            *)
LEMMA PolicyInvariance == Spec => []PolicyInv
BY InitInv, StepInv, PTL DEF Spec

(* The stores, the journal and the policies that a command holds are       *)
(* always what the parsers accept: neither an id nor a name ever occurs    *)
(* twice in a policy, whatever is renamed, recreated or interrupted.       *)
THEOREM TypeCorrect == Spec => []TypeInvariant
<1>1. PolicyInv => TypeInvariant
  BY DEF PolicyInv
<1> QED  BY <1>1, PolicyInvariance, PTL

(* Steps that do not write policy.json.                                    *)
LEMMA LocalIsKept ==
    ASSUME Next,
           ~RevokeOld, ~ReadPolicies, ~WriteNext, ~Restore, ~WaitAccess,
           ~Narrow, ~RevokeIdentity,
           ~(\E ref \in Names, keep \in BOOLEAN : StartRemove(ref, keep))
    PROVE  UNCHANGED local
BY DEF Next, process, policies, RenameRepository, CreateRepository,
       InstallApp, UninstallApp, ChangeAccess, Propagate, Interrupt, Put,
       Verify, StartAdd, OldAccess, AskInstall, WaitInstall,
       NotePropagation, GrantAccess, NoteAbsent, ForgetAdd, NoteRemoval,
       ReadCloud, Revoked, Discover, RevokeCloudIdentity, Withdraw,
       WaitRemoved, ForgetRemoval

(* What a step may allow that the local policy did not.                    *)
LEMMA LocalGrowsByAdding ==
    ASSUME PolicyInv, [Next]_vars
    PROVE  \A id \in IdsIn(local') \ IdsIn(local) :
              cmd.op = "add" /\ cmd.repo.id = id
<1> DEFINE Narrowed == IdsIn(local') \subseteq IdsIn(local)
           Added == /\ cmd.op = "add"
                    /\ IdsIn(local') \subseteq IdsIn(local) \cup {cmd.repo.id}
<1>1. /\ Valid(local) /\ Valid(visible) /\ Valid(cmd.seen) /\ Widening
  BY Held DEF PolicyInv, Typed
<1>2. CASE WriteNext
  <2>1. local' \in {local, cmd.target} /\ Added
    BY <1>1, <1>2 DEF WriteNext, Widening, Restorable
  <2> QED  BY <2>1
<1>3. CASE Restore \/ WaitAccess
  <2>1. Restorable
    BY <1>1, <1>3 DEF Restore, WaitAccess, Widening, At
  <2>2. local' \in {local, cmd.prior}
    BY <1>3 DEF Restore, WaitAccess
  <2> QED  BY <2>1, <2>2 DEF Restorable
<1>4. CASE RevokeOld \/ ReadPolicies \/ Narrow
  <2> DEFINE p == IntersectPolicies(local, visible)
             q == IntersectPolicies(local, cmd.seen)
  <2>1. local' \in {WithoutRepository(p, cmd.old.repo.id), p, q}
    BY <1>4 DEF RevokeOld, ReadPolicies, Narrow
  <2>2. /\ Valid(p) /\ IdsIn(p) \subseteq IdsIn(local)
        /\ IdsIn(q) \subseteq IdsIn(local)
    BY <1>1, IntersectionNarrows
  <2>3. IdsIn(WithoutRepository(p, cmd.old.repo.id)) \subseteq IdsIn(p)
    BY <2>2, WithoutNarrows
  <2> HIDE DEF p, q
  <2> QED  BY <2>1, <2>2, <2>3
<1>5. CASE \/ RevokeIdentity
           \/ \E ref \in Names, keep \in BOOLEAN : StartRemove(ref, keep)
  <2>1. \E id : local' = WithoutRepository(local, id)
    BY <1>5 DEF RevokeIdentity, StartRemove
  <2>2. Narrowed
    BY <1>1, <2>1, WithoutNarrows
  <2> QED  BY <2>2
<1>6. CASE UNCHANGED local
  BY <1>6
<1> QED
  BY <1>2, <1>3, <1>4, <1>5, <1>6, LocalIsKept DEF vars

(* A repository that was revoked locally is not allowed again by a merge,  *)
(* a restore, a retry or another repository's command: only by the command *)
(* that adds it (add and remove in repository.ts).                         *)
THEOREM RevocationHolds == Spec => RevocationStands
<1>1. PolicyInv /\ [Next]_vars =>
         [\A id \in IdsIn(local') \ IdsIn(local) :
             cmd.op = "add" /\ cmd.repo.id = id]_vars
  BY LocalGrowsByAdding
<1> QED  BY <1>1, PolicyInvariance, PTL DEF Spec, RevocationStands

-----------------------------------------------------------------------------
(* What entries the functions over policies keep.                          *)

(* An intersection has the entries of both.                                *)
LEMMA IntersectionOf ==
    ASSUME NEW p, NEW q
    PROVE  IntersectPolicies(p, q).entries = p.entries \cap q.entries
BY DEF IntersectPolicies

(* A policy without a repository has the other entries, and not its id.    *)
LEMMA WithoutOf ==
    ASSUME NEW p, NEW id
    PROVE  /\ WithoutRepository(p, id).entries
                 = {e \in p.entries : e.id # id}
           /\ id \notin IdsIn(WithoutRepository(p, id))
BY DEF WithoutRepository, IdsIn

(* A policy with a repository has its entry and the others.                *)
LEMMA WithOf ==
    ASSUME NEW p, NEW install, NEW repo
    PROVE  WithRepository(p, install, repo).entries
              = p.entries \cup {EntryOf(install, repo)}
BY DEF WithRepository

(* The entry of a repository is of its id and name.                        *)
LEMMA EntryIsOf ==
    ASSUME NEW install, NEW repo \in Identities
    PROVE  /\ EntryOf(install, repo).id = repo.id
           /\ RepoOf(EntryOf(install, repo)) = repo
BY DEF EntryOf, RepoOf, Identities

(* No policy allows the repository that is none.                           *)
LEMMA NoneIsNotAllowed ==
    ASSUME NEW p, Valid(p)
    PROVE  NoRepo.id \notin IdsIn(p) /\ NoRepo \notin Identities
BY BoundsAssumption DEF Valid, Policies, Entries, IdsIn, NoRepo, Identities

(* An operation that is noted is in the journal, in place of one of that   *)
(* repository; an add leaves the removals, a removal leaves no add.        *)
LEMMA Notes ==
    ASSUME NEW op
    PROVE  /\ op \in Upsert(op)
           /\ \A o \in Upsert(op) : o = op \/ o \in journal
           /\ \A id : Pending(id) => \E o \in Upsert(op) : o.repo.id = id
BY DEF Upsert, Pending

(* What the journal forgets is of one kind and one repository.             *)
LEMMA Forgets ==
    ASSUME NEW kind, NEW id
    PROVE  /\ Forget(kind, id) \subseteq journal
           /\ \A o \in Forget(kind, id) : ~(o.kind = kind /\ o.repo.id = id)
           /\ \A o \in journal : o.repo.id # id => o \in Forget(kind, id)
           /\ \A o \in journal : o.kind # kind => o \in Forget(kind, id)
BY DEF Forget

-----------------------------------------------------------------------------
(* What the stores hold together.                                          *)

(* A removal is at a step of S, or notes itself or changes KV and goes on  *)
(* at one of T.                                                            *)
Removes(S, T) ==
    pc \in S \/ (pc \in {"noteRemoval", "put", "verify"} /\ cmd.after \in T)

(* The local policy allows what the add writes to KV, but for the          *)
(* repository that is added when it omits the local write.                 *)
Widened ==
    /\ local.entries \subseteq cmd.target.entries
    /\ \A e \in cmd.target.entries :
          e \in local.entries \/ (cmd.omits /\ RepoOf(e) = cmd.repo)

(* What is written to KV is what the local policy allows; an add writes    *)
(* its entry to both, or to KV alone, and keeps, to restore it, only what  *)
(* the local policy allows still and an older entry of its repository.     *)
InStep ==
    /\ pc \in {"put", "verify"} =>
          IF cmd.after \in Adding
          THEN Widened /\ EntryOf(cmd.install, cmd.repo) \in cmd.target.entries
          ELSE cmd.target.entries = local.entries
    /\ pc \in {"notePropagation", "writeNext", "writeNextThenCloud"} =>
          /\ EntryOf(cmd.install, cmd.repo) \in cmd.target.entries
          /\ \A e \in cmd.target.entries :
                e.id = cmd.repo.id \/ e \in local.entries
          /\ \A e \in cmd.prior.entries :
                e.id = cmd.repo.id \/ e \in cmd.target.entries
          /\ cmd.omits => Widened /\ cmd.prior.entries \subseteq local.entries
    /\ At({"grantAccess", "waitAccess", "forgetAdd"}, Adding) =>
          cmd.omits \/ EntryOf(cmd.install, cmd.repo) \in local.entries
    /\ At({"restore", "grantAccess", "waitAccess"}, Adding) =>
          \A e \in cmd.prior.entries :
             e.id = cmd.repo.id \/ e \in local.entries

(* An add is in the journal while it may have to be retried, and KV shows  *)
(* its entry and all that is allowed locally once it has been verified.    *)
Recorded ==
    /\ cmd.verify /\ At({"revokeOld", "oldAccess", "askInstall",
                         "waitInstall", "policies", "notePropagation",
                         "writeNext", "writeNextThenCloud"}, {"oldAccess"}) =>
          \E o \in journal : o.kind = "add" /\ o.repo.id = cmd.repo.id
    /\ At({"writeNextThenCloud", "restore", "waitAccess"}, Adding) =>
          Pending(cmd.repo.id)
    /\ pc = "writeNext" =>
          \/ cmd.verify \/ cmd.repo.id \in unverified
          \/ cmd.target = cloud /\ visible = cloud
    /\ pc \in {"grantAccess", "waitAccess", "forgetAdd"} =>
          \/ cmd.repo.id \in unverified
          \/ /\ local.entries \subseteq cloud.entries /\ visible = cloud
             /\ EntryOf(cmd.install, cmd.repo) \in cloud.entries

(* What a removal is about is not allowed, from its first step on or from  *)
(* when it has merged the policies, and the journal holds no add that the  *)
(* next command of that name would find.                                   *)
Removing ==
    /\ At({"oldAccess"}, {"oldAccess"}) =>
          cmd.old.repo.id \notin IdsIn(local)
    /\ cmd.repo = NoRepo /\ Removes({"readCloud", "narrow", "revoked",
                                      "discover"}, {"revoked"}) =>
          \A o \in journal : o.repo.name # cmd.ref
    /\ cmd.repo = NoRepo /\ pc = "readCloud" =>
          \A e \in local.entries : e.name # cmd.ref
    /\ Removes({"readCloud", "revoked", "discover", "revokeCloudIdentity",
                "withdraw", "waitRemoved", "forgetRemoval"},
               {"readCloud", "revoked", "revokeCloudIdentity",
                "withdraw"}) =>
          cmd.repo.id \notin IdsIn(local)
    /\ Removes({"narrow"}, {"narrow"}) =>
          cmd.repo.id \notin IdsIn(IntersectPolicies(local, cmd.seen))
    /\ Removes({"revoked", "discover", "revokeIdentity",
                "revokeCloudIdentity"},
               {"revoked", "revokeCloudIdentity"}) =>
          local.entries \subseteq cmd.seen.entries
    /\ Removes({"discover", "revokeIdentity", "revokeCloudIdentity",
                "withdraw", "waitRemoved", "forgetRemoval"},
               {"revokeCloudIdentity", "withdraw"}) /\ cmd.repo # NoRepo =>
          \A o \in journal :
             o.kind = "add" /\ o.repo.id = cmd.repo.id => o.repo.name # cmd.ref

(* The invariant.                                                          *)
StoreInv ==
    /\ InStep /\ Recorded /\ Removing
    /\ LocalAhead /\ AuthorizedTruly /\ RemovedLocally

-----------------------------------------------------------------------------
(* Each step keeps it.                                                     *)

(* A step that allows locally no more, and forgets of what it leaves       *)
(* allowed neither that KV allows it nor what is pending.                  *)
LEMMA AheadKept ==
    ASSUME LocalAhead,
           local'.entries \subseteq local.entries,
           \A e \in local'.entries : e \in cloud.entries => e \in cloud'.entries,
           \A e \in local'.entries :
              Pending(e.id) => \E o \in journal' : o.repo.id = e.id,
           dropped \subseteq dropped', unverified \subseteq unverified'
    PROVE  LocalAhead'
BY DEF LocalAhead, Pending

(* A command that runs has not ended as anything.                          *)
LEMMA RunningStore ==
    ASSUME pc' # "idle", InStep', Recorded', Removing', LocalAhead'
    PROVE  StoreInv'
BY DEF StoreInv, AuthorizedTruly, RemovedLocally

(* A command that ends with something left to do only leaves the stores.   *)
LEMMA EndedStore ==
    ASSUME NEW s, s \notin {"authorized", "removed"}, End(s), LocalAhead'
    PROVE  StoreInv'
BY DEF End, StoreInv, AuthorizedTruly, RemovedLocally, InStep, Recorded,
       Removing, At, Removes

(* Nothing changes but GitHub.                                             *)
LEMMA GitHubStore ==
    ASSUME StoreInv,
           UNCHANGED <<local, cloud, visible, journal, pc, cmd, status,
                       dropped, unverified>>
    PROVE  StoreInv'
BY DEF StoreInv, AuthorizedTruly, RemovedLocally, InStep, Widened,
       Recorded, Removing, At, Removes, LocalAhead, Pending

(* What was verified is what is to be seen.                                *)
LEMMA PropagateStore ==
    ASSUME StoreInv, Propagate
    PROVE  StoreInv'
BY DEF Propagate, usage, StoreInv, AuthorizedTruly, RemovedLocally, InStep,
       Widened, Recorded, Removing, At, Removes, LocalAhead, Pending

(* A kill leaves the stores as they are.                                   *)
LEMMA InterruptStore ==
    ASSUME StoreInv, Interrupt
    PROVE  StoreInv'
<1>1. LocalAhead'
  BY AheadKept DEF StoreInv, Interrupt, policies, usage, Pending
<1> QED  BY <1>1, EndedStore DEF Interrupt

(* What is written to KV is what the local policy allows.                  *)
LEMMA PutStore ==
    ASSUME StoreInv, Put
    PROVE  StoreInv'
<1>1. /\ UNCHANGED <<local, visible, journal, usage>>
      /\ cloud' \in {cloud, cmd.target} /\ pc = "put"
  BY DEF Put
<1>2. LocalAhead'
  BY <1>1, AheadKept DEF StoreInv, InStep, Widened, usage, Pending
<1>3. CASE End("error")
  BY <1>2, <1>3, EndedStore
<1>4. CASE ~End("error")
  <2>1. /\ UNCHANGED <<cmd, status>>
        /\ pc' = "verify" \/ (pc' = "restore" /\ cmd.after \in Adding)
    BY <1>4 DEF Put, Goto
  <2>2. InStep' /\ Recorded' /\ Removing'
    BY <1>1, <2>1 DEF StoreInv, InStep, Widened, Recorded, Removing, At,
                      Removes, Adding, Pending, usage
  <2> QED  BY <1>2, <2>1, <2>2, RunningStore
<1> QED  BY <1>3, <1>4

(* Once it is verified, KV holds what the local policy allows.             *)
LEMMA VerifyStore ==
    ASSUME PolicyInv, StoreInv, Verify
    PROVE  StoreInv'
<1>1. /\ UNCHANGED <<local, cloud, journal, usage>> /\ pc = "verify"
  BY DEF Verify
<1>2. LocalAhead'
  BY <1>1, AheadKept DEF StoreInv, usage, Pending
<1>3. CASE End("error")
  BY <1>2, <1>3, EndedStore
<1>4. CASE ~End("error")
  <2>1. /\ UNCHANGED <<cmd, status>>
        /\ \/ pc' = cmd.after /\ cloud = cmd.target /\ visible' = cloud
           \/ pc' = "restore" /\ cmd.after \in Adding
    BY <1>4 DEF Verify, Goto
  <2>2. cmd.after \in Adding \cup {"oldAccess", "noteAbsent", "revoked",
                                   "withdraw"}
    BY <1>1 DEF PolicyInv, Afterwards
  <2>3. InStep' /\ Recorded' /\ Removing'
    BY <1>1, <2>1, <2>2 DEF StoreInv, InStep, Widened, Recorded, Removing,
                            At, Removes, Adding, Pending, usage
  <2>4. pc' # "idle"
    BY <2>1, <2>2 DEF Adding
  <2> QED  BY <1>2, <2>3, <2>4, RunningStore
<1> QED  BY <1>3, <1>4

(* The earlier removal's repository is revoked locally before KV.          *)
LEMMA RevokeOldStore ==
    ASSUME PolicyInv, StoreInv, RevokeOld
    PROVE  StoreInv'
<1> DEFINE p == IntersectPolicies(local, visible)
           revoked == WithoutRepository(p, cmd.old.repo.id)
<1>1. /\ UNCHANGED <<cloud, visible, journal, usage>> /\ local' = revoked
      /\ pc = "revokeOld"
  BY DEF RevokeOld, Quiet
<1>2. /\ revoked.entries \subseteq local.entries
      /\ cmd.old.repo.id \notin IdsIn(revoked)
  BY IntersectionOf, WithoutOf
<1>3. Valid(revoked) /\ cmd \in Commands
  BY Held, IntersectionNarrows, WithoutNarrows DEF PolicyInv, Typed
<1>4. \/ pc' = "oldAccess" /\ UNCHANGED cmd
      \/ ToCloud(revoked, "oldAccess", cmd)
  BY DEF RevokeOld, Goto
<1> HIDE DEF revoked
<1>5. LocalAhead'
  BY <1>1, <1>2, AheadKept DEF StoreInv, usage, Pending
<1>6. CASE pc' = "oldAccess" /\ UNCHANGED cmd
  <2>1. InStep' /\ Recorded' /\ Removing'
    BY <1>1, <1>2, <1>6 DEF StoreInv, InStep, Recorded, Removing, At,
                            Removes, usage
  <2> QED  BY <1>5, <1>6, <2>1, RunningStore
<1>7. CASE ToCloud(revoked, "oldAccess", cmd)
  <2>1. /\ pc' = "put" /\ cmd'.target = revoked /\ cmd'.after = "oldAccess"
        /\ cmd'.old = cmd.old /\ cmd'.repo = cmd.repo
        /\ cmd'.verify = cmd.verify
    BY <1>3, <1>7, GoesToCloud DEF Valid, Waypoints
  <2>2. InStep' /\ Recorded' /\ Removing'
    BY <1>1, <1>2, <2>1 DEF StoreInv, InStep, Recorded, Removing, At,
                            Removes, Adding, usage
  <2> QED  BY <1>5, <2>1, <2>2, RunningStore
<1> QED  BY <1>4, <1>6, <1>7

(* The finished removal's repository is not allowed.                       *)
LEMMA OldAccessStore ==
    ASSUME PolicyInv, StoreInv, OldAccess
    PROVE  StoreInv'
<1> DEFINE id == cmd.old.repo.id
           Resumes(c) == /\ journal' = Forget("remove", id)
                         /\ cmd' = c
                         /\ pc' = IF c.install = 0 THEN "askInstall"
                                                   ELSE "policies"
           kept == id # cmd.repo.id /\ cmd.access
<1>1. /\ UNCHANGED <<policies, usage>> /\ pc = "oldAccess"
      /\ cmd \in Commands
  BY Held DEF OldAccess, Quiet, PolicyInv, Typed
<1>2. \/ End("pending") /\ UNCHANGED journal
      \/ Resumes(cmd) \/ Resumes([cmd EXCEPT !.install = 0])
      \/ Resumes([cmd EXCEPT !.access = kept])
  BY DEF OldAccess, Goto
<1>3. id \notin IdsIn(local)
  BY <1>1 DEF StoreInv, Removing, At
<1>4. CASE End("pending") /\ UNCHANGED journal
  <2>1. LocalAhead'
    BY <1>1, <1>4, AheadKept DEF StoreInv, policies, usage, Pending
  <2> QED  BY <1>4, <2>1, EndedStore
<1>5. ASSUME NEW c, Resumes(c), c.repo = cmd.repo, c.verify = cmd.verify
      PROVE  StoreInv'
  <2>1. LocalAhead'
    BY <1>1, <1>3, <1>5, Forgets, AheadKept
       DEF StoreInv, policies, usage, Pending, IdsIn
  <2>2. pc' \in {"askInstall", "policies"} /\ cmd'.repo = cmd.repo
        /\ cmd'.verify = cmd.verify /\ journal' = Forget("remove", id)
    BY <1>5
  <2>3. InStep' /\ Recorded' /\ Removing'
    BY <1>1, <2>2, Forgets DEF StoreInv, InStep, Recorded, Removing, At,
                               Removes
  <2> QED  BY <2>1, <2>2, <2>3, RunningStore
<1>6. ASSUME NEW c, c \in {[cmd EXCEPT !.install = 0],
                           [cmd EXCEPT !.access = kept]}
      PROVE  c.repo = cmd.repo /\ c.verify = cmd.verify
  BY <1>1, <1>6 DEF Commands
<1> HIDE DEF Resumes, kept
<1> QED  BY <1>2, <1>4, <1>5, <1>6

(* An add that starts is the first to be retried or has been noted.        *)
LEMMA StartAddStore ==
    ASSUME PolicyInv, StoreInv, NEW ref \in Names, StartAdd(ref)
    PROVE  StoreInv'
<1> DEFINE repo == Resolved(ref)
           replaced == {o \in journal : /\ o.kind = "add"
                                        /\ o.repo.id # repo.id
                                        /\ o.repo.name = repo.name}
           was == \E o \in journal : /\ o.kind = "add" /\ o.propagation
                                     /\ o.repo.id = repo.id
           may == repo.id \in access
           c == NewAdd(ref, repo, installed, may, was)
<1>1. /\ UNCHANGED <<policies, unverified>> /\ journal' = journal \ replaced
      /\ dropped' = dropped \cup {o.repo.id : o \in replaced}
      /\ pc' \in {"revokeOld", "askInstall", "policies"}
      /\ cmd' = c \/ \E o \in journal : cmd' = [c EXCEPT !.old = o]
  BY DEF StartAdd, NewAdd
<1>2. c \in Commands /\ c.repo = repo /\ c.verify = was
  <2>1. repo \in Identities
    BY ResolvedIsNamed DEF StartAdd, PolicyInv
  <2>2. installed \in 0..MaxInstalls
    BY Held DEF PolicyInv, Typed
  <2>3. was \in BOOLEAN /\ may \in BOOLEAN
    OBVIOUS
  <2> HIDE DEF repo, was, may
  <2> QED  BY <2>1, <2>2, <2>3, Adds
<1>3. cmd'.repo = repo /\ cmd'.verify = was
  <2> HIDE DEF c
  <2> QED  BY <1>1, <1>2 DEF Commands
<1>4. LocalAhead'
  BY <1>1 DEF StoreInv, LocalAhead, Pending, policies
<1>5. was => \E o \in journal' : o.kind = "add" /\ o.repo.id = repo.id
  BY <1>1
<1> HIDE DEF c, was, may, repo, replaced
<1>6. InStep' /\ Recorded' /\ Removing'
  BY <1>1, <1>3, <1>5 DEF InStep, Recorded, Removing, At, Removes
<1> QED  BY <1>1, <1>4, <1>6, RunningStore

(* A step of an add that notes it and goes on, or ends.                    *)
LEMMA AddIsNoted ==
    ASSUME StoreInv, NEW install, NEW propagation,
           journal' = Upsert(AddOperation(cmd.repo, install, propagation)),
           UNCHANGED <<policies, usage>>
    PROVE  /\ LocalAhead'
           /\ \E o \in journal' : o.kind = "add" /\ o.repo.id = cmd.repo.id
<1> DEFINE op == AddOperation(cmd.repo, install, propagation)
<1>1. op.kind = "add" /\ op.repo = cmd.repo /\ journal' = Upsert(op)
  BY DEF AddOperation
<1> HIDE DEF op
<1>2. op \in journal' /\ \A id : Pending(id) => \E o \in journal' : o.repo.id = id
  BY <1>1, Notes
<1>3. LocalAhead'
  BY <1>2, AheadKept DEF StoreInv, policies, usage
<1> QED  BY <1>1, <1>2, <1>3

(* The add is noted before the user is asked.                              *)
LEMMA AskInstallStore ==
    ASSUME StoreInv, AskInstall
    PROVE  StoreInv'
<1>1. /\ LocalAhead' /\ pc' = "waitInstall" /\ cmd' = cmd
      /\ \E o \in journal' : o.kind = "add" /\ o.repo.id = cmd.repo.id
  BY AddIsNoted DEF AskInstall, Goto, Quiet
<1>2. InStep' /\ Recorded' /\ Removing'
  BY <1>1 DEF InStep, Recorded, Removing, At, Removes
<1> QED  BY <1>1, <1>2, RunningStore

(* An installation that is approved later is noted with the add.           *)
LEMMA WaitInstallStore ==
    ASSUME PolicyInv, StoreInv, WaitInstall
    PROVE  StoreInv'
<1>1. UNCHANGED <<policies, usage>> /\ pc = "waitInstall" /\ cmd \in Commands
  BY Held DEF WaitInstall, Quiet, PolicyInv, Typed
<1>2. CASE Approved(cmd.ref)
  <2>1. /\ pc' = "policies" /\ UNCHANGED journal
        /\ cmd' = [cmd EXCEPT !.install = installed, !.access = TRUE]
    BY <1>2 DEF WaitInstall, Goto
  <2>2. cmd'.repo = cmd.repo /\ cmd'.verify = cmd.verify
    BY <1>1, <2>1 DEF Commands
  <2>3. LocalAhead'
    BY <1>1, <2>1, AheadKept DEF StoreInv, policies, usage, Pending
  <2>4. InStep' /\ Recorded' /\ Removing'
    BY <1>1, <2>1, <2>2 DEF StoreInv, InStep, Recorded, Removing, At, Removes
  <2> QED  BY <2>1, <2>3, <2>4, RunningStore
<1>3. CASE ~Approved(cmd.ref)
  BY <1>1, <1>3, AddIsNoted, EndedStore DEF WaitInstall
<1> QED  BY <1>2, <1>3

(* The policies are merged; what the add will write is the rest of them    *)
(* and its entry.                                                          *)
LEMMA ReadPoliciesStore ==
    ASSUME PolicyInv, StoreInv, ReadPolicies
    PROVE  StoreInv'
<1> DEFINE p == IntersectPolicies(local, visible)
           renamed == \E e \in p.entries :
                         /\ e.id = cmd.repo.id /\ e.install = cmd.install
                         /\ e.name # cmd.repo.name
           base == IF renamed THEN WithoutRepository(p, cmd.repo.id) ELSE p
           next == WithRepository(base, cmd.install, cmd.repo)
           after == IF cmd.access THEN "forgetAdd" ELSE "grantAccess"
           omits == local = next /\ p # next
<1>1. /\ local' = p /\ UNCHANGED <<cloud, visible, journal, dropped>>
      /\ unverified \subseteq unverified' /\ pc = "policies"
      /\ cmd \in Commands /\ cmd.repo \in Identities
  BY Held DEF ReadPolicies, PolicyInv, Typed, Known, At, Waypoints
<1>2. /\ p.entries \subseteq local.entries
      /\ base.entries \subseteq p.entries
      /\ \A e \in p.entries : e.id = cmd.repo.id \/ e \in base.entries
  BY IntersectionOf, WithoutOf
<1>3. /\ EntryOf(cmd.install, cmd.repo) \in next.entries
      /\ EntryOf(cmd.install, cmd.repo).id = cmd.repo.id
      /\ next.entries = base.entries \cup {EntryOf(cmd.install, cmd.repo)}
  BY <1>1, WithOf, EntryIsOf
<1>4. LocalAhead'
  BY <1>1, <1>2, AheadKept DEF StoreInv, Pending
<1>5. CASE Conflicts(base, cmd.install, cmd.repo)
  <2>1. End("conflict")
    BY <1>5 DEF ReadPolicies
  <2> QED  BY <1>4, <2>1, EndedStore
<1>6. CASE ~Conflicts(base, cmd.install, cmd.repo)
  <2>1. /\ cmd' = [cmd EXCEPT !.prior = p, !.target = next, !.after = after,
                              !.omits = omits]
        /\ \/ pc' = "notePropagation"
           \/ /\ pc' = "writeNext" /\ visible = next
              /\ \/ cmd.verify \/ visible = cloud
                 \/ cmd.repo.id \in unverified'
    BY <1>6 DEF ReadPolicies, Goto
  <2>6. omits => p.entries \subseteq next.entries
    BY <1>2
  <2> HIDE DEF base, p, next, after, omits
  <2>2. /\ cmd'.prior = p /\ cmd'.target = next /\ cmd'.repo = cmd.repo
        /\ cmd'.install = cmd.install /\ cmd'.verify = cmd.verify
        /\ cmd'.omits = omits
    BY <1>1, <2>1 DEF Commands
  <2>7. omits => Widened'
    BY <1>1, <1>2, <1>3, <2>2, <2>6, EntryIsOf DEF Widened
  <2>3. InStep'
    BY <1>1, <1>2, <1>3, <2>1, <2>2, <2>7 DEF InStep, At
  <2>4. Recorded'
    BY <1>1, <2>1, <2>2 DEF StoreInv, Recorded, At
  <2>5. Removing'
    BY <2>1 DEF Removing, At, Removes
  <2> QED  BY <1>4, <2>1, <2>3, <2>4, <2>5, RunningStore
<1> QED  BY <1>5, <1>6

(* The add is in the journal before a policy is written.                   *)
LEMMA NotePropagationStore ==
    ASSUME StoreInv, NotePropagation
    PROVE  StoreInv'
<1>1. /\ LocalAhead' /\ pc' = "writeNextThenCloud" /\ cmd' = cmd
      /\ pc = "notePropagation" /\ UNCHANGED local
      /\ \E o \in journal' : o.kind = "add" /\ o.repo.id = cmd.repo.id
  BY AddIsNoted DEF NotePropagation, Goto, Quiet, policies
<1>2. InStep' /\ Recorded' /\ Removing'
  BY <1>1 DEF StoreInv, InStep, Widened, Recorded, Removing, At, Removes,
              Pending
<1> QED  BY <1>1, <1>2, RunningStore

(* The local policy gets the entry that is in KV, in the journal, or taken *)
(* from an older value of KV.                                              *)
LEMMA WriteNextStore ==
    ASSUME PolicyInv, StoreInv, WriteNext
    PROVE  StoreInv'
<1>1. /\ local' = IF cmd.omits THEN local ELSE cmd.target
      /\ UNCHANGED <<cloud, visible, journal, cmd, usage>>
      /\ pc \in {"writeNext", "writeNextThenCloud"}
      /\ cmd.after \in Adding
  BY DEF WriteNext, Quiet, PolicyInv, Afterwards
<1>2. \/ pc' = "put" /\ pc = "writeNextThenCloud"
      \/ pc' = "verify" /\ pc = "writeNext" /\ cmd.verify
      \/ pc' = cmd.after /\ pc = "writeNext" /\ ~cmd.verify
  BY <1>1 DEF WriteNext, Goto
<1>3. \/ Pending(cmd.repo.id) \/ cmd.repo.id \in unverified
      \/ cmd.target = cloud
  BY <1>1 DEF StoreInv, Recorded, At, Pending
<1>4. LocalAhead'
  BY <1>1, <1>3 DEF StoreInv, LocalAhead, InStep, Pending, usage
<1>8. /\ Widened'
      /\ EntryOf(cmd.install, cmd.repo) \in cmd.target.entries
      /\ \A e \in cmd.prior.entries : e.id = cmd.repo.id \/ e \in local'.entries
  BY <1>1 DEF StoreInv, InStep, Widened
<1>5. InStep'
  BY <1>1, <1>2, <1>8 DEF InStep, At, Adding
<1>6. Recorded'
  BY <1>1, <1>2, <1>8 DEF StoreInv, Recorded, At, Adding, Pending, usage,
                          Widened
<1>7. Removing' /\ pc' # "idle"
  BY <1>1, <1>2 DEF Removing, At, Removes, Adding
<1> QED  BY <1>4, <1>5, <1>6, <1>7, RunningStore

(* What is restored is still pending or was allowed all the time.          *)
LEMMA RestoreStore ==
    ASSUME StoreInv, Restore
    PROVE  StoreInv'
<1>1. LocalAhead'
  BY DEF StoreInv, LocalAhead, InStep, Recorded, At, Pending, Restore,
         Quiet, usage
<1> QED  BY <1>1, EndedStore DEF Restore

(* The add is noted again before the user is asked for access.             *)
LEMMA GrantAccessStore ==
    ASSUME StoreInv, GrantAccess
    PROVE  StoreInv'
<1>1. /\ LocalAhead' /\ pc' = "waitAccess" /\ cmd' = cmd
      /\ pc = "grantAccess" /\ UNCHANGED <<policies, usage>>
      /\ \E o \in journal' : o.kind = "add" /\ o.repo.id = cmd.repo.id
  BY AddIsNoted DEF GrantAccess, Goto, Quiet
<1>2. InStep' /\ Recorded' /\ Removing'
  BY <1>1 DEF StoreInv, InStep, Recorded, Removing, At, Removes, Pending,
              policies, usage
<1> QED  BY <1>1, <1>2, RunningStore

(* An installation that is gone takes the entry out of both policies.      *)
LEMMA WaitAccessStore ==
    ASSUME PolicyInv, StoreInv, WaitAccess
    PROVE  StoreInv'
<1>1. /\ UNCHANGED <<cloud, visible, journal, usage>> /\ pc = "waitAccess"
      /\ cmd \in Commands /\ Valid(cmd.prior)
  BY Held DEF WaitAccess, Quiet, PolicyInv, Typed
<1>2. local' \in {local, cmd.prior}
  BY DEF WaitAccess
<1>3. LocalAhead'
  BY <1>1, <1>2 DEF StoreInv, LocalAhead, InStep, Recorded, At, Pending,
                    usage
<1>4. CASE End("pending")
  BY <1>3, <1>4, EndedStore
<1>5. CASE pc' = "forgetAdd" /\ UNCHANGED <<local, cmd>>
  <2>1. InStep' /\ Recorded' /\ Removing'
    BY <1>1, <1>5 DEF StoreInv, InStep, Recorded, Removing, At, Removes,
                      Pending, usage
  <2> QED  BY <1>3, <1>5, <2>1, RunningStore
<1>6. CASE local' = cmd.prior /\ ToCloud(cmd.prior, "noteAbsent", cmd)
  <2>1. /\ pc' = "put" /\ cmd'.target = cmd.prior
        /\ cmd'.after = "noteAbsent" /\ cmd'.repo = cmd.repo
        /\ cmd'.verify = cmd.verify
    BY <1>1, <1>6, GoesToCloud DEF Valid, Waypoints
  <2>2. InStep' /\ Recorded' /\ Removing'
    BY <1>1, <1>6, <2>1 DEF StoreInv, InStep, Recorded, Removing, At,
                            Removes, Adding
  <2> QED  BY <1>3, <2>1, <2>2, RunningStore
<1> QED  BY <1>4, <1>5, <1>6 DEF WaitAccess, Goto

(* The add without its installation is noted.                              *)
LEMMA NoteAbsentStore ==
    ASSUME StoreInv, NoteAbsent
    PROVE  StoreInv'
BY AddIsNoted, EndedStore DEF NoteAbsent, Quiet

(* An add that is done leaves the policies the same.                       *)
LEMMA ForgetAddStore ==
    ASSUME PolicyInv, StoreInv, ForgetAdd
    PROVE  StoreInv'
<1>1. /\ UNCHANGED <<policies, usage>> /\ pc = "forgetAdd"
      /\ journal' = Forget("add", cmd.repo.id) /\ End("authorized")
      /\ cmd.repo \in Identities /\ journal \subseteq Operations
  BY Held DEF ForgetAdd, Quiet, PolicyInv, Typed, Known, At, Waypoints
<1>2. /\ cmd.omits \/ EntryOf(cmd.install, cmd.repo) \in local.entries
      /\ \/ cmd.repo.id \in unverified
         \/ /\ local.entries \subseteq cloud.entries /\ visible = cloud
            /\ EntryOf(cmd.install, cmd.repo) \in cloud.entries
  BY <1>1 DEF StoreInv, InStep, Recorded, At
<1>3. \A o \in journal : o.repo.id # cmd.repo.id => o \in journal'
  BY <1>1, Forgets
<1>4. LocalAhead'
  BY <1>1, <1>2, <1>3 DEF StoreInv, LocalAhead, Pending, policies, usage
<1>5. /\ pc' = "idle" /\ status' = "authorized" /\ cmd'.repo = cmd.repo
      /\ cmd'.omits = cmd.omits
  BY <1>1, Ends, Held DEF PolicyInv, Typed
<1>6. \A o \in journal' : o.repo.id = cmd.repo.id => o.kind = "remove"
  BY <1>1, Forgets DEF Operations
<1>7. AuthorizedTruly'
  BY <1>1, <1>2, <1>5, <1>6, EntryIsOf DEF AuthorizedTruly, policies, usage
<1>8. InStep' /\ Recorded' /\ Removing' /\ RemovedLocally'
  BY <1>5 DEF InStep, Recorded, Removing, At, Removes, RemovedLocally
<1> QED  BY <1>4, <1>7, <1>8 DEF StoreInv

(* What the local policy or the journal knows of the name is revoked; or   *)
(* they know nothing of it.                                                *)
LEMMA StartRemoveStore ==
    ASSUME PolicyInv, StoreInv, NEW ref \in Names, NEW keep \in BOOLEAN,
           StartRemove(ref, keep)
    PROVE  StoreInv'
<1> DEFINE Nowhere ==
              /\ \A e \in local.entries : e.name # ref
              /\ \A o \in journal : o.repo.name # ref
           Begin(repo, install) ==
              /\ local' = WithoutRepository(local, repo.id)
              /\ cmd' = [Idle EXCEPT !.op = "remove", !.ref = ref,
                            !.keep = keep, !.repo = repo,
                            !.install = install, !.after = "readCloud"]
              /\ pc' = IF repo = NoRepo THEN "readCloud" ELSE "noteRemoval"
<1>1. UNCHANGED <<cloud, visible, journal, dropped, unverified>>
  BY DEF StartRemove
<1>2. Valid(local) /\ journal \subseteq Operations
  BY Held DEF PolicyInv, Typed
<1>3. \E repo, install : Begin(repo, install) /\ (repo = NoRepo => Nowhere)
  <2> DEFINE Knows(kind) ==
                LET ops == {o \in journal : o.kind = kind
                                            /\ o.repo.name = ref}
                IN  IF ops = {} THEN {NoOperation} ELSE ops
             configured == {e \in local.entries : e.name = ref}
             found(r, a) == IF r = NoOperation THEN a.repo ELSE r.repo
             where(r, a) == IF r.install = 0 THEN a.install ELSE r.install
  <2>1. \/ \E e \in configured : Begin(RepoOf(e), e.install)
        \/ /\ configured = {}
           /\ \E r \in Knows("remove"), a \in Knows("add") :
                 Begin(found(r, a), where(r, a))
    BY DEF StartRemove
  <2>2. \A e \in configured : RepoOf(e) # NoRepo
    BY <1>2, BoundsAssumption DEF Valid, Policies, Entries, RepoOf, NoRepo
  <2>3. ASSUME NEW r \in Knows("remove"), NEW a \in Knows("add"),
               found(r, a) = NoRepo
        PROVE  \A o \in journal : o.repo.name # ref
    <3>1. \A o \in journal : o.repo # NoRepo /\ o.kind \in {"add", "remove"}
      BY <1>2, BoundsAssumption DEF Operations, Identities, NoRepo
    <3>2. r = NoOperation
      BY <2>3, <3>1
    <3>3. {o \in journal : o.kind = "remove" /\ o.repo.name = ref} = {}
      BY <3>1, <3>2 DEF NoOperation, RemoveOperation
    <3>4. {o \in journal : o.kind = "add" /\ o.repo.name = ref} = {}
      BY <2>3, <3>1, <3>2
    <3> QED  BY <3>1, <3>3, <3>4
  <2> HIDE DEF Begin, Knows, found, where
  <2>4. CASE \E e \in configured : Begin(RepoOf(e), e.install)
    BY <2>2, <2>4
  <2>5. CASE /\ configured = {}
             /\ \E r \in Knows("remove"), a \in Knows("add") :
                   Begin(found(r, a), where(r, a))
    BY <2>3, <2>5
  <2> QED  BY <2>1, <2>4, <2>5
<1>4. PICK repo, install : Begin(repo, install) /\ (repo = NoRepo => Nowhere)
  BY <1>3
<1>5. /\ cmd'.op = "remove" /\ cmd'.ref = ref /\ cmd'.repo = repo
      /\ cmd'.after = "readCloud" /\ cmd'.verify = FALSE
  BY <1>4 DEF Idle
<1>6. /\ local' = WithoutRepository(local, repo.id)
      /\ pc' = IF repo = NoRepo THEN "readCloud" ELSE "noteRemoval"
      /\ repo = NoRepo => Nowhere
  BY <1>4
<1>7. /\ local'.entries \subseteq local.entries
      /\ repo.id \notin IdsIn(local')
  BY <1>6, WithoutOf
<1> HIDE DEF Begin
<1>8. LocalAhead'
  BY <1>1, <1>7, AheadKept DEF StoreInv, Pending
<1>9. InStep' /\ Recorded' /\ Removing'
  BY <1>1, <1>5, <1>6, <1>7 DEF InStep, Recorded, Removing, At, Removes,
                                Adding
<1> QED  BY <1>6, <1>8, <1>9, RunningStore

(* A removal that is noted leaves no add of that repository.               *)
LEMMA NoteRemovalStore ==
    ASSUME PolicyInv, StoreInv, NoteRemoval
    PROVE  StoreInv'
<1> DEFINE op == RemoveOperation(cmd.repo, cmd.install)
<1>1. /\ journal' = Upsert(op) /\ pc' = cmd.after /\ pc = "noteRemoval"
      /\ UNCHANGED <<policies, cmd, usage>>
      /\ cmd.repo \in Identities
      /\ cmd.after \in {"readCloud", "narrow", "revokeCloudIdentity"}
  BY DEF NoteRemoval, Goto, Quiet, PolicyInv, Known, Afterwards, At,
         Waypoints
<1>2. op.kind = "remove" /\ op.repo = cmd.repo
  BY DEF RemoveOperation
<1>3. cmd.repo # NoRepo
  BY <1>1, BoundsAssumption DEF NoRepo, Identities
<1> HIDE DEF op
<1>4. /\ op \in journal' /\ \A o \in journal' : o = op \/ o \in journal
      /\ \A id : Pending(id) => \E o \in journal' : o.repo.id = id
  BY <1>1, Notes
<1>5. LocalAhead'
  BY <1>1, <1>4, AheadKept DEF StoreInv, policies, usage
<1>6. InStep' /\ Recorded'
  BY <1>1, <1>2, <1>4 DEF StoreInv, InStep, Recorded, At, Adding, Pending,
                          Upsert
<1>7. Removing'
  BY <1>1, <1>2, <1>3, <1>4 DEF StoreInv, Removing, At, Removes, policies
<1> QED  BY <1>1, <1>5, <1>6, <1>7, RunningStore

(* The repository that KV knows by that name is not allowed under it       *)
(* locally.                                                                *)
LEMMA ReadCloudStore ==
    ASSUME PolicyInv, StoreInv, ReadCloud
    PROVE  StoreInv'
<1> DEFINE Read(repo, install) ==
              /\ cmd' = [cmd EXCEPT !.seen = visible, !.repo = repo,
                                    !.install = install, !.after = "narrow"]
              /\ pc' = IF repo = NoRepo THEN "narrow" ELSE "noteRemoval"
<1>1. /\ UNCHANGED <<policies, journal, usage>> /\ pc = "readCloud"
      /\ cmd \in Commands /\ Valid(local) /\ Valid(visible)
  BY Held DEF ReadCloud, Quiet, PolicyInv, Typed
<1>2. \E repo, install :
         /\ Read(repo, install)
         /\ \/ repo = cmd.repo
            \/ /\ cmd.repo = NoRepo
               /\ \E e \in visible.entries : e.name = cmd.ref
                                             /\ repo = RepoOf(e)
  BY DEF ReadCloud, Goto
<1>3. PICK repo, install :
         /\ Read(repo, install)
         /\ \/ repo = cmd.repo
            \/ /\ cmd.repo = NoRepo
               /\ \E e \in visible.entries : e.name = cmd.ref
                                             /\ repo = RepoOf(e)
  BY <1>2
<1>4. /\ cmd'.seen = visible /\ cmd'.repo = repo /\ cmd'.after = "narrow"
      /\ cmd'.ref = cmd.ref /\ cmd'.verify = cmd.verify /\ cmd'.op = cmd.op
      /\ pc' = IF repo = NoRepo THEN "narrow" ELSE "noteRemoval"
  BY <1>1, <1>3 DEF Commands
<1>5. /\ cmd.repo.id \notin IdsIn(local)
      /\ cmd.repo = NoRepo =>
            /\ \A o \in journal : o.repo.name # cmd.ref
            /\ \A e \in local.entries : e.name # cmd.ref
  BY <1>1 DEF StoreInv, Removing, Removes
<1>6. repo = NoRepo => cmd.repo = NoRepo
  BY <1>1, <1>3, BoundsAssumption
     DEF Valid, Policies, Entries, RepoOf, NoRepo
<1>7. repo.id \notin IdsIn(IntersectPolicies(local, visible))
  <2>1. CASE repo = cmd.repo
    BY <1>5, <2>1, IntersectionOf DEF IdsIn
  <2>2. CASE cmd.repo = NoRepo /\ repo # cmd.repo
    <3>1. PICK e \in visible.entries : e.name = cmd.ref /\ repo = RepoOf(e)
      BY <1>3, <2>2
    <3>2. \A f \in visible.entries : f.id = e.id => f = e
      BY <1>1 DEF Valid, Unambiguous
    <3>3. e \notin local.entries
      BY <1>5, <2>2, <3>1
    <3>4. repo.id = e.id
      BY <3>1 DEF RepoOf
    <3> QED  BY <3>2, <3>3, <3>4, IntersectionOf DEF IdsIn
  <2> QED  BY <1>3, <2>1, <2>2
<1> HIDE DEF Read
<1>8. LocalAhead'
  BY <1>1, AheadKept DEF StoreInv, policies, usage, Pending
<1>9. InStep' /\ Recorded'
  BY <1>4 DEF InStep, Recorded, At, Adding
<1>10. Removing'
  BY <1>1, <1>4, <1>5, <1>6, <1>7 DEF Removing, At, Removes, policies,
     IntersectPolicies, IdsIn
<1> QED  BY <1>4, <1>8, <1>9, <1>10, RunningStore

(* KV gets what the local policy is, or has it already.                    *)
LEMMA RevokeCloudStore ==
    ASSUME PolicyInv, StoreInv, NEW next, Valid(next),
           NEW after \in {"revoked", "withdraw"},
           RevokeCloud(next, after), next.entries = local'.entries,
           local'.entries \subseteq local.entries,
           cmd.repo.id \notin IdsIn(local'),
           UNCHANGED <<cloud, visible, journal, usage>>,
           /\ after = "revoked" /\ cmd.repo = NoRepo =>
                 \A o \in journal : o.repo.name # cmd.ref,
           /\ after = "withdraw" =>
                 \A o \in journal : o.kind = "add"
                    /\ o.repo.id = cmd.repo.id => o.repo.name # cmd.ref
    PROVE  StoreInv'
<1>1. LocalAhead'
  BY AheadKept DEF StoreInv, usage, Pending
<1>2. cmd \in Commands
  BY Held DEF PolicyInv, Typed
<1>3. CASE cmd.seen = next
  <2>1. /\ pc' = after
        /\ cmd' = [cmd EXCEPT !.omits = @ \/ cloud # next]
    BY <1>3 DEF RevokeCloud, Goto
  <2>3. cmd'.repo = cmd.repo /\ cmd'.ref = cmd.ref /\ cmd'.seen = cmd.seen
    BY <1>2, <2>1 DEF Commands
  <2>2. InStep' /\ Recorded' /\ Removing'
    BY <1>3, <2>1, <2>3 DEF InStep, Recorded, Removing, At, Removes, Adding
  <2> QED  BY <1>1, <2>1, <2>2, RunningStore
<1>4. CASE cmd.seen # next
  <2> DEFINE c == [cmd EXCEPT !.seen = next]
  <2>1. /\ c \in Commands /\ c.seen = next /\ c.repo = cmd.repo
        /\ c.ref = cmd.ref
    BY <1>2, Sees DEF Valid
  <2>2. ToCloud(next, after, c)
    BY <1>4 DEF RevokeCloud
  <2> HIDE DEF c
  <2>3. /\ pc' = "put" /\ cmd'.target = next /\ cmd'.after = after
        /\ cmd'.seen = next /\ cmd'.repo = cmd.repo /\ cmd'.ref = cmd.ref
    BY <2>1, <2>2, GoesToCloud DEF Valid, Waypoints
  <2>4. InStep' /\ Recorded' /\ Removing'
    BY <2>3 DEF InStep, Recorded, Removing, At, Removes, Adding
  <2> QED  BY <1>1, <2>3, <2>4, RunningStore
<1> QED  BY <1>3, <1>4

(* What both allow, without the repository, is written to both.            *)
LEMMA NarrowStore ==
    ASSUME PolicyInv, StoreInv, Narrow
    PROVE  StoreInv'
<1> DEFINE p == IntersectPolicies(local, cmd.seen)
           next == WithoutRepository(p, cmd.repo.id)
<1>1. /\ local' = p /\ RevokeCloud(next, "revoked") /\ pc = "narrow"
      /\ UNCHANGED <<cloud, visible, journal, usage>>
  BY DEF Narrow, Quiet
<1>2. Valid(p) /\ Valid(next)
  BY Held, IntersectionNarrows, WithoutNarrows DEF PolicyInv, Typed
<1>3. /\ cmd.repo.id \notin IdsIn(p)
      /\ cmd.repo = NoRepo => \A o \in journal : o.repo.name # cmd.ref
  BY <1>1 DEF StoreInv, Removing, Removes
<1>4. next = p
  BY <1>3 DEF WithoutRepository
<1>5. p.entries \subseteq local.entries
  BY IntersectionOf
<1> HIDE DEF p, next
<1> QED  BY <1>1, <1>2, <1>3, <1>4, <1>5, RevokeCloudStore

(* A repository revoked everywhere is forgotten as one to add.             *)
LEMMA RevokedStore ==
    ASSUME StoreInv, Revoked
    PROVE  StoreInv'
<1>1. /\ UNCHANGED <<policies, cmd, usage>> /\ pc = "revoked"
      /\ journal' = Forget("add", cmd.repo.id)
      /\ \/ pc' = "forgetRemoval" /\ cmd.repo # NoRepo
         \/ pc' = "discover"
  BY DEF Revoked, Goto, Quiet
<1>2. cmd.repo.id \notin IdsIn(local)
  BY <1>1 DEF StoreInv, Removing, Removes
<1>3. LocalAhead'
  BY <1>1, <1>2, Forgets, AheadKept
     DEF StoreInv, policies, usage, Pending, IdsIn
<1>4. InStep' /\ Recorded'
  BY <1>1 DEF InStep, Recorded, At
<1>5. Removing'
  BY <1>1, <1>2, Forgets DEF StoreInv, Removing, At, Removes, policies
<1> QED  BY <1>1, <1>3, <1>4, <1>5, RunningStore

(* What GitHub resolves the name to has no add of that name in the         *)
(* journal, and is revoked next or is not allowed.                         *)
LEMMA DiscoverStore ==
    ASSUME PolicyInv, StoreInv, Discover
    PROVE  StoreInv'
<1> DEFINE found == Resolved(cmd.ref)
           may == found.id \in access
<1>1. /\ UNCHANGED <<policies, journal, usage>> /\ pc = "discover"
      /\ cmd \in Commands
  BY Held DEF Discover, Quiet, PolicyInv, Typed
<1>2. LocalAhead'
  BY <1>1, AheadKept DEF StoreInv, policies, usage, Pending
<1>3. CASE End("error") \/ End("mismatch")
  BY <1>2, <1>3, EndedStore
<1>4. CASE ~(End("error") \/ End("mismatch"))
  <2>1. /\ cmd.repo \in {NoRepo, found}
        /\ cmd' = [cmd EXCEPT !.repo = found, !.install = installed,
                              !.access = may,
                              !.after = "revokeCloudIdentity"]
        /\ \/ pc' = "revokeIdentity" /\ cmd.repo = NoRepo
           \/ pc' = "withdraw" /\ cmd.repo # NoRepo
           \/ pc' = "withdraw" /\ found.id \notin IdsIn(local)
    BY <1>4 DEF Discover, Goto
  <2> HIDE DEF found, may
  <2>2. /\ cmd'.repo = found /\ cmd'.seen = cmd.seen /\ cmd'.ref = cmd.ref
    BY <1>1, <2>1 DEF Commands
  <2>3. InStep' /\ Recorded'
    BY <2>1 DEF InStep, Recorded, At
  <2>4. Removing'
    BY <1>1, <2>1, <2>2 DEF StoreInv, Removing, At, Removes, policies
  <2> QED  BY <1>2, <2>1, <2>3, <2>4, RunningStore
<1> QED  BY <1>3, <1>4

(* A repository known by another name is not allowed locally.              *)
LEMMA RevokeIdentityStore ==
    ASSUME PolicyInv, StoreInv, RevokeIdentity
    PROVE  StoreInv'
<1>1. /\ UNCHANGED <<cloud, visible, journal, cmd, usage>>
      /\ local' = WithoutRepository(local, cmd.repo.id)
      /\ pc = "revokeIdentity" /\ pc' = "noteRemoval"
      /\ cmd.after = "revokeCloudIdentity"
  BY DEF RevokeIdentity, Goto, Quiet, PolicyInv, Afterwards
<1>2. /\ local'.entries \subseteq local.entries
      /\ cmd.repo.id \notin IdsIn(local')
  BY <1>1, WithoutOf
<1>3. LocalAhead'
  BY <1>1, <1>2, AheadKept DEF StoreInv, usage, Pending
<1>4. InStep' /\ Recorded'
  BY <1>1 DEF InStep, Recorded, At, Adding
<1>5. Removing'
  BY <1>1, <1>2 DEF StoreInv, Removing, At, Removes
<1> QED  BY <1>1, <1>3, <1>4, <1>5, RunningStore

(* KV gets what the local policy is then.                                  *)
LEMMA RevokeCloudIdentityStore ==
    ASSUME PolicyInv, StoreInv, RevokeCloudIdentity
    PROVE  StoreInv'
<1> DEFINE p == IntersectPolicies(local, cmd.seen)
           next == WithoutRepository(p, cmd.repo.id)
<1>1. /\ UNCHANGED <<policies, journal, usage>>
      /\ RevokeCloud(next, "withdraw") /\ pc = "revokeCloudIdentity"
      /\ cmd.repo # NoRepo
  BY BoundsAssumption DEF RevokeCloudIdentity, Quiet, PolicyInv, Known, At,
                          Waypoints, NoRepo, Identities
<1>2. Valid(next)
  BY Held, IntersectionNarrows, WithoutNarrows DEF PolicyInv, Typed
<1>3. /\ cmd.repo.id \notin IdsIn(local)
      /\ local.entries \subseteq cmd.seen.entries
      /\ \A o \in journal : o.kind = "add" /\ o.repo.id = cmd.repo.id
                            => o.repo.name # cmd.ref
  BY <1>1 DEF StoreInv, Removing, Removes
<1>4. p.entries = local.entries
  <2>1. p.entries = local.entries \cap cmd.seen.entries
    BY IntersectionOf
  <2> QED  BY <1>3, <2>1
<1>5. next = p
  BY <1>3, <1>4 DEF WithoutRepository, IdsIn
<1> HIDE DEF next, p
<1> QED  BY <1>1, <1>2, <1>3, <1>4, <1>5, RevokeCloudStore DEF policies

(* The removal stays in the journal while there is access to withdraw.     *)
LEMMA WithdrawStore ==
    ASSUME PolicyInv, StoreInv, Withdraw
    PROVE  StoreInv'
<1> DEFINE op == RemoveOperation(cmd.repo, cmd.install)
<1>1. /\ UNCHANGED <<policies, cmd, usage>> /\ pc = "withdraw"
      /\ pc' \in {"forgetRemoval", "waitRemoved"}
      /\ journal' \in {journal, Forget("add", cmd.repo.id), Upsert(op)}
      /\ cmd.repo # NoRepo
  BY BoundsAssumption DEF Withdraw, Goto, Quiet, PolicyInv, Known, At,
                          Waypoints, NoRepo, Identities
<1>2. op.kind = "remove"
  BY DEF RemoveOperation
<1> HIDE DEF op
<1>3. /\ cmd.repo.id \notin IdsIn(local)
      /\ \A o \in journal : o.kind = "add" /\ o.repo.id = cmd.repo.id
                            => o.repo.name # cmd.ref
  BY <1>1 DEF StoreInv, Removing, Removes
<1>4. LocalAhead'
  <2>1. ASSUME NEW e \in local.entries, Pending(e.id)
        PROVE  \E o \in journal' : o.repo.id = e.id
    <3>1. e.id # cmd.repo.id
      BY <1>3 DEF IdsIn
    <3>2. CASE journal' = Upsert(op)
      BY <2>1, <3>2, Notes
    <3>3. CASE journal' # Upsert(op)
      BY <1>1, <2>1, <3>1, <3>3, Forgets DEF Pending
    <3> QED  BY <3>2, <3>3
  <2> QED  BY <1>1, <2>1, AheadKept DEF StoreInv, policies, usage
<1>5. \A o \in journal' : o.kind = "add" => o \in journal
  BY <1>1, <1>2, Forgets, Notes
<1>6. InStep' /\ Recorded'
  BY <1>1 DEF InStep, Recorded, At
<1>7. Removing'
  BY <1>1, <1>3, <1>5 DEF Removing, At, Removes, policies
<1> QED  BY <1>1, <1>4, <1>6, <1>7, RunningStore

(* The access is gone, or the removal stays in the journal.                *)
LEMMA WaitRemovedStore ==
    ASSUME StoreInv, WaitRemoved
    PROVE  StoreInv'
<1>1. UNCHANGED <<policies, journal, usage>> /\ pc = "waitRemoved"
  BY DEF WaitRemoved, Quiet
<1>2. LocalAhead'
  BY <1>1, AheadKept DEF StoreInv, policies, usage, Pending
<1>3. CASE End("github-access-pending")
  BY <1>2, <1>3, EndedStore
<1>4. CASE pc' = "forgetRemoval" /\ UNCHANGED cmd
  <2>1. InStep' /\ Recorded' /\ Removing'
    BY <1>1, <1>4 DEF StoreInv, InStep, Recorded, Removing, At, Removes,
                      policies
  <2> QED  BY <1>2, <1>4, <2>1, RunningStore
<1> QED  BY <1>3, <1>4 DEF WaitRemoved, Goto

(* A removal that is done leaves nothing of the repository to find.        *)
LEMMA ForgetRemovalStore ==
    ASSUME PolicyInv, StoreInv, ForgetRemoval
    PROVE  StoreInv'
<1>1. /\ UNCHANGED <<policies, usage>> /\ pc = "forgetRemoval"
      /\ journal' = Forget("remove", cmd.repo.id) /\ End("removed")
      /\ cmd.repo # NoRepo /\ journal \subseteq Operations
  BY Held, BoundsAssumption
     DEF ForgetRemoval, Quiet, PolicyInv, Typed, Known, At, Waypoints,
         NoRepo, Identities
<1>2. /\ cmd.repo.id \notin IdsIn(local)
      /\ \A o \in journal : o.kind = "add" /\ o.repo.id = cmd.repo.id
                            => o.repo.name # cmd.ref
  BY <1>1 DEF StoreInv, Removing, Removes
<1>3. LocalAhead'
  BY <1>1, <1>2, Forgets, AheadKept
     DEF StoreInv, policies, usage, Pending, IdsIn
<1>4. /\ pc' = "idle" /\ status' = "removed" /\ cmd'.repo = cmd.repo
      /\ cmd'.ref = cmd.ref
  BY <1>1 DEF End, Idle
<1>5. \A o \in journal' : /\ o \in journal /\ o.kind \in {"add", "remove"}
                          /\ o.repo.id = cmd.repo.id => o.kind = "add"
  BY <1>1, Forgets DEF Operations
<1>6. RemovedLocally'
  BY <1>1, <1>2, <1>4, <1>5 DEF RemovedLocally, policies
<1>7. InStep' /\ Recorded' /\ Removing' /\ AuthorizedTruly'
  BY <1>4 DEF InStep, Recorded, Removing, At, Removes, AuthorizedTruly
<1> QED  BY <1>3, <1>6, <1>7 DEF StoreInv

(* At first all policies agree.                                            *)
LEMMA InitStore == Init => StoreInv
BY DEF Init, StoreInv, InStep, Recorded, Removing, At, Removes, LocalAhead,
       AuthorizedTruly, RemovedLocally

(* Every step keeps what the stores hold together.                         *)
LEMMA StepStore == PolicyInv /\ StoreInv /\ [Next]_vars => StoreInv'
<1> SUFFICES ASSUME PolicyInv, StoreInv, [Next]_vars PROVE StoreInv'
  OBVIOUS
<1>1. CASE \/ \E id \in Ids, name \in Names : RenameRepository(id, name)
                                              \/ CreateRepository(id, name)
           \/ InstallApp \/ UninstallApp \/ \E id \in Ids : ChangeAccess(id)
           \/ UNCHANGED vars
  <2>1. UNCHANGED <<local, cloud, visible, journal, pc, cmd, status,
                    dropped, unverified>>
    BY <1>1 DEF RenameRepository, CreateRepository, InstallApp,
                UninstallApp, ChangeAccess, process, policies, usage, vars
  <2> QED  BY <2>1, GitHubStore
<1>2. CASE Propagate \/ Interrupt \/ Put \/ Verify
  BY <1>2, PropagateStore, InterruptStore, PutStore, VerifyStore
<1>3. CASE \/ \E ref \in Names : StartAdd(ref)
           \/ RevokeOld \/ OldAccess \/ AskInstall \/ WaitInstall
           \/ ReadPolicies
  BY <1>3, StartAddStore, RevokeOldStore, OldAccessStore, AskInstallStore,
     WaitInstallStore, ReadPoliciesStore
<1>4. CASE \/ NotePropagation \/ WriteNext \/ Restore \/ GrantAccess
           \/ WaitAccess \/ NoteAbsent \/ ForgetAdd
  BY <1>4, NotePropagationStore, WriteNextStore, RestoreStore,
     GrantAccessStore, WaitAccessStore, NoteAbsentStore, ForgetAddStore
<1>5. CASE \/ \E ref \in Names, keep \in BOOLEAN : StartRemove(ref, keep)
           \/ NoteRemoval \/ ReadCloud \/ Narrow \/ Revoked \/ Discover
  BY <1>5, StartRemoveStore, NoteRemovalStore, ReadCloudStore, NarrowStore,
     RevokedStore, DiscoverStore
<1>6. CASE \/ RevokeIdentity \/ RevokeCloudIdentity \/ Withdraw
           \/ WaitRemoved \/ ForgetRemoval
  BY <1>6, RevokeIdentityStore, RevokeCloudIdentityStore, WithdrawStore,
     WaitRemovedStore, ForgetRemovalStore
<1> QED  BY <1>1, <1>2, <1>3, <1>4, <1>5, <1>6 DEF Next

(* It holds in every state that can be reached.                            *)
LEMMA StoreInvariance == Spec => []StoreInv
<1>1. PolicyInv /\ StoreInv /\ [Next]_vars /\ PolicyInv' => StoreInv'
  BY StepStore
<1> QED  BY <1>1, InitStore, PolicyInvariance, PTL DEF Spec

(* What the local policy allows and KV does not is in the journal at every *)
(* moment at which a command may be killed, so that a retry finds it; the  *)
(* exceptions are the two ways in which the code loses the note: an add of *)
(* another repository of that name, and an older value of KV that agrees.  *)
THEOREM NothingUnrecorded == Spec => []LocalAhead
<1>1. StoreInv => LocalAhead
  BY DEF StoreInv
<1> QED  BY <1>1, StoreInvariance, PTL

(* An add that ends "authorized" has its entry in KV and in what KV shows, *)
(* no add is left to retry, and the local policy has the entry as well;    *)
(* unless it omitted the local write, because policy.json had held it      *)
(* before, or believed an older value of KV (add in repository.ts).        *)
THEOREM AuthorizationIsTrue == Spec => []AuthorizedTruly
<1>1. StoreInv => AuthorizedTruly
  BY DEF StoreInv
<1> QED  BY <1>1, StoreInvariance, PTL

(* A removal that ends "removed" leaves a repository that is not reviewed, *)
(* and nothing that the next command of that name would finish, whatever   *)
(* the repository was known as (remove in repository.ts).            *)
THEOREM RemovalIsLocal == Spec => []RemovedLocally
<1>1. StoreInv => RemovedLocally
  BY DEF StoreInv
<1> QED  BY <1>1, StoreInvariance, PTL

(* Only a put changes KV.                                                  *)
LEMMA CloudIsKept ==
    ASSUME Next, ~Put
    PROVE  UNCHANGED cloud
BY DEF Next, process, policies, RenameRepository, CreateRepository,
       InstallApp, UninstallApp, ChangeAccess, Propagate, Interrupt, Verify,
       StartAdd, RevokeOld, OldAccess, AskInstall, WaitInstall,
       ReadPolicies, NotePropagation, WriteNext, Restore, GrantAccess,
       WaitAccess, NoteAbsent, ForgetAdd, StartRemove, NoteRemoval,
       ReadCloud, Narrow, Revoked, Discover, RevokeIdentity,
       RevokeCloudIdentity, Withdraw, WaitRemoved, ForgetRemoval

(* No write to KV allows what the local policy does not allow, though it   *)
(* was computed from a value of KV that may be an older one, but for the   *)
(* repository an add in progress is asked for: with RevocationHolds, what  *)
(* was revoked comes back nowhere.                                         *)
THEOREM CloudRevocationHolds == Spec => CloudRevocationStands
<1> DEFINE Allowed(e) == \/ e \in local.entries
                         \/ cmd.op = "add" /\ cmd.omits /\ RepoOf(e) = cmd.repo
           Gained == cloud'.entries \ cloud.entries
<1>1. PolicyInv /\ StoreInv /\ [Next]_vars =>
         [\A e \in Gained : Allowed(e)]_vars
  <2> SUFFICES ASSUME PolicyInv, StoreInv, Next
               PROVE  \A e \in Gained : Allowed(e)
    OBVIOUS
  <2>1. CASE Put
    <3>1. Gained \subseteq cmd.target.entries /\ pc = "put"
      BY <2>1 DEF Put
    <3>2. CASE cmd.after \in Adding
      <4>1. Widened /\ cmd.op = "add"
        BY <3>1, <3>2 DEF PolicyInv, Widening, Restorable, At, StoreInv, InStep
      <4> QED  BY <3>1, <4>1 DEF Widened
    <3>3. CASE cmd.after \notin Adding
      BY <3>1, <3>3 DEF StoreInv, InStep
    <3> QED  BY <3>2, <3>3
  <2>2. CASE ~Put
    BY <2>2, CloudIsKept
  <2> QED  BY <2>1, <2>2
<1> QED  BY <1>1, PolicyInvariance, StoreInvariance, PTL
         DEF Spec, CloudRevocationStands

-----------------------------------------------------------------------------
(* What KV still allows of a removed repository.                           *)

(* What a removal writes to KV is what it holds as seen there afterwards,  *)
(* and that does not allow its repository: KV holds it, or the removal has *)
(* omitted a write.                                                        *)
Revoking ==
    /\ pc \in {"put", "verify"} /\ cmd.after \in {"revoked", "withdraw"} =>
          /\ cmd.target = cmd.seen
          /\ cmd.repo.id \notin IdsIn(cmd.target)
    /\ pc \in {"revoked", "discover"} => cmd.repo.id \notin IdsIn(cmd.seen)
    /\ \/ pc \in {"revoked", "discover", "revokeIdentity",
                  "revokeCloudIdentity"}
       \/ pc = "noteRemoval" /\ cmd.after = "revokeCloudIdentity"
       => cmd.omits \/ cmd.seen = cloud
    /\ pc \in {"withdraw", "waitRemoved", "forgetRemoval"} =>
          cmd.omits \/ cmd.repo.id \notin IdsIn(cloud)
RevokedInv == Revoking /\ RemovedFromCloud

(* The steps of a removal once it has merged the policies.                 *)
Late == {"revoked", "discover", "revokeIdentity", "revokeCloudIdentity",
         "withdraw", "waitRemoved", "forgetRemoval"}

(* A step that leads to none of them, ends as no removal and changes no    *)
(* policy on the way to one.                                               *)
LEMMA ElsewhereRevoked ==
    ASSUME pc' \notin Late,
           pc' \in {"put", "verify"} =>
              cmd'.after \notin {"revoked", "withdraw"},
           pc' = "noteRemoval" => cmd'.after # "revokeCloudIdentity",
           pc' = "idle" => status' # "removed"
    PROVE  RevokedInv'
BY DEF RevokedInv, Revoking, RemovedFromCloud, Late

(* A command that ends with something left to do.                          *)
LEMMA EndedRevoked ==
    ASSUME NEW s, s # "removed", End(s)
    PROVE  RevokedInv'
BY DEF End, RevokedInv, Revoking, RemovedFromCloud

(* Nothing changes that it is about.                                       *)
LEMMA RevokedKept ==
    ASSUME RevokedInv, UNCHANGED <<cloud, pc, cmd, status>>
    PROVE  RevokedInv'
BY DEF RevokedInv, Revoking, RemovedFromCloud

(* KV is given the narrower policy, or shows it already.                   *)
LEMMA RevokeCloudRevoked ==
    ASSUME PolicyInv, NEW next, Valid(next),
           NEW after \in {"revoked", "withdraw"}, RevokeCloud(next, after),
           cmd.repo.id \notin IdsIn(next), UNCHANGED cloud
    PROVE  RevokedInv'
<1>1. cmd \in Commands
  BY Held DEF PolicyInv, Typed
<1>2. CASE cmd.seen = next
  <2>1. /\ pc' = after
        /\ cmd' = [cmd EXCEPT !.omits = @ \/ cloud # next]
    BY <1>2 DEF RevokeCloud, Goto
  <2>2. /\ cmd'.repo = cmd.repo /\ cmd'.seen = cmd.seen
        /\ cmd'.omits = (cmd.omits \/ cloud # next)
    BY <1>1, <2>1 DEF Commands
  <2> QED  BY <1>2, <2>1, <2>2 DEF RevokedInv, Revoking, RemovedFromCloud
<1>3. CASE cmd.seen # next
  <2> DEFINE c == [cmd EXCEPT !.seen = next]
  <2>1. c \in Commands /\ c.seen = next /\ c.repo = cmd.repo
    BY <1>1, Sees DEF Valid
  <2>2. ToCloud(next, after, c)
    BY <1>3 DEF RevokeCloud
  <2> HIDE DEF c
  <2>3. /\ pc' = "put" /\ cmd'.target = next /\ cmd'.seen = next
        /\ cmd'.repo = cmd.repo
    BY <2>1, <2>2, GoesToCloud DEF Valid, Waypoints
  <2> QED  BY <2>3 DEF RevokedInv, Revoking, RemovedFromCloud
<1> QED  BY <1>2, <1>3

(* The steps of KV: what is verified is what the command has written.      *)
LEMMA CloudStepRevoked ==
    ASSUME PolicyInv, RevokedInv, Put \/ Verify
    PROVE  RevokedInv'
<1>1. CASE End("error")
  BY <1>1, EndedRevoked
<1>2. CASE ~End("error")
  <2>1. cmd.after \in Adding \cup {"oldAccess", "noteAbsent", "revoked",
                                   "withdraw"}
    BY DEF Put, Verify, PolicyInv, Afterwards
  <2>2. CASE pc' = "restore"
    BY <2>2, ElsewhereRevoked DEF Late
  <2>3. CASE pc' # "restore" /\ Put
    <3>1. pc = "put" /\ pc' = "verify" /\ cmd' = cmd
      BY <1>2, <2>3 DEF Put, Goto
    <3> QED  BY <3>1 DEF RevokedInv, Revoking, RemovedFromCloud
  <2>4. CASE pc' # "restore" /\ Verify
    <3>1. /\ pc = "verify" /\ pc' = cmd.after /\ cmd' = cmd
          /\ cloud = cmd.target /\ cloud' = cloud
      BY <1>2, <2>4 DEF Verify, Goto
    <3> QED  BY <2>1, <3>1
                DEF RevokedInv, Revoking, RemovedFromCloud, Adding
  <2> QED  BY <2>2, <2>3, <2>4
<1> QED  BY <1>1, <1>2

(* An add is not about to remove anything.                                 *)
LEMMA AddRevoked ==
    ASSUME PolicyInv, RevokedInv,
           \/ \E ref \in Names : StartAdd(ref)
           \/ RevokeOld \/ OldAccess \/ AskInstall \/ WaitInstall
           \/ ReadPolicies \/ NotePropagation \/ WriteNext \/ Restore
           \/ GrantAccess \/ WaitAccess \/ NoteAbsent \/ ForgetAdd
    PROVE  RevokedInv'
<1>1. CASE \E s \in {"error", "conflict", "pending", "authorized"} : End(s)
  BY <1>1, EndedRevoked
<1>2. CASE ~\E s \in {"error", "conflict", "pending", "authorized"} : End(s)
  <2>1. pc \in {"notePropagation", "writeNext", "writeNextThenCloud"} =>
           cmd.after \in Adding
    BY DEF PolicyInv, Afterwards
  <2>2. cmd \in Commands
    BY Held DEF PolicyInv, Typed
  <2>3. /\ pc' \in {"revokeOld", "askInstall", "policies", "oldAccess",
                    "waitInstall", "writeNext", "notePropagation",
                    "writeNextThenCloud", "put", "verify", "waitAccess"}
                   \cup Adding
        /\ pc' \in {"put", "verify"} =>
              cmd'.after \in Adding \cup {"oldAccess", "noteAbsent"}
    <3>1. CASE RevokeOld
      BY <2>2, <3>1 DEF RevokeOld, Goto, ToCloud, Commands
    <3>6. CASE WaitAccess
      BY <1>2, <2>2, <3>6 DEF WaitAccess, Goto, ToCloud, Commands, Adding
    <3>2. CASE \E ref \in Names : StartAdd(ref)
      BY <3>2, Zenon DEF StartAdd
    <3>3. CASE OldAccess \/ AskInstall \/ WaitInstall \/ ReadPolicies
      BY <1>2, <3>3 DEF OldAccess, AskInstall, WaitInstall, ReadPolicies, Goto
    <3>4. CASE NotePropagation \/ WriteNext \/ GrantAccess
      BY <2>1, <3>4 DEF NotePropagation, WriteNext, GrantAccess, Goto
    <3>5. CASE Restore \/ NoteAbsent \/ ForgetAdd
      BY <1>2, <3>5 DEF Restore, NoteAbsent, ForgetAdd
    <3> QED  BY <3>1, <3>2, <3>3, <3>4, <3>5, <3>6
  <2> QED  BY <2>3, ElsewhereRevoked DEF Late, Adding
<1> QED  BY <1>1, <1>2

(* A removal that has not merged the policies yet.                         *)
LEMMA EarlyRevoked ==
    ASSUME PolicyInv, RevokedInv,
           \/ \E ref \in Names, keep \in BOOLEAN : StartRemove(ref, keep)
           \/ NoteRemoval \/ ReadCloud
    PROVE  RevokedInv'
<1>1. cmd \in Commands
  BY Held DEF PolicyInv, Typed
<1>2. CASE \E ref \in Names, keep \in BOOLEAN : StartRemove(ref, keep)
  <2> DEFINE New(ref, keep, repo, install) ==
                [Idle EXCEPT !.op = "remove", !.ref = ref, !.keep = keep,
                             !.repo = repo, !.install = install,
                             !.after = "readCloud"]
  <2>1. \A ref, keep, repo, install :
           New(ref, keep, repo, install).after = "readCloud"
    BY DEF Idle
  <2>2. PICK ref \in Names, keep \in BOOLEAN : StartRemove(ref, keep)
    BY <1>2
  <2>3. \E repo, install : /\ cmd' = New(ref, keep, repo, install)
                           /\ pc' \in {"readCloud", "noteRemoval"}
    BY <2>2, ZenonT(40) DEF StartRemove
  <2> HIDE DEF New
  <2> QED  BY <2>1, <2>3, ElsewhereRevoked DEF Late
<1>3. CASE NoteRemoval
  <2>1. /\ pc = "noteRemoval" /\ pc' = cmd.after
        /\ cmd.after \in {"readCloud", "narrow", "revokeCloudIdentity"}
        /\ UNCHANGED <<cloud, cmd>>
    BY <1>3 DEF NoteRemoval, Goto, policies, PolicyInv, Afterwards
  <2> QED  BY <2>1 DEF RevokedInv, Revoking, RemovedFromCloud
<1>4. CASE ReadCloud
  <2>1. pc' \in {"narrow", "noteRemoval"} /\ cmd'.after = "narrow"
    BY <1>1, <1>4 DEF ReadCloud, Goto, Commands
  <2> QED  BY <2>1, ElsewhereRevoked DEF Late
<1> QED  BY <1>2, <1>3, <1>4

(* What both allow is written to KV without the repository, or it shows    *)
(* that already.                                                           *)
LEMMA NarrowRevoked ==
    ASSUME PolicyInv, RevokedInv, Narrow \/ RevokeCloudIdentity
    PROVE  RevokedInv'
<1> DEFINE p == IntersectPolicies(local, cmd.seen)
           next == WithoutRepository(p, cmd.repo.id)
<1>1. /\ \E after \in {"revoked", "withdraw"} : RevokeCloud(next, after)
      /\ UNCHANGED cloud
  BY DEF Narrow, RevokeCloudIdentity, policies
<1>2. Valid(p) /\ Valid(next)
  BY Held, IntersectionNarrows, WithoutNarrows DEF PolicyInv, Typed
<1>3. cmd.repo.id \notin IdsIn(next)
  BY WithoutOf
<1> HIDE DEF p, next
<1> QED  BY <1>1, <1>2, <1>3, RevokeCloudRevoked

(* What GitHub resolves the name to is the repository that was revoked, or *)
(* is not allowed in KV, or is revoked next.                               *)
LEMMA DiscoverRevoked ==
    ASSUME PolicyInv, RevokedInv, Discover
    PROVE  RevokedInv'
<1> DEFINE found == Resolved(cmd.ref)
           may == found.id \in access
<1>1. pc = "discover" /\ cmd \in Commands /\ UNCHANGED cloud
  BY Held DEF Discover, policies, PolicyInv, Typed
<1>2. CASE End("error") \/ End("mismatch")
  BY <1>2, EndedRevoked
<1>3. CASE ~(End("error") \/ End("mismatch"))
  <2>1. /\ cmd.repo \in {NoRepo, found}
        /\ cmd' = [cmd EXCEPT !.repo = found, !.install = installed,
                              !.access = may,
                              !.after = "revokeCloudIdentity"]
        /\ \/ pc' = "revokeIdentity"
           \/ pc' = "withdraw" /\ cmd.repo = found
           \/ pc' = "withdraw" /\ found.id \notin IdsIn(cmd.seen)
    BY <1>3 DEF Discover, Goto
  <2> HIDE DEF found, may
  <2>2. /\ cmd'.repo = found /\ cmd'.seen = cmd.seen
        /\ cmd'.omits = cmd.omits
    BY <1>1, <2>1 DEF Commands
  <2> QED  BY <1>1, <2>1, <2>2 DEF RevokedInv, Revoking, RemovedFromCloud
<1> QED  BY <1>2, <1>3

(* The rest of a removal leaves KV and what was seen of it as they are.    *)
LEMMA LateRevoked ==
    ASSUME RevokedInv,
           Revoked \/ RevokeIdentity \/ Withdraw \/ WaitRemoved
           \/ ForgetRemoval,
           PolicyInv
    PROVE  RevokedInv'
<1>1. UNCHANGED cloud
  BY DEF Revoked, RevokeIdentity, Withdraw, WaitRemoved, ForgetRemoval,
         policies
<1>2. CASE Revoked \/ RevokeIdentity \/ Withdraw
  <2>1. /\ cmd' = cmd
        /\ \/ pc = "revoked" /\ pc' \in {"forgetRemoval", "discover"}
           \/ /\ pc = "revokeIdentity" /\ pc' = "noteRemoval"
              /\ cmd.after = "revokeCloudIdentity"
           \/ pc = "withdraw" /\ pc' \in {"forgetRemoval", "waitRemoved"}
    BY <1>2 DEF Revoked, RevokeIdentity, Withdraw, Goto, PolicyInv, Afterwards
  <2> QED  BY <1>1, <2>1 DEF RevokedInv, Revoking, RemovedFromCloud
<1>3. CASE WaitRemoved
  <2>1. CASE End("github-access-pending")
    BY <2>1, EndedRevoked
  <2>2. CASE ~End("github-access-pending")
    BY <1>1, <1>3, <2>2
       DEF WaitRemoved, Goto, RevokedInv, Revoking, RemovedFromCloud
  <2> QED  BY <2>1, <2>2
<1>4. CASE ForgetRemoval
  <2>1. /\ pc = "forgetRemoval" /\ pc' = "idle"
        /\ cmd'.repo = cmd.repo /\ cmd'.omits = cmd.omits
    BY <1>4, Ends, Held DEF ForgetRemoval, PolicyInv, Typed
  <2> QED  BY <1>1, <2>1 DEF RevokedInv, Revoking, RemovedFromCloud
<1> QED  BY <1>2, <1>3, <1>4

(* A repository that a removal reported as removed is not allowed in KV,   *)
(* by whatever name it was known there, unless the removal read an older   *)
(* value and wrote nothing (remove in repository.ts).                      *)
THEOREM RemovalIsInCloud == Spec => []RemovedFromCloud
<1>1. Init => RevokedInv
  BY DEF Init, RevokedInv, Revoking, RemovedFromCloud
<1>2. PolicyInv /\ RevokedInv /\ [Next]_vars => RevokedInv'
  <2> SUFFICES ASSUME PolicyInv, RevokedInv, [Next]_vars PROVE RevokedInv'
    OBVIOUS
  <2>1. CASE \/ \E id \in Ids, name \in Names : RenameRepository(id, name)
                                                \/ CreateRepository(id, name)
             \/ InstallApp \/ UninstallApp \/ \E id \in Ids : ChangeAccess(id)
             \/ Propagate \/ UNCHANGED vars
    <3>1. UNCHANGED <<cloud, pc, cmd, status>>
      BY <2>1 DEF RenameRepository, CreateRepository, InstallApp,
                  UninstallApp, ChangeAccess, Propagate, process, policies,
                  vars
    <3> QED  BY <3>1, RevokedKept
  <2>2. CASE Interrupt
    BY <2>2, EndedRevoked DEF Interrupt
  <2>3. CASE Put \/ Verify
    BY <2>3, CloudStepRevoked
  <2>4. CASE \/ \E ref \in Names : StartAdd(ref)
             \/ RevokeOld \/ OldAccess \/ AskInstall \/ WaitInstall
             \/ ReadPolicies \/ NotePropagation \/ WriteNext \/ Restore
             \/ GrantAccess \/ WaitAccess \/ NoteAbsent \/ ForgetAdd
    BY <2>4, AddRevoked
  <2>5. CASE \/ \E ref \in Names, keep \in BOOLEAN : StartRemove(ref, keep)
             \/ NoteRemoval \/ ReadCloud
    BY <2>5, EarlyRevoked
  <2>6. CASE Narrow \/ RevokeCloudIdentity
    BY <2>6, NarrowRevoked
  <2>7. CASE Discover
    BY <2>7, DiscoverRevoked
  <2>8. CASE \/ Revoked \/ RevokeIdentity \/ Withdraw \/ WaitRemoved
             \/ ForgetRemoval
    BY <2>8, LateRevoked
  <2> QED  BY <2>1, <2>2, <2>3, <2>4, <2>5, <2>6, <2>7, <2>8 DEF Next
<1>3. RevokedInv => RemovedFromCloud
  BY DEF RevokedInv
<1> QED  BY <1>1, <1>2, <1>3, PolicyInvariance, PTL DEF Spec
=============================================================================
