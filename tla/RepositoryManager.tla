------------------------- MODULE RepositoryManager -------------------------
(* The commands "repository add" and "repository remove"                   *)
(* (repository.ts, repository-gateways.ts).                                *)
(*                                                                         *)
(* A command changes three stores, one after the other: the local policy,  *)
(* the journal of pending operations and the policy in KV, of which        *)
(* readers may see an older value for a while. It may fail or be killed    *)
(* between any two writes, and the user reruns it or another one. Beside   *)
(* it repositories are renamed and recreated, and the GitHub App is        *)
(* installed, removed and given or denied access. Commands exclude each    *)
(* other by the command lock.                                              *)
EXTENDS Integers, FiniteSets

CONSTANTS Ids,          \* immutable repository ids
          Names,        \* OWNER/REPOSITORY, in lower case
          MaxInstalls,  \* installations of the GitHub App, one at a time
          MaxFaults,    \* operations that fail, and commands killed
          MaxChanges,   \* changes on GitHub
          MaxCommands

ASSUME BoundsAssumption ==
    /\ MaxInstalls \in Nat \ {0} /\ MaxFaults \in Nat
    /\ MaxChanges \in Nat /\ MaxCommands \in Nat
    /\ 0 \notin Ids

VARIABLES
    local,      \* policy.json
    cloud,      \* what was last written to KV
    visible,    \* what a read of KV returns
    journal,    \* pending-repositories.json
    named,      \* the repository a name resolves to, 0 if none
    canonical,  \* the present name of a repository
    installed,  \* the installation of the App, 0 if none
    installs,   \* installations so far
    access,     \* the repositories it may access
    pc,         \* the next write or wait of the command
    cmd,        \* the command's variables
    status,     \* how the last command ended
    faults, changes, commands,
    dropped,    \* history: ids of the pending adds dropped for another
                \* repository of that name
    unverified  \* history: ids that an add took for allowed in KV, which
                \* showed an older value, without verifying it

policies == <<local, cloud, visible>>
github == <<named, canonical, installed, installs, access, changes>>
usage == <<commands, dropped, unverified>>
process == <<policies, journal, pc, cmd, status, faults, usage>>
vars == <<local, cloud, visible, journal, named, canonical, installed,
          installs, access, pc, cmd, status, faults, changes, commands,
          dropped, unverified>>

Installs == 1..MaxInstalls
INSTANCE Policy

(* What the journal holds; an operation without an installation has 0. The *)
(* URL of the settings page is left out: whenever the installation is      *)
(* known, so is its page.                                                  *)
Operations == [kind : {"add", "remove"}, propagation : BOOLEAN,
               repo : Identities, install : 0..MaxInstalls]

AddOperation(repo, install, propagation) ==
    [kind |-> "add", propagation |-> propagation, repo |-> repo,
     install |-> install]
RemoveOperation(repo, install) ==
    [kind |-> "remove", propagation |-> FALSE, repo |-> repo,
     install |-> install]

(* FilePendingRepositoryStore.upsert and remove.                           *)
Upsert(op) ==
    {o \in journal : o.repo.id # op.repo.id
                     \/ (op.kind = "add" /\ o.kind = "remove")} \cup {op}
Forget(kind, id) == {o \in journal : ~(o.kind = kind /\ o.repo.id = id)}

Pending(id) == \E o \in journal : o.repo.id = id

NoRepo == [id |-> 0, name |-> "none"]
NoOperation == RemoveOperation(NoRepo, 0)
Idle == [op |-> "none", ref |-> "none", keep |-> FALSE, repo |-> NoRepo,
         install |-> 0, access |-> FALSE, old |-> NoOperation,
         verify |-> FALSE, omits |-> FALSE, prior |-> EmptyPolicy,
         seen |-> EmptyPolicy, target |-> EmptyPolicy, after |-> "none"]

(* The user has just installed Revoir, or has authorized a repository.     *)
Init ==
    /\ \E r \in Identities :
          /\ local \in {EmptyPolicy, WithRepository(EmptyPolicy, 1, r)}
          /\ named = [n \in Names |-> IF n = r.name THEN r.id ELSE 0]
          /\ canonical = [i \in Ids |-> IF i = r.id THEN r.name ELSE "none"]
          /\ access \in SUBSET {r.id}
    /\ cloud = local /\ visible = local
    /\ journal = {}
    /\ installed = 1 /\ installs = 1
    /\ pc = "idle" /\ cmd = Idle /\ status = "none"
    /\ faults = 0 /\ changes = 0 /\ commands = 0
    /\ dropped = {} /\ unverified = {}

-----------------------------------------------------------------------------
(* The world around a command.                                             *)

Change == changes < MaxChanges /\ changes' = changes + 1

Exists(id) == canonical[id] \in Names /\ named[canonical[id]] = id
Redirects(name) == named[name] # 0 => canonical[named[name]] # name

(* A name leads to a renamed repository until it is used again.            *)
RenameRepository(id, name) ==
    /\ Change
    /\ Exists(id) /\ Redirects(name)
    /\ named' = [named EXCEPT ![name] = id]
    /\ canonical' = [canonical EXCEPT ![id] = name]
    /\ UNCHANGED <<process, installed, installs, access>>

(* A new repository, or one that takes the place of a deleted one.         *)
CreateRepository(id, name) ==
    LET gone == IF Redirects(name) THEN 0 ELSE named[name]
    IN  /\ Change
        /\ canonical[id] = "none"
        /\ named' = [n \in Names |-> IF n = name THEN id
                                     ELSE IF named[n] = gone THEN 0
                                     ELSE named[n]]
        /\ canonical' = [canonical EXCEPT ![id] = name]
        /\ access' = access \ {gone}
        /\ UNCHANGED <<process, installed, installs>>

InstallApp ==
    /\ Change
    /\ installed = 0 /\ installs < MaxInstalls
    /\ installs' = installs + 1 /\ installed' = installs'
    /\ access' \in SUBSET {id \in Ids : Exists(id)}
    /\ UNCHANGED <<process, named, canonical>>

UninstallApp ==
    /\ Change
    /\ installed # 0
    /\ installed' = 0 /\ access' = {}
    /\ UNCHANGED <<process, named, canonical, installs>>

ChangeAccess(id) ==
    /\ Change
    /\ installed # 0 /\ Exists(id)
    /\ access' = IF id \in access THEN access \ {id} ELSE access \cup {id}
    /\ UNCHANGED <<process, named, canonical, installed, installs>>

(* A value written to KV becomes visible.                                  *)
Propagate ==
    /\ visible # cloud
    /\ visible' = cloud
    /\ UNCHANGED <<local, cloud, journal, github, pc, cmd, status, faults,
                   usage>>

-----------------------------------------------------------------------------
(* Steps that both commands share.                                         *)

Fault == faults < MaxFaults /\ faults' = faults + 1

Goto(s) == pc' = s /\ UNCHANGED status
End(s) == /\ pc' = "idle" /\ status' = s
          /\ cmd' = [Idle EXCEPT !.op = cmd.op, !.ref = cmd.ref,
                                 !.repo = cmd.repo, !.omits = cmd.omits]

Quiet == UNCHANGED <<github, faults, usage>>

(* The command ends in an error or is killed before its next write.        *)
Interrupt ==
    /\ pc # "idle"
    /\ Fault /\ End("error")
    /\ UNCHANGED <<policies, journal, github, usage>>

(* The repository that GitHub resolves a name to, redirects followed.       *)
Resolved(ref) == [id |-> named[ref], name |-> canonical[named[ref]]]

(* waitForInstallation ends with an installation that has access.          *)
Approved(ref) == installed # 0 /\ named[ref] \in access

(* What waitForRepositoryAccess answers; the user may act until then.      *)
AccessAnswer(install, id, expected) ==
    IF installed # install THEN "installation-absent"
    ELSE IF (id \in access) = expected THEN "confirmed" ELSE "pending"

(* The write to KV that a command is at, and where it goes after.          *)
ToCloud(p, after, c) ==
    cmd' = [c EXCEPT !.target = p, !.after = after] /\ Goto("put")

Adding == {"grantAccess", "forgetAdd"}

(* writeCloud.                                                             *)
Put ==
    /\ pc = "put"
    /\ \/ cloud' = cmd.target /\ Goto("verify") /\ UNCHANGED <<cmd, faults>>
       \/ /\ cloud' \in {cloud, cmd.target} /\ Fault
          /\ IF cmd.after \in Adding THEN Goto("restore") /\ UNCHANGED cmd
                                      ELSE End("error")
    /\ UNCHANGED <<local, visible, journal, github, usage>>

(* verifyCloud: the value is still there at the end of the window in which *)
(* KV settles.                                                             *)
Verify ==
    /\ pc = "verify"
    /\ \/ /\ cloud = cmd.target /\ visible' = cloud
          /\ Goto(cmd.after) /\ UNCHANGED <<cmd, faults>>
       \/ /\ \/ cloud # cmd.target /\ visible' = cloud /\ UNCHANGED faults
             \/ Fault /\ UNCHANGED visible
          /\ IF cmd.after \in Adding THEN Goto("restore") /\ UNCHANGED cmd
                                      ELSE End("error")
    /\ UNCHANGED <<local, cloud, journal, github, usage>>

-----------------------------------------------------------------------------
(* add                                                                     *)

(* discover and the journal; adds of an earlier repository of that name    *)
(* are dropped, and an unfinished removal is finished first.               *)
StartAdd(ref) ==
    LET repo == Resolved(ref)
        replaced == {o \in journal : o.kind = "add" /\ o.repo.id # repo.id
                                     /\ o.repo.name = repo.name}
        removals == {o \in journal : o.kind = "remove"
                        /\ (o.repo.id = repo.id \/ o.repo.name = repo.name)}
        c == [Idle EXCEPT !.op = "add", !.ref = ref, !.repo = repo,
                 !.install = installed, !.access = repo.id \in access,
                 !.verify = \E o \in journal : o.kind = "add" /\ o.propagation
                                               /\ o.repo.id = repo.id]
    IN  /\ pc = "idle" /\ commands < MaxCommands /\ named[ref] # 0
        /\ commands' = commands + 1
        /\ journal' = journal \ replaced
        /\ status' = "none"
        /\ \/ \E o \in removals :
                 cmd' = [c EXCEPT !.old = o] /\ pc' = "revokeOld"
           \/ /\ removals = {} /\ cmd' = c
              /\ pc' = IF installed = 0 THEN "askInstall" ELSE "policies"
        /\ dropped' = dropped \cup {o.repo.id : o \in replaced}
        /\ UNCHANGED <<policies, github, faults, unverified>>

RevokeOld ==
    LET revoked == WithoutRepository(IntersectPolicies(local, visible),
                                     cmd.old.repo.id)
    IN  /\ pc = "revokeOld"
        /\ local' = revoked
        /\ IF visible = revoked THEN Goto("oldAccess") /\ UNCHANGED cmd
                                ELSE ToCloud(revoked, "oldAccess", cmd)
        /\ UNCHANGED <<cloud, visible, journal>> /\ Quiet

(* GitHub access of the earlier removal: the installation was replaced, it *)
(* is not known, or the user is asked to withdraw the access.              *)
OldAccess ==
    LET old == cmd.old
        install == IF old.install # 0 THEN old.install ELSE cmd.install
        Resume(c) == /\ journal' = Forget("remove", old.repo.id)
                     /\ cmd' = c
                     /\ Goto(IF c.install = 0 THEN "askInstall"
                                             ELSE "policies")
        answer == AccessAnswer(install, old.repo.id, FALSE)
    IN  /\ pc = "oldAccess"
        /\ IF old.install # 0 /\ cmd.install # old.install THEN Resume(cmd)
           ELSE IF install = 0 \/ answer = "pending"
                THEN End("pending") /\ UNCHANGED journal
           ELSE IF answer = "installation-absent"
                THEN Resume([cmd EXCEPT !.install = 0])
           ELSE Resume([cmd EXCEPT !.access = old.repo.id # cmd.repo.id
                                              /\ cmd.access])
        /\ UNCHANGED policies /\ Quiet

(* The App is not installed for the owner.                                 *)
AskInstall ==
    /\ pc = "askInstall"
    /\ journal' = Upsert(AddOperation(cmd.repo, 0, FALSE))
    /\ Goto("waitInstall")
    /\ UNCHANGED <<policies, cmd>> /\ Quiet

WaitInstall ==
    /\ pc = "waitInstall"
    /\ IF Approved(cmd.ref)
       THEN /\ cmd' = [cmd EXCEPT !.install = installed, !.access = TRUE]
            /\ Goto("policies") /\ UNCHANGED journal
       ELSE /\ journal' = Upsert(AddOperation(cmd.repo, installed, FALSE))
            /\ End("pending")
    /\ UNCHANGED policies /\ Quiet

(* What KV has revoked is revoked locally, then the repository is added;   *)
(* one that was renamed within its installation gets its new name. The     *)
(* local write of WriteNext is omitted when policy.json, as it was read,   *)
(* held that policy: also when it has been narrowed since.                 *)
ReadPolicies ==
    LET prior == IntersectPolicies(local, visible)
        renamed == \E e \in prior.entries :
                      /\ e.id = cmd.repo.id /\ e.install = cmd.install
                      /\ e.name # cmd.repo.name
        base == IF renamed THEN WithoutRepository(prior, cmd.repo.id)
                           ELSE prior
        next == WithRepository(base, cmd.install, cmd.repo)
        after == IF cmd.access THEN "forgetAdd" ELSE "grantAccess"
        old == visible = next /\ visible # cloud /\ ~cmd.verify
    IN  /\ pc = "policies"
        /\ local' = prior
        /\ IF Conflicts(base, cmd.install, cmd.repo)
           THEN End("conflict") /\ UNCHANGED unverified
           ELSE /\ cmd' = [cmd EXCEPT !.prior = prior, !.target = next,
                                      !.after = after,
                                      !.omits = local = next /\ prior # next]
                /\ Goto(IF visible = next THEN "writeNext"
                                          ELSE "notePropagation")
                /\ unverified' = IF old THEN unverified \cup {cmd.repo.id}
                                        ELSE unverified
        /\ UNCHANGED <<cloud, visible, journal, github, faults, commands,
                       dropped>>

(* Mutant of NotePropagation: the journal is written after the policies.   *)
UnrecordedPropagation ==
    /\ pc = "notePropagation"
    /\ Goto("writeNextThenCloud")
    /\ UNCHANGED <<policies, journal, cmd>> /\ Quiet

NotePropagation ==
    /\ pc = "notePropagation"
    /\ journal' = Upsert(AddOperation(cmd.repo, cmd.install, TRUE))
    /\ Goto("writeNextThenCloud")
    /\ UNCHANGED <<policies, cmd>> /\ Quiet

(* Mutant of WriteNext: what KV shows is not verified again.               *)
WriteUnverified ==
    /\ pc \in {"writeNext", "writeNextThenCloud"}
    /\ local' = IF cmd.omits THEN local ELSE cmd.target
    /\ Goto(IF pc = "writeNextThenCloud" THEN "put" ELSE cmd.after)
    /\ UNCHANGED <<cloud, visible, journal, cmd>> /\ Quiet

(* An add whose earlier attempt may not have propagated verifies KV even   *)
(* when KV shows the policy already.                                       *)
WriteNext ==
    /\ pc \in {"writeNext", "writeNextThenCloud"}
    /\ local' = IF cmd.omits THEN local ELSE cmd.target
    /\ Goto(IF pc = "writeNextThenCloud" THEN "put"
            ELSE IF cmd.verify THEN "verify" ELSE cmd.after)
    /\ UNCHANGED <<cloud, visible, journal, cmd>> /\ Quiet

(* The cloud could not be written or verified.                             *)
Restore ==
    /\ pc = "restore"
    /\ local' = cmd.prior
    /\ End("error")
    /\ UNCHANGED <<cloud, visible, journal>> /\ Quiet

(* The policies agree, but the App may not access the repository.          *)
GrantAccess ==
    /\ pc = "grantAccess"
    /\ journal' = Upsert(AddOperation(cmd.repo, cmd.install, FALSE))
    /\ Goto("waitAccess")
    /\ UNCHANGED <<policies, cmd>> /\ Quiet

WaitAccess ==
    LET answer == AccessAnswer(cmd.install, cmd.repo.id, TRUE)
    IN  /\ pc = "waitAccess"
        /\ \/ /\ answer = "confirmed"
              /\ Goto("forgetAdd") /\ UNCHANGED <<local, cmd>>
           \/ answer = "pending" /\ End("pending") /\ UNCHANGED local
           \/ /\ answer = "installation-absent"
              /\ local' = cmd.prior
              /\ ToCloud(cmd.prior, "noteAbsent", cmd)
        /\ UNCHANGED <<cloud, visible, journal>> /\ Quiet

NoteAbsent ==
    /\ pc = "noteAbsent"
    /\ journal' = Upsert(AddOperation(cmd.repo, 0, FALSE))
    /\ End("pending")
    /\ UNCHANGED policies /\ Quiet

ForgetAdd ==
    /\ pc = "forgetAdd"
    /\ journal' = Forget("add", cmd.repo.id)
    /\ End("authorized")
    /\ UNCHANGED policies /\ Quiet

-----------------------------------------------------------------------------
(* remove                                                                  *)

(* What the local policy or the journal knows of the name; it is revoked   *)
(* locally before anything else.                                           *)
StartRemove(ref, keep) ==
    LET Known(kind) ==
            LET ops == {o \in journal : o.kind = kind /\ o.repo.name = ref}
            IN  IF ops = {} THEN {NoOperation} ELSE ops
        Begin(repo, install) ==
            /\ local' = WithoutRepository(local, repo.id)
            /\ cmd' = [Idle EXCEPT !.op = "remove", !.ref = ref,
                          !.keep = keep, !.repo = repo, !.install = install,
                          !.after = "readCloud"]
            /\ pc' = IF repo = NoRepo THEN "readCloud" ELSE "noteRemoval"
        configured == {e \in local.entries : e.name = ref}
    IN  /\ pc = "idle" /\ commands < MaxCommands
        /\ commands' = commands + 1
        /\ status' = "none"
        /\ \/ \E e \in configured : Begin(RepoOf(e), e.install)
           \/ /\ configured = {}
              /\ \E r \in Known("remove"), a \in Known("add") :
                    Begin(IF r = NoOperation THEN a.repo ELSE r.repo,
                          IF r.install = 0 THEN a.install ELSE r.install)
        /\ UNCHANGED <<cloud, visible, journal, github, faults, dropped,
                       unverified>>

(* savePendingRemoval, which replaces a pending add.                       *)
NoteRemoval ==
    /\ pc = "noteRemoval"
    /\ journal' = Upsert(RemoveOperation(cmd.repo, cmd.install))
    /\ Goto(cmd.after)
    /\ UNCHANGED <<policies, cmd>> /\ Quiet

(* What the policy in KV knows of the name.                                *)
ReadCloud ==
    LET configured == {e \in visible.entries : e.name = cmd.ref}
        Read(repo, install) ==
            /\ cmd' = [cmd EXCEPT !.seen = visible, !.repo = repo,
                                  !.install = install, !.after = "narrow"]
            /\ Goto(IF repo = NoRepo THEN "narrow" ELSE "noteRemoval")
    IN  /\ pc = "readCloud"
        /\ \/ configured = {} /\ Read(cmd.repo, cmd.install)
           \/ \E e \in configured :
                 Read(IF cmd.repo = NoRepo THEN RepoOf(e) ELSE cmd.repo,
                      IF cmd.install = 0 THEN e.install ELSE cmd.install)
        /\ UNCHANGED <<policies, journal>> /\ Quiet

(* Mutant of RevokeCloud: unless it is the local policy.                   *)
RevokeCloudUnlessLocal(next, after) ==
    IF local = next THEN Goto(after) /\ UNCHANGED cmd
    ELSE ToCloud(next, after, [cmd EXCEPT !.seen = next])

(* The policy that is written to KV, unless it was read there. That may    *)
(* have been an older value.                                               *)
RevokeCloud(next, after) ==
    IF cmd.seen = next
    THEN Goto(after) /\ cmd' = [cmd EXCEPT !.omits = @ \/ cloud # next]
    ELSE ToCloud(next, after, [cmd EXCEPT !.seen = next])

(* Mutant of Narrow: only this repository is taken out of KV's policy.     *)
NarrowSeen ==
    /\ pc = "narrow"
    /\ local' = IntersectPolicies(local, cmd.seen)
    /\ RevokeCloud(WithoutRepository(cmd.seen, cmd.repo.id), "revoked")
    /\ UNCHANGED <<cloud, visible, journal>> /\ Quiet

Narrow ==
    LET effective == IntersectPolicies(local, cmd.seen)
    IN  /\ pc = "narrow"
        /\ local' = effective
        /\ RevokeCloud(WithoutRepository(effective, cmd.repo.id), "revoked")
        /\ UNCHANGED <<cloud, visible, journal>> /\ Quiet

Revoked ==
    /\ pc = "revoked"
    /\ journal' = Forget("add", cmd.repo.id)
    /\ Goto(IF cmd.keep /\ cmd.repo # NoRepo THEN "forgetRemoval"
                                             ELSE "discover")
    /\ UNCHANGED <<policies, cmd>> /\ Quiet

(* GitHub resolves the name to another repository than the one revoked, or *)
(* to one the policies know by another name.                               *)
Discover ==
    LET found == Resolved(cmd.ref)
        c == [cmd EXCEPT !.repo = found, !.install = installed,
                         !.access = found.id \in access,
                         !.after = "revokeCloudIdentity"]
    IN  /\ pc = "discover"
        /\ IF named[cmd.ref] = 0 THEN End("error")
           ELSE IF cmd.repo \notin {NoRepo, found} THEN End("mismatch")
           ELSE /\ cmd' = c
                /\ Goto(IF cmd.repo = NoRepo
                           /\ found.id \in IdsIn(local) \cup IdsIn(cmd.seen)
                        THEN "revokeIdentity" ELSE "withdraw")
        /\ UNCHANGED <<policies, journal>> /\ Quiet

(* Mutant of RevokeIdentity: only KV is narrowed.                          *)
RevokeNothing ==
    /\ pc = "revokeIdentity"
    /\ Goto("noteRemoval")
    /\ UNCHANGED <<policies, journal, cmd>> /\ Quiet

RevokeIdentity ==
    /\ pc = "revokeIdentity"
    /\ local' = WithoutRepository(local, cmd.repo.id)
    /\ Goto("noteRemoval")
    /\ UNCHANGED <<cloud, visible, journal, cmd>> /\ Quiet

RevokeCloudIdentity ==
    /\ pc = "revokeCloudIdentity"
    /\ RevokeCloud(WithoutRepository(IntersectPolicies(local, cmd.seen),
                                     cmd.repo.id), "withdraw")
    /\ UNCHANGED <<policies, journal>> /\ Quiet

(* The access of the App, unless it is to be kept or is gone already.      *)
Withdraw ==
    /\ pc = "withdraw"
    /\ IF cmd.keep
       THEN journal' = Forget("add", cmd.repo.id) /\ Goto("forgetRemoval")
       ELSE IF cmd.install = 0 \/ ~cmd.access
       THEN UNCHANGED journal /\ Goto("forgetRemoval")
       ELSE /\ journal' = Upsert(RemoveOperation(cmd.repo, cmd.install))
            /\ Goto("waitRemoved")
    /\ UNCHANGED <<policies, cmd>> /\ Quiet

WaitRemoved ==
    /\ pc = "waitRemoved"
    /\ IF AccessAnswer(cmd.install, cmd.repo.id, FALSE) = "pending"
       THEN End("github-access-pending")
       ELSE Goto("forgetRemoval") /\ UNCHANGED cmd
    /\ UNCHANGED <<policies, journal>> /\ Quiet

ForgetRemoval ==
    /\ pc = "forgetRemoval"
    /\ journal' = Forget("remove", cmd.repo.id)
    /\ End("removed")
    /\ UNCHANGED policies /\ Quiet

-----------------------------------------------------------------------------
Next ==
    \/ \E id \in Ids, name \in Names :
          RenameRepository(id, name) \/ CreateRepository(id, name)
    \/ InstallApp \/ UninstallApp \/ \E id \in Ids : ChangeAccess(id)
    \/ Propagate \/ Interrupt \/ Put \/ Verify
    \/ \E ref \in Names : StartAdd(ref)
    \/ RevokeOld \/ OldAccess \/ AskInstall \/ WaitInstall \/ ReadPolicies
    \/ NotePropagation \/ WriteNext \/ Restore \/ GrantAccess \/ WaitAccess
    \/ NoteAbsent \/ ForgetAdd
    \/ \E ref \in Names, keep \in BOOLEAN : StartRemove(ref, keep)
    \/ NoteRemoval \/ ReadCloud \/ Narrow \/ Revoked \/ Discover
    \/ RevokeIdentity \/ RevokeCloudIdentity \/ Withdraw \/ WaitRemoved
    \/ ForgetRemoval

Spec == Init /\ [][Next]_vars

-----------------------------------------------------------------------------
Waypoints ==
    {"idle", "put", "verify", "revokeOld", "oldAccess", "askInstall",
     "waitInstall", "policies", "notePropagation", "writeNextThenCloud",
     "writeNext", "restore", "grantAccess", "waitAccess", "noteAbsent",
     "forgetAdd", "noteRemoval", "readCloud", "narrow", "revoked",
     "discover", "revokeIdentity", "revokeCloudIdentity", "withdraw",
     "waitRemoved", "forgetRemoval"}

Commands ==
    [op : {"none", "add", "remove"}, ref : Names \cup {"none"},
     keep : BOOLEAN, repo : Identities \cup {NoRepo},
     install : 0..MaxInstalls, access : BOOLEAN,
     old : Operations \cup {NoOperation}, verify : BOOLEAN,
     omits : BOOLEAN, prior : Policies, seen : Policies, target : Policies,
     after : Waypoints \cup {"none"}]

(* The stores and the policies a command holds are what the parsers        *)
(* accept: in none of them does an id or a name occur twice, however often *)
(* repositories are renamed and recreated.                                 *)
TypeInvariant ==
    /\ \A p \in {local, cloud, visible, cmd.prior, cmd.seen, cmd.target} :
          p \in Policies /\ Unambiguous(p)
    /\ journal \subseteq Operations
    /\ named \in [Names -> Ids \cup {0}]
    /\ canonical \in [Ids -> Names \cup {"none"}]
    /\ \A n \in Names : named[n] # 0 => canonical[named[n]] \in Names
    /\ installs \in 1..MaxInstalls /\ installed \in 0..installs
    /\ access \subseteq Ids
    /\ pc \in Waypoints /\ cmd \in Commands
    /\ status \in {"none", "authorized", "pending", "removed", "mismatch",
                   "github-access-pending", "conflict", "error"}

(* A repository that the local policy does not allow, so that the daemon   *)
(* does not review it, is allowed only by the command that adds it: no     *)
(* merge, restore or retry brings back what was revoked.                   *)
RevocationStands ==
    [][\A id \in IdsIn(local') \ IdsIn(local) :
          cmd.op = "add" /\ cmd.repo.id = id]_vars

(* KV comes to allow only what the local policy allows at that moment, or  *)
(* what an add in progress is asked for and omits to write there: no write *)
(* brings back what was revoked, though each command writes what it made   *)
(* of a value that may be an older one.                                    *)
CloudRevocationStands ==
    [][\A e \in cloud'.entries \ cloud.entries :
          \/ e \in local.entries
          \/ cmd.op = "add" /\ cmd.omits /\ RepoOf(e) = cmd.repo]_vars

(* What is allowed locally but not in KV has an operation in the journal   *)
(* that says so, whichever write was the last before a crash; unless an    *)
(* add of another repository of that name dropped it, or an add believed   *)
(* an older value of KV.                                                   *)
LocalAhead ==
    \A e \in local.entries :
        e \in cloud.entries \/ Pending(e.id)
        \/ e.id \in dropped \cup unverified

(* "authorized" means that both policies allow the repository, that KV     *)
(* will go on showing that, and that no add of it is left to do; unless    *)
(* the add omitted the local write, or took an older value of KV, which no *)
(* earlier add of it was waiting for, for the policy that it wants. (Of    *)
(* two removals, one of its id and one of its name, the add finishes the   *)
(* first it finds.)                                                        *)
AuthorizedTruly ==
    (pc = "idle" /\ status = "authorized") =>
        /\ \/ \E e \in cloud.entries \cap visible.entries :
                 RepoOf(e) = cmd.repo /\ (e \in local.entries \/ cmd.omits)
           \/ cmd.repo.id \in unverified
        /\ \A o \in journal : o.repo.id = cmd.repo.id => o.kind = "remove"

(* The test "adds local then cloud policy before reporting                 *)
(* GitHub-confirmed authorization" (repository.test.ts:302): a repository  *)
(* that was added is allowed locally. The rerun of an add that was killed  *)
(* before KV finds the policy it wants in policy.json, narrows it to what  *)
(* KV allows, and then omits the write.                                    *)
AuthorizedLocally ==
    (pc = "idle" /\ status = "authorized") => cmd.repo.id \in IdsIn(local)

(* "removed" means that the repository is not reviewed and that no later   *)
(* command of that name finds something of it to finish.                   *)
RemovedLocally ==
    (pc = "idle" /\ status = "removed") =>
        /\ cmd.repo.id \notin IdsIn(local)
        /\ \A o \in journal : o.repo.id = cmd.repo.id =>
              o.kind = "add" /\ o.repo.name # cmd.ref

(* README.md:192: "Removal durably revokes local authorization first, then *)
(* KV authorization": a repository that was removed is not allowed in KV,  *)
(* unless the value that the removal read there, an older one, made it     *)
(* omit the write.                                                         *)
RemovedFromCloud ==
    (pc = "idle" /\ status = "removed" /\ ~cmd.omits) =>
        cmd.repo.id \notin IdsIn(cloud)
=============================================================================
