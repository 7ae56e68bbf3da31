------------------------------- MODULE Setup -------------------------------
(* The command "revoir setup" (setup/orchestrator.ts, setup/platform.ts,   *)
(* setup/github-manifest.ts) and the service it installs                   *)
(* (service/manager.ts).                                                   *)
(*                                                                         *)
(* Setup creates resources at Cloudflare and GitHub, one after the other,  *)
(* and notes each in a checkpoint, so that a run that stopped can be       *)
(* resumed; once it has finished, another run reconciles what it made. A   *)
(* run stops between any two effects: an operation fails, or the process   *)
(* is killed. The commands "repository add" and "remove" need only what    *)
(* setup leaves on disk, the service commands not even the command lock.   *)
(* Authentication, which changes nothing here, is left out; so is the      *)
(* account, which is selected before the first resource is created.        *)
EXTENDS Integers, FiniteSets

CONSTANTS Ids, Names, Installs,  \* what a policy speaks about
          MaxStops,              \* stops of a command, mistyped tokens
          MaxDrifts,             \* changes made by others
          MaxRepositories,       \* repository commands
          MaxServices            \* service commands, ends of the daemon

ASSUME BoundsAssumption ==
    /\ MaxStops \in Nat /\ MaxDrifts \in Nat
    /\ MaxRepositories \in Nat /\ MaxServices \in Nat

VARIABLES
    checkpoint,  \* setup-checkpoint.json
    config,      \* config.json
    local,       \* policy.json
    cloud,       \* what was last written to KV
    visible,     \* what a read of KV returns
    journal,     \* an unfinished "repository add" is recorded
    cloudflare,  \* how many namespaces and queues were created; the secret
                 \* the relay verifies deliveries with, 0 for none and -1
                 \* for no relay; the tokens created, and those accepted
    github,      \* how many Apps were registered; the ones whose code was
                 \* converted; the name of the App; the one whose secret
                 \* signs the deliveries
    agent,       \* the LaunchAgent: its plist, whether launchd has loaded it
    daemon,      \* the configuration the daemon runs with
    pc, mem,     \* the next effect of the command, and its variables
    status,      \* how the last setup ended
    used         \* the bounds' counters; nobody has changed anything since
                 \* the last diagnostics that passed (history)

policies == <<local, cloud, visible, journal>>
remote == <<cloudflare, github>>
service == <<agent, daemon>>
process == <<pc, mem, status>>
vars == <<checkpoint, config, policies, remote, service, process, used>>

INSTANCE Policy

(* A missing file: no revision is negative, no App has the number 0.       *)
NoPolicy == [revision |-> -1, entries |-> {}]
NoConfig == [app |-> 0, slug |-> 0, token |-> 0]
NoCheckpoint == [saved |-> FALSE, stage |-> 0, kv |-> 0, queue |-> 0,
                 code |-> 0, app |-> 0, token |-> 0]
InitialCheckpoint == [NoCheckpoint EXCEPT !.saved = TRUE]

(* Files that writeFinal has yet to write, the policy of this run, whether *)
(* it asked for the token, and whether it reconciles.                      *)
NoMemory == [left |-> {}, policy |-> EmptyPolicy, fresh |-> FALSE,
             reconciles |-> FALSE]

-----------------------------------------------------------------------------
Init ==
    /\ checkpoint = NoCheckpoint /\ config = NoConfig
    /\ local = NoPolicy /\ cloud = NoPolicy /\ visible = NoPolicy
    /\ journal = FALSE
    /\ cloudflare = [namespaces |-> 0, queues |-> 0, relay |-> -1,
                     tokens |-> 0, valid |-> {}]
    /\ github = [apps |-> 0, spent |-> {}, slug |-> 0, hook |-> 0]
    /\ agent = [plist |-> FALSE, loaded |-> FALSE] /\ daemon = NoConfig
    /\ pc = "idle" /\ mem = NoMemory /\ status = "none"
    /\ used = [stops |-> 0, lost |-> 0, drifts |-> 0, repositories |-> 0,
               services |-> 0, checked |-> FALSE]

(* The command goes on, or ends.                                           *)
Continue(m, l) == mem' = m /\ pc' = l /\ UNCHANGED status
Goto(l) == Continue(mem, l)
End(s) == mem' = NoMemory /\ pc' = "idle" /\ status' = s

(* A process that stops leaves what it has written.                        *)
Stop ==
    /\ pc # "idle" /\ used.stops < MaxStops
    /\ End("failed")
    /\ used' = [used EXCEPT !.stops = @ + 1,
                            !.lost = IF pc = "callback" THEN @ + 1 ELSE @]
    /\ UNCHANGED <<checkpoint, config, policies, remote, service>>

(* Where execute goes on: the stages before were completed.                *)
Entry == <<"prerequisites", "kv", "deploy", "app", "token", "publish",
           "unload", "diagnose", "remove">>

(* loadFinal reads both files or none, and fails otherwise.                *)
NoFinal == config = NoConfig /\ local = NoPolicy
HasFinal == config # NoConfig /\ local # NoPolicy

(* The checkpoint comes first, then what an earlier setup has left.        *)
Start ==
    /\ pc = "idle"
    /\ \/ /\ checkpoint.saved
          /\ pc' = Entry[checkpoint.stage + 1] /\ UNCHANGED <<checkpoint, mem>>
       \/ /\ ~checkpoint.saved /\ NoFinal
          /\ checkpoint' = InitialCheckpoint
          /\ pc' = "prerequisites" /\ UNCHANGED mem
       \/ /\ ~checkpoint.saved /\ HasFinal
          /\ mem' = [mem EXCEPT !.reconciles = TRUE]
          /\ pc' = "readCloud" /\ UNCHANGED checkpoint
    /\ status' = "running"
    /\ UNCHANGED <<config, policies, remote, service, used>>

(* An effect on the checkpoint, on Cloudflare or on GitHub only.           *)
Only(kept) == UNCHANGED <<kept, config, policies, service, used>>
Note(c, l) == checkpoint' = c /\ Goto(l) /\ Only(remote)
Pass(l) == Goto(l) /\ UNCHANGED checkpoint /\ Only(remote)
AtCloudflare(f, v, l) ==
    /\ cloudflare' = [cloudflare EXCEPT ![f] = v]
    /\ Goto(l) /\ Only(<<checkpoint, github>>)

Mark == pc = "mark" /\ Note([checkpoint EXCEPT !.stage = @ + 1],
                            Entry[checkpoint.stage + 2])

Prerequisites == pc = "prerequisites" /\ Pass("mark")

-----------------------------------------------------------------------------
(* ensureCloudflareResources                                               *)

(* A run that stopped may have created the namespace of this setup.        *)
EnsureNamespace ==
    /\ pc = "kv"
    /\ \/ checkpoint.kv # 0 /\ Pass("queue")
       \/ /\ checkpoint.kv = 0 /\ cloudflare.namespaces # 0
          /\ Note([checkpoint EXCEPT !.kv = cloudflare.namespaces], "queue")
       \/ /\ checkpoint.kv = 0 /\ cloudflare.namespaces = 0
          /\ AtCloudflare("namespaces", 1, "kvCreated")
SaveNamespace ==
    /\ pc = "kvCreated"
    /\ Note([checkpoint EXCEPT !.kv = cloudflare.namespaces], "queue")

(* The HTTP consumer is added when the queue has none.                     *)
EnsureQueue ==
    /\ pc = "queue"
    /\ \/ checkpoint.queue # 0 /\ Pass("mark")
       \/ /\ checkpoint.queue = 0 /\ cloudflare.queues # 0
          /\ Note([checkpoint EXCEPT !.queue = cloudflare.queues], "mark")
       \/ /\ checkpoint.queue = 0 /\ cloudflare.queues = 0
          /\ AtCloudflare("queues", 1, "queueCreated")
SaveQueue ==
    /\ pc = "queueCreated"
    /\ Note([checkpoint EXCEPT !.queue = cloudflare.queues], "mark")

(* A deployment keeps the secret of the one before.                        *)
DeployRelay ==
    /\ pc = "deploy"
    /\ AtCloudflare("relay", IF cloudflare.relay = -1 THEN 0
                             ELSE cloudflare.relay, "mark")

-----------------------------------------------------------------------------
(* createGitHubApp                                                         *)

(* The user registers an App in the browser, which returns with a code.    *)
CreateApp ==
    /\ pc = "app"
    /\ \/ checkpoint.app # 0 /\ Pass("secret")
       \/ checkpoint.app = 0 /\ checkpoint.code # 0 /\ Pass("convert")
       \/ /\ checkpoint.app = 0 /\ checkpoint.code = 0
          /\ github' = [github EXCEPT !.apps = @ + 1, !.hook = github.apps + 1]
          /\ Goto("callback") /\ Only(<<checkpoint, cloudflare>>)

(* Mutant of PersistCode: the code is kept in memory only.                 *)
ConvertAtOnce ==
    /\ pc = "callback"
    /\ github' = [github EXCEPT !.spent = @ \cup {github.apps}]
    /\ Goto("converted") /\ Only(<<checkpoint, cloudflare>>)

PersistCode ==
    /\ pc = "callback"
    /\ Note([checkpoint EXCEPT !.code = github.apps], "convert")

(* GitHub converts a code once.                                            *)
Convert ==
    /\ pc = "convert"
    /\ \/ /\ checkpoint.code \notin github.spent
          /\ github' = [github EXCEPT !.spent = @ \cup {checkpoint.code}]
          /\ Goto("converted")
       \/ checkpoint.code \in github.spent /\ End("failed") /\ UNCHANGED github
    /\ Only(<<checkpoint, cloudflare>>)

PersistApp ==
    /\ pc = "converted"
    /\ Note([checkpoint EXCEPT !.app = github.apps, !.code = 0], "secret")

(* configureRelaySecret                                                    *)
RelaySecret == pc = "secret" /\ AtCloudflare("relay", checkpoint.app, "mark")

-----------------------------------------------------------------------------
(* The runtime token, of either path.                                      *)

Token == IF mem.reconciles THEN config.token ELSE checkpoint.token
Accepted == Token \in cloudflare.valid
(* Mutant of AfterToken: the service is not installed again.               *)
ServiceKept == IF mem.reconciles THEN "relay" ELSE "mark"
AfterToken == IF mem.reconciles THEN "unload" ELSE "mark"
Refuse == End("failed") /\ UNCHANGED checkpoint /\ Only(remote)

(* Mutant of ValidateToken: a token of an earlier run is not replaced.     *)
TrustOrFail ==
    /\ pc = "token"
    /\ \/ Accepted /\ Pass(AfterToken)
       \/ ~Accepted /\ Token = 0 /\ Pass("ask")
       \/ ~Accepted /\ Token # 0 /\ Refuse

(* A token that an earlier run asked for is replaced.                      *)
ValidateToken ==
    /\ pc = "token"
    /\ \/ Accepted /\ Pass(AfterToken)
       \/ ~Accepted /\ ~mem.fresh /\ Pass("ask")
       \/ ~Accepted /\ mem.fresh /\ Refuse

(* The user creates a token and pastes it, or mistypes it.                 *)
RequestToken ==
    LET token == cloudflare.tokens + 1
    IN  /\ pc = "ask"
        /\ \E good \in BOOLEAN :
              /\ good \/ used.stops < MaxStops
              /\ used' = [used EXCEPT !.stops = IF good THEN @ ELSE @ + 1]
              /\ cloudflare' = [cloudflare EXCEPT !.tokens = token,
                    !.valid = IF good THEN @ \cup {token} ELSE @]
        /\ IF mem.reconciles
           THEN /\ config' = [config EXCEPT !.token = token]
                /\ local' = mem.policy /\ UNCHANGED checkpoint
           ELSE /\ checkpoint' = [checkpoint EXCEPT !.token = token]
                /\ UNCHANGED <<config, local>>
        /\ Continue([mem EXCEPT !.fresh = TRUE], "token")
        /\ UNCHANGED <<cloud, visible, journal, github, service>>

-----------------------------------------------------------------------------
(* The policy in KV and the final state.                                   *)

Put(p, l) ==
    /\ cloud' = p /\ Goto(l)
    /\ UNCHANGED <<checkpoint, config, local, visible, journal, remote, service,
                   used>>
Publish == pc = "publish" /\ Put(EmptyPolicy, "verify")

VerifyPolicy ==
    /\ pc = "verify" /\ visible = mem.policy
    /\ IF mem.reconciles THEN Goto("rename")
       ELSE Continue([mem EXCEPT !.left = {"config", "policy"}], "final")
    /\ UNCHANGED checkpoint /\ Only(remote)

(* Both files are written at the same time.                                *)
WriteFinal ==
    /\ pc = "final"
    /\ \E f \in mem.left :
          /\ config' = IF f = "policy" THEN config
                       ELSE [app |-> checkpoint.app, slug |-> 0,
                             token |-> checkpoint.token]
          /\ local' = IF f = "policy" THEN EmptyPolicy ELSE local
          /\ Continue([mem EXCEPT !.left = @ \ {f}],
                      IF mem.left = {f} THEN "mark" ELSE "final")
    /\ UNCHANGED <<checkpoint, cloud, visible, journal, remote, service, used>>

-----------------------------------------------------------------------------
(* Reconciliation: what KV has revoked is revoked, never the reverse.      *)

(* Mutant of ReadCloud: KV decides.                                        *)
TrustCloud ==
    /\ pc = "readCloud"
    /\ local' = visible
    /\ Continue([mem EXCEPT !.policy = visible], "rename")
    /\ UNCHANGED <<checkpoint, config, cloud, visible, journal, remote, service,
                   used>>

ReadCloud ==
    LET effective == IntersectPolicies(local, visible)
    IN  /\ pc = "readCloud"
        /\ local' = effective
        /\ Continue([mem EXCEPT !.policy = effective],
                    IF visible = effective THEN "rename" ELSE "narrow")
        /\ UNCHANGED <<checkpoint, config, cloud, visible, journal, remote,
                       service, used>>
Narrow == pc = "narrow" /\ Put(mem.policy, "verify")

(* A renamed App keeps its id; its new name is written.                    *)
RenameApp ==
    /\ pc = "rename"
    /\ config' = [config EXCEPT !.slug = github.slug]
    /\ local' = mem.policy
    /\ Goto("hook")
    /\ UNCHANGED <<checkpoint, cloud, visible, journal, remote, service, used>>

ConfigureHook ==
    /\ pc = "hook"
    /\ github' = [github EXCEPT !.hook = config.app]
    /\ Goto("token") /\ Only(<<checkpoint, cloudflare>>)

EnsureRelay ==
    /\ pc = "relay"
    /\ \/ cloudflare.relay = config.app /\ Pass("diagnose")
       \/ /\ cloudflare.relay # config.app
          /\ AtCloudflare("relay", config.app, "diagnose")

-----------------------------------------------------------------------------
(* The service, and the diagnostics that end a run.                        *)

AtLaunchd(a, d) ==
    /\ agent' = a /\ daemon' = d
    /\ UNCHANGED <<checkpoint, config, policies, remote>>
Unloaded == [agent EXCEPT !.loaded = FALSE]
Loaded == [agent EXCEPT !.loaded = TRUE]
Installed == [agent EXCEPT !.plist = TRUE]

Unload == /\ pc = "unload" /\ AtLaunchd(Unloaded, NoConfig)
          /\ Goto("plist") /\ UNCHANGED used
WritePlist == /\ pc = "plist" /\ AtLaunchd(Installed, daemon)
              /\ Goto("load") /\ UNCHANGED used

(* launchd refuses an agent that another command has loaded, or removed.   *)
Bootstrap ==
    /\ pc = "load"
    /\ \/ /\ agent.plist /\ ~agent.loaded
          /\ AtLaunchd(Loaded, daemon)
          /\ Goto(IF mem.reconciles THEN "relay" ELSE "mark")
       \/ /\ ~agent.plist \/ agent.loaded
          /\ AtLaunchd(agent, daemon) /\ End("failed")
    /\ UNCHANGED used

(* runDiagnostics. The policy is the one of this run, and each listed      *)
(* repository must be authorized: by both policies and with nothing        *)
(* pending (what GitHub says of it is left out).                           *)
RelayVerifies ==
    cloudflare.relay = IF mem.reconciles THEN config.app ELSE checkpoint.app
QueueAccessible == Accepted
PolicyMatches == visible = mem.policy
RepositoriesAuthorized == visible.entries = local.entries /\ ~journal
ServiceInstalled == agent.plist /\ agent.loaded
Sound == /\ RelayVerifies /\ QueueAccessible /\ PolicyMatches
         /\ RepositoriesAuthorized /\ ServiceInstalled

(* A daemon that is starting is waited for.                                *)
Diagnose ==
    /\ pc = "diagnose"
    /\ \/ ~Sound /\ End("failed")
       \/ /\ Sound /\ daemon # NoConfig
          /\ IF mem.reconciles THEN End("finished") ELSE Goto("mark")
    /\ used' = [used EXCEPT !.checked = Sound]
    /\ UNCHANGED <<checkpoint, config, policies, remote, service>>

Remove ==
    /\ pc = "remove"
    /\ checkpoint' = NoCheckpoint /\ End("finished")
    /\ Only(remote)

-----------------------------------------------------------------------------
(* What others do.                                                         *)

Propagate ==
    /\ visible # cloud /\ visible' = cloud
    /\ UNCHANGED <<checkpoint, config, local, cloud, journal, remote, service,
                   process, used>>

(* launchd starts the daemon, which reads its configuration, and starts it *)
(* again when it has failed.                                               *)
StartDaemon ==
    /\ agent.loaded /\ daemon = NoConfig /\ config # NoConfig
    /\ AtLaunchd(agent, config) /\ UNCHANGED <<process, used>>

(* The service commands, and a daemon that fails.                          *)
UseService(a, d) ==
    /\ used.services < MaxServices
    /\ used' = [used EXCEPT !.services = @ + 1, !.checked = FALSE]
    /\ AtLaunchd(a, d) /\ UNCHANGED process
ServiceStart == agent.plist /\ config # NoConfig /\ UseService(Loaded, daemon)
ServiceStop == agent.loaded /\ UseService(Unloaded, NoConfig)
ServiceUninstall == UseService([plist |-> FALSE, loaded |-> FALSE], NoConfig)
ServiceInstall ==
    config # NoConfig /\ UseService([plist |-> TRUE, loaded |-> TRUE], NoConfig)
DaemonFails == daemon # NoConfig /\ UseService(agent, NoConfig)

(* Mutant of Configured: the configuration is enough.                      *)
ConfigWritten == config # NoConfig
Configured == HasFinal /\ visible # NoPolicy

(* "repository add" and "remove" take the command lock, write the local    *)
(* policy, then KV, and wait until it shows the policy. An add is recorded *)
(* before, until then; the rerun of one only narrows policy.json, which    *)
(* held the policy to be written.                                          *)
Authorize ==
    LET prior == IntersectPolicies(local, visible)
        free == {x \in Installs \X Identities : ~Conflicts(prior, x[1], x[2])}
        added == {WithRepository(prior, x[1], x[2]) : x \in free}
        removed == {WithoutRepository(prior, id) : id \in Ids}
    IN  /\ pc = "idle" /\ used.repositories < MaxRepositories
        /\ Configured
        /\ \E p \in added \cup removed :
              /\ local' = IF p \in added /\ local = p THEN prior ELSE p
              /\ mem' = [mem EXCEPT !.policy = p]
              /\ journal' = (journal \/ p \in added)
        /\ pc' = "repositoryPut" /\ status' = "changed"
        /\ used' = [used EXCEPT !.repositories = @ + 1, !.checked = FALSE]
        /\ UNCHANGED <<checkpoint, config, cloud, visible, remote, service>>
AuthorizeCloud == pc = "repositoryPut" /\ Put(mem.policy, "repositoryVerify")
Authorized ==
    /\ pc = "repositoryVerify" /\ visible = mem.policy
    /\ journal' = FALSE /\ End(status)
    /\ UNCHANGED <<checkpoint, config, local, cloud, visible, remote, service,
                   used>>

(* The user revokes a token; renames the App, changes its webhook; another *)
(* deployment replaces the relay. The last three happen to a setup that    *)
(* has finished.                                                           *)
Drift ==
    /\ pc = "idle" /\ used.drifts < MaxDrifts
    /\ \/ \E t \in cloudflare.valid :
             /\ cloudflare' = [cloudflare EXCEPT !.valid = @ \ {t}]
             /\ UNCHANGED github
       \/ /\ ~checkpoint.saved /\ config # NoConfig
          /\ \/ /\ \/ github' = [github EXCEPT !.slug = @ + 1]
                   \/ github' = [github EXCEPT !.hook = 0]
                /\ UNCHANGED cloudflare
             \/ /\ \E r \in {-1, 0} : cloudflare' = [cloudflare EXCEPT !.relay = r]
                /\ UNCHANGED github
    /\ status' = "changed"
    /\ used' = [used EXCEPT !.drifts = @ + 1, !.checked = FALSE]
    /\ UNCHANGED <<checkpoint, config, policies, service, pc, mem>>

-----------------------------------------------------------------------------
Create == \/ Prerequisites \/ EnsureNamespace \/ SaveNamespace
          \/ EnsureQueue \/ SaveQueue \/ DeployRelay \/ CreateApp
          \/ PersistCode \/ Convert \/ PersistApp \/ RelaySecret
Finish == \/ Mark \/ ValidateToken \/ RequestToken \/ Publish \/ VerifyPolicy
          \/ WriteFinal \/ Unload \/ WritePlist \/ Bootstrap \/ Diagnose
          \/ Remove
Reconcile == ReadCloud \/ Narrow \/ RenameApp \/ ConfigureHook \/ EnsureRelay
SetupStep == Create \/ Finish \/ Reconcile
ServiceCommand == \/ ServiceStart \/ ServiceStop \/ ServiceUninstall
                  \/ ServiceInstall \/ DaemonFails
Others == ServiceCommand \/ Authorize \/ Drift

Next == \/ Start \/ SetupStep \/ Stop \/ Others \/ AuthorizeCloud
        \/ Authorized \/ Propagate \/ StartDaemon

Spec == Init /\ [][Next]_vars

(* A command that runs goes on, and the user reruns a setup. KV and        *)
(* launchd do their part. Nobody has to stop or to change anything.        *)
FairSpec ==
    /\ Spec
    /\ WF_vars(Start) /\ WF_vars(SetupStep)
    /\ WF_vars(AuthorizeCloud) /\ WF_vars(Authorized)
    /\ WF_vars(Propagate) /\ WF_vars(StartDaemon)

-----------------------------------------------------------------------------
SetupPc == {"kvCreated", "queue", "queueCreated", "callback", "convert",
            "converted", "secret", "ask", "verify", "final", "readCloud",
            "narrow", "rename", "hook", "relay", "plist", "load", "mark"}
           \cup {Entry[s] : s \in 1..9}
CommandPc == {"repositoryPut", "repositoryVerify"}

TypeInvariant ==
    /\ checkpoint \in [saved : BOOLEAN, stage : 0..8, kv : Nat, queue : Nat,
                       code : Nat, app : Nat, token : Nat]
    /\ config \in [app : Nat, slug : Nat, token : Nat]
    /\ {local, cloud, visible} \subseteq Policies \cup {NoPolicy} /\ journal \in BOOLEAN
    /\ cloudflare \in [namespaces : Nat, queues : Nat, relay : Nat \cup {-1},
                       tokens : Nat, valid : SUBSET Nat]
    /\ github \in [apps : Nat, spent : SUBSET Nat, slug : Nat, hook : Nat]
    /\ agent \in [plist : BOOLEAN, loaded : BOOLEAN]
    /\ daemon \in [app : Nat, slug : Nat, token : Nat]
    /\ pc \in SetupPc \cup CommandPc \cup {"idle"}
    /\ mem \in [left : SUBSET {"config", "policy"}, policy : Policies,
                fresh : BOOLEAN, reconciles : BOOLEAN]
    /\ status \in {"none", "running", "failed", "finished", "changed"}
    /\ used \in [stops : Nat, lost : Nat, drifts : Nat, repositories : Nat,
                 services : Nat, checked : BOOLEAN]

(* However often setup stops, it creates one namespace and one queue, and  *)
(* registers another App only where it stopped before it learnt the code   *)
(* of the one before (platform.ts, orchestrator.ts).                       *)
OneOfEach ==
    /\ cloudflare.namespaces <= 1 /\ cloudflare.queues <= 1
    /\ github.apps <= 1 + used.lost

(* A setup that reports success has left a system that works together:     *)
(* GitHub signs with the secret the relay verifies with, the token is      *)
(* accepted, the policies agree, nothing is left to resume, and the daemon *)
(* has read the final configuration. What others changed after the         *)
(* diagnostics of a run that stopped before it removed the checkpoint, the *)
(* run that removes it does not see.                                       *)
FinishedWorks ==
    (status = "finished" /\ used.checked) =>
        /\ ~checkpoint.saved
        /\ github.hook = config.app /\ cloudflare.relay = config.app
        /\ config.slug = github.slug /\ config.token \in cloudflare.valid
        /\ local = visible
        /\ agent.loaded /\ daemon = config

(* Setup authorizes no repository: the local policy only shrinks, and KV   *)
(* gets nothing that the local policy does not allow, whatever repository  *)
(* commands that stopped have left in either.                              *)
NeverAuthorizes ==
    [][SetupStep => /\ local # NoPolicy => local'.entries \subseteq local.entries
                    /\ cloud' # cloud => cloud'.entries \subseteq local'.entries]_vars

(* A checkpoint from which no rerun finishes: the code of the App was      *)
(* converted, but not the App saved; and what the completed stages have    *)
(* made has changed since.                                                 *)
Stranded ==
    /\ checkpoint.saved
    /\ \/ checkpoint.code \in github.spent
       \/ checkpoint.stage >= 5 /\ checkpoint.token \notin cloudflare.valid
       \/ checkpoint.stage >= 6 /\ (cloud # EmptyPolicy \/ local.entries # {})
       \/ checkpoint.stage >= 7 /\ ~(agent.plist /\ agent.loaded)

(* A setup that is rerun after it stopped finishes, unless it is stranded  *)
(* or a repository waits to be added.                                      *)
SetupFinishes == []<>(status = "finished" \/ Stranded \/ journal)
=============================================================================
