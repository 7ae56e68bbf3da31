----------------------------- MODULE SetupProofs -----------------------------
(***************************************************************************)
(* Proofs about Setup, for any number of stops, changes by others and      *)
(* commands.                                                               *)
(*                                                                         *)
(* That setup authorizes nothing rests on what a run holds in memory: once *)
(* it has read KV, its policy is the local one, because no other command   *)
(* that writes policies runs meanwhile.  That nothing is created twice     *)
(* rests on the checkpoint: it is there until both files of the final      *)
(* state are, so that no run finds neither.                                *)
(*                                                                         *)
(* That a setup which reports success works rests on both, and on what the *)
(* diagnostics do not look at (WorkInv).                                   *)
(***************************************************************************)
EXTENDS Setup, TLAPS

Prepare == {"kv", "kvCreated", "queue", "queueCreated"}
Register == {"app", "callback", "convert", "converted", "secret"}
Finishing == {"publish", "final", "mark", "remove"}
Reconciling == {"readCloud", "narrow", "rename", "hook", "relay"}
Either == {"token", "ask", "verify", "unload", "plist", "load", "diagnose"}
First == {"prerequisites", "deploy"}

(* Which path a run is on, ...                                             *)
PathInv ==
    /\ pc \in {"idle"} \cup CommandPc => ~mem.reconciles
    /\ pc \in Reconciling => mem.reconciles
    /\ pc \in First \cup Prepare \cup Register \cup Finishing => ~mem.reconciles
    /\ mem.reconciles => ~checkpoint.saved
    /\ pc \in First \cup Prepare \cup Register \cup Finishing \cup Either =>
          mem.reconciles \/ checkpoint.saved

(* ... and at which stage a new setup is where.                            *)
StageInv ==
    ~mem.reconciles =>
        /\ pc = "prerequisites" => checkpoint.stage = 0
        /\ pc \in Prepare => checkpoint.stage = 1
        /\ pc = "deploy" => checkpoint.stage = 2
        /\ pc \in Register => checkpoint.stage = 3
        /\ pc \in {"token", "ask"} => checkpoint.stage = 4
        /\ pc \in {"publish", "verify", "final"} => checkpoint.stage = 5
        /\ pc \in {"unload", "plist", "load"} => checkpoint.stage = 6
        /\ pc = "diagnose" => checkpoint.stage = 7
        /\ pc = "mark" => checkpoint.stage <= 7
        /\ pc = "remove" => checkpoint.stage = 8

(* The App of this setup is known from the stage that registers it on.     *)
AppInv ==
    /\ ~checkpoint.saved => checkpoint.code = 0 /\ checkpoint.app = 0
    /\ checkpoint.code # 0 => github.apps # 0
    /\ pc = "callback" => github.apps # 0
    /\ pc \in {"convert", "converted"} => checkpoint.code # 0
    /\ pc = "secret" => checkpoint.app # 0
    /\ pc = "mark" /\ checkpoint.stage = 3 => checkpoint.app # 0
    /\ checkpoint.stage >= 4 => checkpoint.app # 0

(* The final state is written by the stage that writes it, and stays.      *)
FinalInv ==
    /\ checkpoint.saved /\ checkpoint.stage <= 4 => NoFinal
    /\ checkpoint.stage >= 6 => HasFinal
    /\ pc = "mark" /\ checkpoint.stage = 5 => HasFinal
    /\ pc = "final" =>
          /\ "config" \notin mem.left => config # NoConfig
          /\ "policy" \notin mem.left => local # NoPolicy
    /\ mem.reconciles \/ pc \in CommandPc => HasFinal
    /\ config # NoConfig => config.app # 0

(* A local policy is only there when KV shows one.                         *)
CloudInv ==
    /\ local # NoPolicy \/ pc = "final" => visible # NoPolicy
    /\ visible # NoPolicy => cloud # NoPolicy

(* Once KV has been read, the policy of the run is the local one.          *)
PolicyInv == mem.reconciles /\ pc # "readCloud" => mem.policy = local

(* An App too many is one whose code was lost.                             *)
KnownApp ==
    pc = "callback" \/ checkpoint.code # 0 \/ checkpoint.app # 0 \/ HasFinal
CountInv ==
    /\ cloudflare.namespaces <= 1 /\ cloudflare.queues <= 1
    /\ github.apps <= used.lost + 1
    /\ ~KnownApp => github.apps <= used.lost

(* What the steps change in memory and in the checkpoint.                  *)
Memories == [left : SUBSET {"config", "policy"}, policy : Policies,
             fresh : BOOLEAN, reconciles : BOOLEAN]
Checkpoints == [saved : BOOLEAN, stage : 0..8, kv : Nat, queue : Nat,
                code : Nat, app : Nat, token : Nat]

RunInv == PathInv /\ StageInv /\ AppInv /\ FinalInv /\ CloudInv /\ PolicyInv
SetupInv == TypeInvariant /\ RunInv /\ CountInv

-----------------------------------------------------------------------------
(* Where execute goes on, stage by stage.                                  *)
LEMMA EntryLabels ==
    /\ Entry[1] = "prerequisites" /\ Entry[2] = "kv" /\ Entry[3] = "deploy"
    /\ Entry[4] = "app" /\ Entry[5] = "token" /\ Entry[6] = "publish"
    /\ Entry[7] = "unload" /\ Entry[8] = "diagnose" /\ Entry[9] = "remove"
<1>1. Entry[1] = "prerequisites"
  BY DEF Entry
<1>2. Entry[2] = "kv"
  BY DEF Entry
<1>3. Entry[3] = "deploy"
  BY DEF Entry
<1>4. Entry[4] = "app"
  BY DEF Entry
<1>5. Entry[5] = "token"
  BY DEF Entry
<1>6. Entry[6] = "publish"
  BY DEF Entry
<1>7. Entry[7] = "unload"
  BY DEF Entry
<1>8. Entry[8] = "diagnose"
  BY DEF Entry
<1>9. Entry[9] = "remove"
  BY DEF Entry
<1> QED BY <1>1, <1>2, <1>3, <1>4, <1>5, <1>6, <1>7, <1>8, <1>9

(* A stage is one of these.                                                *)
LEMMA Stages ==
    ASSUME NEW s \in 0..8
    PROVE  \/ s = 0 \/ s = 1 \/ s = 2 \/ s = 3 \/ s = 4
           \/ s = 5 \/ s = 6 \/ s = 7 \/ s = 8
OBVIOUS

(* The steps of setup are these.                                           *)
LEMMA SetupPlaces ==
    First \cup Prepare \cup Register \cup Finishing \cup Reconciling \cup Either
        \subseteq SetupPc
<1>1. \A i \in 1..9 : Entry[i] \in SetupPc
  BY DEF SetupPc
<1>2. {"prerequisites", "kv", "deploy", "app", "token", "publish", "unload",
       "diagnose", "remove"} \subseteq SetupPc
  <2>1. \A i \in {1, 2, 3, 4, 5, 6, 7, 8, 9} : Entry[i] \in SetupPc
    BY <1>1
  <2> QED BY <2>1, EntryLabels
<1> QED
  BY <1>2 DEF SetupPc, First, Prepare, Register, Finishing, Reconciling, Either

(* A missing policy is none.                                               *)
LEMMA PolicyKinds ==
    /\ NoPolicy \notin Policies
    /\ EmptyPolicy \in Policies
    /\ NoConfig \in [app : Nat, slug : Nat, token : Nat]
    /\ NoConfig.app = 0
    /\ NoMemory \in [left : SUBSET {"config", "policy"}, policy : Policies,
                     fresh : BOOLEAN, reconciles : BOOLEAN]
    /\ ~NoMemory.reconciles
BY DEF NoPolicy, Policies, EmptyPolicy, NoConfig, NoMemory

(* The policies that the functions on policies return.                     *)
LEMMA PolicyTypes ==
    ASSUME NEW p \in Policies, NEW q \in Policies
    PROVE  /\ IntersectPolicies(p, q) \in Policies
           /\ IntersectPolicies(p, q).entries \subseteq p.entries
           /\ \A id \in Ids : WithoutRepository(p, id) \in Policies
           /\ \A i \in Installs, r \in Identities : WithRepository(p, i, r) \in Policies
<1>1. p.revision + 1 \in Nat
  BY DEF Policies
<1>2. \A i \in Installs, r \in Identities : EntryOf(i, r) \in Entries
  BY DEF EntryOf, Entries, Identities
<1> QED
  BY <1>1, <1>2
     DEF Policies, IntersectPolicies, Smaller, WithoutRepository, WithRepository

-----------------------------------------------------------------------------
(* What a start changes: the command resumes, begins or reconciles.        *)
LEMMA StartMoves ==
    ASSUME SetupInv, Start
    PROVE  /\ pc = "idle" /\ ~mem.reconciles
           /\ UNCHANGED <<config, policies, remote, service, used>>
           /\ \/ /\ checkpoint.saved /\ UNCHANGED <<checkpoint, mem>>
                 /\ \/ checkpoint.stage = 0 /\ pc' = "prerequisites"
                    \/ checkpoint.stage = 1 /\ pc' = "kv"
                    \/ checkpoint.stage = 2 /\ pc' = "deploy"
                    \/ checkpoint.stage = 3 /\ pc' = "app"
                    \/ checkpoint.stage = 4 /\ pc' = "token"
                    \/ checkpoint.stage = 5 /\ pc' = "publish"
                    \/ checkpoint.stage = 6 /\ pc' = "unload"
                    \/ checkpoint.stage = 7 /\ pc' = "diagnose"
                    \/ checkpoint.stage = 8 /\ pc' = "remove"
              \/ /\ ~checkpoint.saved /\ NoFinal /\ pc' = "prerequisites" /\ mem' = mem
                 /\ checkpoint' = InitialCheckpoint
              \/ /\ ~checkpoint.saved /\ HasFinal /\ pc' = "readCloud"
                 /\ mem' = [mem EXCEPT !.reconciles = TRUE] /\ UNCHANGED checkpoint
<1>1. checkpoint.stage \in 0..8
  BY DEF SetupInv, TypeInvariant
<1>2. \/ checkpoint.stage = 0 \/ checkpoint.stage = 1 \/ checkpoint.stage = 2
      \/ checkpoint.stage = 3 \/ checkpoint.stage = 4 \/ checkpoint.stage = 5
      \/ checkpoint.stage = 6 \/ checkpoint.stage = 7 \/ checkpoint.stage = 8
  BY <1>1, Stages
<1>3. pc = "idle" /\ ~mem.reconciles
  BY DEF Start, SetupInv, RunInv, PathInv
<1>4. CASE checkpoint.saved
  BY <1>2, <1>3, <1>4, EntryLabels DEF Start
<1>5. CASE ~checkpoint.saved
  BY <1>3, <1>5 DEF Start
<1> QED BY <1>4, <1>5

(* What the end of a stage changes.                                        *)
LEMMA MarkMoves ==
    ASSUME SetupInv, Mark
    PROVE  /\ pc = "mark" /\ ~mem.reconciles /\ mem' = mem
           /\ checkpoint.saved /\ checkpoint' = [checkpoint EXCEPT !.stage = @ + 1]
           /\ checkpoint'.saved /\ checkpoint'.stage = checkpoint.stage + 1
           /\ checkpoint'.code = checkpoint.code /\ checkpoint'.app = checkpoint.app
           /\ UNCHANGED <<config, policies, remote, service, used, status>>
           /\ \/ checkpoint.stage = 0 /\ pc' = "kv"
              \/ checkpoint.stage = 1 /\ pc' = "deploy"
              \/ checkpoint.stage = 2 /\ pc' = "app"
              \/ checkpoint.stage = 3 /\ pc' = "token"
              \/ checkpoint.stage = 4 /\ pc' = "publish"
              \/ checkpoint.stage = 5 /\ pc' = "unload"
              \/ checkpoint.stage = 6 /\ pc' = "diagnose"
              \/ checkpoint.stage = 7 /\ pc' = "remove"
<1>checkpoint. checkpoint \in Checkpoints
  BY DEF SetupInv, TypeInvariant, Checkpoints
<1>1. checkpoint.stage \in 0..8
  BY <1>checkpoint DEF Checkpoints
<1>2. \/ checkpoint.stage = 0 \/ checkpoint.stage = 1 \/ checkpoint.stage = 2
      \/ checkpoint.stage = 3 \/ checkpoint.stage = 4 \/ checkpoint.stage = 5
      \/ checkpoint.stage = 6 \/ checkpoint.stage = 7 \/ checkpoint.stage = 8
  BY <1>1, Stages
<1>3. /\ pc = "mark" /\ checkpoint' = [checkpoint EXCEPT !.stage = @ + 1]
      /\ pc' = Entry[checkpoint.stage + 2] /\ mem' = mem /\ status' = status
      /\ UNCHANGED <<config, policies, remote, service, used>>
  BY DEF Mark, Note, Goto, Continue, Only
<1>4. ~mem.reconciles /\ checkpoint.saved /\ checkpoint.stage <= 7
  BY <1>3 DEF SetupInv, RunInv, PathInv, StageInv, Finishing
<1>5. /\ checkpoint'.saved /\ checkpoint'.stage = checkpoint.stage + 1
      /\ checkpoint'.code = checkpoint.code /\ checkpoint'.app = checkpoint.app
  BY <1>3, <1>4, <1>checkpoint DEF Checkpoints
<1>6. \/ checkpoint.stage = 0 /\ pc' = "kv"
      \/ checkpoint.stage = 1 /\ pc' = "deploy"
      \/ checkpoint.stage = 2 /\ pc' = "app"
      \/ checkpoint.stage = 3 /\ pc' = "token"
      \/ checkpoint.stage = 4 /\ pc' = "publish"
      \/ checkpoint.stage = 5 /\ pc' = "unload"
      \/ checkpoint.stage = 6 /\ pc' = "diagnose"
      \/ checkpoint.stage = 7 /\ pc' = "remove"
  BY <1>2, <1>3, <1>4, EntryLabels
<1> QED BY <1>3, <1>4, <1>5, <1>6

(* What the registration of an App changes.                                *)
LEMMA CreateAppMoves ==
    ASSUME SetupInv, CreateApp
    PROVE  /\ pc = "app" /\ ~mem.reconciles /\ mem' = mem /\ checkpoint' = checkpoint
           /\ UNCHANGED <<config, policies, service, cloudflare, used, status>>
           /\ \/ checkpoint.app # 0 /\ pc' = "secret" /\ github' = github
              \/ checkpoint.code # 0 /\ pc' = "convert" /\ github' = github
              \/ /\ checkpoint.app = 0 /\ checkpoint.code = 0
                 /\ github'.apps = github.apps + 1 /\ pc' = "callback"
                 /\ github'.hook = github.apps + 1 /\ github'.slug = github.slug
<1>github. github \in [apps : Nat, spent : SUBSET Nat, slug : Nat, hook : Nat]
  BY DEF SetupInv, TypeInvariant
<1>1. pc = "app" /\ ~mem.reconciles
  BY DEF CreateApp, SetupInv, RunInv, PathInv, Register
<1>2. CASE checkpoint.app # 0 \/ checkpoint.code # 0
  BY <1>1, <1>2
     DEF CreateApp, Pass, Only, Goto, Continue, remote, service, policies
<1>3. CASE checkpoint.app = 0 /\ checkpoint.code = 0
  <2>1. /\ github' = [github EXCEPT !.apps = @ + 1, !.hook = github.apps + 1]
        /\ Goto("callback") /\ Only(<<checkpoint, cloudflare>>)
    BY <1>3 DEF CreateApp
  <2>2. /\ github'.apps = github.apps + 1 /\ github'.hook = github.apps + 1
        /\ github'.slug = github.slug
    BY <1>github, <2>1
  <2> QED BY <1>1, <1>3, <2>1, <2>2 DEF Only, Goto, Continue, policies
<1> QED BY <1>2, <1>3

(* A run stays on its path.                                               *)
LEMMA PathStep ==
    ASSUME SetupInv, Next
    PROVE  PathInv'
<1> USE DEF SetupInv, Continue, Goto, End, Only, Note, Pass, AtCloudflare, Put,
            Refuse, AfterToken, AtLaunchd, UseService, Loaded, Unloaded,
            Installed, policies, remote, service, process, Memories,
            Checkpoints, NoMemory, NoCheckpoint, InitialCheckpoint, RunInv,
            PathInv, First, Prepare, Register, Finishing, Reconciling, Either,
            CommandPc
<1>mem. mem \in Memories
  BY DEF TypeInvariant
<1>checkpoint. checkpoint \in Checkpoints
  BY DEF TypeInvariant
<1>1. ASSUME \/ Prerequisites \/ EnsureNamespace \/ SaveNamespace
               \/ EnsureQueue \/ SaveQueue \/ DeployRelay
      PROVE  PathInv'
  BY <1>1, <1>mem, <1>checkpoint
     DEF Prerequisites, EnsureNamespace, SaveNamespace, EnsureQueue, SaveQueue,
         DeployRelay
<1>2. ASSUME PersistCode PROVE PathInv'
  BY <1>2, <1>mem, <1>checkpoint DEF PersistCode
<1>3. ASSUME PersistApp PROVE PathInv'
  BY <1>3, <1>mem, <1>checkpoint DEF PersistApp
<1>4. ASSUME RelaySecret PROVE PathInv'
  BY <1>4, <1>mem, <1>checkpoint DEF RelaySecret
<1>5. ASSUME Convert PROVE PathInv'
  BY <1>5, <1>mem, <1>checkpoint DEF Convert
<1>6. ASSUME ValidateToken \/ Publish \/ VerifyPolicy \/ Remove PROVE PathInv'
  BY <1>6, <1>mem, <1>checkpoint
     DEF ValidateToken, Publish, VerifyPolicy, Remove
<1>7. ASSUME Unload \/ WritePlist \/ Bootstrap \/ Diagnose PROVE PathInv'
  BY <1>7, <1>mem, <1>checkpoint DEF Unload, WritePlist, Bootstrap, Diagnose
<1>8. ASSUME Narrow \/ ConfigureHook \/ EnsureRelay PROVE PathInv'
  BY <1>8, <1>mem, <1>checkpoint DEF Narrow, ConfigureHook, EnsureRelay
<1>9. ASSUME \/ ServiceStart \/ ServiceStop \/ ServiceUninstall
               \/ ServiceInstall \/ DaemonFails
      PROVE  PathInv'
  BY <1>9, <1>mem, <1>checkpoint
     DEF ServiceStart, ServiceStop, ServiceUninstall, ServiceInstall,
         DaemonFails
<1>10. ASSUME AuthorizeCloud \/ Authorized PROVE PathInv'
  BY <1>10, <1>mem, <1>checkpoint DEF AuthorizeCloud, Authorized
<1>11. ASSUME Propagate \/ StartDaemon PROVE PathInv'
  BY <1>11, <1>mem, <1>checkpoint DEF Propagate, StartDaemon
<1>12. ASSUME Drift PROVE PathInv'
  BY <1>12, <1>mem, <1>checkpoint DEF Drift
<1>13. ASSUME Start PROVE PathInv'
  BY <1>13, StartMoves, <1>mem, <1>checkpoint
<1>14. ASSUME Mark PROVE PathInv'
  BY <1>14, MarkMoves, <1>mem, <1>checkpoint
<1>15. ASSUME CreateApp PROVE PathInv'
  BY <1>15, CreateAppMoves, <1>mem, <1>checkpoint
<1>16. ASSUME RequestToken PROVE PathInv'
  BY <1>16, <1>mem, <1>checkpoint DEF RequestToken
<1>17. ASSUME WriteFinal PROVE PathInv'
  BY <1>17, <1>mem, <1>checkpoint DEF WriteFinal
<1>18. ASSUME ReadCloud PROVE PathInv'
  BY <1>18, <1>mem, <1>checkpoint DEF ReadCloud
<1>19. ASSUME RenameApp PROVE PathInv'
  BY <1>19, <1>mem, <1>checkpoint DEF RenameApp
<1>20. ASSUME Stop PROVE PathInv'
  BY <1>20, <1>mem, <1>checkpoint DEF Stop
<1>21. ASSUME Authorize PROVE PathInv'
  BY <1>21, <1>mem, <1>checkpoint DEF Authorize, Configured
<1> QED
  BY <1>1, <1>2, <1>3, <1>4, <1>5, <1>6, <1>7, <1>8, <1>9, <1>10, <1>11, <1>12,
     <1>13, <1>14, <1>15, <1>16, <1>17, <1>18, <1>19, <1>20, <1>21
     DEF Next, SetupStep, Create, Finish, Reconcile, Others, ServiceCommand

(* Each step belongs to its stage.                                         *)
LEMMA StageStep ==
    ASSUME SetupInv, Next
    PROVE  StageInv'
<1> USE DEF SetupInv, Continue, Goto, End, Only, Note, Pass, AtCloudflare, Put,
            Refuse, AfterToken, AtLaunchd, UseService, Loaded, Unloaded,
            Installed, policies, remote, service, process, Memories,
            Checkpoints, NoMemory, NoCheckpoint, InitialCheckpoint, RunInv,
            PathInv, StageInv, First, Prepare, Register, Finishing, Reconciling,
            Either, CommandPc
<1>mem. mem \in Memories
  BY DEF TypeInvariant
<1>checkpoint. checkpoint \in Checkpoints
  BY DEF TypeInvariant
<1>1. ASSUME \/ Prerequisites \/ EnsureNamespace \/ SaveNamespace
               \/ EnsureQueue \/ SaveQueue \/ DeployRelay
      PROVE  StageInv'
  BY <1>1, <1>mem, <1>checkpoint
     DEF Prerequisites, EnsureNamespace, SaveNamespace, EnsureQueue, SaveQueue,
         DeployRelay
<1>2. ASSUME PersistCode PROVE StageInv'
  BY <1>2, <1>mem, <1>checkpoint DEF PersistCode
<1>3. ASSUME PersistApp PROVE StageInv'
  BY <1>3, <1>mem, <1>checkpoint DEF PersistApp
<1>4. ASSUME RelaySecret PROVE StageInv'
  BY <1>4, <1>mem, <1>checkpoint DEF RelaySecret
<1>5. ASSUME Convert PROVE StageInv'
  BY <1>5, <1>mem, <1>checkpoint DEF Convert
<1>6. ASSUME ValidateToken \/ Publish \/ VerifyPolicy \/ Remove PROVE StageInv'
  BY <1>6, <1>mem, <1>checkpoint
     DEF ValidateToken, Publish, VerifyPolicy, Remove
<1>7. ASSUME Unload \/ WritePlist \/ Bootstrap \/ Diagnose PROVE StageInv'
  BY <1>7, <1>mem, <1>checkpoint DEF Unload, WritePlist, Bootstrap, Diagnose
<1>8. ASSUME Narrow \/ ConfigureHook \/ EnsureRelay PROVE StageInv'
  BY <1>8, <1>mem, <1>checkpoint DEF Narrow, ConfigureHook, EnsureRelay
<1>9. ASSUME \/ ServiceStart \/ ServiceStop \/ ServiceUninstall
               \/ ServiceInstall \/ DaemonFails
      PROVE  StageInv'
  BY <1>9, <1>mem, <1>checkpoint
     DEF ServiceStart, ServiceStop, ServiceUninstall, ServiceInstall,
         DaemonFails
<1>10. ASSUME AuthorizeCloud \/ Authorized PROVE StageInv'
  BY <1>10, <1>mem, <1>checkpoint DEF AuthorizeCloud, Authorized
<1>11. ASSUME Propagate \/ StartDaemon PROVE StageInv'
  BY <1>11, <1>mem, <1>checkpoint DEF Propagate, StartDaemon
<1>12. ASSUME Drift PROVE StageInv'
  BY <1>12, <1>mem, <1>checkpoint DEF Drift
<1>13. ASSUME Start PROVE StageInv'
  BY <1>13, StartMoves, <1>mem, <1>checkpoint
<1>14. ASSUME Mark PROVE StageInv'
  BY <1>14, MarkMoves, <1>mem, <1>checkpoint
<1>15. ASSUME CreateApp PROVE StageInv'
  BY <1>15, CreateAppMoves, <1>mem, <1>checkpoint
<1>16. ASSUME RequestToken PROVE StageInv'
  BY <1>16, <1>mem, <1>checkpoint DEF RequestToken
<1>17. ASSUME WriteFinal PROVE StageInv'
  BY <1>17, <1>mem, <1>checkpoint DEF WriteFinal
<1>18. ASSUME ReadCloud PROVE StageInv'
  BY <1>18, <1>mem, <1>checkpoint DEF ReadCloud
<1>19. ASSUME RenameApp PROVE StageInv'
  BY <1>19, <1>mem, <1>checkpoint DEF RenameApp
<1>20. ASSUME Stop PROVE StageInv'
  BY <1>20, <1>mem, <1>checkpoint DEF Stop
<1>21. ASSUME Authorize PROVE StageInv'
  BY <1>21, <1>mem, <1>checkpoint DEF Authorize, Configured
<1> QED
  BY <1>1, <1>2, <1>3, <1>4, <1>5, <1>6, <1>7, <1>8, <1>9, <1>10, <1>11, <1>12,
     <1>13, <1>14, <1>15, <1>16, <1>17, <1>18, <1>19, <1>20, <1>21
     DEF Next, SetupStep, Create, Finish, Reconcile, Others, ServiceCommand

(* The policies that a run which reconciles, or a repository command,      *)
(* starts from.                                                            *)
LEMMA PoliciesRead ==
    ASSUME SetupInv, HasFinal
    PROVE  local \in Policies /\ visible \in Policies /\ cloud \in Policies
BY DEF SetupInv, TypeInvariant, RunInv, CloudInv, HasFinal

(* What reading KV and a repository command write.                         *)
LEMMA LocalWritten ==
    ASSUME SetupInv, ReadCloud \/ Authorize
    PROVE  /\ local' \in Policies /\ local' # NoPolicy
           /\ \E p \in Policies : mem' = [mem EXCEPT !.policy = p]
<1>1. CASE ReadCloud
  <2>1. local \in Policies /\ visible \in Policies
    BY <1>1, PoliciesRead
       DEF SetupInv, RunInv, PathInv, FinalInv, ReadCloud, Reconciling
  <2>2. local' = IntersectPolicies(local, visible)
    BY <1>1 DEF ReadCloud
  <2> QED BY <1>1, <2>1, <2>2, PolicyTypes, PolicyKinds DEF ReadCloud, Continue
<1>2. CASE Authorize
  <2>1. local \in Policies /\ visible \in Policies
    BY <1>2, PoliciesRead DEF Authorize, Configured
  <2> DEFINE prior == IntersectPolicies(local, visible)
  <2>2. prior \in Policies
    BY <2>1, PolicyTypes
  <2>3. PICK p : /\ \/ \E x \in Installs \X Identities : p = WithRepository(prior, x[1], x[2])
                    \/ \E id \in Ids : p = WithoutRepository(prior, id)
                 /\ local' \in {p, prior} /\ mem' = [mem EXCEPT !.policy = p]
    BY <1>2 DEF Authorize
  <2> HIDE DEF prior
  <2>4. p \in Policies
    BY <2>2, <2>3, PolicyTypes
  <2> QED BY <2>2, <2>3, <2>4, PolicyKinds
<1> QED BY <1>1, <1>2

(* The App is known when its stage ends.                                   *)
LEMMA AppStep ==
    ASSUME SetupInv, Next
    PROVE  AppInv'
<1> USE DEF SetupInv, Continue, Goto, End, Only, Note, Pass, AtCloudflare, Put,
            Refuse, AfterToken, AtLaunchd, UseService, Loaded, Unloaded,
            Installed, policies, remote, service, process, Memories,
            Checkpoints, NoMemory, NoCheckpoint, InitialCheckpoint, RunInv,
            PathInv, StageInv, AppInv, First, Prepare, Register, Finishing,
            Reconciling, Either, CommandPc
<1>mem. mem \in Memories
  BY DEF TypeInvariant
<1>checkpoint. checkpoint \in Checkpoints
  BY DEF TypeInvariant
<1>github. github \in [apps : Nat, spent : SUBSET Nat, slug : Nat, hook : Nat]
  BY DEF TypeInvariant
<1>1. ASSUME \/ Prerequisites \/ EnsureNamespace \/ SaveNamespace
               \/ EnsureQueue \/ SaveQueue \/ DeployRelay
      PROVE  AppInv'
  BY <1>1, <1>mem, <1>checkpoint, <1>github
     DEF Prerequisites, EnsureNamespace, SaveNamespace, EnsureQueue, SaveQueue,
         DeployRelay
<1>2. ASSUME PersistCode PROVE AppInv'
  BY <1>2, <1>mem, <1>checkpoint, <1>github DEF PersistCode
<1>3. ASSUME PersistApp PROVE AppInv'
  BY <1>3, <1>mem, <1>checkpoint, <1>github DEF PersistApp
<1>4. ASSUME RelaySecret PROVE AppInv'
  BY <1>4, <1>mem, <1>checkpoint, <1>github DEF RelaySecret
<1>5. ASSUME Convert PROVE AppInv'
  BY <1>5, <1>mem, <1>checkpoint, <1>github DEF Convert
<1>6. ASSUME ValidateToken \/ Publish \/ VerifyPolicy \/ Remove PROVE AppInv'
  BY <1>6, <1>mem, <1>checkpoint, <1>github
     DEF ValidateToken, Publish, VerifyPolicy, Remove
<1>7. ASSUME Unload \/ WritePlist \/ Bootstrap \/ Diagnose PROVE AppInv'
  BY <1>7, <1>mem, <1>checkpoint, <1>github
     DEF Unload, WritePlist, Bootstrap, Diagnose
<1>8. ASSUME Narrow \/ ConfigureHook \/ EnsureRelay PROVE AppInv'
  BY <1>8, <1>mem, <1>checkpoint, <1>github
     DEF Narrow, ConfigureHook, EnsureRelay
<1>9. ASSUME \/ ServiceStart \/ ServiceStop \/ ServiceUninstall
               \/ ServiceInstall \/ DaemonFails
      PROVE  AppInv'
  BY <1>9, <1>mem, <1>checkpoint, <1>github
     DEF ServiceStart, ServiceStop, ServiceUninstall, ServiceInstall,
         DaemonFails
<1>10. ASSUME AuthorizeCloud \/ Authorized PROVE AppInv'
  BY <1>10, <1>mem, <1>checkpoint, <1>github DEF AuthorizeCloud, Authorized
<1>11. ASSUME Propagate \/ StartDaemon PROVE AppInv'
  BY <1>11, <1>mem, <1>checkpoint, <1>github DEF Propagate, StartDaemon
<1>12. ASSUME Drift PROVE AppInv'
  BY <1>12, <1>mem, <1>checkpoint, <1>github DEF Drift
<1>13. ASSUME Start PROVE AppInv'
  BY <1>13, StartMoves, <1>mem, <1>checkpoint, <1>github
<1>14. ASSUME Mark PROVE AppInv'
  BY <1>14, MarkMoves, <1>mem, <1>checkpoint, <1>github
<1>15. ASSUME CreateApp PROVE AppInv'
  BY <1>15, <1>github, CreateAppMoves
<1>16. ASSUME RequestToken PROVE AppInv'
  BY <1>16, <1>mem, <1>checkpoint, <1>github DEF RequestToken
<1>17. ASSUME WriteFinal PROVE AppInv'
  BY <1>17, <1>mem, <1>checkpoint, <1>github DEF WriteFinal
<1>18. ASSUME ReadCloud PROVE AppInv'
  BY <1>18, <1>mem, <1>checkpoint, <1>github DEF ReadCloud
<1>19. ASSUME RenameApp PROVE AppInv'
  BY <1>19, <1>mem, <1>checkpoint, <1>github DEF RenameApp
<1>20. ASSUME Stop PROVE AppInv'
  BY <1>20, <1>mem, <1>checkpoint, <1>github DEF Stop
<1>21. ASSUME Authorize PROVE AppInv'
  BY <1>21, <1>mem, <1>checkpoint, <1>github DEF Authorize, Configured
<1> QED
  BY <1>1, <1>2, <1>3, <1>4, <1>5, <1>6, <1>7, <1>8, <1>9, <1>10, <1>11, <1>12,
     <1>13, <1>14, <1>15, <1>16, <1>17, <1>18, <1>19, <1>20, <1>21
     DEF Next, SetupStep, Create, Finish, Reconcile, Others, ServiceCommand

(* The final state is written before its stage ends.                       *)
LEMMA FinalStep ==
    ASSUME SetupInv, Next
    PROVE  FinalInv'
<1> USE DEF SetupInv, Continue, Goto, End, Only, Note, Pass, AtCloudflare, Put,
            Refuse, AfterToken, AtLaunchd, UseService, Loaded, Unloaded,
            Installed, policies, remote, service, process, Memories,
            Checkpoints, NoMemory, NoCheckpoint, InitialCheckpoint, RunInv,
            PathInv, StageInv, AppInv, FinalInv, HasFinal, NoFinal, First,
            Prepare, Register, Finishing, Reconciling, Either, CommandPc
<1>mem. mem \in Memories
  BY DEF TypeInvariant
<1>checkpoint. checkpoint \in Checkpoints
  BY DEF TypeInvariant
<1>policies. mem.policy \in Policies /\ mem.policy # NoPolicy /\ EmptyPolicy # NoPolicy
  BY <1>mem, PolicyKinds
<1>config. config \in [app : Nat, slug : Nat, token : Nat] /\ NoConfig.app = 0
  BY PolicyKinds DEF TypeInvariant
<1>1. ASSUME \/ Prerequisites \/ EnsureNamespace \/ SaveNamespace
               \/ EnsureQueue \/ SaveQueue \/ DeployRelay
      PROVE  FinalInv'
  BY <1>1, <1>mem, <1>checkpoint
     DEF Prerequisites, EnsureNamespace, SaveNamespace, EnsureQueue, SaveQueue,
         DeployRelay
<1>2. ASSUME PersistCode PROVE FinalInv'
  BY <1>2, <1>mem, <1>checkpoint DEF PersistCode
<1>3. ASSUME PersistApp PROVE FinalInv'
  BY <1>3, <1>mem, <1>checkpoint DEF PersistApp
<1>4. ASSUME RelaySecret PROVE FinalInv'
  BY <1>4, <1>mem, <1>checkpoint DEF RelaySecret
<1>5. ASSUME Convert PROVE FinalInv'
  BY <1>5, <1>mem, <1>checkpoint DEF Convert
<1>6. ASSUME ValidateToken \/ Publish \/ VerifyPolicy \/ Remove PROVE FinalInv'
  BY <1>6, <1>mem, <1>checkpoint
     DEF ValidateToken, Publish, VerifyPolicy, Remove
<1>7. ASSUME Unload \/ WritePlist \/ Bootstrap \/ Diagnose PROVE FinalInv'
  BY <1>7, <1>mem, <1>checkpoint DEF Unload, WritePlist, Bootstrap, Diagnose
<1>8. ASSUME Narrow \/ ConfigureHook \/ EnsureRelay PROVE FinalInv'
  BY <1>8, <1>mem, <1>checkpoint DEF Narrow, ConfigureHook, EnsureRelay
<1>9. ASSUME \/ ServiceStart \/ ServiceStop \/ ServiceUninstall
               \/ ServiceInstall \/ DaemonFails
      PROVE  FinalInv'
  BY <1>9, <1>mem, <1>checkpoint
     DEF ServiceStart, ServiceStop, ServiceUninstall, ServiceInstall,
         DaemonFails
<1>10. ASSUME AuthorizeCloud \/ Authorized PROVE FinalInv'
  BY <1>10, <1>mem, <1>checkpoint DEF AuthorizeCloud, Authorized
<1>11. ASSUME Propagate \/ StartDaemon PROVE FinalInv'
  BY <1>11, <1>mem, <1>checkpoint DEF Propagate, StartDaemon
<1>12. ASSUME Drift PROVE FinalInv'
  BY <1>12, <1>mem, <1>checkpoint DEF Drift
<1>13. ASSUME Start PROVE FinalInv'
  BY <1>13, StartMoves, <1>mem, <1>checkpoint
<1>14. ASSUME Mark PROVE FinalInv'
  BY <1>14, MarkMoves, <1>mem, <1>checkpoint
<1>15. ASSUME CreateApp PROVE FinalInv'
  BY <1>15, CreateAppMoves, <1>mem, <1>checkpoint
<1>16. ASSUME RequestToken PROVE FinalInv'
  <2>1. CASE mem.reconciles
    <3>1. /\ config' = [config EXCEPT !.token = cloudflare.tokens + 1]
          /\ local' = mem.policy /\ checkpoint' = checkpoint
      BY <1>16, <2>1 DEF RequestToken
    <3>2. config # NoConfig /\ config.app # 0
      BY <2>1
    <3>3. config'.app = config.app /\ config' # NoConfig
      BY <1>config, <3>1, <3>2
    <3>4. local' # NoPolicy
      BY <1>policies, <3>1
    <3>5. ~checkpoint.saved /\ HasFinal
      BY <2>1
    <3>6. pc' = "token" /\ mem' = [mem EXCEPT !.fresh = TRUE]
      BY <1>16 DEF RequestToken
    <3> QED BY <3>1, <3>2, <3>3, <3>4, <3>5, <3>6, <1>mem
  <2>2. CASE ~mem.reconciles
    <3>1. /\ checkpoint' = [checkpoint EXCEPT !.token = cloudflare.tokens + 1]
          /\ UNCHANGED <<config, local>>
          /\ pc' = "token" /\ mem' = [mem EXCEPT !.fresh = TRUE]
      BY <1>16, <2>2 DEF RequestToken
    <3> QED BY <2>2, <3>1, <1>mem, <1>checkpoint
  <2> QED BY <2>1, <2>2
<1>17. ASSUME WriteFinal PROVE FinalInv'
  <2>1. /\ pc = "final" /\ ~mem.reconciles /\ checkpoint.saved /\ checkpoint.stage = 5
        /\ checkpoint.app # 0 /\ checkpoint' = checkpoint
    BY <1>17 DEF WriteFinal
  <2>2. PICK f \in mem.left :
          /\ config' = IF f = "policy" THEN config
                       ELSE [app |-> checkpoint.app, slug |-> 0, token |-> checkpoint.token]
          /\ local' = IF f = "policy" THEN EmptyPolicy ELSE local
          /\ mem' = [mem EXCEPT !.left = @ \ {f}]
          /\ pc' = IF mem.left = {f} THEN "mark" ELSE "final"
    BY <1>17 DEF WriteFinal
  <2>3. f \in {"config", "policy"} /\ mem.left \subseteq {"config", "policy"}
    BY <1>mem, <2>2
  <2>4. f = "config" => config'.app # 0 /\ config' # NoConfig /\ local' = local
    BY <1>config, <2>1, <2>2
  <2>5. f = "policy" => local' # NoPolicy /\ config' = config
    BY <1>policies, <2>2
  <2>6. mem'.left = mem.left \ {f} /\ ~mem'.reconciles
    BY <1>mem, <2>1, <2>2
  <2>7. /\ "config" \notin mem'.left => config' # NoConfig
        /\ "policy" \notin mem'.left => local' # NoPolicy
    BY <2>1, <2>3, <2>4, <2>5, <2>6
  <2>8. mem.left = {f} => HasFinal'
    BY <2>6, <2>7
  <2>9. config' # NoConfig => config'.app # 0
    BY <2>3, <2>4, <2>5
  <2> QED BY <2>1, <2>2, <2>6, <2>7, <2>8, <2>9
<1>18. ASSUME ReadCloud PROVE FinalInv'
  <2>1. local' # NoPolicy /\ \E p \in Policies : mem' = [mem EXCEPT !.policy = p]
    BY <1>18, LocalWritten
  <2>2. config' = config /\ checkpoint' = checkpoint
    BY <1>18 DEF ReadCloud
  <2>3. HasFinal
    BY <1>18 DEF ReadCloud, Configured
  <2>4. HasFinal' /\ ~NoFinal'
    BY <2>1, <2>2, <2>3
  <2>5. ~NoFinal
    BY <2>3
  <2>6. pc' \notin {"final", "mark"}
    BY <1>18 DEF ReadCloud
  <2> QED BY <2>1, <2>2, <2>3, <2>4, <2>5, <2>6
<1>19. ASSUME RenameApp PROVE FinalInv'
  <2>1. config'.app = config.app /\ config # NoConfig /\ config.app # 0
    BY <1>19, <1>config DEF RenameApp
  <2>2. config' # NoConfig /\ local' # NoPolicy
    BY <1>19, <1>config, <1>policies, <2>1 DEF RenameApp
  <2> QED BY <1>19, <2>1, <2>2, <1>mem, <1>checkpoint DEF RenameApp
<1>20. ASSUME Stop PROVE FinalInv'
  BY <1>20, <1>mem, <1>checkpoint DEF Stop
<1>21. ASSUME Authorize PROVE FinalInv'
  <2>1. local' # NoPolicy /\ \E p \in Policies : mem' = [mem EXCEPT !.policy = p]
    BY <1>21, LocalWritten
  <2>2. config' = config /\ checkpoint' = checkpoint
    BY <1>21 DEF Authorize
  <2>3. HasFinal
    BY <1>21 DEF Authorize, Configured
  <2>4. HasFinal' /\ ~NoFinal'
    BY <2>1, <2>2, <2>3
  <2>5. ~NoFinal
    BY <2>3
  <2>6. pc' \notin {"final", "mark"}
    BY <1>21 DEF Authorize
  <2> QED BY <2>1, <2>2, <2>3, <2>4, <2>5, <2>6
<1> QED
  BY <1>1, <1>2, <1>3, <1>4, <1>5, <1>6, <1>7, <1>8, <1>9, <1>10, <1>11, <1>12,
     <1>13, <1>14, <1>15, <1>16, <1>17, <1>18, <1>19, <1>20, <1>21
     DEF Next, SetupStep, Create, Finish, Reconcile, Others, ServiceCommand

(* KV shows a policy before there is a local one.                          *)
LEMMA CloudStep ==
    ASSUME SetupInv, Next
    PROVE  CloudInv'
<1> USE DEF SetupInv, Continue, Goto, End, Only, Note, Pass, AtCloudflare, Put,
            Refuse, AfterToken, AtLaunchd, UseService, Loaded, Unloaded,
            Installed, policies, remote, service, process, Memories,
            Checkpoints, NoMemory, NoCheckpoint, InitialCheckpoint, RunInv,
            PathInv, FinalInv, CloudInv, HasFinal, NoFinal, First, Prepare,
            Register, Finishing, Reconciling, Either, CommandPc
<1>mem. mem \in Memories
  BY DEF TypeInvariant
<1>checkpoint. checkpoint \in Checkpoints
  BY DEF TypeInvariant
<1>policies. mem.policy \in Policies /\ mem.policy # NoPolicy /\ EmptyPolicy # NoPolicy
  BY <1>mem, PolicyKinds
<1>1. ASSUME \/ Prerequisites \/ EnsureNamespace \/ SaveNamespace
               \/ EnsureQueue \/ SaveQueue \/ DeployRelay
      PROVE  CloudInv'
  BY <1>1, <1>mem, <1>checkpoint, <1>policies
     DEF Prerequisites, EnsureNamespace, SaveNamespace, EnsureQueue, SaveQueue,
         DeployRelay
<1>2. ASSUME PersistCode PROVE CloudInv'
  BY <1>2, <1>mem, <1>checkpoint, <1>policies DEF PersistCode
<1>3. ASSUME PersistApp PROVE CloudInv'
  BY <1>3, <1>mem, <1>checkpoint, <1>policies DEF PersistApp
<1>4. ASSUME RelaySecret PROVE CloudInv'
  BY <1>4, <1>mem, <1>checkpoint, <1>policies DEF RelaySecret
<1>5. ASSUME Convert PROVE CloudInv'
  BY <1>5, <1>mem, <1>checkpoint, <1>policies DEF Convert
<1>6. ASSUME ValidateToken \/ Publish \/ VerifyPolicy \/ Remove PROVE CloudInv'
  BY <1>6, <1>mem, <1>checkpoint, <1>policies
     DEF ValidateToken, Publish, VerifyPolicy, Remove
<1>7. ASSUME Unload \/ WritePlist \/ Bootstrap \/ Diagnose PROVE CloudInv'
  BY <1>7, <1>mem, <1>checkpoint, <1>policies
     DEF Unload, WritePlist, Bootstrap, Diagnose
<1>8. ASSUME Narrow \/ ConfigureHook \/ EnsureRelay PROVE CloudInv'
  BY <1>8, <1>mem, <1>checkpoint, <1>policies
     DEF Narrow, ConfigureHook, EnsureRelay
<1>9. ASSUME \/ ServiceStart \/ ServiceStop \/ ServiceUninstall
               \/ ServiceInstall \/ DaemonFails
      PROVE  CloudInv'
  BY <1>9, <1>mem, <1>checkpoint, <1>policies
     DEF ServiceStart, ServiceStop, ServiceUninstall, ServiceInstall,
         DaemonFails
<1>10. ASSUME AuthorizeCloud \/ Authorized PROVE CloudInv'
  BY <1>10, <1>mem, <1>checkpoint, <1>policies DEF AuthorizeCloud, Authorized
<1>11. ASSUME Propagate \/ StartDaemon PROVE CloudInv'
  BY <1>11, <1>mem, <1>checkpoint, <1>policies DEF Propagate, StartDaemon
<1>12. ASSUME Drift PROVE CloudInv'
  BY <1>12, <1>mem, <1>checkpoint, <1>policies DEF Drift
<1>13. ASSUME Start PROVE CloudInv'
  BY <1>13, StartMoves, <1>mem, <1>checkpoint, <1>policies
<1>14. ASSUME Mark PROVE CloudInv'
  BY <1>14, MarkMoves, <1>mem, <1>checkpoint, <1>policies
<1>15. ASSUME CreateApp PROVE CloudInv'
  BY <1>15, CreateAppMoves, <1>mem, <1>checkpoint, <1>policies
<1>16. ASSUME RequestToken PROVE CloudInv'
  BY <1>16, <1>mem, <1>checkpoint, <1>policies DEF RequestToken
<1>17. ASSUME WriteFinal PROVE CloudInv'
  BY <1>17, <1>mem, <1>checkpoint, <1>policies DEF WriteFinal
<1>18. ASSUME ReadCloud PROVE CloudInv'
  BY <1>18, <1>mem, <1>checkpoint, <1>policies DEF ReadCloud
<1>19. ASSUME RenameApp PROVE CloudInv'
  BY <1>19, <1>mem, <1>checkpoint, <1>policies DEF RenameApp
<1>20. ASSUME Stop PROVE CloudInv'
  BY <1>20, <1>mem, <1>checkpoint, <1>policies DEF Stop
<1>21. ASSUME Authorize PROVE CloudInv'
  BY <1>21, <1>mem, <1>checkpoint, <1>policies DEF Authorize, Configured
<1> QED
  BY <1>1, <1>2, <1>3, <1>4, <1>5, <1>6, <1>7, <1>8, <1>9, <1>10, <1>11, <1>12,
     <1>13, <1>14, <1>15, <1>16, <1>17, <1>18, <1>19, <1>20, <1>21
     DEF Next, SetupStep, Create, Finish, Reconcile, Others, ServiceCommand

(* The policy of a run is the local one.                                   *)
LEMMA PolicyStep ==
    ASSUME SetupInv, Next
    PROVE  PolicyInv'
<1> USE DEF SetupInv, Continue, Goto, End, Only, Note, Pass, AtCloudflare, Put,
            Refuse, AfterToken, AtLaunchd, UseService, Loaded, Unloaded,
            Installed, policies, remote, service, process, Memories,
            Checkpoints, NoMemory, NoCheckpoint, InitialCheckpoint, RunInv,
            PathInv, PolicyInv, First, Prepare, Register, Finishing,
            Reconciling, Either, CommandPc
<1>mem. mem \in Memories
  BY DEF TypeInvariant
<1>checkpoint. checkpoint \in Checkpoints
  BY DEF TypeInvariant
<1>1. ASSUME \/ Prerequisites \/ EnsureNamespace \/ SaveNamespace
               \/ EnsureQueue \/ SaveQueue \/ DeployRelay
      PROVE  PolicyInv'
  BY <1>1, <1>mem, <1>checkpoint
     DEF Prerequisites, EnsureNamespace, SaveNamespace, EnsureQueue, SaveQueue,
         DeployRelay
<1>2. ASSUME PersistCode PROVE PolicyInv'
  BY <1>2, <1>mem, <1>checkpoint DEF PersistCode
<1>3. ASSUME PersistApp PROVE PolicyInv'
  BY <1>3, <1>mem, <1>checkpoint DEF PersistApp
<1>4. ASSUME RelaySecret PROVE PolicyInv'
  BY <1>4, <1>mem, <1>checkpoint DEF RelaySecret
<1>5. ASSUME Convert PROVE PolicyInv'
  BY <1>5, <1>mem, <1>checkpoint DEF Convert
<1>6. ASSUME ValidateToken \/ Publish \/ VerifyPolicy \/ Remove PROVE PolicyInv'
  BY <1>6, <1>mem, <1>checkpoint
     DEF ValidateToken, Publish, VerifyPolicy, Remove
<1>7. ASSUME Unload \/ WritePlist \/ Bootstrap \/ Diagnose PROVE PolicyInv'
  BY <1>7, <1>mem, <1>checkpoint DEF Unload, WritePlist, Bootstrap, Diagnose
<1>8. ASSUME Narrow \/ ConfigureHook \/ EnsureRelay PROVE PolicyInv'
  BY <1>8, <1>mem, <1>checkpoint DEF Narrow, ConfigureHook, EnsureRelay
<1>9. ASSUME \/ ServiceStart \/ ServiceStop \/ ServiceUninstall
               \/ ServiceInstall \/ DaemonFails
      PROVE  PolicyInv'
  BY <1>9, <1>mem, <1>checkpoint
     DEF ServiceStart, ServiceStop, ServiceUninstall, ServiceInstall,
         DaemonFails
<1>10. ASSUME AuthorizeCloud \/ Authorized PROVE PolicyInv'
  BY <1>10, <1>mem, <1>checkpoint DEF AuthorizeCloud, Authorized
<1>11. ASSUME Propagate \/ StartDaemon PROVE PolicyInv'
  BY <1>11, <1>mem, <1>checkpoint DEF Propagate, StartDaemon
<1>12. ASSUME Drift PROVE PolicyInv'
  BY <1>12, <1>mem, <1>checkpoint DEF Drift
<1>13. ASSUME Start PROVE PolicyInv'
  BY <1>13, StartMoves, <1>mem, <1>checkpoint
<1>14. ASSUME Mark PROVE PolicyInv'
  BY <1>14, MarkMoves, <1>mem, <1>checkpoint
<1>15. ASSUME CreateApp PROVE PolicyInv'
  BY <1>15, CreateAppMoves, <1>mem, <1>checkpoint
<1>16. ASSUME RequestToken PROVE PolicyInv'
  BY <1>16, <1>mem, <1>checkpoint DEF RequestToken
<1>17. ASSUME WriteFinal PROVE PolicyInv'
  BY <1>17, <1>mem, <1>checkpoint DEF WriteFinal
<1>18. ASSUME ReadCloud PROVE PolicyInv'
  BY <1>18, <1>mem, <1>checkpoint DEF ReadCloud
<1>19. ASSUME RenameApp PROVE PolicyInv'
  BY <1>19, <1>mem, <1>checkpoint DEF RenameApp
<1>20. ASSUME Stop PROVE PolicyInv'
  BY <1>20, <1>mem, <1>checkpoint DEF Stop
<1>21. ASSUME Authorize PROVE PolicyInv'
  BY <1>21, <1>mem, <1>checkpoint DEF Authorize, Configured
<1> QED
  BY <1>1, <1>2, <1>3, <1>4, <1>5, <1>6, <1>7, <1>8, <1>9, <1>10, <1>11, <1>12,
     <1>13, <1>14, <1>15, <1>16, <1>17, <1>18, <1>19, <1>20, <1>21
     DEF Next, SetupStep, Create, Finish, Reconcile, Others, ServiceCommand

(* Nothing is created twice.                                               *)
LEMMA CountStep ==
    ASSUME SetupInv, Next
    PROVE  CountInv'
<1> USE DEF SetupInv, Continue, Goto, End, Only, Note, Pass, AtCloudflare, Put,
            Refuse, AfterToken, AtLaunchd, UseService, Loaded, Unloaded,
            Installed, policies, remote, service, process, Memories,
            Checkpoints, NoMemory, NoCheckpoint, InitialCheckpoint, RunInv,
            PathInv, StageInv, AppInv, FinalInv, CountInv, KnownApp, HasFinal,
            NoFinal, First, Prepare, Register, Finishing, Reconciling, Either,
            CommandPc
<1>mem. mem \in Memories
  BY DEF TypeInvariant
<1>checkpoint. checkpoint \in Checkpoints
  BY DEF TypeInvariant
<1>final. FinalInv'
  BY FinalStep
<1>github. github \in [apps : Nat, spent : SUBSET Nat, slug : Nat, hook : Nat]
  BY DEF TypeInvariant
<1>used. used \in [stops : Nat, lost : Nat, drifts : Nat, repositories : Nat,
                   services : Nat, checked : BOOLEAN]
  BY DEF TypeInvariant
<1>cloudflare. cloudflare \in [namespaces : Nat, queues : Nat, relay : Nat \cup {-1},
                               tokens : Nat, valid : SUBSET Nat]
  BY DEF TypeInvariant
<1>1. ASSUME \/ Prerequisites \/ EnsureNamespace \/ SaveNamespace
               \/ EnsureQueue \/ SaveQueue \/ DeployRelay
      PROVE  CountInv'
  BY <1>1, <1>mem, <1>checkpoint, <1>github, <1>used, <1>cloudflare
     DEF Prerequisites, EnsureNamespace, SaveNamespace, EnsureQueue, SaveQueue,
         DeployRelay
<1>2. ASSUME PersistCode PROVE CountInv'
  BY <1>2, <1>mem, <1>checkpoint, <1>github, <1>used, <1>cloudflare
     DEF PersistCode
<1>3. ASSUME PersistApp PROVE CountInv'
  BY <1>3, <1>mem, <1>checkpoint, <1>github, <1>used, <1>cloudflare
     DEF PersistApp
<1>4. ASSUME RelaySecret PROVE CountInv'
  BY <1>4, <1>mem, <1>checkpoint, <1>github, <1>used, <1>cloudflare
     DEF RelaySecret
<1>5. ASSUME Convert PROVE CountInv'
  BY <1>5, <1>mem, <1>checkpoint, <1>github, <1>used, <1>cloudflare DEF Convert
<1>6. ASSUME ValidateToken \/ Publish \/ VerifyPolicy \/ Remove PROVE CountInv'
  BY <1>6, <1>mem, <1>checkpoint, <1>github, <1>used, <1>cloudflare
     DEF ValidateToken, Publish, VerifyPolicy, Remove
<1>7. ASSUME Unload \/ WritePlist \/ Bootstrap \/ Diagnose PROVE CountInv'
  BY <1>7, <1>mem, <1>checkpoint, <1>github, <1>used, <1>cloudflare
     DEF Unload, WritePlist, Bootstrap, Diagnose
<1>8. ASSUME Narrow \/ ConfigureHook \/ EnsureRelay PROVE CountInv'
  BY <1>8, <1>mem, <1>checkpoint, <1>github, <1>used, <1>cloudflare
     DEF Narrow, ConfigureHook, EnsureRelay
<1>9. ASSUME \/ ServiceStart \/ ServiceStop \/ ServiceUninstall
               \/ ServiceInstall \/ DaemonFails
      PROVE  CountInv'
  BY <1>9, <1>mem, <1>checkpoint, <1>github, <1>used, <1>cloudflare
     DEF ServiceStart, ServiceStop, ServiceUninstall, ServiceInstall,
         DaemonFails
<1>10. ASSUME AuthorizeCloud \/ Authorized PROVE CountInv'
  BY <1>10, <1>mem, <1>checkpoint, <1>github, <1>used, <1>cloudflare
     DEF AuthorizeCloud, Authorized
<1>11. ASSUME Propagate \/ StartDaemon PROVE CountInv'
  BY <1>11, <1>mem, <1>checkpoint, <1>github, <1>used, <1>cloudflare
     DEF Propagate, StartDaemon
<1>12. ASSUME Drift PROVE CountInv'
  BY <1>12, <1>mem, <1>checkpoint, <1>github, <1>used, <1>cloudflare DEF Drift
<1>13. ASSUME Start PROVE CountInv'
  BY <1>13, StartMoves, <1>mem, <1>checkpoint, <1>github, <1>used, <1>cloudflare
<1>14. ASSUME Mark PROVE CountInv'
  BY <1>14, MarkMoves, <1>mem, <1>checkpoint, <1>github, <1>used, <1>cloudflare
<1>15. ASSUME CreateApp PROVE CountInv'
  <2>1. pc = "app" /\ ~HasFinal
    BY <1>15, CreateAppMoves
  <2>2. ~KnownApp => github.apps <= used.lost
    OBVIOUS
  <2> QED BY <1>15, <1>github, <1>used, <2>1, <2>2, CreateAppMoves
<1>16. ASSUME RequestToken PROVE CountInv'
  <2>1. CASE mem.reconciles
    <3>1. mem'.reconciles
      BY <1>16, <1>mem, <2>1 DEF RequestToken
    <3>2. HasFinal'
      BY <1>final, <3>1
    <3>3. UNCHANGED <<cloudflare.namespaces, cloudflare.queues, github, used.lost>>
      BY <1>16, <1>cloudflare, <1>used DEF RequestToken
    <3> QED BY <3>2, <3>3
  <2>2. CASE ~mem.reconciles
    <3>1. /\ UNCHANGED <<config, local, cloudflare.namespaces, cloudflare.queues,
                       github, used.lost>>
          /\ checkpoint'.code = checkpoint.code /\ checkpoint'.app = checkpoint.app
          /\ pc # "callback"
      BY <1>16, <1>cloudflare, <1>used, <1>checkpoint, <2>2 DEF RequestToken
    <3> QED BY <3>1
  <2> QED BY <2>1, <2>2
<1>17. ASSUME WriteFinal PROVE CountInv'
  BY <1>17, <1>mem, <1>checkpoint, <1>github, <1>used, <1>cloudflare
     DEF WriteFinal
<1>18. ASSUME ReadCloud PROVE CountInv'
  <2>1. HasFinal'
    BY <1>18, <1>mem, <1>final DEF ReadCloud
  <2> QED BY <1>18, <2>1 DEF ReadCloud
<1>19. ASSUME RenameApp PROVE CountInv'
  <2>1. HasFinal'
    BY <1>19, <1>mem, <1>final DEF RenameApp
  <2> QED BY <1>19, <2>1 DEF RenameApp
<1>20. ASSUME Stop PROVE CountInv'
  BY <1>20, <1>mem, <1>checkpoint, <1>github, <1>used, <1>cloudflare DEF Stop
<1>21. ASSUME Authorize PROVE CountInv'
  <2>1. HasFinal'
    BY <1>21, <1>mem, <1>final DEF Authorize
  <2> QED BY <1>21, <2>1 DEF Authorize
<1> QED
  BY <1>1, <1>2, <1>3, <1>4, <1>5, <1>6, <1>7, <1>8, <1>9, <1>10, <1>11, <1>12,
     <1>13, <1>14, <1>15, <1>16, <1>17, <1>18, <1>19, <1>20, <1>21
     DEF Next, SetupStep, Create, Finish, Reconcile, Others, ServiceCommand

-----------------------------------------------------------------------------
(* Type correctness, in five parts.                                        *)
Configs == [app : Nat, slug : Nat, token : Nat]
NotesTyped == checkpoint \in Checkpoints /\ config \in Configs /\ daemon \in Configs
PoliciesTyped ==
    /\ local \in Policies \cup {NoPolicy} /\ cloud \in Policies \cup {NoPolicy}
    /\ visible \in Policies \cup {NoPolicy} /\ journal \in BOOLEAN
RemoteTyped ==
    /\ cloudflare \in [namespaces : Nat, queues : Nat, relay : Nat \cup {-1},
                       tokens : Nat, valid : SUBSET Nat]
    /\ github \in [apps : Nat, spent : SUBSET Nat, slug : Nat, hook : Nat]
Pcs == SetupPc \cup CommandPc \cup {"idle"}
StatusTyped == status \in {"none", "running", "failed", "finished", "changed"}
ProcessTyped == pc \in Pcs /\ mem \in Memories /\ StatusTyped
Agents == [plist : BOOLEAN, loaded : BOOLEAN]
Counters == [stops : Nat, lost : Nat, drifts : Nat, repositories : Nat,
             services : Nat, checked : BOOLEAN]
RestTyped == agent \in Agents /\ used \in Counters

(* They are the type invariant.                                            *)
LEMMA Typed ==
    TypeInvariant <=> /\ NotesTyped /\ PoliciesTyped /\ RemoteTyped /\ ProcessTyped
                      /\ RestTyped
BY DEF TypeInvariant, NotesTyped, PoliciesTyped, RemoteTyped, ProcessTyped,
       RestTyped, Checkpoints, Configs, Memories, Agents, Counters,
       Pcs, StatusTyped

(* What the steps do to the counters.                                      *)
LEMMA Counted ==
    ASSUME NEW u \in Counters, NEW b \in BOOLEAN
    PROVE  /\ [u EXCEPT !.services = @ + 1, !.checked = b] \in Counters
           /\ [u EXCEPT !.repositories = @ + 1, !.checked = b] \in Counters
           /\ [u EXCEPT !.drifts = @ + 1, !.checked = b] \in Counters
           /\ [u EXCEPT !.stops = @ + 1, !.lost = @ + 1] \in Counters
           /\ [u EXCEPT !.stops = @ + 1] \in Counters
           /\ [u EXCEPT !.checked = b] \in Counters
<1> DEFINE s == [u EXCEPT !.services = @ + 1]
<1> DEFINE r == [u EXCEPT !.repositories = @ + 1]
<1> DEFINE d == [u EXCEPT !.drifts = @ + 1]
<1> DEFINE t == [u EXCEPT !.stops = @ + 1]
<1>1. s \in Counters /\ r \in Counters /\ d \in Counters /\ t \in Counters
  BY DEF Counters
<1>2. /\ [u EXCEPT !.services = @ + 1, !.checked = b] = [s EXCEPT !.checked = b]
      /\ [u EXCEPT !.repositories = @ + 1, !.checked = b] = [r EXCEPT !.checked = b]
      /\ [u EXCEPT !.drifts = @ + 1, !.checked = b] = [d EXCEPT !.checked = b]
      /\ [u EXCEPT !.stops = @ + 1, !.lost = @ + 1] = [t EXCEPT !.lost = @ + 1]
  BY DEF Counters
<1> HIDE DEF s, r, d
<1>3. \A v \in Counters : [v EXCEPT !.checked = b] \in Counters
  BY DEF Counters
<1>4. [t EXCEPT !.lost = @ + 1] \in Counters
  <2> HIDE DEF t
  <2> QED BY <1>1 DEF Counters
<1> QED BY <1>1, <1>2, <1>3, <1>4

(* The checkpoint and the configurations.                                  *)
LEMMA NotesStep ==
    ASSUME SetupInv, Next
    PROVE  NotesTyped'
<1> USE DEF Continue, Goto, End, Only, Note, Pass, AtCloudflare, Put, Refuse,
            AfterToken, AtLaunchd, UseService, Loaded, Unloaded, Installed,
            policies, remote, service, process, NotesTyped, RemoteTyped,
            Configs, Checkpoints, NoConfig
<1>typed. /\ NotesTyped /\ PoliciesTyped /\ RemoteTyped /\ ProcessTyped /\ RestTyped
  BY Typed DEF SetupInv
<1>inv. SetupInv
  OBVIOUS
<1>1. ASSUME Start PROVE NotesTyped'
  <2>1. /\ checkpoint' = checkpoint \/ checkpoint' = InitialCheckpoint
        /\ UNCHANGED <<config, service>>
    BY <1>1, StartMoves
  <2>2. InitialCheckpoint \in Checkpoints
    <3>1. NoCheckpoint \in Checkpoints
      BY DEF NoCheckpoint
    <3>2. \A c \in Checkpoints : [c EXCEPT !.saved = TRUE] \in Checkpoints
      OBVIOUS
    <3> QED BY <3>1, <3>2 DEF InitialCheckpoint
  <2> QED BY <1>typed, <2>1, <2>2
<1>2. ASSUME Prerequisites \/ EnsureNamespace \/ SaveNamespace PROVE NotesTyped'
  BY <1>2, <1>typed, <1>inv DEF Prerequisites, EnsureNamespace, SaveNamespace
<1>3. ASSUME EnsureQueue \/ SaveQueue \/ DeployRelay PROVE NotesTyped'
  BY <1>3, <1>typed, <1>inv DEF EnsureQueue, SaveQueue, DeployRelay
<1>4. ASSUME CreateApp PROVE NotesTyped'
  BY <1>4, <1>typed, CreateAppMoves
<1>5. ASSUME PersistCode PROVE NotesTyped'
  BY <1>5, <1>typed, <1>inv DEF PersistCode
<1>6. ASSUME Convert \/ RelaySecret \/ ValidateToken PROVE NotesTyped'
  BY <1>6, <1>typed, <1>inv DEF Convert, RelaySecret, ValidateToken
<1>7. ASSUME PersistApp PROVE NotesTyped'
  BY <1>7, <1>typed, <1>inv DEF PersistApp
<1>8. ASSUME Mark PROVE NotesTyped'
  <2>1. /\ checkpoint' = [checkpoint EXCEPT !.stage = @ + 1]
        /\ checkpoint.stage + 1 \in 0..8 /\ UNCHANGED <<config, service>>
    BY <1>8, MarkMoves
  <2> QED BY <1>typed, <2>1
<1>9. ASSUME RequestToken PROVE NotesTyped'
  BY <1>9, <1>typed, <1>inv DEF RequestToken
<1>10. ASSUME Publish \/ VerifyPolicy \/ WriteFinal PROVE NotesTyped'
  BY <1>10, <1>typed, <1>inv DEF Publish, VerifyPolicy, WriteFinal
<1>11. ASSUME Unload \/ WritePlist \/ Bootstrap PROVE NotesTyped'
  BY <1>11, <1>typed, <1>inv DEF Unload, WritePlist, Bootstrap
<1>12. ASSUME Diagnose \/ ReadCloud \/ Narrow PROVE NotesTyped'
  BY <1>12, <1>typed, <1>inv DEF Diagnose, ReadCloud, Narrow
<1>13. ASSUME Remove PROVE NotesTyped'
  BY <1>13, <1>typed, <1>inv DEF Remove, NoCheckpoint
<1>14. ASSUME RenameApp \/ ConfigureHook \/ EnsureRelay PROVE NotesTyped'
  BY <1>14, <1>typed, <1>inv DEF RenameApp, ConfigureHook, EnsureRelay
<1>15. ASSUME Stop \/ ServiceStart \/ ServiceStop PROVE NotesTyped'
  BY <1>15, <1>typed, <1>inv DEF Stop, ServiceStart, ServiceStop
<1>16. ASSUME ServiceUninstall \/ ServiceInstall \/ DaemonFails PROVE NotesTyped'
  BY <1>16, <1>typed, <1>inv DEF ServiceUninstall, ServiceInstall, DaemonFails
<1>17. ASSUME Authorize \/ Drift \/ AuthorizeCloud PROVE NotesTyped'
  BY <1>17, <1>typed, <1>inv DEF Authorize, Drift, AuthorizeCloud
<1>18. ASSUME Authorized \/ Propagate \/ StartDaemon PROVE NotesTyped'
  BY <1>18, <1>typed, <1>inv DEF Authorized, Propagate, StartDaemon
<1> QED
  BY <1>1, <1>2, <1>3, <1>4, <1>5, <1>6, <1>7, <1>8, <1>9, <1>10, <1>11, <1>12,
     <1>13, <1>14, <1>15, <1>16, <1>17, <1>18
     DEF Next, SetupStep, Create, Finish, Reconcile, Others, ServiceCommand

(* The policies.                                                           *)
LEMMA PoliciesStep ==
    ASSUME SetupInv, Next
    PROVE  PoliciesTyped'
<1> USE DEF Continue, Goto, End, Only, Note, Pass, AtCloudflare, Put, Refuse,
            AfterToken, AtLaunchd, UseService, Loaded, Unloaded, Installed,
            policies, remote, service, process, PoliciesTyped
<1>typed. /\ NotesTyped /\ PoliciesTyped /\ RemoteTyped /\ ProcessTyped /\ RestTyped
  BY Typed DEF SetupInv
<1>inv. SetupInv
  OBVIOUS
<1>policies. mem.policy \in Policies /\ mem.policy # NoPolicy /\ EmptyPolicy # NoPolicy
  BY <1>typed, PolicyKinds DEF Memories, ProcessTyped
<1>1. ASSUME Start PROVE PoliciesTyped'
  BY <1>1, <1>typed, StartMoves
<1>2. ASSUME Prerequisites \/ EnsureNamespace \/ SaveNamespace
             \/ EnsureQueue \/ SaveQueue \/ DeployRelay
      PROVE  PoliciesTyped'
  BY <1>2, <1>inv, <1>typed, <1>policies
     DEF Prerequisites, EnsureNamespace, SaveNamespace, EnsureQueue, SaveQueue,
         DeployRelay
<1>3. ASSUME CreateApp PROVE PoliciesTyped'
  BY <1>3, <1>typed, CreateAppMoves
<1>4. ASSUME PersistCode \/ Convert \/ PersistApp
             \/ RelaySecret \/ ValidateToken \/ RequestToken
      PROVE  PoliciesTyped'
  BY <1>4, <1>inv, <1>typed, <1>policies
     DEF PersistCode, Convert, PersistApp, RelaySecret, ValidateToken,
         RequestToken
<1>5. ASSUME Mark PROVE PoliciesTyped'
  BY <1>5, <1>typed, MarkMoves
<1>6. ASSUME Publish PROVE PoliciesTyped'
  BY <1>6, <1>typed, PolicyKinds DEF Publish
<1>7. ASSUME VerifyPolicy \/ Unload \/ WritePlist
             \/ Bootstrap \/ Diagnose \/ Remove
      PROVE  PoliciesTyped'
  BY <1>7, <1>inv, <1>typed, <1>policies
     DEF VerifyPolicy, Unload, WritePlist, Bootstrap, Diagnose, Remove
<1>8. ASSUME WriteFinal PROVE PoliciesTyped'
  <2>1. /\ local' \in {EmptyPolicy, local}
        /\ UNCHANGED <<cloud, visible, journal>>
    BY <1>8 DEF WriteFinal
  <2> QED BY <1>typed, <2>1, PolicyKinds
<1>9. ASSUME ReadCloud PROVE PoliciesTyped'
  <2>1. local' \in Policies
    BY <1>9, LocalWritten
  <2>2. cloud' = cloud /\ visible' = visible
        /\ (journal' = journal \/ journal' \in BOOLEAN)
    BY <1>9 DEF ReadCloud
  <2> QED BY <1>typed, <2>1, <2>2
<1>10. ASSUME Narrow \/ RenameApp \/ ConfigureHook
             \/ EnsureRelay \/ Stop \/ ServiceStart
      PROVE  PoliciesTyped'
  BY <1>10, <1>inv, <1>typed, <1>policies
     DEF Narrow, RenameApp, ConfigureHook, EnsureRelay, Stop, ServiceStart
<1>11. ASSUME ServiceStop \/ ServiceUninstall \/ ServiceInstall
             \/ DaemonFails \/ Drift \/ AuthorizeCloud
      PROVE  PoliciesTyped'
  BY <1>11, <1>inv, <1>typed, <1>policies
     DEF ServiceStop, ServiceUninstall, ServiceInstall, DaemonFails, Drift,
         AuthorizeCloud
<1>12. ASSUME Authorize PROVE PoliciesTyped'
  <2>1. local' \in Policies
    BY <1>12, LocalWritten
  <2>2. cloud' = cloud /\ visible' = visible
        /\ (journal' = journal \/ journal' \in BOOLEAN)
    BY <1>12 DEF Authorize
  <2> QED BY <1>typed, <2>1, <2>2
<1>13. ASSUME Authorized \/ Propagate \/ StartDaemon PROVE PoliciesTyped'
  BY <1>13, <1>inv, <1>typed, <1>policies DEF Authorized, Propagate, StartDaemon
<1> QED
  BY <1>1, <1>2, <1>3, <1>4, <1>5, <1>6, <1>7, <1>8, <1>9, <1>10, <1>11, <1>12,
     <1>13
     DEF Next, SetupStep, Create, Finish, Reconcile, Others, ServiceCommand

(* What there is at Cloudflare and GitHub.                                 *)
LEMMA RemoteStep ==
    ASSUME SetupInv, Next
    PROVE  RemoteTyped'
<1> USE DEF Continue, Goto, End, Only, Note, Pass, AtCloudflare, Put, Refuse,
            AfterToken, AtLaunchd, UseService, Loaded, Unloaded, Installed,
            policies, remote, service, process, NotesTyped, RemoteTyped,
            Configs, Checkpoints
<1>typed. /\ NotesTyped /\ PoliciesTyped /\ RemoteTyped /\ ProcessTyped /\ RestTyped
  BY Typed DEF SetupInv
<1>inv. SetupInv
  OBVIOUS
<1>1. ASSUME Start PROVE RemoteTyped'
  BY <1>1, <1>typed, StartMoves
<1>2. ASSUME Prerequisites \/ EnsureNamespace \/ SaveNamespace
             \/ EnsureQueue \/ SaveQueue \/ DeployRelay
      PROVE  RemoteTyped'
  BY <1>2, <1>inv, <1>typed
     DEF Prerequisites, EnsureNamespace, SaveNamespace, EnsureQueue, SaveQueue,
         DeployRelay
<1>3. ASSUME CreateApp PROVE RemoteTyped'
  <2>1. \/ github' = github
        \/ github' = [github EXCEPT !.apps = @ + 1, !.hook = github.apps + 1]
    BY <1>3 DEF CreateApp
  <2>2. cloudflare' = cloudflare
    BY <1>3 DEF CreateApp
  <2> DEFINE g == [github EXCEPT !.apps = @ + 1]
  <2>3. /\ g \in [apps : Nat, spent : SUBSET Nat, slug : Nat, hook : Nat]
        /\ github.apps + 1 \in Nat
        /\ [github EXCEPT !.apps = @ + 1, !.hook = github.apps + 1]
             = [g EXCEPT !.hook = github.apps + 1]
    BY <1>typed
  <2> HIDE DEF g
  <2>4. [g EXCEPT !.hook = github.apps + 1]
            \in [apps : Nat, spent : SUBSET Nat, slug : Nat, hook : Nat]
    BY <2>3
  <2> QED BY <1>typed, <2>1, <2>2, <2>3, <2>4
<1>4. ASSUME PersistCode \/ Convert \/ PersistApp
             \/ RelaySecret \/ ValidateToken \/ Publish
      PROVE  RemoteTyped'
  BY <1>4, <1>inv, <1>typed
     DEF PersistCode, Convert, PersistApp, RelaySecret, ValidateToken, Publish
<1>5. ASSUME Mark PROVE RemoteTyped'
  BY <1>5, <1>typed, MarkMoves
<1>6. ASSUME RequestToken PROVE RemoteTyped'
  <2> DEFINE token == cloudflare.tokens + 1
  <2>1. /\ github' = github
        /\ \E v \in {cloudflare.valid, cloudflare.valid \cup {token}} :
              cloudflare' = [cloudflare EXCEPT !.tokens = token, !.valid = v]
    BY <1>6 DEF RequestToken
  <2> DEFINE c == [cloudflare EXCEPT !.tokens = token]
  <2>2. /\ token \in Nat /\ cloudflare.valid \in SUBSET Nat
        /\ c \in [namespaces : Nat, queues : Nat, relay : Nat \cup {-1},
                  tokens : Nat, valid : SUBSET Nat]
        /\ \A v : [cloudflare EXCEPT !.tokens = token, !.valid = v]
                    = [c EXCEPT !.valid = v]
    BY <1>typed
  <2> HIDE DEF c, token
  <2>3. \A v \in SUBSET Nat : [c EXCEPT !.valid = v]
            \in [namespaces : Nat, queues : Nat, relay : Nat \cup {-1},
                 tokens : Nat, valid : SUBSET Nat]
    BY <2>2
  <2>4. cloudflare.valid \in SUBSET Nat /\ cloudflare.valid \cup {token} \in SUBSET Nat
    BY <2>2
  <2> QED BY <1>typed, <2>1, <2>2, <2>3, <2>4
<1>7. ASSUME VerifyPolicy \/ WriteFinal \/ Unload
             \/ WritePlist \/ Bootstrap \/ Diagnose
      PROVE  RemoteTyped'
  BY <1>7, <1>inv, <1>typed
     DEF VerifyPolicy, WriteFinal, Unload, WritePlist, Bootstrap, Diagnose
<1>8. ASSUME Remove \/ ReadCloud \/ Narrow
             \/ RenameApp \/ ConfigureHook \/ EnsureRelay
      PROVE  RemoteTyped'
  BY <1>8, <1>inv, <1>typed
     DEF Remove, ReadCloud, Narrow, RenameApp, ConfigureHook, EnsureRelay
<1>9. ASSUME Stop \/ ServiceStart \/ ServiceStop
             \/ ServiceUninstall \/ ServiceInstall \/ DaemonFails
      PROVE  RemoteTyped'
  BY <1>9, <1>inv, <1>typed
     DEF Stop, ServiceStart, ServiceStop, ServiceUninstall, ServiceInstall,
         DaemonFails
<1>10. ASSUME Authorize \/ Drift \/ AuthorizeCloud
             \/ Authorized \/ Propagate \/ StartDaemon
      PROVE  RemoteTyped'
  BY <1>10, <1>inv, <1>typed
     DEF Authorize, Drift, AuthorizeCloud, Authorized, Propagate, StartDaemon
<1> QED
  BY <1>1, <1>2, <1>3, <1>4, <1>5, <1>6, <1>7, <1>8, <1>9, <1>10
     DEF Next, SetupStep, Create, Finish, Reconcile, Others, ServiceCommand

(* All labels are places of a command.                                     *)
LEMMA Labels ==
    /\ "prerequisites" \in Pcs /\ "kv" \in Pcs /\ "kvCreated" \in Pcs
    /\ "queue" \in Pcs /\ "queueCreated" \in Pcs /\ "deploy" \in Pcs
    /\ "app" \in Pcs /\ "callback" \in Pcs /\ "convert" \in Pcs
    /\ "converted" \in Pcs /\ "secret" \in Pcs /\ "token" \in Pcs
    /\ "ask" \in Pcs /\ "publish" \in Pcs /\ "verify" \in Pcs
    /\ "final" \in Pcs /\ "readCloud" \in Pcs /\ "narrow" \in Pcs
    /\ "rename" \in Pcs /\ "hook" \in Pcs /\ "relay" \in Pcs
    /\ "unload" \in Pcs /\ "plist" \in Pcs /\ "load" \in Pcs
    /\ "diagnose" \in Pcs /\ "mark" \in Pcs /\ "remove" \in Pcs
    /\ "idle" \in Pcs /\ "repositoryPut" \in Pcs
    /\ "repositoryVerify" \in Pcs
BY SetupPlaces DEF Pcs, CommandPc, First, Prepare, Register, Finishing,
                   Reconciling, Either

(* What the steps do to the memory.                                        *)
LEMMA MemoryKept ==
    ASSUME NEW m \in Memories, NEW p \in Policies
    PROVE  /\ [m EXCEPT !.policy = p] \in Memories
           /\ [m EXCEPT !.fresh = TRUE] \in Memories
           /\ [m EXCEPT !.reconciles = TRUE] \in Memories
           /\ [m EXCEPT !.left = {"config", "policy"}] \in Memories
           /\ \A f : [m EXCEPT !.left = @ \ {f}] \in Memories
           /\ NoMemory \in Memories
BY PolicyKinds DEF Memories

(* The place of the command.                                               *)
LEMMA PlaceStep ==
    ASSUME SetupInv, Next
    PROVE  (pc \in Pcs)'
<1> USE DEF Continue, Goto, End, Only, Note, Pass, AtCloudflare, Put, Refuse,
            AfterToken, AtLaunchd, UseService, Loaded, Unloaded, Installed,
            policies, remote, service, process, ProcessTyped
<1>typed. /\ NotesTyped /\ PoliciesTyped /\ RemoteTyped /\ ProcessTyped /\ RestTyped
  BY Typed DEF SetupInv
<1>inv. SetupInv
  OBVIOUS
<1>1. ASSUME Start PROVE (pc \in Pcs)'
  BY <1>1, StartMoves, Labels
<1>2. ASSUME Prerequisites \/ EnsureNamespace \/ SaveNamespace
             \/ EnsureQueue \/ SaveQueue \/ DeployRelay
      PROVE  (pc \in Pcs)'
  BY <1>2, <1>typed, Labels
     DEF Prerequisites, EnsureNamespace, SaveNamespace, EnsureQueue, SaveQueue,
         DeployRelay
<1>3. ASSUME CreateApp PROVE (pc \in Pcs)'
  BY <1>3, CreateAppMoves, Labels
<1>4. ASSUME PersistCode \/ Convert \/ PersistApp
             \/ RelaySecret \/ ValidateToken \/ RequestToken
      PROVE  (pc \in Pcs)'
  BY <1>4, <1>typed, Labels
     DEF PersistCode, Convert, PersistApp, RelaySecret, ValidateToken,
         RequestToken
<1>5. ASSUME Mark PROVE (pc \in Pcs)'
  BY <1>5, MarkMoves, Labels
<1>6. ASSUME Publish \/ VerifyPolicy \/ WriteFinal
             \/ Unload \/ WritePlist \/ Bootstrap
      PROVE  (pc \in Pcs)'
  BY <1>6, <1>typed, Labels
     DEF Publish, VerifyPolicy, WriteFinal, Unload, WritePlist, Bootstrap
<1>7. ASSUME Diagnose \/ Remove \/ ReadCloud
             \/ Narrow \/ RenameApp \/ ConfigureHook
      PROVE  (pc \in Pcs)'
  BY <1>7, <1>typed, Labels
     DEF Diagnose, Remove, ReadCloud, Narrow, RenameApp, ConfigureHook
<1>8. ASSUME EnsureRelay \/ Stop \/ ServiceStart
             \/ ServiceStop \/ ServiceUninstall \/ ServiceInstall
      PROVE  (pc \in Pcs)'
  BY <1>8, <1>typed, Labels
     DEF EnsureRelay, Stop, ServiceStart, ServiceStop, ServiceUninstall,
         ServiceInstall
<1>9. ASSUME DaemonFails \/ Authorize \/ Drift
             \/ AuthorizeCloud \/ Authorized \/ Propagate
      PROVE  (pc \in Pcs)'
  BY <1>9, <1>typed, Labels
     DEF DaemonFails, Authorize, Drift, AuthorizeCloud, Authorized, Propagate
<1>10. ASSUME StartDaemon PROVE (pc \in Pcs)'
  BY <1>10, <1>typed, Labels DEF StartDaemon
<1> QED
  BY <1>1, <1>2, <1>3, <1>4, <1>5, <1>6, <1>7, <1>8, <1>9, <1>10
     DEF Next, SetupStep, Create, Finish, Reconcile, Others, ServiceCommand

(* The memory of the command.                                              *)
LEMMA MemoryStep ==
    ASSUME SetupInv, Next
    PROVE  (mem \in Memories)'
<1> USE DEF Continue, Goto, End, Only, Note, Pass, AtCloudflare, Put, Refuse,
            AfterToken, AtLaunchd, UseService, Loaded, Unloaded, Installed,
            policies, remote, service, process, ProcessTyped
<1>typed. /\ NotesTyped /\ PoliciesTyped /\ RemoteTyped /\ ProcessTyped /\ RestTyped
  BY Typed DEF SetupInv
<1>inv. SetupInv
  OBVIOUS
<1>memory. /\ mem \in Memories /\ NoMemory \in Memories
           /\ \A p \in Policies : [mem EXCEPT !.policy = p] \in Memories
           /\ [mem EXCEPT !.fresh = TRUE] \in Memories
           /\ [mem EXCEPT !.reconciles = TRUE] \in Memories
           /\ [mem EXCEPT !.left = {"config", "policy"}] \in Memories
           /\ \A f : [mem EXCEPT !.left = @ \ {f}] \in Memories
  BY <1>typed, MemoryKept, PolicyKinds
<1>1. ASSUME Start PROVE (mem \in Memories)'
  BY <1>1, StartMoves, <1>memory
<1>2. ASSUME Prerequisites \/ EnsureNamespace \/ SaveNamespace
             \/ EnsureQueue \/ SaveQueue \/ DeployRelay
      PROVE  (mem \in Memories)'
  BY <1>2, <1>memory
     DEF Prerequisites, EnsureNamespace, SaveNamespace, EnsureQueue, SaveQueue,
         DeployRelay
<1>3. ASSUME CreateApp PROVE (mem \in Memories)'
  BY <1>3, CreateAppMoves, <1>memory
<1>4. ASSUME PersistCode \/ Convert \/ PersistApp
             \/ RelaySecret \/ ValidateToken \/ RequestToken
      PROVE  (mem \in Memories)'
  BY <1>4, <1>memory
     DEF PersistCode, Convert, PersistApp, RelaySecret, ValidateToken,
         RequestToken
<1>5. ASSUME Mark PROVE (mem \in Memories)'
  BY <1>5, MarkMoves, <1>memory
<1>6. ASSUME Publish \/ VerifyPolicy \/ WriteFinal
             \/ Unload \/ WritePlist \/ Bootstrap
      PROVE  (mem \in Memories)'
  BY <1>6, <1>memory
     DEF Publish, VerifyPolicy, WriteFinal, Unload, WritePlist, Bootstrap
<1>7. ASSUME Diagnose \/ Remove \/ Narrow
             \/ RenameApp \/ ConfigureHook \/ EnsureRelay
      PROVE  (mem \in Memories)'
  BY <1>7, <1>memory
     DEF Diagnose, Remove, Narrow, RenameApp, ConfigureHook, EnsureRelay
<1>8. ASSUME ReadCloud PROVE (mem \in Memories)'
  BY <1>8, LocalWritten, <1>memory
<1>9. ASSUME Stop \/ ServiceStart \/ ServiceStop
             \/ ServiceUninstall \/ ServiceInstall \/ DaemonFails
      PROVE  (mem \in Memories)'
  BY <1>9, <1>memory
     DEF Stop, ServiceStart, ServiceStop, ServiceUninstall, ServiceInstall,
         DaemonFails
<1>10. ASSUME Authorize PROVE (mem \in Memories)'
  BY <1>10, LocalWritten, <1>memory
<1>11. ASSUME Drift \/ AuthorizeCloud \/ Authorized
             \/ Propagate \/ StartDaemon
      PROVE  (mem \in Memories)'
  BY <1>11, <1>memory
     DEF Drift, AuthorizeCloud, Authorized, Propagate, StartDaemon
<1> QED
  BY <1>1, <1>2, <1>3, <1>4, <1>5, <1>6, <1>7, <1>8, <1>9, <1>10, <1>11
     DEF Next, SetupStep, Create, Finish, Reconcile, Others, ServiceCommand

(* How the last setup ended.                                               *)
LEMMA StatusStep ==
    ASSUME SetupInv, Next
    PROVE  StatusTyped'
<1> USE DEF Continue, Goto, End, Only, Note, Pass, AtCloudflare, Put, Refuse,
            AfterToken, AtLaunchd, UseService, Loaded, Unloaded, Installed,
            policies, remote, service, process, ProcessTyped, StatusTyped
<1>typed. /\ NotesTyped /\ PoliciesTyped /\ RemoteTyped /\ ProcessTyped /\ RestTyped
  BY Typed DEF SetupInv
<1>inv. SetupInv
  OBVIOUS
<1>1. ASSUME Start PROVE StatusTyped'
  BY <1>1 DEF Start
<1>2. ASSUME Prerequisites \/ EnsureNamespace \/ SaveNamespace
             \/ EnsureQueue \/ SaveQueue \/ DeployRelay
      PROVE  StatusTyped'
  BY <1>2, <1>typed
     DEF Prerequisites, EnsureNamespace, SaveNamespace, EnsureQueue, SaveQueue,
         DeployRelay
<1>3. ASSUME CreateApp PROVE StatusTyped'
  BY <1>3, <1>typed, CreateAppMoves
<1>4. ASSUME PersistCode \/ Convert \/ PersistApp
             \/ RelaySecret \/ ValidateToken \/ RequestToken
      PROVE  StatusTyped'
  BY <1>4, <1>typed
     DEF PersistCode, Convert, PersistApp, RelaySecret, ValidateToken,
         RequestToken
<1>5. ASSUME Mark PROVE StatusTyped'
  BY <1>5, <1>typed, MarkMoves
<1>6. ASSUME Publish \/ VerifyPolicy \/ WriteFinal
             \/ Unload \/ WritePlist \/ Bootstrap
      PROVE  StatusTyped'
  BY <1>6, <1>typed
     DEF Publish, VerifyPolicy, WriteFinal, Unload, WritePlist, Bootstrap
<1>7. ASSUME Diagnose \/ Remove \/ ReadCloud
             \/ Narrow \/ RenameApp \/ ConfigureHook
      PROVE  StatusTyped'
  BY <1>7, <1>typed
     DEF Diagnose, Remove, ReadCloud, Narrow, RenameApp, ConfigureHook
<1>8. ASSUME EnsureRelay \/ Stop \/ ServiceStart
             \/ ServiceStop \/ ServiceUninstall \/ ServiceInstall
      PROVE  StatusTyped'
  BY <1>8, <1>typed
     DEF EnsureRelay, Stop, ServiceStart, ServiceStop, ServiceUninstall,
         ServiceInstall
<1>9. ASSUME DaemonFails \/ Authorize \/ Drift
             \/ AuthorizeCloud \/ Authorized \/ Propagate
      PROVE  StatusTyped'
  BY <1>9, <1>typed
     DEF DaemonFails, Authorize, Drift, AuthorizeCloud, Authorized, Propagate
<1>10. ASSUME StartDaemon PROVE StatusTyped'
  BY <1>10, <1>typed DEF StartDaemon
<1> QED
  BY <1>1, <1>2, <1>3, <1>4, <1>5, <1>6, <1>7, <1>8, <1>9, <1>10
     DEF Next, SetupStep, Create, Finish, Reconcile, Others, ServiceCommand

(* The agent, and the counters.                                            *)
LEMMA RestStep ==
    ASSUME SetupInv, Next
    PROVE  RestTyped'
<1> USE DEF Continue, Goto, End, Only, Note, Pass, AtCloudflare, Put, Refuse,
            AfterToken, AtLaunchd, UseService, Loaded, Unloaded, Installed,
            policies, remote, service, process, RestTyped, Agents, Counters
<1>typed. /\ NotesTyped /\ PoliciesTyped /\ RemoteTyped /\ ProcessTyped /\ RestTyped
  BY Typed DEF SetupInv
<1>inv. SetupInv
  OBVIOUS
<1>1. ASSUME Start PROVE RestTyped'
  BY <1>1, <1>typed, StartMoves
<1>2. ASSUME Prerequisites \/ EnsureNamespace \/ SaveNamespace PROVE RestTyped'
  BY <1>2, <1>inv, <1>typed DEF Prerequisites, EnsureNamespace, SaveNamespace
<1>3. ASSUME EnsureQueue \/ SaveQueue \/ DeployRelay PROVE RestTyped'
  BY <1>3, <1>inv, <1>typed DEF EnsureQueue, SaveQueue, DeployRelay
<1>4. ASSUME CreateApp PROVE RestTyped'
  BY <1>4, <1>typed, CreateAppMoves
<1>5. ASSUME PersistCode \/ Convert \/ PersistApp PROVE RestTyped'
  BY <1>5, <1>inv, <1>typed DEF PersistCode, Convert, PersistApp
<1>6. ASSUME RelaySecret \/ ValidateToken \/ Publish PROVE RestTyped'
  BY <1>6, <1>inv, <1>typed DEF RelaySecret, ValidateToken, Publish
<1>7. ASSUME Mark PROVE RestTyped'
  BY <1>7, <1>typed, MarkMoves
<1>8. ASSUME RequestToken PROVE RestTyped'
  BY <1>8, <1>inv, <1>typed DEF RequestToken
<1>9. ASSUME VerifyPolicy \/ WriteFinal \/ Unload PROVE RestTyped'
  BY <1>9, <1>inv, <1>typed DEF VerifyPolicy, WriteFinal, Unload
<1>10. ASSUME WritePlist \/ Bootstrap \/ Remove PROVE RestTyped'
  BY <1>10, <1>inv, <1>typed DEF WritePlist, Bootstrap, Remove
<1>11. ASSUME Diagnose PROVE RestTyped'
  <2>1. used \in Counters /\ agent \in Agents
    BY <1>typed
  <2>2. Sound \in BOOLEAN
    BY DEF Sound
  <2>3. used' = [used EXCEPT !.checked = Sound] /\ agent' = agent
    BY <1>11 DEF Diagnose
  <2>4. used' \in Counters
    BY <2>1, <2>2, <2>3, Counted
  <2> QED BY <2>1, <2>3, <2>4
<1>12. ASSUME ReadCloud \/ Narrow \/ RenameApp PROVE RestTyped'
  BY <1>12, <1>inv, <1>typed DEF ReadCloud, Narrow, RenameApp
<1>13. ASSUME ConfigureHook \/ EnsureRelay \/ AuthorizeCloud PROVE RestTyped'
  BY <1>13, <1>inv, <1>typed DEF ConfigureHook, EnsureRelay, AuthorizeCloud
<1>14. ASSUME Stop PROVE RestTyped'
  <2>1. used \in Counters /\ agent \in Agents /\ agent' = agent
    BY <1>14, <1>typed DEF Stop
  <2>2. used' = [used EXCEPT !.stops = @ + 1,
                             !.lost = IF pc = "callback" THEN @ + 1 ELSE @]
    BY <1>14 DEF Stop
  <2>3. CASE pc = "callback"
    <3>1. used' = [used EXCEPT !.stops = @ + 1, !.lost = @ + 1]
      BY <2>2, <2>3
    <3> QED BY <2>1, <3>1, Counted
  <2>4. CASE pc # "callback"
    <3>1. used' = [used EXCEPT !.stops = @ + 1]
      BY <2>1, <2>2, <2>4
    <3> QED BY <2>1, <3>1, Counted
  <2> QED BY <2>3, <2>4
<1>15. ASSUME ServiceStart PROVE RestTyped'
  <2>1. used \in Counters /\ agent \in Agents /\ FALSE \in BOOLEAN
    BY <1>typed
  <2>2. used' = [used EXCEPT !.services = @ + 1, !.checked = FALSE]
    BY <1>15 DEF ServiceStart
  <2>3. used' \in Counters
    BY <2>1, <2>2, Counted
  <2>4. agent' \in Agents
    BY <1>15, <2>1 DEF ServiceStart
  <2> QED BY <2>3, <2>4
<1>16. ASSUME ServiceStop PROVE RestTyped'
  <2>1. used \in Counters /\ agent \in Agents /\ FALSE \in BOOLEAN
    BY <1>typed
  <2>2. used' = [used EXCEPT !.services = @ + 1, !.checked = FALSE]
    BY <1>16 DEF ServiceStop
  <2>3. used' \in Counters
    BY <2>1, <2>2, Counted
  <2>4. agent' \in Agents
    BY <1>16, <2>1 DEF ServiceStop
  <2> QED BY <2>3, <2>4
<1>17. ASSUME ServiceUninstall PROVE RestTyped'
  <2>1. used \in Counters /\ agent \in Agents /\ FALSE \in BOOLEAN
    BY <1>typed
  <2>2. used' = [used EXCEPT !.services = @ + 1, !.checked = FALSE]
    BY <1>17 DEF ServiceUninstall
  <2>3. used' \in Counters
    BY <2>1, <2>2, Counted
  <2>4. agent' \in Agents
    BY <1>17, <2>1 DEF ServiceUninstall
  <2> QED BY <2>3, <2>4
<1>18. ASSUME ServiceInstall PROVE RestTyped'
  <2>1. used \in Counters /\ agent \in Agents /\ FALSE \in BOOLEAN
    BY <1>typed
  <2>2. used' = [used EXCEPT !.services = @ + 1, !.checked = FALSE]
    BY <1>18 DEF ServiceInstall
  <2>3. used' \in Counters
    BY <2>1, <2>2, Counted
  <2>4. agent' \in Agents
    BY <1>18, <2>1 DEF ServiceInstall
  <2> QED BY <2>3, <2>4
<1>19. ASSUME DaemonFails PROVE RestTyped'
  <2>1. used \in Counters /\ agent \in Agents /\ FALSE \in BOOLEAN
    BY <1>typed
  <2>2. used' = [used EXCEPT !.services = @ + 1, !.checked = FALSE]
    BY <1>19 DEF DaemonFails
  <2>3. used' \in Counters
    BY <2>1, <2>2, Counted
  <2>4. agent' \in Agents
    BY <1>19, <2>1 DEF DaemonFails
  <2> QED BY <2>3, <2>4
<1>20. ASSUME Authorize PROVE RestTyped'
  <2>1. used \in Counters /\ agent \in Agents /\ FALSE \in BOOLEAN
    BY <1>typed
  <2>2. used' = [used EXCEPT !.repositories = @ + 1, !.checked = FALSE]
    BY <1>20 DEF Authorize
  <2>3. used' \in Counters
    BY <2>1, <2>2, Counted
  <2>4. agent' \in Agents
    BY <1>20, <2>1 DEF Authorize
  <2> QED BY <2>3, <2>4
<1>21. ASSUME Drift PROVE RestTyped'
  <2>1. used \in Counters /\ agent \in Agents /\ FALSE \in BOOLEAN
    BY <1>typed
  <2>2. used' = [used EXCEPT !.drifts = @ + 1, !.checked = FALSE]
    BY <1>21 DEF Drift
  <2>3. used' \in Counters
    BY <2>1, <2>2, Counted
  <2>4. agent' \in Agents
    BY <1>21, <2>1 DEF Drift
  <2> QED BY <2>3, <2>4
<1>22. ASSUME Authorized \/ Propagate \/ StartDaemon PROVE RestTyped'
  BY <1>22, <1>inv, <1>typed DEF Authorized, Propagate, StartDaemon
<1> QED
  BY <1>1, <1>2, <1>3, <1>4, <1>5, <1>6, <1>7, <1>8, <1>9, <1>10, <1>11, <1>12,
     <1>13, <1>14, <1>15, <1>16, <1>17, <1>18, <1>19, <1>20, <1>21, <1>22
     DEF Next, SetupStep, Create, Finish, Reconcile, Others, ServiceCommand

-----------------------------------------------------------------------------
(* A step that changes nothing.                                            *)
LEMMA Stutter ==
    ASSUME SetupInv, UNCHANGED vars
    PROVE  SetupInv'
<1>1. TypeInvariant'
  BY DEF SetupInv, TypeInvariant, vars, policies, remote, service, process
<1>2. PathInv' /\ StageInv'
  BY DEF SetupInv, RunInv, PathInv, StageInv, vars, policies, remote, service,
         process
<1>3. AppInv' /\ FinalInv'
  BY DEF SetupInv, RunInv, AppInv, FinalInv, NoFinal, HasFinal, vars, policies,
         remote, service, process
<1>4. CloudInv' /\ PolicyInv' /\ CountInv'
  BY DEF SetupInv, RunInv, CloudInv, PolicyInv, CountInv, KnownApp, HasFinal,
         vars,
         policies, remote, service, process
<1> QED BY <1>1, <1>2, <1>3, <1>4 DEF SetupInv, RunInv

(* Nothing has been created, and no command runs.                          *)
LEMMA SetupInit ==
    ASSUME Init
    PROVE  SetupInv
<1>1. NotesTyped /\ RemoteTyped
  BY DEF Init, NotesTyped, RemoteTyped, NoCheckpoint, NoConfig, Checkpoints,
         Configs
<1>2. PoliciesTyped
  BY DEF Init, PoliciesTyped
<1>3. ProcessTyped
  BY PolicyKinds, Labels DEF Init, ProcessTyped, StatusTyped, Memories
<1>4. RestTyped
  BY DEF Init, RestTyped, Agents, Counters
<1>5. TypeInvariant
  BY <1>1, <1>2, <1>3, <1>4, Typed
<1>6. PathInv /\ StageInv
  BY PolicyKinds
     DEF Init, PathInv, StageInv, NoCheckpoint, Reconciling, First, Prepare, Register,
         Finishing, Either
<1>7. AppInv /\ FinalInv /\ CloudInv /\ PolicyInv
  BY PolicyKinds
     DEF Init, AppInv, FinalInv, CloudInv, PolicyInv, NoCheckpoint, NoFinal, CommandPc
<1>8. CountInv
  BY DEF Init, CountInv, KnownApp
<1> QED BY <1>5, <1>6, <1>7, <1>8 DEF SetupInv, RunInv

(* Every step keeps the invariant.                                         *)
LEMMA SetupKept ==
    ASSUME SetupInv, Next
    PROVE  SetupInv'
<1>1. TypeInvariant'
  <2>1. NotesTyped' /\ PoliciesTyped' /\ RemoteTyped' /\ RestTyped'
    BY NotesStep, PoliciesStep, RemoteStep, RestStep
  <2>2. ProcessTyped'
    BY PlaceStep, MemoryStep, StatusStep DEF ProcessTyped
  <2>3. TypeInvariant' <=> /\ NotesTyped' /\ PoliciesTyped' /\ RemoteTyped'
                           /\ ProcessTyped' /\ RestTyped'
    BY Typed, PTL
  <2> QED BY <2>1, <2>2, <2>3
<1>2. RunInv'
  BY PathStep, StageStep, AppStep, FinalStep, CloudStep, PolicyStep DEF RunInv
<1>3. CountInv'
  BY CountStep
<1> QED BY <1>1, <1>2, <1>3 DEF SetupInv

(* The inductive invariant holds in every reachable state.                 *)
LEMMA SetupInvariance == Spec => []SetupInv
<1>1. Init => SetupInv
  BY SetupInit
<1>2. SetupInv /\ [Next]_vars => SetupInv'
  BY SetupKept, Stutter
<1> QED BY <1>1, <1>2, PTL DEF Spec

(* Every variable has its type: no checkpoint goes past its last stage,    *)
(* and no command is anywhere but at a stage of setup or of the repository *)
(* commands.                                                               *)
THEOREM TypeCorrect == Spec => []TypeInvariant
<1>1. SetupInv => TypeInvariant
  BY DEF SetupInv
<1> QED BY <1>1, SetupInvariance, PTL

(* However often setup stops, it creates one namespace and one queue, and  *)
(* an App too many only for a code that was lost.                          *)
THEOREM NothingTwice == Spec => []OneOfEach
<1>1. SetupInv => OneOfEach
  <2> SUFFICES ASSUME SetupInv PROVE OneOfEach
    OBVIOUS
  <2>1. github.apps \in Nat /\ used.lost \in Nat
    BY DEF SetupInv, TypeInvariant
  <2> QED BY <2>1 DEF SetupInv, CountInv, OneOfEach
<1> QED BY <1>1, SetupInvariance, PTL

(* What a step of setup writes authorizes nothing.                         *)
LEMMA StepAuthorizesNothing ==
    ASSUME SetupInv, SetupStep
    PROVE  /\ local # NoPolicy => local'.entries \subseteq local.entries
           /\ cloud' # cloud => cloud'.entries \subseteq local'.entries
<1> DEFINE Nothing == /\ local # NoPolicy => local'.entries \subseteq local.entries
                      /\ cloud' # cloud => cloud'.entries \subseteq local'.entries
<1>1. ASSUME UNCHANGED <<local, cloud>> PROVE Nothing
  BY <1>1
<1>2. ASSUME Create PROVE Nothing
  <2>1. UNCHANGED <<local, cloud>>
    BY <1>2
       DEF Create, Prerequisites, EnsureNamespace, SaveNamespace, EnsureQueue,
       SaveQueue, DeployRelay, CreateApp, PersistCode, Convert, PersistApp,
       RelaySecret, Pass, Note, AtCloudflare, Only, policies
  <2> QED BY <1>1, <2>1
<1>3. ASSUME Mark \/ ValidateToken \/ VerifyPolicy \/ Unload \/ WritePlist
             \/ Bootstrap \/ Diagnose \/ Remove \/ ConfigureHook \/ EnsureRelay
      PROVE  Nothing
  <2>1. UNCHANGED <<local, cloud>>
    BY <1>3
       DEF Mark, ValidateToken, VerifyPolicy, Unload, WritePlist, Bootstrap,
       Diagnose, Remove, ConfigureHook, EnsureRelay, Refuse, Pass, Note,
       AtCloudflare, AtLaunchd, Only, policies
  <2> QED BY <1>1, <2>1
<1>4. ASSUME RequestToken PROVE Nothing
  <2>1. /\ cloud' = cloud
        /\ mem.reconciles => local' = mem.policy
        /\ ~mem.reconciles => local' = local
    <3>1. CASE mem.reconciles
      BY <1>4, <3>1 DEF RequestToken
    <3>2. CASE ~mem.reconciles
      BY <1>4, <3>2 DEF RequestToken
    <3> QED BY <3>1, <3>2
  <2>2. pc = "ask"
    BY <1>4 DEF RequestToken
  <2>3. local' = local
    BY <2>1, <2>2 DEF SetupInv, RunInv, PolicyInv
  <2> QED BY <1>1, <2>1, <2>3
<1>5. ASSUME Publish PROVE Nothing
  BY <1>5 DEF Publish, Put, EmptyPolicy
<1>6. ASSUME WriteFinal PROVE Nothing
  <2>1. cloud' = cloud /\ (local' = EmptyPolicy \/ local' = local)
    BY <1>6 DEF WriteFinal
  <2> QED BY <2>1 DEF EmptyPolicy
<1>7. ASSUME ReadCloud PROVE Nothing
  <2>1. local \in Policies /\ visible \in Policies
    BY <1>7, PoliciesRead
       DEF SetupInv, RunInv, PathInv, FinalInv, ReadCloud, Reconciling
  <2>2. local' = IntersectPolicies(local, visible) /\ cloud' = cloud
    BY <1>7 DEF ReadCloud
  <2> QED BY <2>1, <2>2, PolicyTypes
<1>8. ASSUME Narrow \/ RenameApp PROVE Nothing
  <2>1. mem.reconciles /\ pc # "readCloud"
    BY <1>8 DEF SetupInv, RunInv, PathInv, Reconciling, Narrow, RenameApp
  <2>2. mem.policy = local
    BY <2>1 DEF SetupInv, RunInv, PolicyInv
  <2>3. local' = local /\ (cloud' = cloud \/ cloud' = local)
    BY <1>8, <2>2 DEF Narrow, RenameApp, Put
  <2> QED BY <2>3
<1> QED
  BY <1>2, <1>3, <1>4, <1>5, <1>6, <1>7, <1>8 DEF SetupStep, Finish, Reconcile

(* Setup authorizes no repository, whatever commands that stopped left in  *)
(* the local policy or in KV.                                              *)
THEOREM AuthorizesNothing == Spec => NeverAuthorizes
<1>1. SetupInv /\ [Next]_vars
        => [SetupStep => /\ local # NoPolicy => local'.entries \subseteq local.entries
                         /\ cloud' # cloud => cloud'.entries \subseteq local'.entries]_vars
  BY StepAuthorizesNothing
<1> QED BY <1>1, SetupInvariance, PTL DEF Spec, NeverAuthorizes

-----------------------------------------------------------------------------
(* That a setup which reports success works rests on what the diagnostics  *)
(* do not look at: where GitHub delivers from, which configuration the     *)
(* daemon has read, and that KV has nothing else to show later.            *)

(* Which App GitHub delivers from, and what the final configuration says.  *)
FreshInv ==
    /\ checkpoint.code # 0 =>
          github.apps = checkpoint.code /\ github.hook = checkpoint.code
    /\ checkpoint.app # 0 => github.hook = checkpoint.app
    /\ pc = "callback" => github.hook = github.apps
    /\ checkpoint.saved \/ config = NoConfig => github.slug = 0
    /\ checkpoint.saved /\ config # NoConfig =>
          config = [app |-> checkpoint.app, slug |-> 0, token |-> checkpoint.token]

(* What a run that reconciles has set right, nobody changes while it runs. *)
RenewInv ==
    mem.reconciles =>
        /\ pc \notin {"readCloud", "narrow", "verify", "rename"} =>
              config.slug = github.slug
        /\ pc \notin {"readCloud", "narrow", "verify", "rename", "hook"} =>
              github.hook = config.app

(* No daemon has read another configuration since the service was stopped. *)
Restarted ==
    \/ checkpoint.stage >= 7
    \/ pc \in {"plist", "load", "relay", "diagnose"}
    \/ pc = "mark" /\ checkpoint.stage = 6
DaemonInv == Restarted => daemon \in {NoConfig, config}

(* Unless an add has stopped, a policy that KV has yet to show is no wider *)
(* than the one it shows, and the local policy is no wider than either.    *)
Below(p, q) ==
    /\ p.entries \subseteq q.entries
    /\ p.entries = q.entries => p.revision <= q.revision
Placed == checkpoint.saved => checkpoint.stage >= 6
LagInv ==
    /\ pc \in CommandPc =>
          Below(local, mem.policy) /\ (~journal => local = mem.policy)
    /\ pc = "repositoryVerify" => cloud = mem.policy
    /\ ~mem.reconciles /\ pc \notin CommandPc => mem.policy = EmptyPolicy
    /\ ~mem.reconciles /\ pc = "verify" => cloud = EmptyPolicy
    /\ (pc = "final" \/ (pc = "mark" /\ checkpoint.stage = 5)) =>
          cloud = EmptyPolicy /\ visible = EmptyPolicy
    /\ pc = "final" /\ "policy" \notin mem.left => local = EmptyPolicy
    /\ pc = "mark" /\ checkpoint.stage = 5 => local = EmptyPolicy
    /\ Placed /\ ~journal => Below(local, cloud) /\ Below(cloud, visible)

(* What the diagnostics found stays so until somebody changes something.   *)
Works ==
    /\ github.hook = config.app /\ cloudflare.relay = config.app
    /\ config.slug = github.slug /\ config.token \in cloudflare.valid
    /\ local = visible /\ cloud = visible
    /\ agent.loaded /\ daemon = config /\ config # NoConfig
Passed ==
    \/ status = "finished"
    \/ checkpoint.stage = 8
    \/ pc = "mark" /\ checkpoint.stage = 7
CheckInv ==
    /\ status = "finished" => pc = "idle" /\ ~checkpoint.saved
    /\ pc \in CommandPc => ~used.checked
    /\ used.checked /\ Passed => Works

WorkInv == FreshInv /\ RenewInv /\ DaemonInv /\ LagInv /\ CheckInv

Known == Policies \cup {NoPolicy}

(* Being no wider is an order, ...                                         *)
LEMMA BelowOrders ==
    ASSUME NEW p \in Known, NEW q \in Known, NEW r \in Known
    PROVE  /\ Below(p, p)
           /\ Below(p, q) /\ Below(q, r) => Below(p, r)
           /\ Below(p, q) /\ Below(q, p) => p = q
BY DEF Known, Policies, NoPolicy, Below

(* Adding a repository widens a policy.                                    *)
LEMMA BelowGrows ==
    ASSUME NEW p \in Policies, NEW i, NEW r
    PROVE  Below(p, WithRepository(p, i, r))
<1>1. CASE EntryOf(i, r) \in p.entries
  BY <1>1 DEF Below, Policies, WithRepository
<1>2. CASE EntryOf(i, r) \notin p.entries
  <2>1. WithRepository(p, i, r).entries = p.entries \cup {EntryOf(i, r)}
    BY <1>2 DEF WithRepository
  <2> QED BY <1>2, <2>1 DEF Below
<1> QED BY <1>1, <1>2

(* ... in which no command but an add goes up.                             *)
LEMMA BelowShrinks ==
    ASSUME NEW p \in Policies, NEW q \in Policies, Below(p, q)
    PROVE  /\ Below(IntersectPolicies(p, q), p)
           /\ \A id \in Ids : Below(WithoutRepository(IntersectPolicies(p, q), id), p)
<1> DEFINE s == IntersectPolicies(p, q)
<1>1. /\ s.entries = p.entries /\ s \in Policies
      /\ s.revision \in Nat /\ s.revision <= p.revision
  BY DEF Below, Policies, IntersectPolicies, Smaller
<1>2. Below(s, p)
  BY <1>1 DEF Below
<1>3. ASSUME NEW id \in Ids PROVE Below(WithoutRepository(s, id), p)
  <2> HIDE DEF s
  <2>1. CASE id \notin IdsIn(s)
    BY <1>2, <2>1 DEF WithoutRepository
  <2>2. CASE id \in IdsIn(s)
    <3>1. PICK e \in s.entries : e.id = id
      BY <2>2 DEF IdsIn
    <3>2. WithoutRepository(s, id).entries = {x \in s.entries : x.id # id}
      BY <2>2 DEF WithoutRepository
    <3>3. /\ WithoutRepository(s, id).entries \subseteq p.entries
          /\ e \in p.entries /\ e \notin WithoutRepository(s, id).entries
      BY <1>1, <3>1, <3>2
    <3> QED BY <3>3 DEF Below
  <2> QED BY <2>1, <2>2
<1> QED BY <1>2, <1>3

(* A new setup knows its App, and writes the configuration it has noted.   *)
LEMMA FreshStep ==
    ASSUME SetupInv, FreshInv, [Next]_vars
    PROVE  FreshInv'
<1> USE DEF SetupInv, Continue, Goto, End, Only, Note, Pass, AtCloudflare, Put,
            Refuse, AfterToken, AtLaunchd, UseService, Loaded, Unloaded,
            Installed, policies, remote, service, process, NoMemory,
            NoCheckpoint, InitialCheckpoint, RunInv, PathInv, StageInv, AppInv,
            FinalInv, HasFinal, NoFinal, First, Prepare, Register, Finishing,
            Reconciling, Either, CommandPc, FreshInv
<1>mem. mem \in [left : SUBSET {"config", "policy"}, policy : Policies,
                fresh : BOOLEAN, reconciles : BOOLEAN]
  BY DEF TypeInvariant
<1>notes. /\ checkpoint \in [saved : BOOLEAN, stage : 0..8, kv : Nat, queue : Nat,
                             code : Nat, app : Nat, token : Nat]
          /\ config \in [app : Nat, slug : Nat, token : Nat] /\ NoConfig.app = 0
          /\ NoConfig.slug = 0
  BY DEF TypeInvariant, NoConfig
<1>remote. /\ cloudflare \in [namespaces : Nat, queues : Nat, relay : Nat \cup {-1},
                               tokens : Nat, valid : SUBSET Nat]
           /\ github \in [apps : Nat, spent : SUBSET Nat, slug : Nat, hook : Nat]
  BY DEF TypeInvariant
<1>used. /\ used \in [stops : Nat, lost : Nat, drifts : Nat, repositories : Nat,
                      services : Nat, checked : BOOLEAN]
         /\ agent \in [plist : BOOLEAN, loaded : BOOLEAN]
  BY DEF TypeInvariant
<1>1. ASSUME Prerequisites \/ EnsureNamespace \/ SaveNamespace PROVE FreshInv'
  BY <1>1, <1>mem, <1>notes, <1>remote, <1>used
     DEF Prerequisites, EnsureNamespace, SaveNamespace
<1>2. ASSUME EnsureQueue \/ SaveQueue \/ DeployRelay PROVE FreshInv'
  BY <1>2, <1>mem, <1>notes, <1>remote, <1>used
     DEF EnsureQueue, SaveQueue, DeployRelay
<1>3. ASSUME PersistCode PROVE FreshInv'
  BY <1>3, <1>mem, <1>notes, <1>remote, <1>used DEF PersistCode
<1>4. ASSUME PersistApp PROVE FreshInv'
  BY <1>4, <1>mem, <1>notes, <1>remote, <1>used DEF PersistApp
<1>5. ASSUME RelaySecret \/ Convert PROVE FreshInv'
  BY <1>5, <1>mem, <1>notes, <1>remote, <1>used DEF RelaySecret, Convert
<1>6. ASSUME ValidateToken \/ Publish PROVE FreshInv'
  BY <1>6, <1>mem, <1>notes, <1>remote, <1>used DEF ValidateToken, Publish
<1>7. ASSUME VerifyPolicy PROVE FreshInv'
  BY <1>7, <1>mem, <1>notes, <1>remote, <1>used DEF VerifyPolicy
<1>8. ASSUME Remove PROVE FreshInv'
  BY <1>8, <1>mem, <1>notes, <1>remote, <1>used DEF Remove
<1>9. ASSUME Unload \/ WritePlist \/ Bootstrap PROVE FreshInv'
  BY <1>9, <1>mem, <1>notes, <1>remote, <1>used
     DEF Unload, WritePlist, Bootstrap
<1>10. ASSUME Diagnose PROVE FreshInv'
  BY <1>10, <1>mem, <1>notes, <1>remote, <1>used DEF Diagnose
<1>11. ASSUME Narrow \/ EnsureRelay PROVE FreshInv'
  BY <1>11, <1>mem, <1>notes, <1>remote, <1>used DEF Narrow, EnsureRelay
<1>12. ASSUME ConfigureHook PROVE FreshInv'
  BY <1>12, <1>mem, <1>notes, <1>remote, <1>used DEF ConfigureHook
<1>13. ASSUME ServiceStart \/ ServiceStop \/ ServiceUninstall PROVE FreshInv'
  BY <1>13, <1>mem, <1>notes, <1>remote, <1>used
     DEF ServiceStart, ServiceStop, ServiceUninstall
<1>14. ASSUME ServiceInstall \/ DaemonFails PROVE FreshInv'
  BY <1>14, <1>mem, <1>notes, <1>remote, <1>used DEF ServiceInstall, DaemonFails
<1>15. ASSUME AuthorizeCloud \/ Authorized PROVE FreshInv'
  BY <1>15, <1>mem, <1>notes, <1>remote, <1>used DEF AuthorizeCloud, Authorized
<1>16. ASSUME Propagate \/ StartDaemon PROVE FreshInv'
  BY <1>16, <1>mem, <1>notes, <1>remote, <1>used DEF Propagate, StartDaemon
<1>17. ASSUME Drift PROVE FreshInv'
  BY <1>17, <1>mem, <1>notes, <1>remote, <1>used DEF Drift
<1>18. ASSUME Start PROVE FreshInv'
  BY <1>18, StartMoves, <1>mem, <1>notes, <1>remote, <1>used
<1>19. ASSUME Mark PROVE FreshInv'
  BY <1>19, MarkMoves, <1>mem, <1>notes, <1>remote, <1>used
<1>20. ASSUME CreateApp PROVE FreshInv'
  BY <1>20, CreateAppMoves, <1>mem, <1>notes, <1>remote, <1>used
<1>21. ASSUME RequestToken PROVE FreshInv'
  BY <1>21, <1>mem, <1>notes, <1>remote, <1>used DEF RequestToken
<1>22. ASSUME WriteFinal PROVE FreshInv'
  BY <1>22, <1>mem, <1>notes, <1>remote, <1>used DEF WriteFinal
<1>23. ASSUME ReadCloud PROVE FreshInv'
  BY <1>23, <1>mem, <1>notes, <1>remote, <1>used DEF ReadCloud
<1>24. ASSUME RenameApp PROVE FreshInv'
  BY <1>24, <1>mem, <1>notes, <1>remote, <1>used DEF RenameApp
<1>25. ASSUME Stop PROVE FreshInv'
  BY <1>25, <1>mem, <1>notes, <1>remote, <1>used DEF Stop
<1>26. ASSUME Authorize PROVE FreshInv'
  BY <1>26, LocalWritten, <1>mem, <1>notes, <1>remote, <1>used
     DEF Authorize, Configured
<1>27. ASSUME UNCHANGED vars PROVE FreshInv'
  BY <1>27, <1>mem, <1>notes, <1>remote, <1>used DEF vars
<1> QED
  BY <1>1, <1>2, <1>3, <1>4, <1>5, <1>6, <1>7, <1>8, <1>9, <1>10, <1>11, <1>12,
     <1>13, <1>14, <1>15, <1>16, <1>17, <1>18, <1>19, <1>20, <1>21, <1>22,
     <1>23, <1>24, <1>25, <1>26, <1>27
     DEF Next, SetupStep, Create, Finish, Reconcile, Others, ServiceCommand

(* What reconciling has set right stays so until the run ends.             *)
LEMMA RenewStep ==
    ASSUME SetupInv, FreshInv, RenewInv, [Next]_vars
    PROVE  RenewInv'
<1> USE DEF SetupInv, Continue, Goto, End, Only, Note, Pass, AtCloudflare, Put,
            Refuse, AfterToken, AtLaunchd, UseService, Loaded, Unloaded,
            Installed, policies, remote, service, process, NoMemory,
            NoCheckpoint, InitialCheckpoint, RunInv, PathInv, StageInv, AppInv,
            FinalInv, HasFinal, NoFinal, First, Prepare, Register, Finishing,
            Reconciling, Either, CommandPc, RenewInv
<1>mem. mem \in [left : SUBSET {"config", "policy"}, policy : Policies,
                fresh : BOOLEAN, reconciles : BOOLEAN]
  BY DEF TypeInvariant
<1>notes. /\ checkpoint \in [saved : BOOLEAN, stage : 0..8, kv : Nat, queue : Nat,
                             code : Nat, app : Nat, token : Nat]
          /\ config \in [app : Nat, slug : Nat, token : Nat] /\ NoConfig.app = 0
          /\ NoConfig.slug = 0
  BY DEF TypeInvariant, NoConfig
<1>remote. /\ cloudflare \in [namespaces : Nat, queues : Nat, relay : Nat \cup {-1},
                               tokens : Nat, valid : SUBSET Nat]
           /\ github \in [apps : Nat, spent : SUBSET Nat, slug : Nat, hook : Nat]
  BY DEF TypeInvariant
<1>used. /\ used \in [stops : Nat, lost : Nat, drifts : Nat, repositories : Nat,
                      services : Nat, checked : BOOLEAN]
         /\ agent \in [plist : BOOLEAN, loaded : BOOLEAN]
  BY DEF TypeInvariant
<1>1. ASSUME Prerequisites \/ EnsureNamespace \/ SaveNamespace PROVE RenewInv'
  BY <1>1, <1>mem, <1>notes, <1>remote, <1>used
     DEF Prerequisites, EnsureNamespace, SaveNamespace
<1>2. ASSUME EnsureQueue \/ SaveQueue \/ DeployRelay PROVE RenewInv'
  BY <1>2, <1>mem, <1>notes, <1>remote, <1>used
     DEF EnsureQueue, SaveQueue, DeployRelay
<1>3. ASSUME PersistCode PROVE RenewInv'
  BY <1>3, <1>mem, <1>notes, <1>remote, <1>used DEF PersistCode
<1>4. ASSUME PersistApp PROVE RenewInv'
  BY <1>4, <1>mem, <1>notes, <1>remote, <1>used DEF PersistApp
<1>5. ASSUME RelaySecret \/ Convert PROVE RenewInv'
  BY <1>5, <1>mem, <1>notes, <1>remote, <1>used DEF RelaySecret, Convert
<1>6. ASSUME ValidateToken \/ Publish PROVE RenewInv'
  BY <1>6, <1>mem, <1>notes, <1>remote, <1>used DEF ValidateToken, Publish
<1>7. ASSUME VerifyPolicy PROVE RenewInv'
  BY <1>7, <1>mem, <1>notes, <1>remote, <1>used DEF VerifyPolicy
<1>8. ASSUME Remove PROVE RenewInv'
  BY <1>8, <1>mem, <1>notes, <1>remote, <1>used DEF Remove
<1>9. ASSUME Unload \/ WritePlist \/ Bootstrap PROVE RenewInv'
  BY <1>9, <1>mem, <1>notes, <1>remote, <1>used
     DEF Unload, WritePlist, Bootstrap
<1>10. ASSUME Diagnose PROVE RenewInv'
  BY <1>10, <1>mem, <1>notes, <1>remote, <1>used DEF Diagnose
<1>11. ASSUME Narrow \/ EnsureRelay PROVE RenewInv'
  BY <1>11, <1>mem, <1>notes, <1>remote, <1>used DEF Narrow, EnsureRelay
<1>12. ASSUME ConfigureHook PROVE RenewInv'
  BY <1>12, <1>mem, <1>notes, <1>remote, <1>used DEF ConfigureHook
<1>13. ASSUME ServiceStart \/ ServiceStop \/ ServiceUninstall PROVE RenewInv'
  BY <1>13, <1>mem, <1>notes, <1>remote, <1>used
     DEF ServiceStart, ServiceStop, ServiceUninstall
<1>14. ASSUME ServiceInstall \/ DaemonFails PROVE RenewInv'
  BY <1>14, <1>mem, <1>notes, <1>remote, <1>used DEF ServiceInstall, DaemonFails
<1>15. ASSUME AuthorizeCloud \/ Authorized PROVE RenewInv'
  BY <1>15, <1>mem, <1>notes, <1>remote, <1>used DEF AuthorizeCloud, Authorized
<1>16. ASSUME Propagate \/ StartDaemon PROVE RenewInv'
  BY <1>16, <1>mem, <1>notes, <1>remote, <1>used DEF Propagate, StartDaemon
<1>17. ASSUME Drift PROVE RenewInv'
  BY <1>17, <1>mem, <1>notes, <1>remote, <1>used DEF Drift
<1>18. ASSUME Start PROVE RenewInv'
  BY <1>18, StartMoves, <1>mem, <1>notes, <1>remote, <1>used
<1>19. ASSUME Mark PROVE RenewInv'
  BY <1>19, MarkMoves, <1>mem, <1>notes, <1>remote, <1>used
<1>20. ASSUME CreateApp PROVE RenewInv'
  BY <1>20, CreateAppMoves, <1>mem, <1>notes, <1>remote, <1>used
<1>21. ASSUME RequestToken PROVE RenewInv'
  BY <1>21, <1>mem, <1>notes, <1>remote, <1>used DEF RequestToken
<1>22. ASSUME WriteFinal PROVE RenewInv'
  BY <1>22, <1>mem, <1>notes, <1>remote, <1>used DEF WriteFinal
<1>23. ASSUME ReadCloud PROVE RenewInv'
  BY <1>23, <1>mem, <1>notes, <1>remote, <1>used DEF ReadCloud
<1>24. ASSUME RenameApp PROVE RenewInv'
  BY <1>24, <1>mem, <1>notes, <1>remote, <1>used DEF RenameApp
<1>25. ASSUME Stop PROVE RenewInv'
  BY <1>25, <1>mem, <1>notes, <1>remote, <1>used DEF Stop
<1>26. ASSUME Authorize PROVE RenewInv'
  BY <1>26, LocalWritten, <1>mem, <1>notes, <1>remote, <1>used
     DEF Authorize, Configured
<1>27. ASSUME UNCHANGED vars PROVE RenewInv'
  BY <1>27, <1>mem, <1>notes, <1>remote, <1>used DEF vars
<1> QED
  BY <1>1, <1>2, <1>3, <1>4, <1>5, <1>6, <1>7, <1>8, <1>9, <1>10, <1>11, <1>12,
     <1>13, <1>14, <1>15, <1>16, <1>17, <1>18, <1>19, <1>20, <1>21, <1>22,
     <1>23, <1>24, <1>25, <1>26, <1>27
     DEF Next, SetupStep, Create, Finish, Reconcile, Others, ServiceCommand

(* A daemon that starts reads the final configuration.                     *)
LEMMA DaemonStep ==
    ASSUME SetupInv, FreshInv, DaemonInv, [Next]_vars
    PROVE  DaemonInv'
<1> USE DEF SetupInv, Continue, Goto, End, Only, Note, Pass, AtCloudflare, Put,
            Refuse, AfterToken, AtLaunchd, UseService, Loaded, Unloaded,
            Installed, policies, remote, service, process, NoMemory,
            NoCheckpoint, InitialCheckpoint, RunInv, PathInv, StageInv, AppInv,
            FinalInv, HasFinal, NoFinal, First, Prepare, Register, Finishing,
            Reconciling, Either, CommandPc, DaemonInv, Restarted
<1>mem. mem \in [left : SUBSET {"config", "policy"}, policy : Policies,
                fresh : BOOLEAN, reconciles : BOOLEAN]
  BY DEF TypeInvariant
<1>notes. /\ checkpoint \in [saved : BOOLEAN, stage : 0..8, kv : Nat, queue : Nat,
                             code : Nat, app : Nat, token : Nat]
          /\ config \in [app : Nat, slug : Nat, token : Nat] /\ NoConfig.app = 0
          /\ NoConfig.slug = 0
  BY DEF TypeInvariant, NoConfig
<1>remote. /\ cloudflare \in [namespaces : Nat, queues : Nat, relay : Nat \cup {-1},
                               tokens : Nat, valid : SUBSET Nat]
           /\ github \in [apps : Nat, spent : SUBSET Nat, slug : Nat, hook : Nat]
  BY DEF TypeInvariant
<1>used. /\ used \in [stops : Nat, lost : Nat, drifts : Nat, repositories : Nat,
                      services : Nat, checked : BOOLEAN]
         /\ agent \in [plist : BOOLEAN, loaded : BOOLEAN]
  BY DEF TypeInvariant
<1>1. ASSUME Prerequisites \/ EnsureNamespace \/ SaveNamespace PROVE DaemonInv'
  BY <1>1, <1>mem, <1>notes, <1>remote, <1>used
     DEF Prerequisites, EnsureNamespace, SaveNamespace
<1>2. ASSUME EnsureQueue \/ SaveQueue \/ DeployRelay PROVE DaemonInv'
  BY <1>2, <1>mem, <1>notes, <1>remote, <1>used
     DEF EnsureQueue, SaveQueue, DeployRelay
<1>3. ASSUME PersistCode PROVE DaemonInv'
  BY <1>3, <1>mem, <1>notes, <1>remote, <1>used DEF PersistCode
<1>4. ASSUME PersistApp PROVE DaemonInv'
  BY <1>4, <1>mem, <1>notes, <1>remote, <1>used DEF PersistApp
<1>5. ASSUME RelaySecret \/ Convert PROVE DaemonInv'
  BY <1>5, <1>mem, <1>notes, <1>remote, <1>used DEF RelaySecret, Convert
<1>6. ASSUME ValidateToken \/ Publish PROVE DaemonInv'
  BY <1>6, <1>mem, <1>notes, <1>remote, <1>used DEF ValidateToken, Publish
<1>7. ASSUME VerifyPolicy PROVE DaemonInv'
  BY <1>7, <1>mem, <1>notes, <1>remote, <1>used DEF VerifyPolicy
<1>8. ASSUME Remove PROVE DaemonInv'
  BY <1>8, <1>mem, <1>notes, <1>remote, <1>used DEF Remove
<1>9. ASSUME Unload \/ WritePlist \/ Bootstrap PROVE DaemonInv'
  BY <1>9, <1>mem, <1>notes, <1>remote, <1>used
     DEF Unload, WritePlist, Bootstrap
<1>10. ASSUME Diagnose PROVE DaemonInv'
  BY <1>10, <1>mem, <1>notes, <1>remote, <1>used DEF Diagnose
<1>11. ASSUME Narrow \/ EnsureRelay PROVE DaemonInv'
  BY <1>11, <1>mem, <1>notes, <1>remote, <1>used DEF Narrow, EnsureRelay
<1>12. ASSUME ConfigureHook PROVE DaemonInv'
  BY <1>12, <1>mem, <1>notes, <1>remote, <1>used DEF ConfigureHook
<1>13. ASSUME ServiceStart \/ ServiceStop \/ ServiceUninstall PROVE DaemonInv'
  BY <1>13, <1>mem, <1>notes, <1>remote, <1>used
     DEF ServiceStart, ServiceStop, ServiceUninstall
<1>14. ASSUME ServiceInstall \/ DaemonFails PROVE DaemonInv'
  BY <1>14, <1>mem, <1>notes, <1>remote, <1>used DEF ServiceInstall, DaemonFails
<1>15. ASSUME AuthorizeCloud \/ Authorized PROVE DaemonInv'
  BY <1>15, <1>mem, <1>notes, <1>remote, <1>used DEF AuthorizeCloud, Authorized
<1>16. ASSUME Propagate \/ StartDaemon PROVE DaemonInv'
  BY <1>16, <1>mem, <1>notes, <1>remote, <1>used DEF Propagate, StartDaemon
<1>17. ASSUME Drift PROVE DaemonInv'
  BY <1>17, <1>mem, <1>notes, <1>remote, <1>used DEF Drift
<1>18. ASSUME Start PROVE DaemonInv'
  BY <1>18, StartMoves, <1>mem, <1>notes, <1>remote, <1>used
<1>19. ASSUME Mark PROVE DaemonInv'
  BY <1>19, MarkMoves, <1>mem, <1>notes, <1>remote, <1>used
<1>20. ASSUME CreateApp PROVE DaemonInv'
  BY <1>20, CreateAppMoves, <1>mem, <1>notes, <1>remote, <1>used
<1>21. ASSUME RequestToken PROVE DaemonInv'
  BY <1>21, <1>mem, <1>notes, <1>remote, <1>used DEF RequestToken
<1>22. ASSUME WriteFinal PROVE DaemonInv'
  BY <1>22, <1>mem, <1>notes, <1>remote, <1>used DEF WriteFinal
<1>23. ASSUME ReadCloud PROVE DaemonInv'
  BY <1>23, <1>mem, <1>notes, <1>remote, <1>used DEF ReadCloud
<1>24. ASSUME RenameApp PROVE DaemonInv'
  BY <1>24, <1>mem, <1>notes, <1>remote, <1>used DEF RenameApp
<1>25. ASSUME Stop PROVE DaemonInv'
  BY <1>25, <1>mem, <1>notes, <1>remote, <1>used DEF Stop
<1>26. ASSUME Authorize PROVE DaemonInv'
  BY <1>26, LocalWritten, <1>mem, <1>notes, <1>remote, <1>used
     DEF Authorize, Configured
<1>27. ASSUME UNCHANGED vars PROVE DaemonInv'
  BY <1>27, <1>mem, <1>notes, <1>remote, <1>used DEF vars
<1> QED
  BY <1>1, <1>2, <1>3, <1>4, <1>5, <1>6, <1>7, <1>8, <1>9, <1>10, <1>11, <1>12,
     <1>13, <1>14, <1>15, <1>16, <1>17, <1>18, <1>19, <1>20, <1>21, <1>22,
     <1>23, <1>24, <1>25, <1>26, <1>27
     DEF Next, SetupStep, Create, Finish, Reconcile, Others, ServiceCommand

(* Only an add that stopped leaves KV narrower than the local policy.      *)
LEMMA LagStep ==
    ASSUME SetupInv, FreshInv, LagInv, [Next]_vars
    PROVE  LagInv'
<1> USE DEF SetupInv, Continue, Goto, End, Only, Note, Pass, AtCloudflare, Put,
            Refuse, AfterToken, AtLaunchd, UseService, Loaded, Unloaded,
            Installed, policies, remote, service, process, NoMemory,
            NoCheckpoint, InitialCheckpoint, RunInv, PathInv, StageInv, AppInv,
            FinalInv, HasFinal, NoFinal, First, Prepare, Register, Finishing,
            Reconciling, Either, CommandPc, LagInv, Placed
<1>mem. mem \in [left : SUBSET {"config", "policy"}, policy : Policies,
                fresh : BOOLEAN, reconciles : BOOLEAN]
  BY DEF TypeInvariant
<1>notes. /\ checkpoint \in [saved : BOOLEAN, stage : 0..8, kv : Nat, queue : Nat,
                             code : Nat, app : Nat, token : Nat]
          /\ config \in [app : Nat, slug : Nat, token : Nat] /\ NoConfig.app = 0
          /\ NoConfig.slug = 0
  BY DEF TypeInvariant, NoConfig
<1>remote. /\ cloudflare \in [namespaces : Nat, queues : Nat, relay : Nat \cup {-1},
                               tokens : Nat, valid : SUBSET Nat]
           /\ github \in [apps : Nat, spent : SUBSET Nat, slug : Nat, hook : Nat]
  BY DEF TypeInvariant
<1>used. /\ used \in [stops : Nat, lost : Nat, drifts : Nat, repositories : Nat,
                      services : Nat, checked : BOOLEAN]
         /\ agent \in [plist : BOOLEAN, loaded : BOOLEAN]
  BY DEF TypeInvariant
<1>policies. /\ local \in Known /\ cloud \in Known /\ visible \in Known
             /\ NoPolicy \notin Policies /\ EmptyPolicy \in Policies
             /\ Below(local, local) /\ Below(EmptyPolicy, EmptyPolicy)
             /\ Below(local, cloud) /\ Below(cloud, visible) => Below(local, visible)
  <2>1. local \in Known /\ cloud \in Known /\ visible \in Known
    BY DEF TypeInvariant, Known
  <2>2. NoPolicy \notin Policies /\ EmptyPolicy \in Policies
    BY PolicyKinds
  <2>3. EmptyPolicy \in Known
    BY <2>2 DEF Known
  <2> QED BY <2>1, <2>2, <2>3, BelowOrders
<1>own. mem.reconciles /\ pc # "readCloud" => mem.policy = local
  BY DEF PolicyInv
<1>1. ASSUME Prerequisites \/ EnsureNamespace \/ SaveNamespace PROVE LagInv'
  BY <1>1, <1>mem, <1>notes, <1>remote, <1>used
     DEF Prerequisites, EnsureNamespace, SaveNamespace
<1>2. ASSUME EnsureQueue \/ SaveQueue \/ DeployRelay PROVE LagInv'
  BY <1>2, <1>mem, <1>notes, <1>remote, <1>used
     DEF EnsureQueue, SaveQueue, DeployRelay
<1>3. ASSUME PersistCode PROVE LagInv'
  BY <1>3, <1>mem, <1>notes, <1>remote, <1>used DEF PersistCode
<1>4. ASSUME PersistApp PROVE LagInv'
  BY <1>4, <1>mem, <1>notes, <1>remote, <1>used DEF PersistApp
<1>5. ASSUME RelaySecret \/ Convert PROVE LagInv'
  BY <1>5, <1>mem, <1>notes, <1>remote, <1>used DEF RelaySecret, Convert
<1>6. ASSUME ValidateToken \/ Publish PROVE LagInv'
  BY <1>6, <1>mem, <1>notes, <1>remote, <1>used DEF ValidateToken, Publish
<1>7. ASSUME VerifyPolicy PROVE LagInv'
  BY <1>7, <1>mem, <1>notes, <1>remote, <1>used DEF VerifyPolicy
<1>8. ASSUME Remove PROVE LagInv'
  BY <1>8, <1>mem, <1>notes, <1>remote, <1>used DEF Remove
<1>9. ASSUME Unload \/ WritePlist \/ Bootstrap PROVE LagInv'
  BY <1>9, <1>mem, <1>notes, <1>remote, <1>used
     DEF Unload, WritePlist, Bootstrap
<1>10. ASSUME Diagnose PROVE LagInv'
  BY <1>10, <1>mem, <1>notes, <1>remote, <1>used DEF Diagnose
<1>11. ASSUME Narrow \/ EnsureRelay PROVE LagInv'
  BY <1>11, <1>mem, <1>notes, <1>policies, <1>own DEF Narrow, EnsureRelay
<1>12. ASSUME ConfigureHook PROVE LagInv'
  BY <1>12, <1>mem, <1>notes, <1>remote, <1>used DEF ConfigureHook
<1>13. ASSUME ServiceStart \/ ServiceStop \/ ServiceUninstall PROVE LagInv'
  BY <1>13, <1>mem, <1>notes, <1>remote, <1>used
     DEF ServiceStart, ServiceStop, ServiceUninstall
<1>14. ASSUME ServiceInstall \/ DaemonFails PROVE LagInv'
  BY <1>14, <1>mem, <1>notes, <1>remote, <1>used DEF ServiceInstall, DaemonFails
<1>15. ASSUME AuthorizeCloud \/ Authorized PROVE LagInv'
  <2>1. Below(cloud, cloud)
    BY <1>policies, BelowOrders
  <2>2. CASE AuthorizeCloud
    BY <1>mem, <1>notes, <1>policies, <1>own, <2>2 DEF AuthorizeCloud
  <2>3. CASE Authorized
    <3>1. /\ pc = "repositoryVerify" /\ visible = mem.policy /\ ~journal' /\ pc' = "idle"
          /\ UNCHANGED <<checkpoint, local, cloud, visible>> /\ mem' = NoMemory
      BY <2>3 DEF Authorized
    <3>2. Below(local, cloud) /\ Below(cloud, visible)
      BY <2>1, <3>1
    <3> QED BY <3>1, <3>2
  <2> QED BY <1>15, <2>2, <2>3
<1>16. ASSUME Propagate \/ StartDaemon PROVE LagInv'
  <2>1. cloud \in Known
    BY <1>policies
  <2>2. Below(cloud, cloud)
    BY <2>1, BelowOrders
  <2> QED BY <1>16, <2>2, <1>mem, <1>notes, <1>policies, <1>own DEF Propagate, StartDaemon
<1>17. ASSUME Drift PROVE LagInv'
  BY <1>17, <1>mem, <1>notes, <1>remote, <1>used DEF Drift
<1>18. ASSUME Start PROVE LagInv'
  BY <1>18, StartMoves, <1>mem, <1>notes, <1>remote, <1>used
<1>19. ASSUME Mark PROVE LagInv'
  BY <1>19, MarkMoves, <1>mem, <1>notes, <1>policies, <1>own
<1>20. ASSUME CreateApp PROVE LagInv'
  BY <1>20, CreateAppMoves, <1>mem, <1>notes, <1>remote, <1>used
<1>21. ASSUME RequestToken PROVE LagInv'
  <2>1. CASE mem.reconciles
    BY <1>21, <2>1, <1>mem, <1>notes, <1>policies, <1>own DEF RequestToken
  <2>2. CASE ~mem.reconciles
    <3>1. /\ checkpoint' = [checkpoint EXCEPT !.token = cloudflare.tokens + 1]
          /\ UNCHANGED <<config, policies>> /\ pc = "ask"
          /\ pc' = "token" /\ mem' = [mem EXCEPT !.fresh = TRUE]
      BY <1>21, <2>2 DEF RequestToken
    <3>2. UNCHANGED <<checkpoint.saved, checkpoint.stage, mem.policy, mem.reconciles>>
      BY <3>1, <1>mem, <1>notes
    <3> QED BY <3>1, <3>2
  <2> QED BY <2>1, <2>2
<1>22. ASSUME WriteFinal PROVE LagInv'
  BY <1>22, <1>mem, <1>notes, <1>remote, <1>used DEF WriteFinal
<1>23. ASSUME ReadCloud PROVE LagInv'
  <2>1. /\ pc = "readCloud" /\ mem.reconciles /\ ~checkpoint.saved /\ HasFinal
        /\ UNCHANGED <<checkpoint, cloud, visible, journal>>
        /\ pc' \in {"rename", "narrow"}
        /\ local' = IntersectPolicies(local, visible)
    BY <1>23 DEF ReadCloud
  <2>2. mem'.reconciles
    BY <1>23, <1>mem DEF ReadCloud
  <2>3. local \in Policies /\ visible \in Policies /\ cloud \in Policies
    BY <2>1, PoliciesRead
  <2>4. ASSUME ~journal PROVE Below(local', cloud)
    <3>1. Below(local, cloud) /\ Below(local, visible)
      BY <2>1, <2>4, <1>policies
    <3>2. Below(local', local) /\ local' \in Policies
      BY <2>1, <2>3, <3>1, BelowShrinks, PolicyTypes
    <3>3. local' \in Known /\ local \in Known /\ cloud \in Known
      BY <2>3, <3>2 DEF Known
    <3> QED BY <3>1, <3>2, <3>3, BelowOrders
  <2> QED BY <2>1, <2>2, <2>4
<1>24. ASSUME RenameApp PROVE LagInv'
  BY <1>24, <1>mem, <1>notes, <1>policies, <1>own DEF RenameApp
<1>25. ASSUME Stop PROVE LagInv'
  BY <1>25, <1>mem, <1>notes, <1>remote, <1>used DEF Stop
<1>26. ASSUME Authorize PROVE LagInv'
  <2> DEFINE prior == IntersectPolicies(local, visible)
  <2>1. /\ pc = "idle" /\ HasFinal
        /\ UNCHANGED <<checkpoint, cloud, visible>> /\ pc' = "repositoryPut"
    BY <1>26 DEF Authorize, Configured
  <2>2. PICK p : /\ \/ \E id \in Ids : p = WithoutRepository(prior, id) /\ local' = p
                    \/ /\ \E x \in Installs \X Identities :
                             p = WithRepository(prior, x[1], x[2])
                       /\ local' \in {p, prior} /\ journal'
                 /\ mem' = [mem EXCEPT !.policy = p] /\ (journal => journal')
    BY <1>26, Zenon DEF Authorize
  <2>3. local \in Policies /\ visible \in Policies /\ cloud \in Policies
    BY <2>1, PoliciesRead
  <2>4. prior \in Policies
    BY <2>3, PolicyTypes
  <2>5. p \in Policies /\ mem'.policy = p
    BY <1>mem, <2>2, <2>4, PolicyTypes
  <2>6. Below(local', p)
    <3>1. Below(p, p)
      BY <2>5, BelowOrders DEF Known
    <3>2. Below(prior, p) \/ local' = p
      BY <2>2, <2>4, BelowGrows
    <3> QED BY <2>2, <3>1, <3>2
  <2>7. ASSUME Placed, ~journal' PROVE Below(local', cloud)
    <3>1. Below(local, cloud) /\ Below(local, visible)
      BY <2>1, <2>2, <2>7, <1>policies
    <3>2. PICK id \in Ids : local' = WithoutRepository(prior, id)
      BY <2>2, <2>7
    <3>3. Below(local', local) /\ local' \in Policies
      BY <2>3, <2>4, <3>1, <3>2, BelowShrinks, PolicyTypes
    <3>4. local' \in Known /\ local \in Known /\ cloud \in Known
      BY <2>3, <3>3 DEF Known
    <3> QED BY <3>1, <3>3, <3>4, BelowOrders
  <2> HIDE DEF prior
  <2>8. ~journal' => local' = mem'.policy
    BY <2>2, <2>5
  <2> QED BY <2>1, <2>2, <2>5, <2>6, <2>7, <2>8
<1>27. ASSUME UNCHANGED vars PROVE LagInv'
  BY <1>27, <1>mem, <1>notes, <1>remote, <1>used DEF vars
<1> QED
  BY <1>1, <1>2, <1>3, <1>4, <1>5, <1>6, <1>7, <1>8, <1>9, <1>10, <1>11, <1>12,
     <1>13, <1>14, <1>15, <1>16, <1>17, <1>18, <1>19, <1>20, <1>21, <1>22,
     <1>23, <1>24, <1>25, <1>26, <1>27
     DEF Next, SetupStep, Create, Finish, Reconcile, Others, ServiceCommand

(* What the diagnostics found still holds when the setup reports success.  *)
LEMMA CheckStep ==
    ASSUME SetupInv, FreshInv, RenewInv, DaemonInv, LagInv, CheckInv, [Next]_vars
    PROVE  CheckInv'
<1> USE DEF SetupInv, Continue, Goto, End, Only, Note, Pass, AtCloudflare, Put,
            Refuse, AfterToken, AtLaunchd, UseService, Loaded, Unloaded,
            Installed, policies, remote, service, process, NoMemory,
            NoCheckpoint, InitialCheckpoint, RunInv, PathInv, StageInv, AppInv,
            FinalInv, HasFinal, NoFinal, First, Prepare, Register, Finishing,
            Reconciling, Either, CommandPc, CheckInv, Passed, Works
<1>mem. mem \in [left : SUBSET {"config", "policy"}, policy : Policies,
                fresh : BOOLEAN, reconciles : BOOLEAN]
  BY DEF TypeInvariant
<1>notes. /\ checkpoint \in [saved : BOOLEAN, stage : 0..8, kv : Nat, queue : Nat,
                             code : Nat, app : Nat, token : Nat]
          /\ config \in [app : Nat, slug : Nat, token : Nat] /\ NoConfig.app = 0
          /\ NoConfig.slug = 0
  BY DEF TypeInvariant, NoConfig
<1>remote. /\ cloudflare \in [namespaces : Nat, queues : Nat, relay : Nat \cup {-1},
                               tokens : Nat, valid : SUBSET Nat]
           /\ github \in [apps : Nat, spent : SUBSET Nat, slug : Nat, hook : Nat]
  BY DEF TypeInvariant
<1>used. /\ used \in [stops : Nat, lost : Nat, drifts : Nat, repositories : Nat,
                      services : Nat, checked : BOOLEAN]
         /\ agent \in [plist : BOOLEAN, loaded : BOOLEAN]
  BY DEF TypeInvariant
<1>1. ASSUME Prerequisites \/ EnsureNamespace \/ SaveNamespace PROVE CheckInv'
  BY <1>1, <1>mem, <1>notes, <1>remote, <1>used
     DEF Prerequisites, EnsureNamespace, SaveNamespace
<1>2. ASSUME EnsureQueue \/ SaveQueue \/ DeployRelay PROVE CheckInv'
  BY <1>2, <1>mem, <1>notes, <1>remote, <1>used
     DEF EnsureQueue, SaveQueue, DeployRelay
<1>3. ASSUME PersistCode PROVE CheckInv'
  BY <1>3, <1>mem, <1>notes, <1>remote, <1>used DEF PersistCode
<1>4. ASSUME PersistApp PROVE CheckInv'
  BY <1>4, <1>mem, <1>notes, <1>remote, <1>used DEF PersistApp
<1>5. ASSUME RelaySecret \/ Convert PROVE CheckInv'
  BY <1>5, <1>mem, <1>notes, <1>remote, <1>used DEF RelaySecret, Convert
<1>6. ASSUME ValidateToken \/ Publish PROVE CheckInv'
  BY <1>6, <1>mem, <1>notes, <1>remote, <1>used DEF ValidateToken, Publish
<1>7. ASSUME VerifyPolicy PROVE CheckInv'
  BY <1>7, <1>mem, <1>notes, <1>remote, <1>used DEF VerifyPolicy
<1>8. ASSUME Remove PROVE CheckInv'
  BY <1>8, <1>mem, <1>notes, <1>remote, <1>used DEF Remove
<1>9. ASSUME Unload \/ WritePlist \/ Bootstrap PROVE CheckInv'
  BY <1>9, <1>mem, <1>notes, <1>remote, <1>used
     DEF Unload, WritePlist, Bootstrap
<1>10. ASSUME Diagnose PROVE CheckInv'
  <2>1. /\ pc = "diagnose" /\ used'.checked = Sound
        /\ UNCHANGED <<checkpoint, config, policies, remote, service>>
    BY <1>10, <1>used DEF Diagnose
  <2>2. ~Sound => pc' = "idle" /\ status' = "failed"
    BY <1>10 DEF Diagnose
  <2>3. Sound => /\ daemon # NoConfig
                 /\ \/ mem.reconciles /\ pc' = "idle" /\ status' = "finished"
                    \/ ~mem.reconciles /\ pc' = "mark" /\ status' = status
    BY <1>10 DEF Diagnose
  <2>4. status # "finished"
    BY <2>1
  <2>5. \/ mem.reconciles /\ ~checkpoint.saved /\ checkpoint.stage # 8
        \/ ~mem.reconciles /\ checkpoint.saved /\ checkpoint.stage = 7
    BY <2>1, <1>notes
  <2>6. Sound => Works
    <3> SUFFICES ASSUME Sound PROVE Works
      OBVIOUS
    <3>1. /\ cloudflare.relay = (IF mem.reconciles THEN config.app ELSE checkpoint.app)
          /\ Token \in cloudflare.valid /\ visible = mem.policy
          /\ visible.entries = local.entries /\ ~journal /\ agent.loaded
      BY DEF Sound, RelayVerifies, QueueAccessible, Accepted, PolicyMatches,
             RepositoriesAuthorized, ServiceInstalled
    <3>2. HasFinal /\ daemon = config
      BY <2>1, <2>3, <2>5 DEF DaemonInv, Restarted
    <3>3. /\ github.hook = config.app /\ cloudflare.relay = config.app
          /\ config.slug = github.slug /\ config.token \in cloudflare.valid
      <4>1. CASE mem.reconciles
        BY <2>1, <3>1, <4>1 DEF RenewInv, Token
      <4>2. CASE ~mem.reconciles
        <5>1. /\ config = [app |-> checkpoint.app, slug |-> 0, token |-> checkpoint.token]
              /\ github.slug = 0 /\ checkpoint.app # 0 /\ github.hook = checkpoint.app
          BY <2>5, <3>2, <4>2 DEF FreshInv
        <5> QED BY <3>1, <4>2, <5>1 DEF Token
      <4> QED BY <4>1, <4>2
    <3>4. Below(local, cloud) /\ Below(cloud, visible)
      BY <2>1, <2>5, <3>1 DEF LagInv, Placed
    <3>5. local = visible /\ cloud = visible
      <4>1. local \in Policies /\ visible \in Policies /\ cloud \in Policies
        BY <3>2, PoliciesRead
      <4>2. visible.revision <= local.revision
        <5>1. CASE mem.reconciles
          BY <2>1, <3>1, <4>1, <5>1 DEF PolicyInv, Policies
        <5>2. CASE ~mem.reconciles
          BY <2>1, <3>1, <4>1, <5>2 DEF LagInv, EmptyPolicy, Policies
        <5> QED BY <5>1, <5>2
      <4>3. /\ local.entries = visible.entries /\ cloud.entries = visible.entries
            /\ local.revision = visible.revision /\ cloud.revision = visible.revision
        BY <3>1, <3>4, <4>1, <4>2 DEF Below, Policies
      <4> QED BY <4>1, <4>3 DEF Policies
    <3> QED BY <3>1, <3>2, <3>3, <3>5
  <2>7. Sound => Works'
    BY <2>1, <2>6
  <2> HIDE DEF Works
  <2> QED BY <2>1, <2>2, <2>3, <2>4, <2>5, <2>7
<1>11. ASSUME Narrow \/ EnsureRelay PROVE CheckInv'
  BY <1>11, <1>mem, <1>notes, <1>remote, <1>used DEF Narrow, EnsureRelay
<1>12. ASSUME ConfigureHook PROVE CheckInv'
  BY <1>12, <1>mem, <1>notes, <1>remote, <1>used DEF ConfigureHook
<1>13. ASSUME ServiceStart \/ ServiceStop \/ ServiceUninstall PROVE CheckInv'
  BY <1>13, <1>mem, <1>notes, <1>remote, <1>used
     DEF ServiceStart, ServiceStop, ServiceUninstall
<1>14. ASSUME ServiceInstall \/ DaemonFails PROVE CheckInv'
  BY <1>14, <1>mem, <1>notes, <1>remote, <1>used DEF ServiceInstall, DaemonFails
<1>15. ASSUME AuthorizeCloud \/ Authorized PROVE CheckInv'
  BY <1>15, <1>mem, <1>notes, <1>remote, <1>used DEF AuthorizeCloud, Authorized
<1>16. ASSUME Propagate \/ StartDaemon PROVE CheckInv'
  BY <1>16, <1>mem, <1>notes, <1>remote, <1>used DEF Propagate, StartDaemon
<1>17. ASSUME Drift PROVE CheckInv'
  BY <1>17, <1>mem, <1>notes, <1>remote, <1>used DEF Drift
<1>18. ASSUME Start PROVE CheckInv'
  BY <1>18, StartMoves, <1>mem, <1>notes, <1>remote, <1>used DEF Start
<1>19. ASSUME Mark PROVE CheckInv'
  BY <1>19, MarkMoves, <1>mem, <1>notes, <1>remote, <1>used
<1>20. ASSUME CreateApp PROVE CheckInv'
  BY <1>20, CreateAppMoves, <1>mem, <1>notes, <1>remote, <1>used
<1>21. ASSUME RequestToken PROVE CheckInv'
  BY <1>21, <1>mem, <1>notes, <1>remote, <1>used DEF RequestToken
<1>22. ASSUME WriteFinal PROVE CheckInv'
  BY <1>22, <1>mem, <1>notes, <1>remote, <1>used DEF WriteFinal
<1>23. ASSUME ReadCloud PROVE CheckInv'
  BY <1>23, <1>mem, <1>notes, <1>remote, <1>used DEF ReadCloud
<1>24. ASSUME RenameApp PROVE CheckInv'
  BY <1>24, <1>mem, <1>notes, <1>remote, <1>used DEF RenameApp
<1>25. ASSUME Stop PROVE CheckInv'
  BY <1>25, <1>mem, <1>notes, <1>remote, <1>used DEF Stop
<1>26. ASSUME Authorize PROVE CheckInv'
  BY <1>26, LocalWritten, <1>mem, <1>notes, <1>remote, <1>used
     DEF Authorize, Configured
<1>27. ASSUME UNCHANGED vars PROVE CheckInv'
  BY <1>27, <1>mem, <1>notes, <1>remote, <1>used DEF vars
<1> QED
  BY <1>1, <1>2, <1>3, <1>4, <1>5, <1>6, <1>7, <1>8, <1>9, <1>10, <1>11, <1>12,
     <1>13, <1>14, <1>15, <1>16, <1>17, <1>18, <1>19, <1>20, <1>21, <1>22,
     <1>23, <1>24, <1>25, <1>26, <1>27
     DEF Next, SetupStep, Create, Finish, Reconcile, Others, ServiceCommand

(* Nothing has been configured, and nothing checked.                       *)
LEMMA WorkInit ==
    ASSUME Init
    PROVE  WorkInv
<1>1. FreshInv /\ RenewInv /\ DaemonInv
  BY DEF Init, FreshInv, RenewInv, DaemonInv, Restarted, NoCheckpoint, NoMemory
<1>2. LagInv
  BY DEF Init, LagInv, Placed, Below, NoCheckpoint, NoMemory, NoPolicy, CommandPc
<1>3. CheckInv
  BY DEF Init, CheckInv, Passed, NoCheckpoint, CommandPc
<1> QED BY <1>1, <1>2, <1>3 DEF WorkInv

(* A setup that reports success has left a system that works together:     *)
(* what the diagnostics saw, and what they do not look at, still holds     *)
(* when the checkpoint is gone, unless somebody else has changed something.*)
THEOREM SuccessIsReal == Spec => []FinishedWorks
<1>1. Init => SetupInv /\ WorkInv
  BY SetupInit, WorkInit
<1>2. SetupInv /\ WorkInv /\ [Next]_vars => SetupInv' /\ WorkInv'
  <2> SUFFICES ASSUME SetupInv, WorkInv, [Next]_vars PROVE SetupInv' /\ WorkInv'
    OBVIOUS
  <2>1. SetupInv'
    BY SetupKept, Stutter
  <2>2. FreshInv' /\ RenewInv' /\ DaemonInv' /\ LagInv' /\ CheckInv'
    BY FreshStep, RenewStep, DaemonStep, LagStep, CheckStep DEF WorkInv
  <2> QED BY <2>1, <2>2 DEF WorkInv
<1>3. SetupInv /\ WorkInv => FinishedWorks
  BY DEF WorkInv, CheckInv, Passed, Works, FinishedWorks
<1> QED BY <1>1, <1>2, <1>3, PTL DEF Spec
=============================================================================
