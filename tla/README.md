# revoir in TLA+

revoir is a local, single-user reviewer of GitHub pull requests.  A relay on
Cloudflare turns webhooks into queue messages; a daemon on the user's Mac pulls
them, runs one review at a time with a language model, and publishes the result.
This directory models the parts of it whose correctness depends on orderings,
crashes and lost answers, checks them with TLC and proves their main properties
with TLAPS.  Paths below are relative to the repository.

## 1. The system

| Component | State | Operations | Talks to |
| --- | --- | --- | --- |
| Relay worker, `apps/relay/src/index.ts` | none of its own; reads the policy in KV | verify the signature, filter the event, build a job, enqueue it | GitHub (webhooks, with redelivery), KV, the queue |
| Cloudflare queue (external) | messages, leases with a visibility timeout, delivery counts | pull, acknowledge, retry with a delay | relay, queue client |
| Queue client, `apps/cli/src/queue/client.ts` | none | `pullOne`, `acknowledge`, `retry`; a settlement must be confirmed | queue, queue consumer |
| Queue consumer, `apps/cli/src/queue/runner.ts` | maps of remembered failure states, outage floors, saves and loads in flight, unsettled outages, completed requests | `consumeOne`, `run` | queue client, both stores, policy, review service, failure reporter |
| Operational failure store, `queue/failure-store.ts` | one file per webhook delivery: committed failures, reservation, fence | `load`, `save` (atomic rename), `clear` | queue consumer |
| Request completion store, `queue/request-completion-store.ts` | one marker per requested review | `has`, `mark` | queue consumer |
| Review orchestrator, `review/orchestrator.ts`, `cancellation.ts`, `review/terminal-handle.ts`, `review/cancellation-store.ts` | one review: deadline, monitors, lock lease, workspace, check run, finalizations that outlive their caller | `review`, cancellation, finalization | review lock, GitHub gateway, workspace, model session |
| Review lock, `review/lock.ts` | `manual-review.lock`, claim files | `acquire`, `release`, reclamation of a stale lock | processes that review: daemon and manual reviews |
| Failure reporter, `review/failure-reporter.ts` | none | reactions and one failure comment | GitHub |
| Publication, `review/github.ts`, `publication.ts`, `reconciliation.ts`, `findings.ts` | reviews, comments and threads on GitHub, recognised by markers | plan and publish findings, resolve old ones, complete the check run | GitHub |
| Workspace and diff, `review/workspace.ts`, `diff.ts`, `context.ts` | mirror and worktrees in the cache | prepare, dispose | Git |
| Model session, `review/pi.ts` | none that lasts | run the review prompt | language model |
| Command lock, `config/command-lock.ts` | lock file, claim files, candidates | `acquireCommandLock`, `release`, cleaning of leftovers | setup and repository commands |
| Repository manager, `repository.ts`, `repository-gateways.ts` | local policy, KV policy, journal of pending operations | add, remove, list | GitHub, KV, command lock |
| Setup, `setup/orchestrator.ts`, `setup/platform.ts`, `config/setup-checkpoint.ts` | checkpoint file | eight stages from the prerequisites to the diagnostics; reconciliation of a finished setup | GitHub, Cloudflare, service manager, command lock |
| Service manager, `service/manager.ts`, `launchctl.ts`, `launchd.ts` | plist, launchd job | install, restart, stop, uninstall, status | launchd |
| Contracts, `packages/contracts/src` | none | validate jobs, policies and findings | relay and command line |
| Command line and diagnostics, `cli.ts`, `diagnostics.ts` | none | dispatch, read-only checks | everything |

### What is hard about it

* **The queue consumer.** A message is delivered at least once; a lease may run
  out, a confirmation may be lost, the process may be stopped at any await or
  crash at any point.  The file store may be slow: an operation the consumer
  stopped waiting for still runs and may take effect later.  In spite of all
  that a job has three attempts, a review that ran to its end is not run again,
  and no message loops for ever.
* **The two locks.** The holder may die, its PID may be reused, several
  processes find the stale lock at once, and a process that reclaims it may die
  or be cancelled in the middle.  The file system offers link, read and unlink,
  and no compare-and-unlink.
* **One review.** A deadline, a cancellation by the caller and a targeted
  cancellation race with the review; cleanup has to run after each, is retried,
  and outlives the caller after a timeout.
* **Publication.** The head of the pull request moves while the review runs; a
  creation, submission or deletion whose answer was lost may take effect minutes
  later, in the middle of the next review.  What is shown is spread over open
  threads and the body of the last review, and findings move between lines.
* **Repository and setup commands.** Several external writes with a journal or a
  checkpoint in between; the process may end between any two, KV shows older
  values for a while, and the commands that may run between two runs of setup
  change what its completed stages have made.

### What makes each component correct

| Component | Properties |
| --- | --- |
| Queue consumer and stores | at most three reviews per delivery; every charged review survives a restart; only valid states are saved; the stored count never regresses; no review after a durable fence; a finished requested review is not repeated while the stores work; a message leaves the queue for a reason, and eventually |
| Review lock | mutual exclusion; the lock file of a lease is nobody else's to remove; leftovers block nobody; every call ends |
| Command lock | the same, with cleaning of leftovers by every caller |
| Orchestrator | a lease and a workspace are given up on every path; nothing is published after a cancellation was observed; a check run that was started is completed once and for what happened; the caller is answered at the deadline |
| Publication | what a review says of its draft stays true; after a complete review GitHub shows its findings and no others; the same report again changes nothing |
| Repository manager | nothing revoked comes back by a retry, a merge or a restore; whatever the policies disagree on is in the journal; what a command reports is true of the stores (with the exceptions of section 6) |
| Setup, service manager | reruns create nothing twice; a success leaves parts that work together; nothing is authorized on the way; a rerun finishes |
| Relay | a job is enqueued only for an allowed sender, repository and event; one message per delivery |

## 2. The modules

| Module | Stands for |
| --- | --- |
| `FailureState` | the failure state of a job and the functions over it (`runner.ts` 147-197, 630-665, 746-757; `isValidState` of `failure-store.ts`) |
| `QueueRunner` | the consumer, the queue, both stores, the abort signal, crashes and restarts |
| `MCQueueRunner` | its instances for TLC |
| `QueueRunnerProofs`, `QueueOnceProofs` | its inductive invariants and the theorems |
| `Mutex` | what a lock promises: a lease is granted while nobody holds one |
| `ReviewLock` | `FileReviewLock` as steps on files, with any number of processes |
| `MCReviewLock` | its instances |
| `ReviewLockProofs` | its inductive invariant, the theorems and the refinement of `Mutex` |
| `Orchestrator` | one call of `review()`: deadline, monitors, lease, finalization, what it leaves on GitHub |
| `OrchestratorProofs` | its inductive invariants and the theorems |
| `CommandLock` | `acquireCommandLock` with its cleaning, and `release`, as steps on files |
| `MCCommandLock` | its instances |
| `CommandLockProofs` | its inductive invariant and the theorems |
| `Reconciliation` | the identities of findings, their matching and the plan, as operators (`findings.ts`, `reconciliation.ts`) |
| `Publication` | the successive reviews of one pull request: threads, body, draft, and the requests GitHub has not answered |
| `MCPublication` | its instance: the reports a review may come to |
| `PublicationProofs` | its inductive invariants, what a plan accounts for, and the theorems |
| `Setup` | both paths of `revoir setup`, with the service it installs and the commands that fall between its runs |
| `SetupProofs` | its inductive invariant and the theorems |
| `Policy` | the repository policy and the functions over it |
| `RepositoryManager` | `repository add` and `repository remove` over the local policy, KV and the journal |
| `MCRepositoryManager` | its instances: repositories and names are interchangeable |
| `RepositoryManagerProofs` | its inductive invariants and the theorems |

### The queue consumer

`consumeOne` calls are serialized (`#serializedConsumption`), so there is one
call under way: `pc` is the await it is suspended at, `cur` the message it
holds, `base` its `operationalState.committedFailures` (or the slot it is
settled at), `verdict` why it is about to settle.  One action is the code
between two awaits.

| Variable | In the code |
| --- | --- |
| `known`, `floor`, `doneRequests` | `#knownStates`, `#outageFloors`, `#knownCompletedRequests` |
| `pendSave`, `pendLoad` | `#pendingSaves`, `#pendingLoads` with the `slotOnFailure` and `counted` of their records |
| `pendSettle` | `#pendingStoreSettlements` (the slot of the record) |
| `lateClear` | a `clear` that outlived `#clearFailureStateNow` |
| `token` | the `randomUUID` of a reservation |
| `disk`, `completions` | the files of the two stores |
| `qstate`, `attempts` | the queue |
| `charged`, `finished`, `fenced` | history: reviews started and not refunded, reviews that ended, fences that reached the disk |

A missing map entry, a missing file and `{committedFailures: 0}` are the same
value: every use in the code treats them alike.  `#pendingSaves` is a set in the
code and one record here.  A delivery never has two saves in flight, because
the load joins the first before anything else is saved and the rollback waits
for it; the type of `pendSave` would not hold two.  Left out are the terminal
category and the failure comment (best effort, `#reportFailure` lets it change
nothing), log records, and the delay of a retry.  The delivery count of a message
saturates at three, the only number the code compares it with.

Every fault takes one unit of `MaxFaults`, and only those in `FaultKinds`
happen:

| Fault | Meaning |
| --- | --- |
| `crash` | the process ends; each save in flight took effect or did not |
| `stop` | the abort signal fires; waits that honour it end at once |
| `store` | an operation rejects, rejects after its effect, or times out and stays in flight |
| `net` | a request or its confirmation is lost |
| `lease` | the visibility timeout runs out while the consumer holds the message |
| `policy` | the policy cannot be loaded |

A failed review is no fault: it is one of the outcomes of `ReviewStep`.

### The review lock

One action is one file operation or one process inspection, by any process of
`Procs`.  `lock` is the owner in `manual-review.lock`; `claims` are the claim
files, which carry the target, the generation and the claimant.  Owner tokens are
`[proc, n]`, fresh for each attempt, so that comparing them compares the inode
as well.  A crash leaves all files as they are.  A process that ended is
recognised as such; the fallback for a lock without a recorded birth, which only
refuses more often, is left out, and so are unparseable files, which refuse too.

### The command lock

The protocol is that of the review lock with two differences, and they make it
another one.  A call first cleans: it removes the candidate files of processes
that ended, and each group of claim files (those on one target) none of whose
claimants lives, under a claim of its own, although the lock they are about may
still be there.  And a call does not wait: it refuses, at most three attempts on
the lock apart.

| Variable | In the code |
| --- | --- |
| `lock`, `claims`, `drafts` | the lock file, the claim files (target, generation, claimant), the candidate files |
| `left` | `attemptsRemaining` |
| `listing`, `unread` | the claim files that were listed and those of the group not yet read |
| `seen`, `gen`, `rival` | the lock observed or the target of the group, `generation`, `existing.claimant` |
| `paths`, `cleaning`, `removed` | the claim files to unlink, for which of its two callers `publishReclaimClaim` runs, the result of `removeStaleLock` |
| `overlap`, `orphaned` | history: who was active during a call; whether a process ended with its claim published |

Left out are the checks of shape and protection of the files, a birth that
cannot be read (the process then counts as alive, which refuses) and file
operations that fail.

### One review

`call` is where the outer call is suspended: reading the marker, loading the
policy, authenticating, acquiring the lock, waiting for the finalization, or
waiting for its monitors before it throws (`leaving`).  `pc` is the step of
`#finalizeReview` and `#reviewWithLease`.  They are two variables because the
finalization goes on after the deadline has answered the caller, and so does an
acquisition of the lock (`lateLease`).

| Variable | In the code |
| --- | --- |
| `answer`, `failure`, `result` | the error of the caller, `failure`/`terminalFailure`, the kind of `ManualReviewResult`; an error is the set of causes that `combineFailures` collects |
| `expired`, `reason` | `ReviewDeadline`, and the reason of `reviewSignal`, of which the first stays |
| `watch` | the promises of the two monitors: running, told to stop, settled |
| `handles` | `workspaceCleanup`, `pendingReviewCleanup`, `activeReaction` (one variable in the code, here the handle of the eyes or of the +1), `reviewCheck`, `lease` |
| `attempt` | the loop of `completeTerminal` and `completeReviewCheck` |
| `verdict` | `completion`, computed once before the check run is completed |
| `plan` | whether there are findings, something to publish, threads to resolve |
| `present`, `check`, `submitted`, `head` | GitHub, the cache and the lock file |

The operation of the review under way ends well, fails by itself (one of
`MaxFaults`), or is interrupted by the signal; a write that does not end well
may have taken effect.  A terminal operation is not given the signal.  Both
monitors are one: they observe a targeted cancellation, or one gives up
(`MonitorFails`), until they have settled.  `submit` has the outcomes its
readback tells apart; the one nobody can classify is `uncertain`.

Left out: a request that was interrupted and reaches GitHub only after the
cleanup (for the draft, `Publication` has it); the open check run whose creation
was never answered, which the next review of the head supersedes; the threads of
a resolution one by one (`Publication` again); the order of timestamps of markers
and comments; failure comments.

In `QueueRunner` such a call is the action `ReviewStep` with its kinds of
outcome; what the lock does for it is `ReviewLock`.

### The reviews of one pull request

`Reconciliation` is pure.  A digest is the tuple of what it is computed from, so
that two digests are equal exactly when their inputs are; a finding is its anchor
(path, kinds and text), the line it is on and the changed lines around it.
`Plans` follows `planFindingReconciliation`: findings are grouped by anchor, a
prior identity that may continue several groups is dropped, and each group is
matched in four stages, each on what the one before has left: equal
fingerprints, unique evidence (an assignment of maximum weight), cohorts with the
same repeated tokens, and a single semantic heir.  The code computes the second
stage with the Hungarian algorithm; which assignment it returns among equally
heavy ones is left open, so a report has a set of plans.

`Publication` is the publishing part of the review, for one review after the
other (they hold the review lock).  One action is one request to GitHub or one
look at the head.

| Variable | In the code |
| --- | --- |
| `threads`, `body`, `draft`, `clean` | the review threads with our markers, the body state of the latest review, our pending review, our completion reaction |
| `shown` | the reviews whose draft GitHub has published (found by the run marker) |
| `wire`, `closing` | creations, submissions and deletions, and threads of which a resolution, that got no answer; each takes effect later (`CarryOut`, `CloseLate`) or never |
| `sha`, `found`, `prior`, `plan` | the reviewed head, the validated findings, `PriorReviewState`, what is left of the plan |
| `goal`, `target`, `attempt` | `removeOwnPendingReview` and `settlePendingReview`: for which caller, which draft, which attempt |
| `told` | what the caller was told of each review's draft: submitted, not published, or uncertain |

GitHub keeps one pending review of a user, so that a draft left by a lost
creation makes the next creation fail; `Sweep` is what a review does about it.
Left out: evidence and the text of comments, findings outside the diff (a review
does not accept them), the failure comment, a completion reaction that takes
effect late, and whether a thread of a pending draft was resolved: the next sweep
deletes the draft with its threads.

`OpenThreads` is what people see; `OwnedOpenThreads` is what
`getPriorReviewState` reads, and that has the threads of our pending draft in it,
since the query names no review and the filter looks only at the state, the author
and the marker.  A draft whose creation takes effect between the sweep and that
read is therefore part of the plan.  `touched` notes such a plan, and every
resolution that is not in the plan (by people, or late): after them `last` makes no
claim on what is shown.

### Setup

One action is one remote effect or one write of a file; the checkpoint write that
follows an effect is an action of its own, so that `Stop` falls between them.
`checkpoint.stage` counts the completed stages; `Entry` says where `execute` goes
on.  Resources have no more than a number: the secrets, tokens and Apps made first,
second and so on.  `relay` is the secret the deployed worker verifies with and
`hook` the App whose secret signs deliveries, so that "they agree" is an equation.
`daemon` is the configuration the running daemon has read.

`Start` takes one of three ways, as `setup` does: a checkpoint is resumed, no
files mean a new setup, and both files mean a reconciliation, on which
`mem.reconciles` keeps the two paths apart where they share steps (the token,
the service, the diagnostics).  The repository commands are three steps
(`Authorize`, `AuthorizeCloud`, `Authorized`), enough to stop with the local
policy, KV and the journal apart; `RepositoryManager` has them in full.  The add
that only narrows the local policy is among them (`Authorize`).  `Drift`
is what people and other deployments change, and the service commands, which do
not take the command lock, happen at any point of a run.

Left out: authentication and the identity and account checks of the
prerequisites, the App's permissions and installations, which only end a run,
and the loopback server of the manifest flow.

### The repository commands

One action is one write of `repository.ts`, or the wait for the user, with the
reads before it.  `pc` names the next write and `cmd` holds the local variables
of `add` or `remove` (`cmd.prior`, `cmd.seen`, `cmd.target` are the policies read
and the one being written; `cmd.old` the unfinished removal an add runs into).
`cmd.omits` says that a write was left out although the store does not hold what
would have been written, which happens in two ways: an add compares with the local
policy it read before it narrowed policy.json (`ReadPolicies`, `WriteNext`; section
6), and a removal compares with an older value of KV (`RevokeCloud`).
Both commands share `Put` and `Verify`, the two steps of every change of KV, and
`cmd.after` is the step that follows.  `Interrupt` ends the command anywhere: an
exception or a kill.  `status` is what the last command answered.  Two history
variables hold what only an exception in the properties needs: `dropped`, the
repositories whose pending add another add has dropped, and `unverified`, those an
add took to be allowed in KV because an older value said so.

KV is two variables: `cloud`, the value written last, and `visible`, what a read
returns; `Propagate` makes them equal.  `verifyCloud` waits out the window after
which KV shows what was written, hence a `Verify` that succeeds leaves them
equal.  On GitHub a name leads to a repository, also after it was renamed, until
another repository takes the name; the App is installed under a new id each
time, and its access to each repository may change.  All commands run under the
command lock, so one runs at a time; the daemon reads `local` and `visible` and
reviews what both allow.

Left out: owners (the names are of one owner), the order of the JSON arrays and
installations without repositories (by which `policiesMatch` may see a difference
where there is none, and write once more), other users, the URL of a settings
page, and `list`, which changes nothing.

## 3. The runs

Deadlock is checked in the runs of the queue, of the review and of the
publication, where `Over` stutters once the call or the bounds have ended.  In
the others `CHECK_DEADLOCK FALSE` stands because a process stops after its calls
(`MaxCalls`; one for the command lock), the user after `MaxCommands` commands,
and nobody has to run a finished setup again.

| Run | Instance | Shows |
| --- | --- | --- |
| `queue_faults` | a requested delivery and a malformed message, all faults, at most 4, with fairness | `TypeInvariant`, `SavedStatesValid`, `AttemptBudget`, `ChargesAreDurable`, `EverySettles` |
| `queue_requested` | two deliveries of one requested review, all faults, at most 2 | `SettledForAReason`, `NotReviewedAgain`, `StoreNeverRegresses` |
| `lock_crash` | three processes, one call each, a process that ended before, crashes | `LeaseKept`, `ImplementsMutex` (and with it exclusion) |
| `lock_recovers` | two processes, two calls each, aborts and crashes, with fairness | `LoneCallerNotRefused`, `AcquireEnds` |
| `lock_abort` | two processes, two calls each, aborts | the first finding of section 6 |
| `command_lock` | three processes, a lock, a claim and a candidate of processes that ended, crashes | `TypeInvariant`, `LeaseKept`, `LoneCallerServed` |
| `command_lock_orphan` | two processes, the same leftovers | the second finding of section 6 |
| `review` | four faults, two pushes, with fairness | `TypeInvariant`, `NothingIsLeftBehind`, `LeaseCoversWork`, `CancellationWins`, `CheckTellsTheTruth`, `ResultIsWhole`, `ConclusionIsStable`, `CallerIsAnswered`, `FinalizationEnds` |
| `publication` | four reviews of one pull request, each with one of seven reports, a budget of eight | `TypeInvariant`, `ToldTruly`, `FindingsShown`, `SameFindingsAreQuiet` |
| `repositories` | two repositories, two names, four commands, two faults, two changes on GitHub | `TypeInvariant`, `LocalAhead`, `AuthorizedTruly`, `RemovedLocally`, `RemovedFromCloud`, `RevocationStands`, `CloudRevocationStands` |
| `add_unwritten` | one repository, two commands, one fault | the third finding of section 6 |
| `setup` | three stops or mistyped tokens, two repository commands, a service command, a drift, with fairness | `TypeInvariant`, `OneOfEach`, `FinishedWorks`, `NeverAuthorizes`, `SetupFinishes` |

**The bounds.**  The budget of attempts is three, so `queue_faults` allows four
faults: an outage for each of the three slots and one more to crash, abort or
lose a confirmation between them; for its safety properties the proofs allow any
number.  Deliveries meet only in the queue and, when
they carry the same request, in the completion marker; two deliveries are
therefore enough for `queue_requested`, and two faults for the orders that
matter there (a failed marker and a crash; a lost acknowledgement and a late
save).  Three processes are what a race for a stale lock needs: two that judged
it and one that has published a new one.  Generations of claims grow with the
processes that died while reclaiming: at most three here, one of them before the
start.  A terminal operation gives up at its third failure: four faults let one
be exhausted after another operation failed, and two pushes take the head away
from the reviewed commit and back.  Aborts, cancellations and the deadline need
no bound: each happens once.  A repository command meets what one earlier command left
behind, and that one what another left; a fourth and two faults are needed for an
add that reads a value of KV that two writes have since replaced (section 6).
Two changes are a rename and the reuse of the old name, or the App removed and
installed again.  Ids and names are only compared, so that both may be permuted.  Of the command lock each process makes one call: what an earlier call
leaves behind is in the initial states or made by a crash of one of the three.  In
`publication` a review costs two units of the budget and every mishap (a fault, a
push, a thread resolved by people) one (a late effect none): four reviews with none, three with two,
two with four.  A repetition needs three reviews, a lost creation and the sweep
of the next review two reviews and one fault, a submission whose readback fails
too three faults within one.  The seven reports hold one to three findings of an
anchor, with and without neighbours, the same pair further down, and a second
anchor.  In `setup` three stops allow one in the first run, one in the run that
resumes it, and one in the reconciliation; two repository commands let the second
meet what a stopped first has left.  The proofs of section 5 drop all these
bounds, except for the properties they do not cover.

**Fairness.**  `QueueRunner!Fairness` says that the event loop runs, that file
operations settle, that the queue makes an unsettled lease visible again, and
that launchd restarts the daemon.  It assumes nothing of faults, of which there
are finitely many.  That every message eventually leaves the queue thus means:
when the faults cease.  A file operation that hangs for ever is excluded; it
would hold its message in retry.  In `ReviewLock` a process that started an
operation goes on with it (or dies); nothing makes a caller call, a holder
release, or a signal fire.  In `Orchestrator` settled promises are acted
upon, and each liveness property names what it needs besides: `CallerIsAnswered`
that the timer fires, but not that any operation ever ends (the model, Git or
GitHub may hang); `FinalizationEnds` that operations end, but not that the timer
fires, so that nothing may wait for something only the deadline would bring
about.  In `Setup` a command that runs goes on, KV and launchd do their part, and
the user runs a setup again that has not finished (`WF_vars(Start)`): the
documentation tells them to (`docs/setup.md:91`).  No stop, drift or command of
others is assumed.  `Publication` and `CommandLock` state no fairness: all their
properties are about what may happen.

## 4. The properties

| Property | What could break it |
| --- | --- |
| `AttemptBudget` | a crash during a review whose reservation is dropped; an outage that lands between a reservation and its commit |
| `ChargesAreDurable` | reconciliation that trusts memory over the file; a rollback that lowers another attempt's state |
| `SavedStatesValid` | a slot past the third after a chain of outages |
| `StoreNeverRegresses` | a late save of an older state; a rollback that races with a newer reservation |
| `NotReviewedAgain` | a fence that does not survive reconciliation; a marker written after the acknowledgement; an abort between review and fence |
| `SettledForAReason` | an outage counted twice: the job would be dropped early |
| `EverySettles` | an outage settlement that is never cleared: retries without an attempt |
| `LeaseKept` (of both locks) | a claim taken from a live claimant; a recheck that does not compare owners; cleaning that removes the claim of a lock in place |
| `ImplementsMutex` | publishing by rename instead of link |
| `LoneCallerNotRefused` | a claim of a dead claimant that blocks |
| `AcquireEnds` | a dead claimant's generation tried for ever |
| `NothingIsLeftBehind` | a handle armed only after the answer; a late lease nobody releases |
| `LoneCallerServed` | a gap in the generations that cleaning does not recognise; a leftover nobody may remove |
| `LeaseCoversWork` | a lease released before the check run is completed |
| `ConclusionIsStable` | a conclusion computed anew at each attempt, with an abort between them |
| `CancellationWins` | monitors that are stopped but not awaited before an irreversible step |
| `CheckTellsTheTruth` | a result in hand that hides a later failure |
| `ResultIsWhole` | a step skipped because there is nothing new to comment on |
| `CallerIsAnswered` | a timer started only with the lease |
| `FinalizationEnds` | monitors awaited before they are told to stop |
| `LocalAhead` | the journal written after the policies |
| `AuthorizedTruly` | a retry that trusts the value KV happens to show; an answer before KV, or the local policy where it is written, has the repository |
| `RemovedLocally` | a removal by a new name that narrows only KV |
| `RemovedFromCloud` | a removal that leaves KV as it is because the local policy has lost the repository already |
| `RevocationStands` | taking over what KV allows instead of intersecting |
| `CloudRevocationStands` | writing to KV what the local policy allows, whatever KV said, or what KV showed without the repository |
| `ToldTruly` | a submission still on the wire when the review says its draft was not published |
| `FindingsShown` | a body state that is not published because no thread is new; a thread resolved for a plan that is not carried out |
| `SameFindingsAreQuiet` | a matching stage that takes an identity a later stage would have needed |
| `OneOfEach` | a one-time code that is converted before it is saved |
| `FinishedWorks` | a token replaced while the daemon keeps the old one; a relay that verifies with another secret than GitHub signs with |
| `NeverAuthorizes` | reconciliation that lets KV decide after a repository command stopped half-way |
| `SetupFinishes` | a token of an earlier run that is refused and never asked for again |

Some say less than they might, because the code does: `LocalAhead` (`dropped`,
`unverified`), `AuthorizedTruly` (`unverified`, and an add that omits its local
write), `CloudRevocationStands` (the same add), `RemovedFromCloud` (a removal that
read an older value), `FindingsShown` and `SameFindingsAreQuiet` (`touched`).
Without any one of these exceptions TLC finds the property violated; section 6 says
by what.

Every one is broken by a plausible bug: the mutants are defined beside the
definitions they replace (`ForgetReservation`, `ListFirstGeneration`, ...).

## 5. The proofs

`QueueRunnerProofs` proves, for every set of messages, deliveries, requests and
faults, `TypeCorrect`, `SavesAreValid`, `ChargesSurviveRestarts` and
`BudgetHolds`.  The assumptions are those `QueueRunner` names: jobs and requests
are of the right kind (`JobsAssumption`), each delivery has one message
(`OwnMessagesAssumption`: GitHub gives a delivery its id and the relay sends one
message for it), and the faults are known ones (`FaultsAssumption`).

`AttemptBudget` is not inductive: that a reservation covers the review depends
on what is in the file, which depends on what may still be written to it.  The
invariant `QueueInv` adds

* `CallInv`, `HeldInv`, `SlotInv`: what a call knows at each of its awaits;
* `AttemptInv`, `OwnInv`: the reservation an attempt works under is its own, by
  token, until it is committed, fenced or rolled back;
* `AccountInv`: for each delivery, the charged reviews are at most the slots of
  the file, and remain so when the save in flight takes effect, whatever it is.

It was first checked with TLC, then proved one action at a time.  A
started review adds one to `charged` at the moment its reservation is written;
every later state written has at least its slot, but for the rollback, which
gives the review back in the same step.

`QueueOnceProofs` goes on from there to two action properties,
`StoreNeverRegresses` and `NotReviewedAgain`, and to the invariant
`SettledForAReason`, under the same assumptions.  Every
step is `Orderly` towards every delivery: it leaves the file alone or lets the
save in flight land, and a save it starts loses nothing of the file.  Since a
second save starts only when the first has settled, no save in flight ever loses
anything of the file it will meet (`FlightInv`), and a fence stays (`FenceInv`);
during a review nothing touches the file (`ReviewInv`).  `RequestInv` says that a
call that may yet review found its request not completed, and `MarkInv` that a
requested review that ran to its end is marked or is about to be, as long as the
store did not fail and the process did not crash.

That no message is dropped early is a statement about every place that holds a
count of failures: the file, the process's memory, the floor it keeps during an
outage, a load or a settlement not yet answered, and the slot a save in flight is
about to write.  `CountInv` says that none of them exceeds the deliveries of the
message that may have used a slot (`Used`); it has to allow for a rollback, whose
save can land after the next delivery began and be charged to that one
(`Chargeable`).  `EndInv` leads each fence, each marker of a request and each
completion the process remembers back to a review that ran to its end.

`ReviewLockProofs` proves `TypeCorrect` (which no run checks besides) for any number
of processes and calls,
and under `~MayAbort` also `LeaseIsKept`, `Exclusion` and `Refinement` (each
step of the file protocol is a step of `Mutex` or leaves it unchanged).  The
invariant says that among the processes that passed the claim on the lock's
present owner, one at most is past its recheck; generations below the highest
claim belong to processes that ended; and a lock that is held belongs to a live
process, which nobody claims.  `~MayAbort` is needed: see below.
`LoneCallers` (`LoneCallerNotRefused`) needs no such assumption.  `LeftInv` says
what processes leave: a lock or a claim whose process lives is one it holds or is
about to remove, so that whatever an idle or aborted process has left names
somebody who ended.  A caller that overlaps with nobody therefore finds the lock
as it saw it at every step of its reclaim, finds no rival alive, and finds no lock
at its second attempt.

`OrchestratorProofs` proves, for any number of faults and pushes, `TypeCorrect`,
`LeaseOutlivesWork`, `PublishedReviewsStay`, `CancellationPrecedes`,
`EverythingIsTakenDown`, `CheckIsTruthful`, `ConclusionStays` and
`ResultsAreWhole`.  The safety properties are not inductive.  `ReviewInv` adds
at which steps which handle can be armed (`HandlePlaces`), where the lease is
held (`LeasePlaces`), from which step on the review may be published
(`SubmittedPlaces`), and where the call and its finalization can be with respect
to each other (`CallPlaces`); `Precedence` says that
once something is done or about to be done that a cancellation could not undo,
the monitors have settled and the signal is not a cancellation.  `Accounted`
says that whatever exists has a handle, that a handle is given up with less
than three faults only after its operation took effect, and that a draft without
a handle is one reported as uncertain.  `Truthful` ties the conclusion computed
at the end of the review to what it rests on, and a check run that has a
conclusion to that one.  `Answers` relates the caller's answer to the
finalization, that of a lease handed over too late included; and as long as
nothing failed, `Whole` says what each step has left for the later ones: every
artifact has its handle (`Taken`), the remains of earlier reviews are gone, the
check run is open, and the comments are published as planned (`Done`).  The only
assumption is `BoundsAssumption`.

`RepositoryManagerProofs` proves, for every set of repositories and names and
any number of installations, faults, changes on GitHub and commands,
`TypeCorrect`, `RevocationHolds`, `CloudRevocationHolds`, `NothingUnrecorded`,
`AuthorizationIsTrue`, `RemovalIsLocal` and `RemovalIsInCloud`.  `BoundsAssumption` says that there is an
installation to start with and that 0 is no repository's id.  That every policy
parses needs more than the lemmas on the functions of `Policy`: the policy an add
writes was made from one it read earlier, and what it restores from another.
`PolicyInv` adds where a command may go on after a write (`Afterwards`), from
which step on it knows its repository and installation (`Known`), and
(`Widening`) that what an add is about to write, or may put back, allows nothing
but what the local policy allows already and the repository it adds.  Each action
is a lemma; only the eight that `LocalGrowsByAdding` goes through write
`policy.json`.

`NothingUnrecorded`, `AuthorizationIsTrue` and `RemovalIsLocal` rest on a second
invariant, `StoreInv`, proved on top of the first one action at a time.  `InStep`
ties the policies an add has read and made to the local one as its writes land: what
it writes to KV has the entries of the local policy and, when it omits the local
write, its own besides (`Widened`), which is the exception `AuthorizationIsTrue` and
`CloudRevocationHolds` state; `Recorded` says that an add is in the journal while it
may have to be retried, and that the policies agree from its verification on;
`Removing` says from which step of a removal on the local policy has lost the
repository, and the journal the adds that the next command of that name would find.
None of them says what KV holds before a verification has ended, as a value read
may be older.  `RemovalIsInCloud` has an invariant of its own, `RevokedInv`: from its
write of KV on, a removal holds the value of KV in hand, unless it omitted the write,
and that value has not the repository.  The exceptions `dropped` and `unverified` are part of the statements
because the code has them (section 6).

`PublicationProofs` proves, for any number of reviews, faults and pushes,
whatever the reports and the plans are, `ReviewsTellTheTruth` (`ToldTruly`),
`Typing` and `FindingsAreShown`.  That a review
which says its draft was not published is right depends on what GitHub may still
carry out.  `DraftInv` adds that such a draft is `Safe`: it is not shown, and if
a submission of it is on the wire, then the draft is gone and no creation on the
wire can bring it back.  `Phase` says at which steps of the review that holds of
its own draft, and at which it has just asked for the submission and does not
know.  Most steps are `Calm`: they publish, create and submit nothing.

`FindingsShown` has a part about the algorithm and one about the protocol.  The
theorem says it whatever is on the wire, until a thread is resolved that the plan
does not resolve, and except for a review that read the threads of a pending draft.

* *The algorithm.* `PlanBalance`: in every plan the identities that stay in the
  body, the threads that are not resolved and the findings to be published are, in
  all and for each anchor, as many as the findings of the report.  It rests on one
  lemma for each stage of the matching (`ExactMatching`, `CohortMatching`,
  `FallbackMatching`, and the definition of `StrongestPairs`): each pairs a finding
  with at most one identity of its own anchor, and `StageMatching` joins them.
  `PublishBalance` moves the count of what was to be published over to the threads
  that GitHub opens for it.
* *The protocol.* `ShowInv`: between what a review reads and what it leaves, no
  draft of another review is published (`InertInv`: once the sweep has listed the
  drafts, a submission on the wire finds its draft gone and no creation on the wire
  brings it back); a completion reaction means an empty body (`CleanInv`); the
  count of the plan holds until the draft is published and the same count of what
  is shown after it, both unless `touched` (`PlanInv`); and all that is shown, planned or under way are
  identities of findings (`DataInv`).  TLC checked `ShowInv` before it was proved.

The assumptions are those `Publication` names.  `ReportsAssumption`: a report is
finite and has one finding of an anchor on a line, which validation ensures
(`validateModelReviewOutput`).  `LegaciesAssumption`: a body that was there before
the first review modelled holds identities that were derived from a finding each,
one for each fingerprint, which is how markers are written and read
(`markerIdentities`).  How heavy an assignment is plays no part: the proof
holds for whichever `StrongestPairs` are taken.

`CommandLockProofs` proves, for any number of processes and crashes,
`TypeCorrect`, `LeaseIsKept` and `Exclusion`, the last two while no process ended
with its claim published (`~orphaned`); otherwise they are false, see below.  Two
kinds of process remove files: one that cleans removes claims, and one that
reclaims removes the lock and then claims.  The heart of `CommandInv` is that
while the lock is in place a claim on it belongs to a process that lives, so that
whoever finds a claimant gone finds that the lock has gone as well: nobody takes
a later generation, and nobody cleans, while the lock observed is there.
`LoneCallers` (`LoneCallerServed`) holds whether or not a claim was orphaned.
`LoneAt` follows a call that overlaps with nobody: after the candidates no
candidate of others is left; while it cleans, the names of the claims there are are
exactly those it listed and has not dealt with (`Names = listing \cup InHand`), so
no group is left to somebody else; when it comes to the lock there are none, and
the lock stays as it saw it until it removes it.

`SetupProofs` proves, for any number of stops, drifts and commands of others,
`TypeCorrect`, `NothingTwice`, `AuthorizesNothing` and `SuccessIsReal`
(`FinishedWorks`).  `SetupInv` says which path
a run is on and which stage a step belongs to (`PathInv`, `StageInv`), from which
stage on the App is known (`AppInv`) and the final files are there (`FinalInv`),
that KV has a policy before the disk has (`CloudInv`), and that the policy a run
holds in memory is the local one from the moment it has read KV (`PolicyInv`), as
no other command that writes policies runs meanwhile.  An App too many is
counted by `CountInv`: the checkpoint is removed only when both final files are
there, so that no run finds neither and registers an App again.

The diagnostics that end a run look at the relay's secret, the token, what KV
shows and launchd.  The rest of `FinishedWorks` is `WorkInv`: GitHub delivers from
the App that the checkpoint has noted, and a new setup writes the configuration it
has noted (`FreshInv`); what reconciling has set right nobody changes while it
runs (`RenewInv`); since the service was stopped no daemon has read another
configuration (`DaemonInv`); and unless an add has stopped, the local policy is no
wider than what KV holds, and that no wider than what KV shows, by entries and then
by revision (`LagInv`).  So KV cannot show the local policy, with nothing recorded
in the journal, and still have another one to show later.  `CheckInv` keeps what
was found until somebody changes something, over a stop between the diagnostics
and the removal of the checkpoint too.

Only model-checked are the liveness properties (`EverySettles`, `AcquireEnds`,
`CallerIsAnswered`, `FinalizationEnds`, `SetupFinishes`: the prover has no rule
for fairness), and `SameFindingsAreQuiet`.  That one needs the assignment of
maximum weight to be the one that was taken before, which is a statement about
sums of weights over all assignments (`MapThenSumSet`, a recursion over data).

## 6. Findings

**A cancelled reclaim can lead to two leases** (`lock_abort`,
`apps/cli/src/review/lock.ts:307`).  A process reclaims a stale lock on which a
dead claimant has left the claim of generation 0; it links generation 1, its
signal fires, and its `finally` unlinks both claims although the stale lock is
still there.  A second process, which had read the dead claim before, links
generation 1; a third links the freed generation 0.  Both find the stale lock
at their recheck.  The faster removes it and publishes its own; the slower then
unlinks that one (line 299) and publishes a second.  `README.md:317` says that
the daemon and a manual review cannot publish concurrently, and the test
"allows only one concurrent reclaimer to acquire a stale lock"
(`apps/cli/test/review-lock.test.ts:251`) says it of reclaimers.  Without
aborts the property is proved.

**Cleaning can lead to two leases** (`command_lock_orphan`,
`apps/cli/src/config/command-lock.ts:410`).  A process ended while it reclaimed
the lock of another that had ended, and has left its claim of generation 0.  Two
commands start together.  The first reads the lock and the claim, finds the
claimant gone and goes on to generation 1.  The second lists the claim, finds its
claimant gone, and removes the group with its own claim although the stale lock is
still there; it then reclaims that lock and links the freed generation 0.  Both
find the stale lock at their recheck (line 449), and the slower unlink of line 452
removes the lock the faster has published meanwhile.  `README.md:317` says that
setup and repository mutations share a command lock, and the test "allows only
one reclaimer to replace the exact stale lock both contenders observed"
(`apps/cli/test/setup-checkpoint.test.ts:539`) says it of contenders that find no
claim.  Unless a process ended with its claim published, exclusion is proved.

**A rerun of an add may leave the local policy without the repository**
(`add_unwritten`, `apps/cli/src/repository.ts:406`).  An add is killed after its
write of policy.json and before its write to KV.  Its rerun reads both
(`priorLocal`, line 369), finds that KV allows less and narrows policy.json to what
both allow (376).  It then writes the new policy only if that differs from
`priorLocal` (406), which was read before the narrowing and holds the new policy
already.  The write is left out; KV is written and verified, and the add answers
"authorized".  `README.md:180` says of that status "Local policy, KV policy, GitHub
installation, immutable repository identity, and installation ID all agree.", and
the test "adds local then cloud policy before reporting GitHub-confirmed
authorization" (`apps/cli/test/repository.test.ts:302`) expects the repository in
both.  The daemon, which reads policy.json, does not review it until it is added once
more; nothing is reviewed that should not be.

Observations that are not findings: the outage floor is lost when the store is
unavailable across a restart, as a comment of the code says (`runner.ts:268`); a
crash after a review and before its fence repeats the review on the next slot,
which is why `NotReviewedAgain` says nothing of a finished review, without a
durable fence, once the process crashed or a store failed.  Of a review:
a cleanup inside the `try` that fails once fails the review although its second
attempt succeeds (`throwCleanupFailures`); when the deadline fires after the last
look at the signal, the check run may say `success` while the caller is told of a
timeout; a targeted cancellation whose cleanup failed too is reported as a
failure and retried by the queue, as `apps/cli/test/queue-runner.test.ts:254`
wants it; and a clean review whose `removeOwnFailureComment` fails leaves its +1.
`ResultIsWhole` and `CheckTellsTheTruth` are stated accordingly.

Of setup: a rerun trusts the stages its checkpoint lists.  When setup stopped in
its diagnostics and the user adds a repository, or removes the service, or revokes
the token before the rerun, the diagnostics compare with the empty policy of a new
setup (`setup/orchestrator.ts:541`, `:554`) or with what the completed stage had
made, and every rerun fails, although `docs/setup.md:91` says to rerun the same
command.  So does one that stopped between the conversion of the one-time code
and the checkpoint of the App.  `Stranded` lists these states and `SetupFinishes`
excepts them, and the time in which a repository that was added is not yet in KV.

Of the publication: a report that comes a second time may still resolve and
publish threads, because what is on GitHub carries the fingerprints of the
reports before; when it comes a third time it changes nothing, and
`SameFindingsAreQuiet` says so.  A draft that appears between the sweep of a review
and its look at the threads is read as if its threads were open
(`review/github.ts:2084`; `isPendingReviewComment`, line 790, tells such comments
apart elsewhere): the review may find its findings in them, publish nothing and end
with "findings", and the next sweep deletes the draft; or it resolves them, which
changes nothing that is shown.  The review after that shows the findings.  A
resolution that takes effect after its review gave it up (line 2160) may resolve a
thread that a later review has kept.  Both are exceptions of `FindingsShown`.  The
failure reporter does not hold the
review lock (`review/failure-reporter.ts:81`), so that its reactions and
comments may be those of an attempt before the one under way.

Of the repository commands: an add drops the pending adds of other repositories
of its name (line 248) before it narrows the local policy, so that a kill in
between leaves a repository allowed locally with nothing in the journal, and a
later add of it does not verify KV: the exception `dropped` in `LocalAhead`.
A removal writes KV only if the policy it has read there differs from the wanted one
(line 543), and verifies nothing when it does not write.  After an add that was
killed between its write of KV and the end of its verification, it may read the value
from before the add; it then answers "removed", and KV goes on to allow the
repository, although `README.md:192` says that a removal revokes KV authorization.
The daemon does not review it, since the local policy does not allow it; it is the
exception in `RemovedFromCloud`.  An add skips write and verification when KV shows the policy it wants (line 413,
and the test `apps/cli/test/repository.test.ts:342`), although `README.md:167` says
that a repository is not reported as authorized before the verification.  Policies
are compared with their revision, but an add makes the next one from the smaller
of the two it read, so that an older value may carry the same: an add is killed
after its write of KV; a removal of the repository reads the value from before it,
writes nothing and drops the journal entry; a removal of another name narrows KV
and is killed before it verified that; the next add still reads the value of the
first and answers "authorized", and KV goes over to one without the repository.
This is the exception `unverified`; nothing is reviewed that should not be.
An add with two unfinished removals to finish, one of its repository's id and one
of its name, finishes the first (line 253) and answers "authorized" with the other
in the journal; when that is the one of its own repository, `list` shows it as
pending and a rerun of the add revokes it before it authorizes it again.  TLC finds
it with two repositories, three names and four changes on GitHub (remove a name,
rename the repository, create one under the old name, remove that, add it), hence
`AuthorizedTruly` says only that no add is left to do.  A removal by a name that redirects ends in an error and has to be
repeated with the new name; where the App has no access, it may leave a pending add
under the new name, hence the last conjunct of `RemovedLocally`.  An unfinished
removal without an installation makes every add of that repository answer
"pending" until the removal is run again.

## 7. What is not modelled, and the plan

Not modelled, and why:

* **The relay worker.** A sequence of checks on one request without state of its
  own; what it promises the rest is `OwnMessagesAssumption`.
* **The failure reporter.** Best effort: the queue consumer joins or abandons it
  and lets it change nothing, and it writes only reactions and one comment.
* **Contracts, schema validation, the text of comments, redaction.** Data; a
  message is well formed or malformed, a report one of a set of findings.
* **Workspace, diff and Git, the model session.** Their results are data to the
  review; that they fail, hang or are interrupted is in `Orchestrator`.
* **Command line and diagnostics.** But for the diagnostics that end a setup,
  read-only.

What would come next, in this order:

1. `Review`: what a review promises (resources are given up, one conclusion that
   fits the answer) as an abstract specification, with `Orchestrator` as its
   refinement; and the outcomes of `ReviewStep` in `QueueRunner` from it.
2. The completion reaction and the failure comment in `Publication`, with the
   failure reporter beside a review.
3. `Relay`: the pipeline as a sequence of gates, with redelivered webhooks.
