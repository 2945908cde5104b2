# The termloop daemon in TLA+

termloop runs coding agents and terminals in Git worktrees. Its daemon
(`src/apps/server`, `src/modules/*`) keeps Projects, Tasks and Sessions; a Task may be
bound to a branch and to a checkout of it, a Session is an agent or a terminal that
runs in some folder. One core lock guards the store and the runtime maps. Whatever
takes time (Git, processes, waiting for a provider) happens outside it, so nearly
every operation is the same three movements: read a plan under the lock, act outside
it, apply the result under the lock to whatever the state has become. The store is
replaced as one file, but Git, the file system, processes and terminals share no
transaction with it, and operations that touch them are journaled.

This project models the operations of that form with everything that interferes with
them, checks them with TLC, and proves with TLAPS what the four sagas on Task worktrees,
the session lifecycle, the delivery of generated input and the admission gates guarantee.

## The system

| Component | State | Operations | Hard behaviour |
|---|---|---|---|
| provisioning saga and journal (`core/src/task_worktree/provisioning.rs`, `store/src/journal/provisioning.rs`) | journal and proof per Task, requests in flight | plan, observe, begin, execute one Git step, apply; dismiss; reconcile at startup | phases interleave with every other request; a Git step times out after its effect; rollback of a created branch against the user's commits; commit and clear are two transactions |
| cleanup saga and journal (`core/src/task_worktree/cleanup/`, `store/src/journal/cleanup.rs`) | journal and receipt per Task, requests in flight | plan, observe, begin, revalidate, remove, verify, finalize; reconcile; recover | stale observations; a removal cut off half way; competing requests; recovery beside requests |
| stale resolution (`cleanup/stale.rs`, `store/src/journal/stale_resolution.rs`) | journal and receipt | forget a binding, or discard the directory and then the binding | three writes around a removal; a repeated request; the directory replaced between look and removal |
| worktree repair (`task_worktree/repair.rs`, `store/src/journal/repair.rs`) | journal and receipt, a request lock per operation id | inspect, begin, `git worktree repair`, verify, rebind; dismiss | Git times out after it rewrote the link; candidate path taken by another Task; dismissal against a retry |
| branch bindings (`store/src/records/task.rs`) | `TaskRecord.branch` | bind, release | against reservations of other Tasks |
| admission gates (`apps/server/src/app/gates.rs`) | queues per project, slot counters, in-flight keys | acquire, release, shutdown; schedule, batch, complete | callers that are cancelled between answer and poll; deadlines; shutdown against admission |
| generated input delivery (`agent-runtime/src/delivery.rs`, `queue.rs`, `core/src/lib.rs`) | one pending submission, a queue and one delivery record per session; four shared cells per delivery | submit, begin, transport events, provider signals, settle, evict | a worker thread that races Core over plain flags; events of replaced deliveries; late acknowledgements |
| session lifecycle (`core/src/session_launch`, `store/src/records/session.rs`, `journal/relocation.rs`, `journal/archive.rs`, `server/.../handlers/session.rs`) | session record, relocation and archive journals, reservations, PTY map | resume, restart, relocate, terminate, archive, restore, reap, reconcile | spawn and reap outside the lock; exits reported late; a process that resists termination; a store that must load again |
| Git (`gitio/src/mutation.rs`) | refs, reflogs, registrations, directories | create and delete a ref, add, remove and repair a worktree | failures with and without effect; the user works on the same repository |
| server (`apps/server/src/app`) | one task per request, the recovery scheduler | drives the phases | lost workers, crashes, restarts |

What makes them correct: a branch or path belongs to one Task at a time; binding, proof,
journals and receipts never contradict each other, whatever crashes; a generation is
never reused; nothing the daemon made is forgotten and nothing the user made is lost; no
checkout is deleted or moved under a session; a permit that is handed out is counted and
comes back; content is typed once; what the store calls running has a process and every
process has an owner; the store can be loaded again; and whatever is started ends or
asks the user for help.

`PROJECT.json` lists every component, also those that are not modelled, and the
hazards the properties are aimed at, each at its line.

## Modules

Task worktrees, provisioning and cleanup:

- **TaskWorktree**: the shared state, its record types, the facts both sagas read
  (ownership of operation ids, holdings, Git facts), the user, the daemon process,
  branch bindings.
- **WorktreeProvisioning**: the provisioning saga. `pReq[w]` is the request of worker
  `w`, a record tagged with the phase it is in and carrying what the code carries
  between phases (`Planned`, `Observed`, `Journaled`, `Executed`). A client request
  runs under a client's name, startup work under the name of its Task.
- **WorktreeCleanup**: the cleanup saga, its recovery and sessions, in the same form
  with `cReq`.
- **TaskWorktreeLifecycle**: both sagas with the user and crashes, the properties,
  and the refinement mapping.
- **TaskBinding**: the abstract specification: what the rest of the system may
  rely on.
- **TaskWorktreeTypes**, **TaskWorktreeProofs**, **TaskWorktreeWorkers**: theorems and
  proofs: types, the store, and the requests in flight.
- **MCLifecycle**: instances.

The other two sagas on a Task's worktree:

- **StaleResolution** (**MCStaleResolution**, **StaleResolutionProofs**): one Task. The cleanup saga and
  re-provisioning appear as what they do to the binding and to each other's guards.
- **WorktreeRepair** (**MCWorktreeRepair**, **WorktreeRepairProofs**): several Tasks and
  paths, since exclusivity of paths is the point; the other sagas appear as the set
  `other` of Tasks that have one of their journals. `disturbed` and `stray` are history
  variables that only properties read.

Admission:

- **ObservationGate**, **ResumeGate**, **GitHostScheduler**: the three actors of
  `gates.rs`, each an mpsc channel of commands, a task that receives them, and callers
  that may vanish. **Gates** composes all three; they share no state, so a behaviour
  looks at one of them. **MCGates** is its instance for TLC, **GateProofs** holds its
  theorems. **MCResumeGate** is the resume gate alone.

Sessions:

- **InputDelivery** (**MCInputDelivery**): Core's handlers are one action each; the
  worker thread takes one step per look at or write to a shared cell, because the order
  of those is where the races are. **InputDeliveryProofs** holds its theorems.
- **SessionLifecycle** (**MCSessionLifecycle**): one agent session. `att[a]` is a call of
  `run_agent_resume_session`; `term` is what the terminal service has registered,
  `reaped` an exit that Core has not heard of; `closer` and `archiver` are the requests
  that end the session; `tree` is the Task worktree as far as the session sees it.
  **SessionLifecycleProofs** holds its theorems.

Each phase under the core lock is one action. Where the code makes two store
transactions in one locked section, the second may fail by itself and the daemon may
die between them. Observation and execution are actions of their own. Git steps choose
among the outcomes their callers can meet: success, failure without effect, failure
with the effect, partial effect. `git worktree remove` is two steps (delete the tree,
drop the registration) because Git does them one after the other.

### Abstractions

- One Project, one repository (the gates have several projects). Paths are pairwise
  disjoint, so "overlap" is equality: a session in a subdirectory of a checkout is a
  session in the checkout. All requests use one base ref; a fetch is a choice of commit.
- A ref is its commit and whether its reflog is exactly the creation marker of an
  operation. Content of a checkout is the set of blocker kinds that `cleanup_policy`
  tells apart. A directory is its leaf identity (device and inode) and whether `.git` is in
  it. Identities are used again: a directory made after another is gone may get the same
  one, as the comment at `stale_disposal.rs:730` says of inodes. An attempt of the removal
  looks at the path and removes it in one step; the retry loop around it is modelled.
- Timestamps matter only where a dismissal compares them: `updated` numbers the
  attempts of a Task. Two attempts within one millisecond would look alike.
- Kinds of failure are kept where the code branches on them.
- The worktree models leave the observation gate out: they allow every order of
  observations, so what passes there passes with the gate.
- Durations are left out: a timeout may fire whenever its wait has not been answered.
- The recovery scheduler is spawned before the listener serves requests; the model
  lets it plan first. Its plans run in parallel in the model and one after the other
  in the code.
- Branches of the code that its other guards make unreachable (a `BindingCleared`
  journal in an apply, a recovery without proof) are left out.
- A Git child does not outlive a crash of the daemon.
- The session of `SessionLifecycle` has a confirmed conversation that its provider can
  resume. The shutdown outcome, deletion, repair of provider history and persistent
  assistants are left out. Of what a failing attempt compares before it applies its failure
  (`resume_failure.rs:156-161`), the project never changes and the conversation only together
  with the epoch, so the model compares the rest.
- `InputDelivery` has the limits per session and of delivery records; the host-wide
  limit of 256 queued inputs is left out.

## Runs

Bounds are named constants of the modules.

| Run | Instance | Shows |
|---|---|---|
| `lifecycle` | 2 Tasks, 1 client, 3 ids, 1 branch, 1 path, 2 generations, 2 attempts, 1 crash, 1 loss | everything both Tasks want is contested: `HoldingsExclusive`, `ProofMatchesBinding`, `ProvisioningJournalSound`, `CleanupJournalSound`, `ReceiptCoversRelease`, `OperationIdsExclusive`, `NoForgottenCheckout`, `ReservedMeansIntact`, `TypeOK`, and that the sagas implement `TaskBinding` |
| `provisioning_liveness` | 1 Task, 2 clients, 2 commits, 2 user steps, 1 crash, fairness | `SingleProvisioner`, `RollbackLosesNoCommit`, `ProvisioningSettles` |
| `cleanup_concurrent` | bound Task, 2 clients, 3 ids, 1 edit or commit of the user, launches, fairness | `NoRemovalUnderSession`, `RemovalOnRecord`, `CleanupSettles` |
| `stale_resolution` | 2 requests of one id, managed or legacy binding, 2 generations, 2 identities, 1 retry of a removal, 1 each of crash, loss, outside change, fairness | `NoRemovalUnderSession`, `ResolutionJournalSound`, `RemovesOnlyItsGeneration`, `DiscardsAccounted`, `EveryResolutionSettles` |
| `worktree_repair` | 2 Tasks, 3 paths, 2 ids, 2 requests, 2 moves of the user, 1 fault | `RepairJournalSound`, `PathsExclusive`, `MovesWithGeneration` |
| `gates` | 3 calls or attempts of up to 3 projects for 2 slots, two of which give up; 3 callers, 4 keys of 2 groups, 2 batches at a time, at the limits of keys, waiters and commands | `ObservationsAccounted`, `AttemptsAccounted`, `QueriesAccounted`, `EveryWaiterServed`, `ShutdownReturnsUndisturbed`, `EveryAttemptAnswered` |
| `input_delivery` | 2 submissions, one of which a feature waits for, both kinds of agent, 3 deliveries, 3 signals, 2 terminal generations, 1 client input, 2 presses; in one session, or in two that compete for one record | `PastedOnceUnlessForgotten`, `AdvancesAfterEnter`, `NothingStranded`, `ConfirmedIsFinal` |
| `session_lifecycle` | 2 attempts, 2 epochs, 2 generations, 1 fault | `RunningHasProcess`, `AgentOwned`, `ResumeAccounted`, `NoRunInHeldTree`, `CloseExcludesRetry`, `StoreLoads` |
| `duplicate_drops_reservation` | bound Task, 2 clients, 1 switch | **violation** of `NoRemovalUnderSession` |
| `resume_gate_loses_permit` | 2 attempts, one gives up, fairness | **violation** of `ShutdownReturns` |
| `delivery_cancel_race_replays` | 1 submission, 2 deliveries | **violation** of `NoReplay` |
| `restored_session_unloadable` | 2 attempts, 3 epochs, no faults | **violation** of `ReceiptFits` |

Why the bounds are enough for the questions asked. A race over a journal needs two
requests; three operation ids allow a provisioning, a cleanup and a competing or
superseding cleanup; two generations exercise release and rebinding; `MaxAttempts` 2
allows one retry, which is what a dismissal races against. Three paths let two Tasks
swap checkouts. Three calls of three projects fill the two slots and leave one queued for a
slot alone; two calls of one project put a live call behind one that gave up. The scheduler
runs two batches, as the code does, with four keys in two groups, so that batches run side by
side while other keys queue up. Two identities of a directory let a later worktree have the
identity of an earlier one, or another. Two
deliveries are a delivery and the one that replaces it; a third lets an evicted submission
begin again. `SoloOrCrowded` keeps the run small: either one session does everything, with
three signals or a restart and two, or both are up, have a submission and the signals that
make them begin. Two epochs are
the process a session has and the one that replaces it; a session starts with or without the
receipt of an earlier relocation, which stands for an epoch before. The session model was also
explored with two epochs and two faults (5 million states) and with three epochs and no fault
(13 million), and `stale_resolution`'s invariants with two operation ids and one identity
(1.9 million), all without an error. `lifecycle` has no content in the checkout and no user; those are in
`cleanup_concurrent` and `provisioning_liveness`. The cleanup runs start from the state
that one undisturbed provisioning leads to. Symmetry is used in runs without liveness,
over sets whose members the specification does not tell apart.

Deadlock is checked in `lifecycle`, `provisioning_liveness` and `session_lifecycle`.
The others end in states where nothing is left to ask for.

### Properties with a hypothesis

Some properties hold only where a particular overlap, which the code does not exclude,
does not happen. They say so, and the model keeps the overlap:

- `StaleResolution`: what concerns a journal is stated for requests that are not repeated
  in flight. `begin` hands the removal to every request of an operation, and the refusal
  of the second clears the journal while the first is removing (`stale.rs:719`).
  `RemovesOnlyItsGeneration` is stated for such requests too: once the second has ended the
  operation, the path may be provisioned again, and the first then removes the later worktree
  if the file system gave it the identity of the old directory (the identity is all that
  `remove_stale_disposal_target_attempt` compares), or if the target is a registered checkout,
  of which Git is given the path alone. Without repetition the journal keeps every other
  generation away for as long as a removal is under way, retries included, whatever
  identities are.
- `PathsExclusive`: for checkouts that stay where they are while their repair is on record.
  `complete_task_worktree_repair` does not look again for another Task at the candidate
  path (`journal/repair.rs:262`); two users' moves between the begin of one repair and the
  completion of another let both Tasks commit to one path. The proof attempt found this,
  the run's two moves do not reach it.
- `RepairJournalSound`: a link of the Task that another Task's repair rewrote (`stray`) is
  not held against this Task: `git worktree repair` repairs whatever checkout lies at the
  candidate path (`gitio/src/repair.rs:138`).
- `NoForgottenCheckout`: while nobody but the daemon adds or removes worktrees and
  directories (`DaemonOwnsCheckouts` in the theorem, no user moves in the run).
- `EveryWaiterServed`, `EveryAttemptAnswered`, `ShutdownReturnsUndisturbed`: as long as no
  caller gives up. A call that gave up at the head of its project's queue uses up the
  turn of the project, and with one project listed the loop ends: the live call behind it
  waits, with slots free, for the next command (`gates.rs:715`). The resume gate is
  below.
- `ObservationsAccounted`: the gate's counters are those of the permits that are out and of the
  slots that are leaked (`Leaked`): the gate answered a call that had given up after the gate
  looked whether it is still there, so no permit exists whose drop would release the slot
  (`gates.rs:362`). The cap and the serialisation hold with them.
- `PastedOnceUnlessForgotten`: unless Core forgot the paste. There are three ways: the cancel
  race below, the eviction of a record at the limit of deliveries (`delivery.rs:903`), and a
  feature (Ask-To, workflow prompt) that fails to complete after its delivery was confirmed:
  `complete_confirmed_generated_input` returns early (`core/src/lib.rs:1641`), the submission
  stays pending behind a record that accepts a replacement, and a later signal writes it again.
- `NothingStranded`: a delivery that awaits the provider's acknowledgement after its worker
  quit (`delivery.rs:450`), and a submission whose feature failed, are ended by the next
  signal of the provider only.
- `AgentOwned`: while no process has resisted termination, no worker has panicked and no
  account was missing. With one, a terminate during a preparation and a new plan before the
  failed attempt is finalised lose the uncertainty, and so does restoring an archived session.

`SessionLifecycle` allows every order of its requests. Where the code lets one request take
something from another, the step records that in a history variable that no action reads,
`lost` or `slips`, and the properties say up to where they hold. Each clause is needed: TLC
violates the property without it, under the bounds of `session_lifecycle` (`StoreLoads`
without `"orphaned"`: with three epochs and no fault).

- `lost` (`RunningHasProcess`): epochs of agents whose end Core did not hear of. A second
  retry, a close or an archive terminates whatever is registered
  (`handlers/session.rs:1024`, `2019-2035`); or the exit is taken for that of a continuation
  shell whose flag a relocation kept, or of an attempt that is reaping.
- `"orphaned"` (`ResumeAccounted`, `StoreLoads`): a resume's reservation, or the observation
  that goes with it, is taken from the attempt that holds it, and the session may stay resuming
  with nobody to end it. `session_agent_account` fails after the reservation was made
  (`resume.rs:1063`, `relocation.rs:621`); `terminate` fails after the reservation was removed
  (`lifecycle.rs:33-41`), because the process resists or because `reap_exited` took it since
  `contains_session`; the cancel of a close removes the reservation of a resume that began
  after the close lost its own; the recovery of another request detaches the observation
  (`handlers/session.rs:1024-1038`); an archive commits, or an archived session is restored,
  under a reservation.
- `"overtaken"` (`StoreLoads`): only explicit calls look whether the session is archived
  (`resume.rs:559`, `resume.rs:738`), so a restart, or the retry of a start, may commit a new
  epoch under an open archive operation, which then does not fit the session.
- `"yielded"` (`CloseExcludesRetry`): the reservation of a close is released by another
  request. The exit of the old process is reconciled and taken for a failed resume
  (`apply_terminal_exit`, `lifecycle.rs:453`), a stale attempt applies its failure, or a second
  close ends; a retry may then start beside the close. The comment at `lifecycle.rs:124-127`
  makes the claim without this condition ("a concurrent resume cannot recreate the runtime
  while close is reaping it"): **there the comment and the code disagree**.
- `"moved"` (`StoreLoads`): the fourth violation below.

### The violations

1. *`duplicate_drops_reservation`.* `modules/core/GEMINI.md` says that cleanup "revalidates
   every destructive gate, and reserves only its exact Task/path against new launches". The
   reservation ends as soon as the journal has a failure (`reconcile.rs:57`). Two requests
   have different ids and the same intent. The first has its removal step. The second
   observed the checkout while HEAD was detached; its begin is answered with the first
   one's journal and marks it for attention. A session may now be launched in the checkout,
   and the removal deletes it. The recovery scheduler reaches the same state: it observes a
   journal failed at `RemovePrepared`, a client retries the operation up to the removal, and
   the old observation is then applied (`mod.rs:914`; one crash, two edits and the cleanup
   and launch requests of one client show it).
2. *`resume_gate_loses_permit`.* The permit exists only once `acquire` is polled after the
   answer. The caller selects between `acquire`, its deadline and the shutdown signal
   (`handlers/session.rs:1138-1150`). When the gate has answered and another branch is
   taken, nobody will send `Release`, and `shutdown()` never returns.
3. *`delivery_cancel_race_replays`.* The worker looks at `cancel_submit`
   (`delivery.rs:1132`), takes a terminal snapshot and then sets `paste_started`
   (`delivery.rs:1154`). Cancelled in between, the record is `Blocked` and not started, so
   the next idle signal begins the submission again, and both workers paste it.
4. *`restored_session_unloadable`.* Restoring an archived session into another folder changes
   `process.cwd` and leaves its relocation receipt (`records/session.rs:588`). Validation
   rejects a receipt whose session is elsewhere (`validation.rs:435`): the store is
   unloadable until a resume commits and drops the receipt (`ReceiptFits`).

Also met, without a run of its own: at the limit of 256 deliveries the oldest record that
is not active makes room for a new one, also one that failed after its paste while its
submission is pending. The next idle signal of that session finds no record
(`can_begin_pending_submission`), and the submission is written again, though the comment
says a submission is taken up again only "when no paste transport was ever started"
(`delivery.rs:234-237`). The proof of `PastedOnce` failed at exactly that step. A delivery blocked with
`ComposerUnavailable` before its paste is confirmed by the user's own turn
(`delivery.rs:773` excludes `ComposerNotReady` only); progress that arrives as the
acknowledgement times out ends the worker without a verdict, and the delivery stays
`AwaitingProviderAck` (`delivery.rs:450`).

### Liveness and fairness

Weak fairness is assumed of what the daemon drives by itself and of nothing else:

- the steps of a request in flight (a Tokio task that awaits its blocking worker and the
  lock), restart by the service manager, startup reconciliation and recovery
  (`DaemonFairness`; `RequestStep` and `Restart` in `StaleResolution`);
- the gate tasks, and callers that poll their answer and drop their permits.

There is no fairness of clients, the user, sessions or providers. A lost worker or a
failed write leaves a journal without failure and without worker until the next start,
which the code accepts; `ProvisioningSettles` and `CleanupSettles` are checked without
losses, `EveryResolutionSettles` excludes them in its statement. `CleanupSettles` is
checked without crashes: with a crash and an edit, recovery may advance a journal that
is `Reserved` again and discard the removal step (`saga.rs:543-561`, `mod.rs:914`), and a
directory that vanishes at the wrong moment makes an apply end in an error; the journal
then waits for the next start. For deliveries and sessions the corresponding statement
is made as an invariant: whatever is in progress has somebody left who ends it
(`NothingStranded`, `ResumeAccounted`).

## Proofs

Everything below holds for every finite or infinite choice of the constants that
satisfies the named assumptions of the modules (names are distinct, `None` is no record,
bounds are naturals): any number of Tasks, clients, requests, paths, ids, crashes, losses
and moves of the user. Each invariant was checked by TLC, with its inductive
strengthening, before it was proved.

**Provisioning and cleanup** (`TaskWorktreeTypes`, `TaskWorktreeProofs`,
`TaskWorktreeWorkers`).

- `TypeCorrect`: `Spec => []TypeOK`, one lemma per action. It is what makes every field
  access below meaningful.
- `StoreConsistent`: `Spec => []StoreInv`, the inductive invariant of the store, from
  which `HoldingsAreExclusive`, `ProofAlwaysMatches`, `ProvisioningJournalsAreSound`,
  `CleanupJournalsAreSound` and `ReleasesAreReceipted` follow. `StoreStep` classifies the
  ways a step may change the store: a provisioning journal is moved, a binding committed,
  a cleanup begun, a cleanup journal moved, a binding cleared, a branch bound or released
  (or all cleanup journals are reconciled). `NextStoreStep` shows that each action is one
  of these; the invariants and the refinement are then proved for a few kinds of step
  instead of some fifty actions. No part of `StoreInv` is inductive alone: clearing a
  binding keeps `ProofMatchesBinding` only because the journal names the current proof
  (`CleanupJournalSound`), which commits keep only because the two journals exclude each
  other (`ProvisioningJournalSound`); a commit keeps exclusivity because the journal
  already held what it binds (`HoldingsExclusive`); `Bind` needs the last release on
  record, which takes `ReceiptCoversRelease` and, for a first binding, `ReceiptNotAhead`.
- `OperationIdsAreExclusive`: in four parts (ids of provisioning, of cleanups, of the
  other journal, of receipts), over the same kinds of step. An id that is in use is
  refused when an operation begins, and a commit or a clearing hands its id on.
- `SagasImplementBinding`: `Spec => ImplementsBinding`. A commit is a `Bind`, a completed
  cleanup a `Release`, a branch binding a `ChangeBranch`, all else stutters.
- `ProvisionersAreSingle`: from `ProvisionersInv`, which adds that a journal bears the
  stamp of an attempt that was made (`Stamped`) and that a planned dismissal is either of
  the current journal or of one that is gone for good (`DismissalOf`). Without these a
  late dismissal could remove the journal of a retry under its worker.
  `ProvisioningMove` classifies what a step does to the journals and the requests.
- `RollbacksLoseNoCommit`: an action property, from `SingleProvisioner` and the reflog
  marker that `DeleteCreatedRef` looks at.
- `CheckoutsAreAccounted`: under `DaemonOwnsCheckouts` (the user adds or removes neither
  directories nor worktrees), `Spec => []NoForgottenCheckout`. `CheckoutsInv` adds what
  requests have seen: a journal that may be dismissed has nothing left at its destination
  (`DismissalFree`), and a checkout that a cleanup saw to be gone is gone for as long as
  the proof it knew is on record (`AbsenceKnown`); that takes a bound on the generations a
  request may know (`KnownProof`).
- `ReservedJournalsAreIntact` and `RemovalsAreOnRecord`: under `DaemonOwnsCheckouts` and
  `OneClient`, with any number of crashes, losses, failed writes, edits and switches of the
  branch, `Spec => []ReservedMeansIntact` and `Spec => RemovalOnRecord`. Both rest on
  `CheckoutsStayIntact`, the inductive `IntactInv`: a bound checkout whose journal says that
  nothing was removed stands (`BindingsStand`); a provisioning journal that is about to be
  bound has its checkout (`AddedStands`); a request that is removing has its intent on record
  for the current proof (`RemovalSound`); what a request has seen of the checkout holds while
  the proof it knew is on record (`FactsHold`); after a crash nobody but the client's retry
  removes (`RecoveryLooks`); and there is content only in directories that exist. Neither
  statement is inductive alone: that an advance of the journal finds the checkout as its
  stage says takes the facts that the request carries across an await.
- `ReservationsKeepSessionsOut` and `ReservationsKeepRecord`: for any number of clients, with
  lost workers, edits, commits and other people's branches, `Spec /\ [][FreshIds]_vars =>
  []NoRemovalUnderSession`, and the same for `RemovalOnRecord`. `Undisturbed` excludes crashes
  and switches, with which the first is false (below). `FreshIds` says that a new request does
  not bear the id of one that is in flight for an earlier worktree of the Task; clients draw
  ids at random, and `apply_task_worktree_cleanup_removal` compares the Task, the id, the stage
  and the failure only, so it would take the late report of such a removal for one of the
  current worktree. The inductive `ReservationInv` (`ReservationsHold`): while the checkout
  of a binding stands, one request drives its journal, which has no failure (`Driven`); Git is
  at work there for one request only, which found nobody there, and the journal it knows is
  the one on record (`Owned`); what a request saw of the checkout cannot mark the journal for
  attention or start a second removal (`Seen`), for which a bound checkout has its own branch
  (`BoundHeads`, `ReadyHeads`); and an id is that of one worktree (`IdsApart`).

**Stale resolution** (`StaleResolutionProofs`). `StaleInv` is `TypeOK` and
`RecordsAgree` (binding, journal, cleanup and sessions go together), `RequestsAgree` (what
a request remembers was true of its generation), `RequestsOwn` (without repeated requests
a disposal owns its journal from beginning to end) and `DiscardsAgree` (what was removed,
what is on record and what was observed agree). It gives `StaleSessions`,
`StaleJournals`, `StaleGenerations` and `StaleDiscards`. Nothing is assumed of the identities of
directories: what keeps a late request from a later worktree is that begin compares the tuple
of the binding, and that the Task is not provisioned again while the journal is on record;
the identity alone would not do it.

**Worktree repair** (`WorktreeRepairProofs`). `RepairInv` is `TypeOK`,
`JournalNamesGeneration` and `RequestsOwn` (the request lock lets one request of an
operation through, and a repair under way owns journal, binding and both paths),
`LinksOnRecord` (where the link of a checkout may point, given binding and journal) and
`PathsOnRecord` (who may be bound to a candidate path). It gives `RepairPaths`,
`RepairJournals` and `RepairGenerations`.

**Sessions** (`SessionLifecycleProofs`). All theorems are of the form `Spec => []P`, for any
number of attempts, epochs, generations and faults and every order of requests; the conditions
are those inside the properties (see *Properties with a hypothesis*): `SessionTypes`,
`SessionSparesHeldTree`, `SessionOwnsAgent`, `SessionRuns`, `SessionCloseExcludes`,
`SessionResumeAccounted` and `SessionStoreLoads`. For the properties that name `lost` or a slip,
a theorem shows that the steps which record it are the only ones that break the rest.

- `AttemptMoves` and the `...Event` lemmas show that each action is one of nineteen moves of an
  attempt (`Moves`) or eighteen other events (`Event`), each written field by field; `Steps`
  joins them. The invariants are proved over those.
- `SessionInv` is the inductive invariant. `EpochsInv`: an epoch is handed out once, so the
  epochs of plans, of what they replace and of what a finaliser has seen stay apart; without
  it a late `Reap` could hit the process of another attempt. `ProcessInv`: what has been
  spawned, and that a session does not run in an epoch that some attempt is still to retire.
  `PlansInv`: a plan is for the folder and guard of the session it is reserved for
  (`NoRunInHeldTree` at a commit). `RestingInv` and `OwnedInv`: without faults nobody resumes
  an archived session, and a finaliser has left nothing (`AgentOwned`). `RuntimeInv`: the
  process that is owed for an epoch (`Live`), of a session that runs or of the attempt that
  drives it, is registered, reported, or in `lost`; these hold whatever slips.
- `ReservationInv`, `CloseInv`, `RelocationInv`, `ReceiptInv`, `ArchiveLoadsInv`: to whom a
  reservation belongs and what a close, a relocation and an archive may rely on while they are
  under way, each up to its slip; together they give `StoreLoads` and `CloseExcludesRetry`.
  `SnapshotsCurrent`, `DrivenInv` and `HoldInv`: what a finaliser compares before it applies a
  failure (`complete_resume_failure`) has not changed while its plan holds the reservation, so
  no driver withdraws without ending the resume.

**Input delivery** (`InputDeliveryProofs`). A handler of Core is a chain of operators on a
record of Core's state, so the invariant is stated on such a record (`Sound(k)`, with the
state that is not Core's beside it) and each operator has a lemma of its own: what it does
to the state is one of a few kinds of change (`Restates` a record, `Drops` one, `Starts` a
delivery, `Promotes` from the queue, `Refiles` a submission, `Resets` a session) and each kind
keeps the invariant. The worker's steps are one more kind (`WorkerActs`). `DeliveryInv` is
`TypeOK` with `Sound` and `WritesKnown`:

- `IdsOnRecord`, `WorkersOnRecord`: ids are handed out in order, so a worker, an event, a cell
  and a record of one id speak of the same delivery, and where a worker is says what it has
  done. This is what makes a late report of a replaced delivery harmless.
- `AfterEnter`: `AdvancesAfterEnter`, for which the two before account for every Enter.
- `Driven`, `QueueCovered`: the worker or event that will decide about a delivery, and what
  stands before a queue (`NothingStranded`).
- `Serves`, `OnePlace`: a submission is in one place only (unsent, pending or queued), and a
  worker that may still paste and was not cancelled serves the pending one.
- `PastesCounted`, `WritesKnown`: pastes are counted by the cells of the deliveries that made
  them; if the pending submission was written and Core has not forgotten it, the session's
  record is the one that wrote and accepts no replacement. A worker that marks its paste
  needs this and `Serves` to know that nobody wrote before it. Between a confirmation and the
  completion in the same handler the statement is weaker (`WritesKnownOrDone`), because a
  confirmed record accepts a replacement while the submission is still pending.

It gives `PastedOnce`, `AdvancesOnlyAfterEnter` and `NobodyStranded`; `ConfirmedStays` is an action
property over the same kinds of change.

**Gates** (`GateProofs`). Both gates are counters that must agree with permits that are on
their way, queued or out, so the invariants tie the counters to cardinalities of sets of
calls; nothing is assumed of how many calls or projects there are.

- `ObservationInv` is the types, where a call can be (`ObservationPlaces`: new, in the channel,
  queued or answered, and in one of them only), `ObservationAccounts` (`active` and
  `activeProjects` are those of the permits and of the leaked slots, of which no two have one
  project, and a started round has a free slot) and `ObservationTurns` (the listed projects are those with a
  call). Every sequence is without repetition; that is what makes taking the head of a queue
  take one call.
- `ResumeInv` has the same parts: `admitted` counts `IsCounted` (between `fetch_update` and the
  channel, in the channel, queued, or holding a slot), `active` counts `HasSlot`. A dropped
  receiver, a refusal by a stopped gate and the queues that a shutdown drops are each one
  subtraction that must match exactly the attempts that leave that set; then the saturation of
  `decrement_resume_admission` never acts. `ResumeStopped` keeps a gate whose `shutdown()` has
  returned free of slots.

It gives `ObservationsKept` and `AttemptsKept`.

Only model-checked, and why:

- liveness (`ProvisioningSettles`, `CleanupSettles`, `EveryResolutionSettles`,
  `EveryWaiterServed`, `EveryAttemptAnswered`, `ShutdownReturnsUndisturbed`): fairness and
  `ENABLED` are outside the prover;
- `NoRemovalUnderSession` of the lifecycle with crashes or switches, where it is not true:
  `duplicate_drops_reservation` violates it with one switch of the user, and it also fails
  with one client, a crash and two edits (a safe removal is refused, the daemon crashes, and
  the recovery worker's older observation marks the journal for attention after the client's
  retry has prepared the removal, so a launch is allowed again). `cleanup_concurrent`
  checks the case the theorem is about;
- `QueriesAccounted`: one step of the query scheduler runs loops over the jobs of a command
  and over its free slots, which the model writes as folds; what a fold does for every
  length needs induction over data.

## Plan

1. The archive of a Task with its sessions; extend `TaskBinding`'s `Release` with the
   receipts of stale resolution and a rebind for repair.
2. Terminal fan-out with lagging subscribers, client invalidation.

## Not modelled

- *Not this program's logic*: the generated contract (`contract/generated`, 36,000 lines),
  vendored and build code, the desktop, mobile and CLI clients, the web site.
- *Data*: the agent catalogue, prompts, arguments and environment (`agents`,
  `invocation`, `launch`), schema migration, provider payload classification, diff,
  commit and health projections. They compute a value from a value, and no state of the
  daemon depends on an order of events in them.
- *Transport*: HTTP, WebSocket, MCP, access control and dispatch; the models begin where
  a handler takes the core lock.
- *Single transactions*: Project, workflow, run configuration, playbook, tracker and
  steward records, each one write under the lock. Their schedulers (companion
  supervisor, task automation) have claims and timers and would be worth a module.
- *Primitives*: PTYs, process groups, file watching, telemetry. Models take them as what
  their callers can observe.
- *Within modelled parts*: a Git child that survives the daemon, previews and inspections (they change no state).

The map covers the parts above whose difficulty is in the order of events. They are a
small share of the repository's lines: most of it is the contract, the clients'
interfaces and data.
