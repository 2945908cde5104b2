---------------------------- MODULE TaskWorktree ----------------------------
(***************************************************************************)
(* The state shared by the Task-worktree sagas of the termloop daemon:     *)
(* the durable records of modules/store, the Git repository and file       *)
(* system the daemon works on, the requests in flight in apps/server, and  *)
(* the daemon process itself.                                              *)
(*                                                                         *)
(* One Project and one repository are modelled, so a branch binding is a   *)
(* branch name.  Paths are pairwise disjoint directories.                  *)
(***************************************************************************)
EXTENDS Naturals, FiniteSets

CONSTANTS
  Tasks,            \* Task ids
  Clients,          \* concurrent control-plane requests
  OpIds,            \* operation ids that clients may send
  Branches,         \* local branch names
  Paths,            \* worktree destinations
  Oids,             \* commits a branch may point at
  ContentKinds,     \* checkout-content blockers: tracked, untracked, ignored...
  GitRefusedKinds,  \* the kinds Git's non-force removal refuses on
  MaxGeneration,    \* the last worktree generation (u64::MAX in the code)
  MaxAttempts,      \* bound: provisioning attempts of one Task
  MaxCrashes,       \* bound: daemon crashes
  MaxLosses,        \* bound: requests lost to a store or worker failure
  MaxUserSteps,     \* bound: steps of the user outside the daemon
  Requests,         \* which control requests the instance sends
  UserMoves,        \* which of those steps the instance allows
  None, User, Detached

ASSUME GenerationAssumption == MaxGeneration \in Nat \ {0}

ASSUME BoundsAssumption ==
  /\ MaxAttempts \in Nat
  /\ MaxCrashes \in Nat
  /\ MaxLosses \in Nat
  /\ MaxUserSteps \in Nat

ASSUME NamesAssumption ==
  /\ Clients \cap Tasks = {}
  /\ None \notin Tasks \cup OpIds \cup Branches \cup Paths \cup Oids
  /\ User \notin OpIds
  /\ Detached \notin Branches \cup {None}
  /\ GitRefusedKinds \subseteq ContentKinds

VARIABLES
  task,       \* TaskRecord: branch and worktree binding, worktree generation
  proof,      \* managed_worktrees: the ManagedWorktreeProof of each Task
  prov,       \* provisioning_operations: the current journal of each Task
  clean,      \* cleanup_operations: the current journal of each Task
  receipt,    \* cleanup_receipts: the latest receipt of each Task
  ref,        \* refs/heads/<branch> with the summary of its reflog
  reg,        \* the branch checked out by the worktree registered at a path
  dir,        \* what is on disk at a path
  content,    \* content in the checkout that a removal would lose
  daemon,     \* lifecycle of the daemon process
  attached,   \* paths that are the cwd of a running session
  pReq,       \* provisioning and dismissal requests in flight
  cReq,       \* cleanup requests in flight
  attempts,   \* provisioning attempts of each Task, as the clock that stamps them
  crashes, losses, userSteps

store == <<task, proof, prov, clean, receipt>>
git   == <<ref, reg, dir, content>>
bounds == <<crashes, losses, userSteps>>
vars  == <<store, git, daemon, attached, pReq, cReq, attempts, bounds>>

-----------------------------------------------------------------------------
(* Records *)

BranchModes == {"create", "existing"}

\* NormalizedWorktreeSpec; base is the resolved base_oid of a created branch.
WorktreeSpec ==
  [path: Paths, branch: Branches, mode: {"create"}, base: Oids]
    \cup [path: Paths, branch: Branches, mode: {"existing"}, base: {None}]

TaskRecord == [branch: Branches \cup {None}, worktree: Paths \cup {None},
               gen: 0..MaxGeneration]

ManagedProof == [op: OpIds, gen: 1..MaxGeneration, spec: WorktreeSpec]

ProvStages == {"reserved", "branchCreated", "worktreeAdded", "bindingCommitted"}

\* WorktreeProvisioningOperation; updated stands for the timestamps as far as
\* they tell one attempt from another.
ProvOp == [op: OpIds, spec: WorktreeSpec, stage: ProvStages, created: BOOLEAN,
           failed: BOOLEAN, updated: 1..MaxAttempts]

CleanupModes == {"safe", "discard"}

\* WorktreeCleanupBaseline; checkout is checkout_branch_ref.
Baseline == [path: Paths, branch: Branches, checkout: Branches \cup {None},
             oid: Oids]

CleanStages == {"reserved", "removePrepared", "removalVerified", "bindingCleared"}
CleanFailures == {"contentAppeared", "recoveryAttention", "operationFailed"}

CleanOp == [op: OpIds, gen: 1..MaxGeneration, managed: OpIds,
            mode: CleanupModes, acks: SUBSET ContentKinds, baseline: Baseline,
            stage: CleanStages, failure: CleanFailures \cup {None}]

Receipt == [op: OpIds, gen: 1..MaxGeneration, managed: OpIds,
            mode: CleanupModes, acks: SUBSET ContentKinds,
            outcome: {"bindingCleared", "removed"}]

\* A branch ref: its commit, and the operation whose creation marker is the
\* only entry of its reflog (User: any other reflog).
Ref == [oid: Oids, mark: OpIds \cup {User}]

\* None stands for an absent record, failure or ref.
ASSUME RecordAssumption ==
  None \notin ManagedProof \cup ProvOp \cup CleanOp \cup Receipt \cup CleanFailures
               \cup Ref

PathStates == {"absent", "present", "replaced"}

\* Startup work for a Task runs under the Task's own name, client work under
\* the name of the client request.
Workers == Clients \cup Tasks

DaemonUp == daemon = "up"

-----------------------------------------------------------------------------
(* Facts about the store *)

\* Mutant of OwnedByCleanup: receipts are forgotten
OwnedByCleanupJournal(op) ==
  \E t \in Tasks : clean[t] # None /\ op \in {clean[t].op, clean[t].managed}

\* operation_id_owned_by_cleanup
OwnedByCleanup(op) ==
  \E t \in Tasks :
    \/ clean[t] # None /\ op \in {clean[t].op, clean[t].managed}
    \/ receipt[t] # None /\ op \in {receipt[t].op, receipt[t].managed}

\* operation_id_owned_by_provisioning
OwnedByProvisioning(op) ==
  \E t \in Tasks :
    \/ prov[t] # None /\ prov[t].op = op
    \/ proof[t] # None /\ proof[t].op = op

\* operation_id_owned_anywhere (archive, relocation, repair and stale
\* resolution journals are not modelled)
OwnedAnywhere(op) == OwnedByProvisioning(op) \/ OwnedByCleanup(op)

\* operation_id_is_owned_by_another_task
OwnedByAnotherTask(op, t) ==
  \E u \in Tasks \ {t} :
    \/ proof[u] # None /\ proof[u].op = op
    \/ prov[u] # None /\ prov[u].op = op

\* The Task that holds a branch or a path by its binding or by its journal.
BranchHeld(t, b) ==
  \E u \in Tasks \ {t} :
    task[u].branch = b \/ (prov[u] # None /\ prov[u].spec.branch = b)

PathHeld(t, p) ==
  \E u \in Tasks \ {t} :
    task[u].worktree = p \/ (prov[u] # None /\ prov[u].spec.path = p)

-----------------------------------------------------------------------------
(* Facts about Git and the file system *)

\* checked_out_branch_path: some registered worktree has the branch
CheckedOut(b) == \E p \in Paths : reg[p] = b

\* exact_creation_marker
ExactCreationMarker(b, oid, op) ==
  ref[b] # None /\ ref[b].oid = oid /\ ref[b].mark = op

\* path_entry_is_absent and no worktree_registered_at
DestinationFree(p) == dir[p] = "absent" /\ reg[p] = None

-----------------------------------------------------------------------------
(* The user and other programs, working on the repository without the daemon *)

UserStep(move) ==
  /\ move \in UserMoves
  /\ userSteps < MaxUserSteps
  /\ userSteps' = userSteps + 1
  /\ UNCHANGED <<store, daemon, attached, pReq, cReq, attempts, crashes,
                 losses>>

\* git branch
UserCreatesBranch(b) ==
  /\ UserStep("branch")
  /\ ref[b] = None
  /\ \E o \in Oids : ref' = [ref EXCEPT ![b] = [oid |-> o, mark |-> User]]
  /\ UNCHANGED <<reg, dir, content>>

\* git commit or git reset on the branch, anywhere
UserMovesBranch(b) ==
  /\ UserStep("commit")
  /\ ref[b] # None
  /\ \E o \in Oids : ref' = [ref EXCEPT ![b] = [oid |-> o, mark |-> User]]
  /\ UNCHANGED <<reg, dir, content>>

\* git branch -D
UserDeletesBranch(b) ==
  /\ UserStep("delete")
  /\ ref[b] # None /\ ~CheckedOut(b)
  /\ ref' = [ref EXCEPT ![b] = None]
  /\ UNCHANGED <<reg, dir, content>>

\* edits in a checkout, by the user or by an agent; discarding them
UserEdits(p) ==
  /\ UserStep("edit")
  /\ dir[p] = "present" /\ reg[p] # None
  /\ content' \in {[content EXCEPT ![p] = K] :
                     K \in {content[p] \cup {k} : k \in ContentKinds} \cup {{}}}
  /\ UNCHANGED <<ref, reg, dir>>

\* git switch inside a checkout
UserSwitches(p) ==
  /\ UserStep("switch")
  /\ dir[p] = "present" /\ reg[p] # None
  /\ \/ reg' = [reg EXCEPT ![p] = Detached]
     \/ \E b \in Branches : /\ ref[b] # None /\ ~CheckedOut(b)
                            /\ reg' = [reg EXCEPT ![p] = b]
  /\ UNCHANGED <<ref, dir, content>>

\* rm -r, mkdir or a symbolic link at a destination
UserChangesDirectory(p) ==
  /\ UserStep("directory")
  /\ \E d \in PathStates \ {dir[p]} : dir' = [dir EXCEPT ![p] = d]
  /\ content' = [content EXCEPT ![p] = {}]
  /\ UNCHANGED <<ref, reg>>

\* git worktree add or git worktree remove
UserChangesWorktree(p) ==
  /\ UserStep("worktree")
  /\ \/ /\ DestinationFree(p)
        /\ \E b \in Branches : /\ ref[b] # None /\ ~CheckedOut(b)
                               /\ reg' = [reg EXCEPT ![p] = b]
        /\ dir' = [dir EXCEPT ![p] = "present"]
     \/ /\ reg[p] # None
        /\ reg' = [reg EXCEPT ![p] = None]
        /\ dir' = [dir EXCEPT ![p] = "absent"]
  /\ content' = [content EXCEPT ![p] = {}]
  /\ UNCHANGED ref

UserNext ==
  \/ \E b \in Branches : \/ UserCreatesBranch(b)
                         \/ UserMovesBranch(b)
                         \/ UserDeletesBranch(b)
  \/ \E p \in Paths : \/ UserEdits(p)
                      \/ UserSwitches(p)
                      \/ UserChangesDirectory(p)
                      \/ UserChangesWorktree(p)

-----------------------------------------------------------------------------
(* The daemon process *)

Idle == [phase |-> "idle"]

\* What a crash of the daemon does to everything but the store and Git.
DaemonDies ==
  /\ crashes < MaxCrashes
  /\ crashes' = crashes + 1
  /\ daemon' = "down"
  /\ attached' = {}
  /\ pReq' = [w \in Workers |-> Idle]
  /\ cReq' = [w \in Workers |-> Idle]
  /\ UNCHANGED <<attempts, losses, userSteps>>

Crash ==
  /\ daemon # "down"
  /\ DaemonDies
  /\ UNCHANGED <<store, git>>

\* A failure the code does not record: a failed store write, a worker that
\* panics, a Git observation gate that refuses.
Loss ==
  /\ losses < MaxLosses
  /\ losses' = losses + 1
  /\ UNCHANGED <<crashes, userSteps>>

\* CoreRuntime::new: provisioning is reconciled first, and as a whole skipped
\* when no usable Git is found.
Restart ==
  /\ daemon = "down"
  /\ \/ daemon' = "reconciling" /\ UNCHANGED bounds
     \/ daemon' = "reconciled" /\ Loss
  /\ UNCHANGED <<store, git, attached, pReq, cReq, attempts>>

-----------------------------------------------------------------------------
(* Branch bindings without a worktree *)

\* bind_task_branch; the branch was seen to exist, but the completion does not
\* look again.
BindTaskBranch(t, b) ==
  /\ "bind" \in Requests /\ DaemonUp
  /\ task[t].branch = None
  /\ prov[t] = None /\ clean[t] = None
  /\ ~BranchHeld(t, b)
  /\ task' = [task EXCEPT ![t].branch = b]
  /\ UNCHANGED <<proof, prov, clean, receipt, git, daemon, attached, pReq, cReq,
                 attempts, bounds>>

\* release_closed_task_branch; any Task may be closed.
ReleaseTaskBranch(t) ==
  /\ "release" \in Requests /\ DaemonUp
  /\ task[t].branch # None /\ task[t].worktree = None
  /\ prov[t] = None /\ clean[t] = None
  /\ task' = [task EXCEPT ![t].branch = None]
  /\ UNCHANGED <<proof, prov, clean, receipt, git, daemon, attached, pReq, cReq,
                 attempts, bounds>>

-----------------------------------------------------------------------------
StoreTypeOK ==
  /\ task \in [Tasks -> TaskRecord]
  /\ proof \in [Tasks -> ManagedProof \cup {None}]
  /\ prov \in [Tasks -> ProvOp \cup {None}]
  /\ clean \in [Tasks -> CleanOp \cup {None}]
  /\ receipt \in [Tasks -> Receipt \cup {None}]

GitTypeOK ==
  /\ ref \in [Branches -> Ref \cup {None}]
  /\ reg \in [Paths -> Branches \cup {None, Detached}]
  /\ dir \in [Paths -> PathStates]
  /\ content \in [Paths -> SUBSET ContentKinds]

RuntimeTypeOK ==
  /\ daemon \in {"down", "reconciling", "reconciled", "recovering", "up"}
  /\ attached \in SUBSET Paths
  /\ attempts \in [Tasks -> 0..MaxAttempts]
  /\ crashes \in 0..MaxCrashes
  /\ losses \in 0..MaxLosses
  /\ userSteps \in 0..MaxUserSteps

=============================================================================
