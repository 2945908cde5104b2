------------------------ MODULE WorktreeProvisioning ------------------------
(***************************************************************************)
(* Task-worktree provisioning: the plan / observe / begin / execute / apply *)
(* saga of modules/core, the journal transactions of modules/store, the    *)
(* dismissal of a failed journal, and the reconciliation at startup.       *)
(*                                                                         *)
(* Plan, begin, apply and the dismissal's completion run under the core    *)
(* lock and are atomic; observe and execute run outside it, so everything  *)
(* else may happen between any two phases of a request.                    *)
(***************************************************************************)
EXTENDS TaskWorktree

Wanted == [path: Paths, branch: Branches, mode: BranchModes]

ProvResults == {"branchCreated", "worktreeAdded", "readyToCommit", "failed",
                "rolledBack"}

\* The phases of a request, with what each carries to the next.
Planned == [phase: {"observe"}, task: Tasks, op: OpIds, want: Wanted,
            branch: Branches \cup {None}, bound: BOOLEAN,
            prior: WorktreeSpec \cup {None}, completed: BOOLEAN]
Observed == [phase: {"begin"}, task: Tasks, op: OpIds, spec: WorktreeSpec]
Journaled == [phase: {"execute", "rollback", "deleteRef", "dismissObserve",
                      "dismiss"}, task: Tasks, operation: ProvOp]
Executed == [phase: {"apply"}, task: Tasks, operation: ProvOp,
             result: ProvResults]

ProvRequest ==
  [phase: {"idle"}] \cup Planned \cup Observed \cup Journaled \cup Executed

\* The phases in which a worker drives a journal.
Driving == {"execute", "rollback", "deleteRef", "apply"}

To(w, r) == pReq' = [pReq EXCEPT ![w] = r]

OnlyRequest ==
  UNCHANGED <<store, git, daemon, attached, cReq, attempts, bounds>>

-----------------------------------------------------------------------------
(* Plan and observe *)

\* plan_task_worktree_provisioning
PlanProvisioning(c, t, op, want) ==
  /\ "provision" \in Requests /\ DaemonUp
  /\ pReq[c] = Idle
  /\ ~OwnedByAnotherTask(op, t)
  /\ LET completed == proof[t] # None /\ proof[t].op = op
     IN  To(c, [phase |-> "observe", task |-> t, op |-> op, want |-> want,
                branch |-> task[t].branch, bound |-> task[t].worktree # None,
                prior |-> IF prov[t] # None THEN prov[t].spec
                          ELSE IF completed THEN proof[t].spec ELSE None,
                completed |-> completed])
  /\ OnlyRequest

\* The prior spec asks for the same checkout.
SameRequest(prior, want) ==
  /\ prior # None
  /\ prior.path = want.path /\ prior.branch = want.branch
  /\ prior.mode = want.mode

AcceptsDestination(r) ==
  /\ dir[r.want.path] # "replaced"
  /\ dir[r.want.path] = "present" => r.prior # None
  /\ reg[r.want.path] # None => r.prior # None /\ r.prior.path = r.want.path

AcceptsBinding(r) ==
  \/ r.completed
  \/ /\ r.branch \in {None, r.want.branch}
     /\ r.branch # None /\ r.want.mode = "create" => r.prior # None

\* A created branch starts at the base recorded before, or at the commit a
\* fresh fetch of the remote base returns.
BaseOids(r) ==
  IF r.want.mode = "existing" THEN {None}
  ELSE IF SameRequest(r.prior, r.want) THEN {r.prior.base} ELSE Oids

AcceptsBranch(r, spec) ==
  /\ spec.mode = "existing" => ref[spec.branch] # None
  /\ r.completed \/
       /\ spec.mode = "create" /\ r.prior = None => ref[spec.branch] = None
       /\ \A q \in Paths :
            reg[q] = spec.branch => r.prior = spec /\ q = spec.path

\* observe_provisioning_spec: the specs the observation may return
ObservedSpecs(r) ==
  IF r.bound /\ ~r.completed
  THEN {s \in {r.prior} : SameRequest(s, r.want)}
  ELSE {s \in {[path |-> r.want.path, branch |-> r.want.branch,
                mode |-> r.want.mode, base |-> o] : o \in BaseOids(r)} :
          AcceptsBranch(r, s)}

ObserveProvisioning(c) ==
  /\ pReq[c].phase = "observe"
  /\ AcceptsDestination(pReq[c]) /\ AcceptsBinding(pReq[c])
  /\ \E spec \in ObservedSpecs(pReq[c]) :
       To(c, [phase |-> "begin", task |-> pReq[c].task, op |-> pReq[c].op,
              spec |-> spec])
  /\ OnlyRequest

\* A request ends before it has a step to execute: it is refused, it is a
\* repetition whose current state is returned, Git could not be observed, or
\* the store could not be written (and was restored).
EndRequest(c) ==
  /\ pReq[c].phase \in {"observe", "begin", "dismissObserve", "dismiss"}
  /\ To(c, Idle)
  /\ OnlyRequest

-----------------------------------------------------------------------------
(* Begin *)

\* Mutant of MayReserve: the holdings of other Tasks are not looked at
MayReserveHeld(t, op, spec) ==
  /\ ~OwnedByAnotherTask(op, t)
  /\ task[t].branch \in {None, spec.branch}
  /\ ~OwnedByCleanup(op)
  /\ clean[t] = None
  /\ proof[t] # None => proof[t].op # op

\* Mutant of MayReserve: the Task's cleanup journal is not looked at
MayReserveDuringCleanup(t, op, spec) ==
  /\ ~OwnedByAnotherTask(op, t)
  /\ task[t].branch \in {None, spec.branch}
  /\ ~PathHeld(t, spec.path)
  /\ ~BranchHeld(t, spec.branch)
  /\ ~OwnedByCleanup(op)
  /\ proof[t] # None => proof[t].op # op

\* The refusals of begin_task_worktree_provisioning that precede its outcomes,
\* in core and in the store, and the outcome Completed.
MayReserve(t, op, spec) ==
  /\ ~OwnedByAnotherTask(op, t)
  /\ task[t].branch \in {None, spec.branch}
  /\ ~PathHeld(t, spec.path)
  /\ ~BranchHeld(t, spec.branch)
  /\ ~OwnedByCleanup(op)
  /\ clean[t] = None
  /\ proof[t] # None => proof[t].op # op

Execute(w, t, operation) ==
  To(w, [phase |-> "execute", task |-> t, operation |-> operation])

OnlyJournal ==
  UNCHANGED <<task, proof, clean, receipt, git, daemon, attached, cReq, attempts,
              bounds>>

\* A new attempt, with the time it is stamped with.
Attempt(t) ==
  /\ attempts[t] < MaxAttempts
  /\ attempts' = [attempts EXCEPT ![t] = @ + 1]
  /\ UNCHANGED <<task, proof, clean, receipt, git, daemon, attached, cReq, bounds>>

\* BeginProvisioningOutcome::Started
StartProvisioning(c) ==
  /\ pReq[c].phase = "begin"
  /\ LET t == pReq[c].task
         operation == [op |-> pReq[c].op, spec |-> pReq[c].spec,
                       stage |-> "reserved", created |-> FALSE,
                       failed |-> FALSE, updated |-> attempts[t] + 1]
     IN  /\ MayReserve(t, pReq[c].op, pReq[c].spec)
         /\ prov[t] = None /\ task[t].worktree = None
         /\ prov' = [prov EXCEPT ![t] = operation]
         /\ Execute(c, t, operation)
         /\ Attempt(t)

\* BeginProvisioningOutcome::Current of a failed journal, then
\* retry_task_worktree_provisioning
RetryProvisioning(c) ==
  /\ pReq[c].phase = "begin"
  /\ LET t == pReq[c].task
     IN  /\ MayReserve(t, pReq[c].op, pReq[c].spec)
         /\ prov[t] # None
         /\ prov[t].spec = pReq[c].spec /\ prov[t].failed
         /\ LET operation == [prov[t] EXCEPT !.failed = FALSE,
                                             !.updated = attempts[t] + 1]
            IN  /\ prov' = [prov EXCEPT ![t] = operation]
                /\ Execute(c, t, operation)
         /\ Attempt(t)

-----------------------------------------------------------------------------
(* Execute: one Git mutation, outside the lock *)

Outcome(w, result) ==
  To(w, [phase |-> "apply", task |-> pReq[w].task,
         operation |-> pReq[w].operation, result |-> result])

OnlyGit == UNCHANGED <<store, daemon, attached, cReq, attempts, bounds>>

\* Reserved, Create: create_branch_ref.  It may fail, or be cut off by its
\* timeout after it took effect.
CreateBranch(w) ==
  /\ pReq[w].phase = "execute"
  /\ LET o == pReq[w].operation  b == o.spec.branch
     IN  /\ o.stage = "reserved" /\ o.spec.mode = "create"
         /\ \/ /\ ref[b] = None
               /\ ref' = [ref EXCEPT ![b] = [oid |-> o.spec.base, mark |-> o.op]]
               /\ \E result \in {"branchCreated", "failed"} : Outcome(w, result)
            \/ /\ ExactCreationMarker(b, o.spec.base, o.op)
               /\ Outcome(w, "branchCreated")
               /\ UNCHANGED ref
            \/ Outcome(w, "failed") /\ UNCHANGED ref
  /\ UNCHANGED <<reg, dir, content>>
  /\ OnlyGit

\* A step that fails after the journal owns a created ref rolls the ref back.
StepFailed(w) ==
  IF pReq[w].operation.stage = "branchCreated" /\ pReq[w].operation.created
  THEN To(w, [pReq[w] EXCEPT !.phase = "rollback"])
  ELSE Outcome(w, "failed")

\* Reserved (Existing) and BranchCreated: add_worktree.  A failure may leave
\* everything, nothing, or the bare directory behind.
AddWorktree(w) ==
  /\ pReq[w].phase = "execute"
  /\ LET o == pReq[w].operation  b == o.spec.branch  p == o.spec.path
         ready == /\ o.stage = "branchCreated" =>
                       o.created /\ ExactCreationMarker(b, o.spec.base, o.op)
                  /\ DestinationFree(p) /\ ~CheckedOut(b) /\ ref[b] # None
     IN  /\ \/ o.stage = "reserved" /\ o.spec.mode = "existing"
            \/ o.stage = "branchCreated"
         /\ \/ /\ ready
               /\ reg' = [reg EXCEPT ![p] = b]
               /\ dir' = [dir EXCEPT ![p] = "present"]
               /\ Outcome(w, "worktreeAdded") \/ StepFailed(w)
            \/ /\ ready
               /\ dir' = [dir EXCEPT ![p] = "present"]
               /\ StepFailed(w)
               /\ UNCHANGED reg
            \/ StepFailed(w) /\ UNCHANGED <<reg, dir>>
  /\ UNCHANGED <<ref, content>>
  /\ OnlyGit

\* verify_created_worktree
VerifyWorktree(w) ==
  /\ pReq[w].phase = "execute"
  /\ LET o == pReq[w].operation
     IN  /\ o.stage \in {"worktreeAdded", "bindingCommitted"}
         /\ \/ /\ reg[o.spec.path] = o.spec.branch
               /\ dir[o.spec.path] = "present"
               /\ ref[o.spec.branch] # None
               /\ Outcome(w, "readyToCommit")
            \/ Outcome(w, "failed")
  /\ UNCHANGED git
  /\ OnlyGit

\* The checks before the rollback of the created ref, and its refusal.
CheckRollback(w) ==
  /\ pReq[w].phase = "rollback"
  /\ LET o == pReq[w].operation
     IN  \/ /\ DestinationFree(o.spec.path) /\ ~CheckedOut(o.spec.branch)
            /\ ExactCreationMarker(o.spec.branch, o.spec.base, o.op)
            /\ To(w, [pReq[w] EXCEPT !.phase = "deleteRef"])
         \/ Outcome(w, "failed")
  /\ UNCHANGED git
  /\ OnlyGit

\* Mutant of DeleteCreatedRef: the ref is deleted whatever it points at
DeleteRefUnconditionally(w) ==
  /\ pReq[w].phase = "deleteRef"
  /\ ref' = [ref EXCEPT ![pReq[w].operation.spec.branch] = None]
  /\ Outcome(w, "rolledBack")
  /\ UNCHANGED <<reg, dir, content>>
  /\ OnlyGit

\* delete_ref_if_matches: git update-ref -d with the expected commit
DeleteCreatedRef(w) ==
  /\ pReq[w].phase = "deleteRef"
  /\ LET o == pReq[w].operation  b == o.spec.branch
     IN  \/ /\ ref[b] # None /\ ref[b].oid = o.spec.base
            /\ ref' = [ref EXCEPT ![b] = None]
            /\ \E result \in {"rolledBack", "failed"} : Outcome(w, result)
         \/ Outcome(w, "failed") /\ UNCHANGED ref
  /\ UNCHANGED <<reg, dir, content>>
  /\ OnlyGit

ExecuteStep(w) ==
  \/ CreateBranch(w) \/ AddWorktree(w) \/ VerifyWorktree(w)
  \/ CheckRollback(w) \/ DeleteCreatedRef(w)

-----------------------------------------------------------------------------
(* Apply *)

\* The journal is still the one the step was executed for.
StillCurrent(r) ==
  LET j == prov[r.task]
  IN  /\ j # None
      /\ j.op = r.operation.op /\ j.stage = r.operation.stage
      /\ j.spec = r.operation.spec /\ ~j.failed

\* The advances of a journal that the store accepts
ValidAdvance(from, to) ==
  \/ from = "reserved" /\ to = "branchCreated"
  \/ from \in {"reserved", "branchCreated"} /\ to = "worktreeAdded"

\* advance_task_worktree_provisioning
ApplyAdvance(w) ==
  /\ pReq[w].phase = "apply" /\ StillCurrent(pReq[w])
  /\ ValidAdvance(prov[pReq[w].task].stage, pReq[w].result)
  /\ LET t == pReq[w].task
         operation == [prov[t] EXCEPT
                         !.stage = pReq[w].result,
                         !.created = @ \/ pReq[w].result = "branchCreated"]
     IN  /\ prov' = [prov EXCEPT ![t] = operation]
         /\ Execute(w, t, operation)
  /\ OnlyJournal

\* fail_task_worktree_provisioning; a result that is not current any more is
\* dropped, whatever it is.
ApplyFailure(w) ==
  /\ pReq[w].phase = "apply"
  /\ StillCurrent(pReq[w]) => pReq[w].result = "failed"
  /\ prov' = [prov EXCEPT ![pReq[w].task] =
                 IF StillCurrent(pReq[w]) THEN [@ EXCEPT !.failed = TRUE] ELSE @]
  /\ To(w, Idle)
  /\ OnlyJournal

\* record_provisioning_ref_rollback
ApplyRollback(w) ==
  /\ pReq[w].phase = "apply" /\ StillCurrent(pReq[w])
  /\ pReq[w].result = "rolledBack"
  /\ prov[pReq[w].task].stage = "branchCreated" /\ prov[pReq[w].task].created
  /\ prov' = [prov EXCEPT ![pReq[w].task].stage = "reserved",
                          ![pReq[w].task].created = FALSE,
                          ![pReq[w].task].failed = TRUE]
  /\ To(w, Idle)
  /\ OnlyJournal

\* The guards of commit_task_worktree_provisioning
CanCommit(t) ==
  LET spec == prov[t].spec
  IN  /\ prov[t].stage = "worktreeAdded"
      /\ task[t].worktree = None
      /\ task[t].branch \in {None, spec.branch}
      /\ ~ \E u \in Tasks \ {t} : proof[u] # None /\ proof[u].spec.path = spec.path
      /\ clean[t] = None
      /\ ~BranchHeld(t, spec.branch)
      /\ task[t].gen < MaxGeneration

\* Mutant of CommitBinding: the generation of the Task is not advanced
CommitSameGeneration(t, left) ==
  LET spec == prov[t].spec  gen == task[t].gen
  IN  /\ task' = [task EXCEPT ![t] = [branch |-> spec.branch,
                                      worktree |-> spec.path, gen |-> gen]]
      /\ proof' = [proof EXCEPT ![t] = [op |-> prov[t].op, gen |-> gen,
                                        spec |-> spec]]
      /\ prov' = [prov EXCEPT ![t] = left]
      /\ UNCHANGED <<clean, receipt, git>>

\* Mutant of CommitBinding: the generation follows the proof that a cleanup
\* deletes, and starts over
CommitFirstGeneration(t, left) ==
  LET spec == prov[t].spec
  IN  /\ task' = [task EXCEPT ![t] = [branch |-> spec.branch,
                                      worktree |-> spec.path, gen |-> 1]]
      /\ proof' = [proof EXCEPT ![t] = [op |-> prov[t].op, gen |-> 1,
                                        spec |-> spec]]
      /\ prov' = [prov EXCEPT ![t] = left]
      /\ UNCHANGED <<clean, receipt, git>>

\* commit_task_worktree_provisioning as one transaction; left is what becomes
\* of the journal in the transactions that follow it.
CommitBinding(t, left) ==
  LET spec == prov[t].spec  gen == task[t].gen + 1
  IN  /\ task' = [task EXCEPT ![t] = [branch |-> spec.branch,
                                      worktree |-> spec.path, gen |-> gen]]
      /\ proof' = [proof EXCEPT ![t] = [op |-> prov[t].op, gen |-> gen,
                                        spec |-> spec]]
      /\ prov' = [prov EXCEPT ![t] = left]
      /\ UNCHANGED <<clean, receipt, git>>

Committed(t) == [prov[t] EXCEPT !.stage = "bindingCommitted"]

ReadyToCommit(w) ==
  /\ pReq[w].phase = "apply" /\ StillCurrent(pReq[w])
  /\ pReq[w].result = "readyToCommit"

\* commit_verified_provisioning: commit, then clear the journal.  A clear that
\* cannot be written leaves a committed journal marked failed.
ApplyCommit(w) ==
  /\ ReadyToCommit(w) /\ CanCommit(pReq[w].task)
  /\ LET t == pReq[w].task
     IN  \/ CommitBinding(t, None) /\ UNCHANGED bounds
         \/ /\ CommitBinding(t, [Committed(t) EXCEPT !.failed = TRUE])
            /\ Loss
  /\ To(w, Idle)
  /\ UNCHANGED <<daemon, attached, cReq, attempts>>

\* The daemon dies between the two transactions.
CommitCrash(w) ==
  /\ ReadyToCommit(w) /\ CanCommit(pReq[w].task)
  /\ CommitBinding(pReq[w].task, Committed(pReq[w].task))
  /\ DaemonDies

\* The store refuses the commit: the journal is marked for attention.
ApplyRefusedCommit(w) ==
  /\ ReadyToCommit(w) /\ ~CanCommit(pReq[w].task)
  /\ prov' = [prov EXCEPT ![pReq[w].task].failed = TRUE]
  /\ To(w, Idle)
  /\ OnlyJournal

\* The worker panics, or the store write of an apply fails: the journal keeps
\* its stage, without a failure and without a worker.
LoseWorker(c) ==
  /\ pReq[c].phase \in Driving
  /\ To(c, Idle)
  /\ Loss
  /\ UNCHANGED <<store, git, daemon, attached, cReq, attempts>>

ApplyStep(w) ==
  \/ ApplyAdvance(w) \/ ApplyFailure(w)
  \/ ApplyRollback(w) \/ ApplyCommit(w) \/ ApplyRefusedCommit(w)

-----------------------------------------------------------------------------
(* Dismissal of a failed journal *)

PlanDismissal(c, t) ==
  /\ "dismiss" \in Requests /\ DaemonUp
  /\ pReq[c] = Idle
  /\ prov[t] # None /\ prov[t].failed
  /\ To(c, [phase |-> "dismissObserve", task |-> t, operation |-> prov[t]])
  /\ OnlyRequest

\* Mutant of ObserveDismissal: only the created ref is looked for
ObserveRefOnly(c) ==
  /\ pReq[c].phase = "dismissObserve"
  /\ LET o == pReq[c].operation
     IN  o.spec.mode = "create" /\ o.created => ref[o.spec.branch] = None
  /\ To(c, [pReq[c] EXCEPT !.phase = "dismiss"])
  /\ OnlyRequest

\* TaskWorktreeProvisioningDismissPlan::observe
ObserveDismissal(c) ==
  /\ pReq[c].phase = "dismissObserve"
  /\ LET o == pReq[c].operation
     IN  /\ DestinationFree(o.spec.path)
         /\ o.spec.mode = "create" /\ o.created => ref[o.spec.branch] = None
  /\ To(c, [pReq[c] EXCEPT !.phase = "dismiss"])
  /\ OnlyRequest

\* Mutant of SameJournal: the attempt is not compared
SameOperation(a, b) == a.op = b.op

\* The journal is the very one that was planned, its timestamps included.
SameJournal(a, b) == a = b

\* complete_task_worktree_provisioning_dismissal: only the journal observed
CompleteDismissal(c) ==
  /\ pReq[c].phase = "dismiss"
  /\ prov[pReq[c].task] # None
  /\ SameJournal(prov[pReq[c].task], pReq[c].operation)
  /\ prov' = [prov EXCEPT ![pReq[c].task] = None]
  /\ To(c, Idle)
  /\ OnlyJournal

-----------------------------------------------------------------------------
(* Reconciliation at startup, one journal after the other *)

NoWorker == \A w \in Workers : pReq[w] = Idle

\* A journal whose binding was committed but which was not cleared
ReconcileCommitted(t) ==
  /\ daemon = "reconciling" /\ NoWorker
  /\ prov[t] # None /\ ~prov[t].failed /\ prov[t].stage = "bindingCommitted"
  /\ LET valid == /\ proof[t] # None
                  /\ proof[t].op = prov[t].op /\ proof[t].spec = prov[t].spec
                  /\ task[t].worktree = prov[t].spec.path
     IN  prov' = [prov EXCEPT ![t] = IF valid THEN None
                                     ELSE [@ EXCEPT !.failed = TRUE]]
  /\ UNCHANGED pReq
  /\ OnlyJournal

\* Any other journal without a failure is executed from its recorded stage.
ResumeProvisioning(t) ==
  /\ daemon = "reconciling" /\ NoWorker
  /\ prov[t] # None /\ ~prov[t].failed /\ prov[t].stage # "bindingCommitted"
  /\ Execute(t, t, prov[t])
  /\ OnlyRequest

\* Mutant of ProvisioningReconciled: journals that still run are left behind
ReconciledEarly ==
  /\ daemon = "reconciling" /\ NoWorker
  /\ daemon' = "reconciled"
  /\ UNCHANGED <<store, git, attached, pReq, cReq, attempts, bounds>>

ProvisioningReconciled ==
  /\ daemon = "reconciling" /\ NoWorker
  /\ \A t \in Tasks : prov[t] # None => prov[t].failed
  /\ daemon' = "reconciled"
  /\ UNCHANGED <<store, git, attached, pReq, cReq, attempts, bounds>>

ProvisioningStartup ==
  \/ \E t \in Tasks : ReconcileCommitted(t) \/ ResumeProvisioning(t)
  \/ ProvisioningReconciled

-----------------------------------------------------------------------------
ProvisioningNext ==
  \/ \E c \in Clients :
       \/ \E t \in Tasks, op \in OpIds, want \in Wanted :
            PlanProvisioning(c, t, op, want)
       \/ \E t \in Tasks : PlanDismissal(c, t)
       \/ ObserveProvisioning(c) \/ EndRequest(c)
       \/ StartProvisioning(c) \/ RetryProvisioning(c)
       \/ ObserveDismissal(c) \/ CompleteDismissal(c)
       \/ LoseWorker(c)
  \/ \E w \in Workers : ExecuteStep(w) \/ ApplyStep(w) \/ CommitCrash(w)
  \/ ProvisioningStartup

ProvisioningTypeOK == pReq \in [Workers -> ProvRequest]

=============================================================================
