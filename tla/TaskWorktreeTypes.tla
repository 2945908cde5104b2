-------------------------- MODULE TaskWorktreeTypes --------------------------
(***************************************************************************)
(* The type invariant of the Task-worktree sagas, proved for every set of  *)
(* Tasks, clients, operation ids, branches, paths and commits and for every *)
(* bound.                                                                  *)
(***************************************************************************)
EXTENDS TaskWorktreeLifecycle, TLAPS

\* A request in flight carries what its phase says it carries.
LEMMA ProvPhase ==
  ASSUME NEW r \in ProvRequest
  PROVE  /\ r.phase = "observe" => r \in Planned
         /\ r.phase = "begin" => r \in Observed
         /\ r.phase \in {"execute", "rollback", "deleteRef", "dismissObserve",
                         "dismiss"} => r \in Journaled
         /\ r.phase = "apply" => r \in Executed
BY DEF ProvRequest, Planned, Observed, Journaled, Executed

LEMMA CleanPhase ==
  ASSUME NEW r \in CleanRequest
  PROVE  /\ r.phase = "observe" => r \in CleanPlanned
         /\ r.phase = "begin" => r \in CleanObserved
         /\ r.phase \in {"revalidate", "remove"} => r \in CleanJournaled
         /\ r.phase = "deregister" => r \in CleanRemoving
         /\ r.phase = "applyObservation" => r \in CleanRevalidated
         /\ r.phase = "applyRemoval" => r \in CleanRemoved
         /\ r.phase = "finalize" => r \in CleanFinal
BY DEF CleanRequest, CleanPlanned, CleanObserved, CleanJournaled,
       CleanRemoving, CleanRevalidated, CleanRemoved, CleanFinal

\* The idle request and the requests built for one phase are requests.
LEMMA ProvRequests ==
  /\ Idle \in ProvRequest
  /\ Planned \subseteq ProvRequest /\ Observed \subseteq ProvRequest
  /\ Journaled \subseteq ProvRequest /\ Executed \subseteq ProvRequest
BY DEF ProvRequest, Idle

LEMMA CleanRequests ==
  /\ Idle \in CleanRequest
  /\ CleanPlanned \subseteq CleanRequest /\ CleanObserved \subseteq CleanRequest
  /\ CleanJournaled \subseteq CleanRequest /\ CleanRemoving \subseteq CleanRequest
  /\ CleanRevalidated \subseteq CleanRequest /\ CleanRemoved \subseteq CleanRequest
  /\ CleanFinal \subseteq CleanRequest
BY DEF CleanRequest, Idle

\* Storing a typed request for a worker keeps the requests typed.
LEMMA ToTyped ==
  ASSUME ProvisioningTypeOK, NEW w \in Workers, NEW r \in ProvRequest, To(w, r)
  PROVE  ProvisioningTypeOK'
BY DEF ProvisioningTypeOK, To

LEMMA CToTyped ==
  ASSUME CleanupTypeOK, NEW w \in Workers, NEW r \in CleanRequest, CTo(w, r)
  PROVE  CleanupTypeOK'
BY DEF CleanupTypeOK, CTo

\* The parts of the state an action leaves alone keep their types.
LEMMA OnlyRequestTyped ==
  ASSUME TypeOK, OnlyRequest, ProvisioningTypeOK'
  PROVE  TypeOK'
BY DEF TypeOK, OnlyRequest, StoreTypeOK, GitTypeOK, RuntimeTypeOK,
       CleanupTypeOK, store, git, bounds

LEMMA OnlyJournalTyped ==
  ASSUME TypeOK, OnlyJournal, ProvisioningTypeOK',
         prov' \in [Tasks -> ProvOp \cup {None}]
  PROVE  TypeOK'
BY DEF TypeOK, OnlyJournal, StoreTypeOK, GitTypeOK, RuntimeTypeOK,
       CleanupTypeOK, git, bounds

LEMMA OnlyGitTyped ==
  ASSUME TypeOK, OnlyGit, ProvisioningTypeOK', GitTypeOK'
  PROVE  TypeOK'
BY DEF TypeOK, OnlyGit, StoreTypeOK, RuntimeTypeOK, CleanupTypeOK, store, bounds

LEMMA DaemonDiesTyped ==
  ASSUME TypeOK, DaemonDies
  PROVE  RuntimeTypeOK' /\ ProvisioningTypeOK' /\ CleanupTypeOK'
BY ProvRequests, CleanRequests, BoundsAssumption
DEF TypeOK, DaemonDies, RuntimeTypeOK, ProvisioningTypeOK, CleanupTypeOK

\* Plan, observe and the end of a request
LEMMA PlanProvisioningTyped ==
  ASSUME TypeOK, NEW c \in Clients, NEW t \in Tasks, NEW op \in OpIds,
         NEW want \in Wanted, PlanProvisioning(c, t, op, want)
  PROVE  TypeOK'
<1> DEFINE completed == proof[t] # None /\ proof[t].op = op
           r == [phase |-> "observe", task |-> t, op |-> op, want |-> want,
                 branch |-> task[t].branch, bound |-> task[t].worktree # None,
                 prior |-> IF prov[t] # None THEN prov[t].spec
                           ELSE IF completed THEN proof[t].spec ELSE None,
                 completed |-> completed]
<1>1. r \in Planned
  BY DEF TypeOK, StoreTypeOK, Planned, TaskRecord, ProvOp, ManagedProof
<1>2. To(c, r) /\ OnlyRequest
  BY DEF PlanProvisioning
<1>3. ProvisioningTypeOK'
  BY <1>1, <1>2, ProvRequests, ToTyped DEF TypeOK, Workers
<1> QED BY <1>2, <1>3, OnlyRequestTyped

LEMMA ObserveProvisioningTyped ==
  ASSUME TypeOK, NEW c \in Clients, ObserveProvisioning(c)
  PROVE  TypeOK'
<1>1. pReq[c] \in Planned
  BY ProvPhase DEF TypeOK, ProvisioningTypeOK, ObserveProvisioning, Workers
<1>2. PICK spec \in ObservedSpecs(pReq[c]) :
        To(c, [phase |-> "begin", task |-> pReq[c].task, op |-> pReq[c].op,
               spec |-> spec])
  BY DEF ObserveProvisioning
<1>3. spec \in WorktreeSpec
  <2>1. CASE pReq[c].bound /\ ~pReq[c].completed
    BY <1>1, <2>1 DEF ObservedSpecs, Planned, SameRequest
  <2>2. CASE ~(pReq[c].bound /\ ~pReq[c].completed)
    <3>1. PICK o \in BaseOids(pReq[c]) :
            spec = [path |-> pReq[c].want.path, branch |-> pReq[c].want.branch,
                    mode |-> pReq[c].want.mode, base |-> o]
      BY <2>2 DEF ObservedSpecs
    <3>2. pReq[c].want \in Wanted
      BY <1>1 DEF Planned
    <3>3. CASE pReq[c].want.mode = "existing"
      BY <3>1, <3>2, <3>3 DEF BaseOids, Wanted, WorktreeSpec
    <3>4. CASE pReq[c].want.mode = "create"
      <4>1. o \in Oids
        BY <1>1, <3>1, <3>4 DEF BaseOids, SameRequest, Planned, WorktreeSpec
      <4> QED BY <3>1, <3>2, <3>4, <4>1 DEF Wanted, WorktreeSpec
    <3> QED BY <3>2, <3>3, <3>4 DEF Wanted, BranchModes
  <2> QED BY <2>1, <2>2
<1>4. [phase |-> "begin", task |-> pReq[c].task, op |-> pReq[c].op,
       spec |-> spec] \in Observed
  BY <1>1, <1>3 DEF Planned, Observed
<1>5. ProvisioningTypeOK'
  BY <1>2, <1>4, ProvRequests, ToTyped DEF TypeOK, Workers
<1> QED BY <1>5, OnlyRequestTyped DEF ObserveProvisioning

LEMMA EndRequestTyped ==
  ASSUME TypeOK, NEW c \in Clients, EndRequest(c)
  PROVE  TypeOK'
BY ProvRequests, ToTyped, OnlyRequestTyped DEF EndRequest, TypeOK, Workers

\* Begin: a new journal, or the next attempt of a failed one
LEMMA StartProvisioningTyped ==
  ASSUME TypeOK, NEW c \in Clients, StartProvisioning(c)
  PROVE  TypeOK'
<1> DEFINE t == pReq[c].task
           operation == [op |-> pReq[c].op, spec |-> pReq[c].spec,
                         stage |-> "reserved", created |-> FALSE,
                         failed |-> FALSE, updated |-> attempts[t] + 1]
<1>1. pReq[c] \in Observed
  BY ProvPhase DEF TypeOK, ProvisioningTypeOK, StartProvisioning, Workers
<1>2. /\ attempts[t] < MaxAttempts /\ attempts[t] \in Nat
      /\ attempts' = [attempts EXCEPT ![t] = @ + 1]
      /\ UNCHANGED <<task, proof, clean, receipt, git, daemon, attached, cReq,
                     bounds>>
      /\ prov' = [prov EXCEPT ![t] = operation]
      /\ Execute(c, t, operation)
  BY <1>1, BoundsAssumption
  DEF StartProvisioning, Attempt, TypeOK, RuntimeTypeOK, Observed
<1>3. operation \in ProvOp
  BY <1>1, <1>2, BoundsAssumption DEF ProvOp, ProvStages, Observed
<1>4. ProvisioningTypeOK'
  BY <1>1, <1>2, <1>3, ProvRequests, ToTyped
  DEF Execute, Journaled, Observed, TypeOK, Workers
<1>5. StoreTypeOK' /\ GitTypeOK' /\ CleanupTypeOK'
  BY <1>2, <1>3 DEF TypeOK, StoreTypeOK, GitTypeOK, CleanupTypeOK, git
<1>6. attempts' \in [Tasks -> 0..MaxAttempts]
  <2>1. attempts \in [Tasks -> 0..MaxAttempts]
    BY DEF TypeOK, RuntimeTypeOK
  <2>2. attempts[t] + 1 \in 0..MaxAttempts
    BY <1>2, BoundsAssumption
  <2> QED BY <1>2, <2>1, <2>2
<1>7. RuntimeTypeOK'
  BY <1>2, <1>6 DEF TypeOK, RuntimeTypeOK, bounds
<1> QED BY <1>4, <1>5, <1>7 DEF TypeOK

LEMMA RetryProvisioningTyped ==
  ASSUME TypeOK, NEW c \in Clients, RetryProvisioning(c)
  PROVE  TypeOK'
<1> DEFINE t == pReq[c].task
           operation == [prov[t] EXCEPT !.failed = FALSE,
                                        !.updated = attempts[t] + 1]
<1>1. pReq[c] \in Observed
  BY ProvPhase DEF TypeOK, ProvisioningTypeOK, RetryProvisioning, Workers
<1>2. /\ attempts[t] < MaxAttempts /\ attempts[t] \in Nat
      /\ attempts' = [attempts EXCEPT ![t] = @ + 1]
      /\ UNCHANGED <<task, proof, clean, receipt, git, daemon, attached, cReq,
                     bounds>>
      /\ prov[t] # None
      /\ prov' = [prov EXCEPT ![t] = operation]
      /\ Execute(c, t, operation)
  BY <1>1, BoundsAssumption
  DEF RetryProvisioning, Attempt, TypeOK, RuntimeTypeOK, Observed
<1>3. operation \in ProvOp
  <2>1. prov[t] \in ProvOp
    BY <1>1, <1>2 DEF TypeOK, StoreTypeOK, Observed
  <2>2. attempts[t] + 1 \in 1..MaxAttempts
    BY <1>2, BoundsAssumption
  <2> QED BY <2>1, <2>2 DEF ProvOp
<1>4. ProvisioningTypeOK'
  BY <1>1, <1>2, <1>3, ProvRequests, ToTyped
  DEF Execute, Journaled, Observed, TypeOK, Workers
<1>5. StoreTypeOK' /\ GitTypeOK' /\ CleanupTypeOK'
  BY <1>2, <1>3 DEF TypeOK, StoreTypeOK, GitTypeOK, CleanupTypeOK, git
<1>6. attempts' \in [Tasks -> 0..MaxAttempts]
  <2>1. attempts \in [Tasks -> 0..MaxAttempts]
    BY DEF TypeOK, RuntimeTypeOK
  <2>2. attempts[t] + 1 \in 0..MaxAttempts
    BY <1>2, BoundsAssumption
  <2> QED BY <1>2, <2>1, <2>2
<1>7. RuntimeTypeOK'
  BY <1>2, <1>6 DEF TypeOK, RuntimeTypeOK, bounds
<1> QED BY <1>4, <1>5, <1>7 DEF TypeOK

\* Execute
LEMMA OutcomeTyped ==
  ASSUME TypeOK, NEW w \in Workers, pReq[w] \in Journaled,
         NEW result \in ProvResults, Outcome(w, result)
  PROVE  ProvisioningTypeOK'
<1>1. [phase |-> "apply", task |-> pReq[w].task,
       operation |-> pReq[w].operation, result |-> result] \in Executed
  BY DEF Journaled, Executed
<1> QED BY <1>1, ProvRequests, ToTyped DEF Outcome, TypeOK

LEMMA StepFailedTyped ==
  ASSUME TypeOK, NEW w \in Workers, pReq[w] \in Journaled, StepFailed(w)
  PROVE  ProvisioningTypeOK'
<1>1. [pReq[w] EXCEPT !.phase = "rollback"] \in Journaled
  BY DEF Journaled
<1> QED
  BY <1>1, ProvRequests, ToTyped, OutcomeTyped
  DEF StepFailed, TypeOK, ProvResults

LEMMA ExecuteStepTyped ==
  ASSUME TypeOK, NEW w \in Workers, ExecuteStep(w)
  PROVE  TypeOK'
<1>1. pReq[w] \in Journaled
  BY ProvPhase
  DEF TypeOK, ProvisioningTypeOK, ExecuteStep, CreateBranch, AddWorktree,
      VerifyWorktree, CheckRollback, DeleteCreatedRef
<1>2. pReq[w].operation \in ProvOp
  BY <1>1 DEF Journaled
<1>3. CASE CreateBranch(w)
  <2>1. GitTypeOK'
    <3>1. UNCHANGED <<reg, dir, content>>
      BY <1>3 DEF CreateBranch
    <3>2. ref' \in [Branches -> Ref \cup {None}]
      BY <1>2, <1>3
      DEF CreateBranch, TypeOK, GitTypeOK, ProvOp, WorktreeSpec, Ref
    <3> QED BY <3>1, <3>2 DEF TypeOK, GitTypeOK
  <2>2. \E result \in ProvResults : Outcome(w, result)
    BY <1>3 DEF CreateBranch, ProvResults
  <2>3. ProvisioningTypeOK'
    BY <1>1, <2>2, OutcomeTyped
  <2> QED BY <1>3, <2>1, <2>3, OnlyGitTyped DEF CreateBranch
<1>4. CASE AddWorktree(w)
  <2>1. GitTypeOK'
    <3>1. UNCHANGED <<ref, content>>
      BY <1>4 DEF AddWorktree
    <3>2. reg' \in [Paths -> Branches \cup {None, Detached}]
      BY <1>2, <1>4 DEF AddWorktree, TypeOK, GitTypeOK, ProvOp, WorktreeSpec
    <3>3. dir' \in [Paths -> PathStates]
      BY <1>2, <1>4 DEF AddWorktree, TypeOK, GitTypeOK, PathStates
    <3> QED BY <3>1, <3>2, <3>3 DEF TypeOK, GitTypeOK
  <2>2. Outcome(w, "worktreeAdded") \/ StepFailed(w)
    BY <1>4 DEF AddWorktree
  <2>3. ProvisioningTypeOK'
    BY <1>1, <2>2, OutcomeTyped, StepFailedTyped DEF ProvResults
  <2> QED BY <1>4, <2>1, <2>3, OnlyGitTyped DEF AddWorktree
<1>5. CASE VerifyWorktree(w)
  <2>1. \E result \in ProvResults : Outcome(w, result)
    BY <1>5 DEF VerifyWorktree, ProvResults
  <2>2. ProvisioningTypeOK'
    BY <1>1, <2>1, OutcomeTyped
  <2>3. GitTypeOK'
    BY <1>5 DEF VerifyWorktree, TypeOK, GitTypeOK, git
  <2> QED BY <1>5, <2>2, <2>3, OnlyGitTyped DEF VerifyWorktree
<1>6. CASE CheckRollback(w)
  <2>1. [pReq[w] EXCEPT !.phase = "deleteRef"] \in Journaled
    BY <1>1 DEF Journaled
  <2>2. \/ To(w, [pReq[w] EXCEPT !.phase = "deleteRef"])
        \/ Outcome(w, "failed")
    BY <1>6 DEF CheckRollback
  <2>3. ProvisioningTypeOK'
    BY <1>1, <2>1, <2>2, ProvRequests, ToTyped, OutcomeTyped
    DEF ProvResults, TypeOK
  <2>4. GitTypeOK'
    BY <1>6 DEF CheckRollback, TypeOK, GitTypeOK, git
  <2> QED BY <1>6, <2>3, <2>4, OnlyGitTyped DEF CheckRollback
<1>7. CASE DeleteCreatedRef(w)
  <2>1. GitTypeOK'
    BY <1>7 DEF DeleteCreatedRef, TypeOK, GitTypeOK
  <2>2. \E result \in ProvResults : Outcome(w, result)
    BY <1>7 DEF DeleteCreatedRef, ProvResults
  <2>3. ProvisioningTypeOK'
    BY <1>1, <2>2, OutcomeTyped
  <2> QED BY <1>7, <2>1, <2>3, OnlyGitTyped DEF DeleteCreatedRef
<1> QED BY <1>3, <1>4, <1>5, <1>6, <1>7 DEF ExecuteStep

\* Apply
LEMMA CommitBindingTyped ==
  ASSUME TypeOK, NEW t \in Tasks, prov[t] \in ProvOp,
         task[t].gen < MaxGeneration, NEW left \in ProvOp \cup {None},
         CommitBinding(t, left)
  PROVE  StoreTypeOK' /\ GitTypeOK'
<1> DEFINE spec == prov[t].spec
           gen == task[t].gen + 1
<1>1. spec \in WorktreeSpec /\ prov[t].op \in OpIds
  BY DEF ProvOp
<1>2. gen \in 1..MaxGeneration /\ gen \in 0..MaxGeneration
  BY GenerationAssumption DEF TypeOK, StoreTypeOK, TaskRecord
<1>3. [branch |-> spec.branch, worktree |-> spec.path, gen |-> gen]
        \in TaskRecord
  BY <1>1, <1>2 DEF TaskRecord, WorktreeSpec
<1>4. [op |-> prov[t].op, gen |-> gen, spec |-> spec] \in ManagedProof
  BY <1>1, <1>2 DEF ManagedProof
<1>5. /\ task' \in [Tasks -> TaskRecord]
      /\ proof' \in [Tasks -> ManagedProof \cup {None}]
      /\ prov' \in [Tasks -> ProvOp \cup {None}]
  BY <1>3, <1>4 DEF CommitBinding, TypeOK, StoreTypeOK
<1>6. UNCHANGED <<clean, receipt, ref, reg, dir, content>>
  BY DEF CommitBinding, git
<1> QED BY <1>5, <1>6 DEF TypeOK, StoreTypeOK, GitTypeOK

LEMMA ApplyStepTyped ==
  ASSUME TypeOK, NEW w \in Workers, ApplyStep(w) \/ CommitCrash(w)
  PROVE  TypeOK'
<1> DEFINE t == pReq[w].task
<1>1. pReq[w] \in Executed
  BY ProvPhase
  DEF TypeOK, ProvisioningTypeOK, ApplyStep, ApplyAdvance, ApplyFailure,
      ApplyRollback, ApplyCommit, ApplyRefusedCommit, CommitCrash, ReadyToCommit
<1>2. t \in Tasks /\ pReq[w].result \in ProvResults
  BY <1>1 DEF Executed
<1>3. StillCurrent(pReq[w]) => prov[t] \in ProvOp
  BY <1>2 DEF StillCurrent, TypeOK, StoreTypeOK
<1>4. To(w, Idle) => ProvisioningTypeOK'
  BY ProvRequests, ToTyped DEF TypeOK
<1>5. CASE ApplyAdvance(w)
  <2> DEFINE operation == [prov[t] EXCEPT
                             !.stage = pReq[w].result,
                             !.created = @ \/ pReq[w].result = "branchCreated"]
  <2>1. operation \in ProvOp
    BY <1>3, <1>5 DEF ApplyAdvance, ValidAdvance, ProvOp, ProvStages
  <2>2. /\ prov' = [prov EXCEPT ![t] = operation]
        /\ Execute(w, t, operation)
        /\ OnlyJournal
    BY <1>5 DEF ApplyAdvance
  <2>3. prov' \in [Tasks -> ProvOp \cup {None}]
    BY <2>1, <2>2 DEF TypeOK, StoreTypeOK
  <2>4. ProvisioningTypeOK'
    BY <1>2, <2>1, <2>2, ProvRequests, ToTyped DEF Execute, Journaled, TypeOK
  <2> QED BY <2>2, <2>3, <2>4, OnlyJournalTyped
<1>6. CASE ApplyFailure(w)
  <2>1. prov' \in [Tasks -> ProvOp \cup {None}]
    BY <1>2, <1>3, <1>6 DEF ApplyFailure, TypeOK, StoreTypeOK, ProvOp
  <2> QED BY <1>4, <1>6, <2>1, OnlyJournalTyped DEF ApplyFailure
<1>7. CASE ApplyRollback(w)
  <2>1. prov' \in [Tasks -> ProvOp \cup {None}]
    BY <1>2, <1>3, <1>7
    DEF ApplyRollback, TypeOK, StoreTypeOK, ProvOp, ProvStages
  <2> QED BY <1>4, <1>7, <2>1, OnlyJournalTyped DEF ApplyRollback
<1>8. CASE ApplyRefusedCommit(w)
  <2>1. prov' \in [Tasks -> ProvOp \cup {None}]
    BY <1>2, <1>3, <1>8
    DEF ApplyRefusedCommit, ReadyToCommit, TypeOK, StoreTypeOK, ProvOp
  <2> QED BY <1>4, <1>8, <2>1, OnlyJournalTyped DEF ApplyRefusedCommit
<1>9. CASE ApplyCommit(w)
  <2>1. prov[t] \in ProvOp /\ task[t].gen < MaxGeneration
    BY <1>3, <1>9 DEF ApplyCommit, ReadyToCommit, CanCommit
  <2>2. [Committed(t) EXCEPT !.failed = TRUE] \in ProvOp
    BY <2>1 DEF Committed, ProvOp, ProvStages
  <2>3. StoreTypeOK' /\ GitTypeOK'
    BY <1>2, <1>9, <2>1, <2>2, CommitBindingTyped DEF ApplyCommit
  <2>4. RuntimeTypeOK'
    BY <1>9, BoundsAssumption
    DEF ApplyCommit, Loss, TypeOK, RuntimeTypeOK, bounds
  <2>5. CleanupTypeOK'
    BY <1>9 DEF ApplyCommit, TypeOK, CleanupTypeOK
  <2> QED BY <1>4, <1>9, <2>3, <2>4, <2>5 DEF ApplyCommit, TypeOK
<1>10. CASE CommitCrash(w)
  <2>1. prov[t] \in ProvOp /\ task[t].gen < MaxGeneration
    BY <1>3, <1>10 DEF CommitCrash, ReadyToCommit, CanCommit
  <2>2. Committed(t) \in ProvOp
    BY <2>1 DEF Committed, ProvOp, ProvStages
  <2>3. StoreTypeOK' /\ GitTypeOK'
    BY <1>2, <1>10, <2>1, <2>2, CommitBindingTyped DEF CommitCrash
  <2> QED BY <1>10, <2>3, DaemonDiesTyped DEF CommitCrash, TypeOK
<1> QED
  BY <1>5, <1>6, <1>7, <1>8, <1>9, <1>10 DEF ApplyStep

LEMMA LoseWorkerTyped ==
  ASSUME TypeOK, NEW c \in Clients, LoseWorker(c)
  PROVE  TypeOK'
<1>1. ProvisioningTypeOK'
  BY ProvRequests, ToTyped DEF LoseWorker, TypeOK, Workers
<1>2. RuntimeTypeOK'
  BY BoundsAssumption DEF LoseWorker, Loss, TypeOK, RuntimeTypeOK
<1>3. StoreTypeOK' /\ GitTypeOK' /\ CleanupTypeOK'
  BY DEF LoseWorker, TypeOK, StoreTypeOK, GitTypeOK, CleanupTypeOK, store, git
<1> QED BY <1>1, <1>2, <1>3 DEF TypeOK

\* Dismissal and startup
LEMMA DismissalTyped ==
  ASSUME TypeOK, NEW c \in Clients,
         \/ \E t \in Tasks : PlanDismissal(c, t)
         \/ ObserveDismissal(c)
         \/ CompleteDismissal(c)
  PROVE  TypeOK'
<1>1. ASSUME NEW t \in Tasks, PlanDismissal(c, t)
      PROVE  TypeOK'
  <2>1. [phase |-> "dismissObserve", task |-> t, operation |-> prov[t]]
          \in Journaled
    BY <1>1 DEF PlanDismissal, TypeOK, StoreTypeOK, Journaled
  <2> QED
    BY <1>1, <2>1, ProvRequests, ToTyped, OnlyRequestTyped
    DEF PlanDismissal, TypeOK, Workers
<1>2. CASE ObserveDismissal(c)
  <2>1. pReq[c] \in Journaled
    BY <1>2, ProvPhase DEF ObserveDismissal, TypeOK, ProvisioningTypeOK, Workers
  <2>2. [pReq[c] EXCEPT !.phase = "dismiss"] \in Journaled
    BY <2>1 DEF Journaled
  <2> QED
    BY <1>2, <2>2, ProvRequests, ToTyped, OnlyRequestTyped
    DEF ObserveDismissal, TypeOK, Workers
<1>3. CASE CompleteDismissal(c)
  <2>1. prov' \in [Tasks -> ProvOp \cup {None}]
    BY <1>3 DEF CompleteDismissal, TypeOK, StoreTypeOK
  <2> QED
    BY <1>3, <2>1, ProvRequests, ToTyped, OnlyJournalTyped
    DEF CompleteDismissal, TypeOK, Workers
<1> QED BY <1>1, <1>2, <1>3

LEMMA ProvisioningStartupTyped ==
  ASSUME TypeOK, ProvisioningStartup
  PROVE  TypeOK'
<1>1. ASSUME NEW t \in Tasks, ReconcileCommitted(t)
      PROVE  TypeOK'
  <2>1. prov[t] \in ProvOp
    BY <1>1 DEF ReconcileCommitted, TypeOK, StoreTypeOK
  <2>2. [prov[t] EXCEPT !.failed = TRUE] \in ProvOp
    BY <2>1 DEF ProvOp
  <2>3. prov' \in [Tasks -> ProvOp \cup {None}]
    BY <1>1, <2>2 DEF ReconcileCommitted, TypeOK, StoreTypeOK
  <2>4. ProvisioningTypeOK'
    BY <1>1 DEF ReconcileCommitted, TypeOK, ProvisioningTypeOK
  <2> QED BY <1>1, <2>3, <2>4, OnlyJournalTyped DEF ReconcileCommitted
<1>2. ASSUME NEW t \in Tasks, ResumeProvisioning(t)
      PROVE  TypeOK'
  <2>1. [phase |-> "execute", task |-> t, operation |-> prov[t]] \in Journaled
    BY <1>2 DEF ResumeProvisioning, TypeOK, StoreTypeOK, Journaled
  <2> QED
    BY <1>2, <2>1, ProvRequests, ToTyped, OnlyRequestTyped
    DEF ResumeProvisioning, Execute, TypeOK, Workers
<1>3. CASE ProvisioningReconciled
  <2>1. RuntimeTypeOK'
    BY <1>3 DEF ProvisioningReconciled, TypeOK, RuntimeTypeOK, bounds
  <2>2. StoreTypeOK' /\ GitTypeOK' /\ ProvisioningTypeOK' /\ CleanupTypeOK'
    BY <1>3
    DEF ProvisioningReconciled, TypeOK, StoreTypeOK, GitTypeOK,
        ProvisioningTypeOK, CleanupTypeOK, store, git
  <2> QED BY <2>1, <2>2 DEF TypeOK
<1> QED BY <1>1, <1>2, <1>3 DEF ProvisioningStartup

LEMMA ProvisioningNextTyped ==
  ASSUME TypeOK, ProvisioningNext
  PROVE  TypeOK'
BY PlanProvisioningTyped, ObserveProvisioningTyped, EndRequestTyped,
   StartProvisioningTyped, RetryProvisioningTyped, ExecuteStepTyped,
   ApplyStepTyped, LoseWorkerTyped, DismissalTyped, ProvisioningStartupTyped
DEF ProvisioningNext

-----------------------------------------------------------------------------
(* Cleanup *)

LEMMA OnlyCleanupRequestTyped ==
  ASSUME TypeOK, OnlyCleanupRequest, CleanupTypeOK'
  PROVE  TypeOK'
BY DEF TypeOK, OnlyCleanupRequest, StoreTypeOK, GitTypeOK, RuntimeTypeOK,
       ProvisioningTypeOK, store, git, bounds

LEMMA OnlyCleanupJournalTyped ==
  ASSUME TypeOK, OnlyCleanupJournal, CleanupTypeOK',
         clean' \in [Tasks -> CleanOp \cup {None}]
  PROVE  TypeOK'
BY DEF TypeOK, OnlyCleanupJournal, StoreTypeOK, GitTypeOK, RuntimeTypeOK,
       ProvisioningTypeOK, git, bounds

LEMMA JournalTyped ==
  ASSUME TypeOK, NEW t \in Tasks, NEW o \in CleanOp \cup {None}, Journal(t, o)
  PROVE  clean' \in [Tasks -> CleanOp \cup {None}]
BY DEF TypeOK, StoreTypeOK, Journal

LEMMA AttentionTyped ==
  ASSUME NEW o \in CleanOp
  PROVE  Attention(o) \in CleanOp
BY DEF Attention, CleanOp, CleanFailures

LEMMA RevalidatingTyped ==
  ASSUME TypeOK, NEW w \in Workers, NEW t \in Tasks, NEW o \in CleanOp,
         NEW pf \in ManagedProof, Revalidating(w, t, o, pf)
  PROVE  CleanupTypeOK'
<1>1. [phase |-> "revalidate", task |-> t, operation |-> o, proof |-> pf]
        \in CleanJournaled
  BY DEF CleanJournaled
<1> QED BY <1>1, CleanRequests, CToTyped DEF Revalidating, TypeOK

\* Plan
LEMMA PlanCleanupTyped ==
  ASSUME TypeOK, NEW c \in Clients, NEW t \in Tasks, NEW op \in OpIds,
         NEW mode \in CleanupModes, NEW acks \in SUBSET ContentKinds,
         PlanCleanup(c, t, op, mode, acks)
  PROVE  TypeOK'
<1>1. proof[t] \in ManagedProof
  BY DEF PlanCleanup, TypeOK, StoreTypeOK
<1>2. PICK s \in Supersedes(t, op, mode, acks) :
        CTo(c, [phase |-> "observe",
                intent |-> [task |-> t, op |-> op, mode |-> mode,
                            acks |-> acks, supersedes |-> s,
                            proof |-> proof[t]]])
  BY DEF PlanCleanup
<1>3. s \in OpIds \cup {None}
  BY <1>2 DEF Supersedes, TypeOK, StoreTypeOK, CleanOp
<1>4. [phase |-> "observe",
       intent |-> [task |-> t, op |-> op, mode |-> mode, acks |-> acks,
                   supersedes |-> s, proof |-> proof[t]]] \in CleanPlanned
  BY <1>1, <1>3 DEF CleanPlanned, Intent
<1>5. CleanupTypeOK'
  BY <1>2, <1>4, CleanRequests, CToTyped DEF TypeOK, Workers
<1> QED BY <1>5, OnlyCleanupRequestTyped DEF PlanCleanup

LEMMA FinalizeTyped ==
  ASSUME TypeOK, NEW c \in Clients,
         (\E t \in Tasks : PlanFinalize(c, t)) \/ Finalize(c)
  PROVE  TypeOK'
<1>1. ASSUME NEW t \in Tasks, PlanFinalize(c, t)
      PROVE  TypeOK'
  <2>1. [phase |-> "finalize", task |-> t, receipt |-> receipt[t]] \in CleanFinal
    BY <1>1 DEF PlanFinalize, TypeOK, StoreTypeOK, CleanFinal
  <2> QED
    BY <1>1, <2>1, CleanRequests, CToTyped, OnlyCleanupRequestTyped
    DEF PlanFinalize, TypeOK, Workers
<1>2. CASE Finalize(c)
  <2>1. clean' \in [Tasks -> CleanOp \cup {None}]
    BY <1>2 DEF Finalize, TypeOK, StoreTypeOK
  <2> QED
    BY <1>2, <2>1, CleanRequests, CToTyped, OnlyCleanupJournalTyped
    DEF Finalize, TypeOK, Workers
<1> QED BY <1>1, <1>2

\* Observation
LEMMA ObservedFactsTyped ==
  ASSUME TypeOK, NamesAssumption, NEW pf \in ManagedProof, NEW b \in Branches,
         NEW blocked \in BOOLEAN
  PROVE  ObservedFacts(pf, b, blocked) \in Facts
<1> DEFINE p == pf.spec.path
           healthy == dir[p] = "present" /\ reg[p] # None
           head == reg[p] \in Branches /\ OidOf(reg[p]) # None
<1>1. p \in Paths
  BY DEF ManagedProof, WorktreeSpec
<1>2. \A x : OidOf(x) \in Oids \cup {None}
  BY DEF OidOf, TypeOK, GitTypeOK, Ref
<1>3. /\ dir[p] \in PathStates /\ content[p] \in SUBSET ContentKinds
      /\ reg[p] \in Branches => reg[p] # None
  BY <1>1, NamesAssumption DEF TypeOK, GitTypeOK
<1>4. /\ (IF healthy /\ head THEN reg[p] ELSE None) \in Branches \cup {None}
      /\ (IF healthy THEN OidOf(reg[p]) ELSE None) \in Oids \cup {None}
      /\ (IF healthy THEN content[p] ELSE {}) \in SUBSET ContentKinds
  BY <1>2, <1>3
<1>5. healthy /\ head =>
        /\ (IF healthy /\ head THEN reg[p] ELSE None) # None
        /\ (IF healthy THEN OidOf(reg[p]) ELSE None) # None
  BY <1>3
<1> QED BY <1>2, <1>3, <1>4, <1>5 DEF ObservedFacts, Facts

LEMMA ObserveCleanupTyped ==
  ASSUME TypeOK, NEW c \in Clients, ObserveCleanup(c)
  PROVE  TypeOK'
<1> DEFINE i == cReq[c].intent
<1>1. cReq[c] \in CleanPlanned
  BY CleanPhase DEF ObserveCleanup, TypeOK, CleanupTypeOK, Workers
<1>2. i \in Intent /\ i.proof \in ManagedProof
  BY <1>1 DEF CleanPlanned, Intent
<1>3. i.proof.spec.branch \in Branches
  BY <1>2 DEF ManagedProof, WorktreeSpec
<1>4. PICK blocked \in BOOLEAN :
        CTo(c, [phase |-> "begin", intent |-> i,
                facts |-> ObservedFacts(i.proof, i.proof.spec.branch, blocked)])
  BY DEF ObserveCleanup
<1>5. ObservedFacts(i.proof, i.proof.spec.branch, blocked) \in Facts
  BY <1>2, <1>3, ObservedFactsTyped, NamesAssumption
<1>6. [phase |-> "begin", intent |-> i,
       facts |-> ObservedFacts(i.proof, i.proof.spec.branch, blocked)]
        \in CleanObserved
  BY <1>2, <1>5 DEF CleanObserved
<1>7. CleanupTypeOK'
  BY <1>4, <1>6, CleanRequests, CToTyped DEF TypeOK, Workers
<1> QED BY <1>7, OnlyCleanupRequestTyped DEF ObserveCleanup

LEMMA RevalidateTyped ==
  ASSUME TypeOK, NEW w \in Workers, Revalidate(w)
  PROVE  TypeOK'
<1> DEFINE r == cReq[w]
           base == r.operation.baseline
           b == IF base.checkout # None THEN base.checkout ELSE base.branch
<1>1. r \in CleanJournaled
  BY CleanPhase DEF Revalidate, TypeOK, CleanupTypeOK
<1>2. /\ r.task \in Tasks /\ r.operation \in CleanOp
      /\ r.proof \in ManagedProof
  BY <1>1 DEF CleanJournaled
<1>3. b \in Branches
  BY <1>2 DEF CleanOp, Baseline
<1>4. PICK blocked \in BOOLEAN :
        CTo(w, [phase |-> "applyObservation", task |-> r.task,
                operation |-> r.operation, proof |-> r.proof,
                facts |-> ObservedFacts(r.proof, b, blocked)])
  BY DEF Revalidate
<1>5. ObservedFacts(r.proof, b, blocked) \in Facts
  BY <1>2, <1>3, ObservedFactsTyped, NamesAssumption
<1>6. [phase |-> "applyObservation", task |-> r.task,
       operation |-> r.operation, proof |-> r.proof,
       facts |-> ObservedFacts(r.proof, b, blocked)] \in CleanRevalidated
  BY <1>2, <1>5 DEF CleanRevalidated
<1>7. CleanupTypeOK'
  BY <1>4, <1>6, CleanRequests, CToTyped DEF TypeOK
<1> QED BY <1>7, OnlyCleanupRequestTyped DEF Revalidate

\* Begin
LEMMA RequestedCleanupTyped ==
  ASSUME NEW i \in Intent, NEW f \in Facts, HasBaseline(f)
  PROVE  RequestedCleanup(i, f) \in CleanOp
<1>1. i.proof \in ManagedProof
  BY DEF Intent
<1>2. /\ i.proof.op \in OpIds /\ i.proof.gen \in 1..MaxGeneration
      /\ i.proof.spec.path \in Paths /\ i.proof.spec.branch \in Branches
  BY <1>1 DEF ManagedProof, WorktreeSpec
<1>3. BaselineOf(i.proof, f) \in Baseline
  BY <1>2 DEF BaselineOf, Baseline, Facts, HasBaseline
<1> QED
  BY <1>2, <1>3
  DEF RequestedCleanup, Intent, CleanOp, CleanStages

\* What a request that begins knows.
LEMMA BeginFacts ==
  ASSUME TypeOK, NEW c \in Clients, cReq[c].phase = "begin"
  PROVE  /\ cReq[c].intent \in Intent /\ cReq[c].facts \in Facts
         /\ cReq[c].intent.task \in Tasks
         /\ cReq[c].intent.proof \in ManagedProof
         /\ clean[cReq[c].intent.task] \in CleanOp \cup {None}
<1>1. cReq[c] \in CleanObserved
  BY CleanPhase DEF TypeOK, CleanupTypeOK, Workers
<1> QED BY <1>1 DEF CleanObserved, Intent, TypeOK, StoreTypeOK

LEMMA BeginAttentionTyped ==
  ASSUME TypeOK, NEW c \in Clients, BeginAttention(c)
  PROVE  TypeOK'
<1> DEFINE i == cReq[c].intent
           t == i.task
           o == RequestedCleanup(i, cReq[c].facts)
<1>1. cReq[c].phase = "begin"
  BY DEF BeginAttention, BeginReady
<1>2. \/ clean[t] # None /\ Journal(t, Attention(clean[t]))
      \/ HasBaseline(cReq[c].facts) /\ Journal(t, Attention(o))
  BY DEF BeginAttention, StoreCurrent
<1>3. clean' \in [Tasks -> CleanOp \cup {None}]
  BY <1>1, <1>2, BeginFacts, AttentionTyped, RequestedCleanupTyped, JournalTyped
<1> QED
  BY <1>3, CleanRequests, CToTyped, OnlyCleanupJournalTyped
  DEF BeginAttention, TypeOK, Workers

LEMMA BeginCleanupTyped ==
  ASSUME TypeOK, NEW c \in Clients, BeginCleanup(c)
  PROVE  TypeOK'
<1> DEFINE i == cReq[c].intent
           o == RequestedCleanup(i, cReq[c].facts)
<1>1. cReq[c].phase = "begin" /\ HasBaseline(cReq[c].facts)
  BY DEF BeginCleanup, BeginAccepted, BeginReady
<1>2. o \in CleanOp /\ i.task \in Tasks /\ i.proof \in ManagedProof
  BY <1>1, BeginFacts, RequestedCleanupTyped
<1>3. Journal(i.task, o) /\ Revalidating(c, i.task, o, i.proof)
  BY DEF BeginCleanup
<1>4. clean' \in [Tasks -> CleanOp \cup {None}] /\ CleanupTypeOK'
  BY <1>2, <1>3, JournalTyped, RevalidatingTyped DEF Workers
<1> QED BY <1>4, OnlyCleanupJournalTyped DEF BeginCleanup

LEMMA RetryCleanupTyped ==
  ASSUME TypeOK, NEW c \in Clients, RetryCleanup(c)
  PROVE  TypeOK'
<1> DEFINE i == cReq[c].intent
           o == RetriedCleanup(clean[i.task])
<1>1. cReq[c].phase = "begin"
  BY DEF RetryCleanup, BeginAccepted, BeginReady
<1>2. clean[i.task] # None /\ i.task \in Tasks /\ i.proof \in ManagedProof
  BY <1>1, BeginFacts DEF RetryCleanup, StoreCurrent
<1>3. clean[i.task] \in CleanOp
  BY <1>2 DEF TypeOK, StoreTypeOK
<1>4. o \in CleanOp
  BY <1>3 DEF RetriedCleanup, CleanOp, CleanStages
<1>5. Journal(i.task, o) /\ Revalidating(c, i.task, o, i.proof)
  BY DEF RetryCleanup
<1>6. clean' \in [Tasks -> CleanOp \cup {None}] /\ CleanupTypeOK'
  BY <1>2, <1>4, <1>5, JournalTyped, RevalidatingTyped DEF Workers
<1> QED BY <1>6, OnlyCleanupJournalTyped DEF RetryCleanup

LEMMA EndCleanupRequestTyped ==
  ASSUME TypeOK, NEW c \in Clients, EndCleanupRequest(c)
  PROVE  TypeOK'
BY CleanRequests, CToTyped, OnlyCleanupRequestTyped
DEF EndCleanupRequest, TypeOK, Workers

\* Completion
LEMMA ClearBindingTyped ==
  ASSUME TypeOK, NEW t \in Tasks, NEW o \in CleanOp,
         NEW left \in CleanOp \cup {None}, ClearBinding(t, o, left)
  PROVE  StoreTypeOK' /\ GitTypeOK'
<1> DEFINE r == [op |-> o.op, gen |-> o.gen, managed |-> o.managed,
                 mode |-> o.mode, acks |-> o.acks,
                 outcome |-> IF o.stage = "reserved" THEN "bindingCleared"
                             ELSE "removed"]
<1>1. r \in Receipt
  BY DEF CleanOp, Receipt
<1>2. task' \in [Tasks -> TaskRecord]
  BY DEF ClearBinding, TypeOK, StoreTypeOK, TaskRecord
<1>3. /\ proof' \in [Tasks -> ManagedProof \cup {None}]
      /\ receipt' \in [Tasks -> Receipt \cup {None}]
      /\ clean' \in [Tasks -> CleanOp \cup {None}]
  BY <1>1 DEF ClearBinding, TypeOK, StoreTypeOK
<1>4. UNCHANGED <<prov, ref, reg, dir, content>>
  BY DEF ClearBinding, git
<1> QED BY <1>2, <1>3, <1>4 DEF TypeOK, StoreTypeOK, GitTypeOK

LEMMA CompletionTyped ==
  ASSUME TypeOK, NEW w \in Workers, NEW t \in Tasks, NEW o \in CleanOp,
         CompleteCleanup(w, t, o) \/ CompleteCrash(t, o)
  PROVE  TypeOK'
<1>1. Cleared(o) \in CleanOp
  BY DEF Cleared, CleanOp, CleanStages
<1>2. StoreTypeOK' /\ GitTypeOK'
  BY <1>1, ClearBindingTyped DEF CompleteCleanup, CompleteCrash
<1>3. CASE CompleteCleanup(w, t, o)
  <2>1. RuntimeTypeOK'
    BY <1>3, BoundsAssumption
    DEF CompleteCleanup, Loss, TypeOK, RuntimeTypeOK, bounds
  <2>2. ProvisioningTypeOK'
    BY <1>3 DEF CompleteCleanup, TypeOK, ProvisioningTypeOK
  <2>3. CleanupTypeOK'
    BY <1>3, CleanRequests, CToTyped DEF CompleteCleanup, TypeOK
  <2> QED BY <1>2, <2>1, <2>2, <2>3 DEF TypeOK
<1>4. CASE CompleteCrash(t, o)
  BY <1>2, <1>4, DaemonDiesTyped DEF CompleteCrash, TypeOK
<1> QED BY <1>3, <1>4

LEMMA BeginClearsTyped ==
  ASSUME TypeOK, NEW c \in Clients, BeginClears(c)
  PROVE  TypeOK'
<1> DEFINE i == cReq[c].intent
           o == RequestedCleanup(i, cReq[c].facts)
<1>1. cReq[c].phase = "begin" /\ HasBaseline(cReq[c].facts)
  BY DEF BeginClears, BeginAccepted, BeginReady
<1>2. o \in CleanOp /\ i.task \in Tasks
  BY <1>1, BeginFacts, RequestedCleanupTyped
<1>3. CompleteCleanup(c, i.task, o) \/ CompleteCrash(i.task, o)
  BY DEF BeginClears
<1> QED BY <1>2, <1>3, CompletionTyped DEF Workers

\* Apply an observation
LEMMA ApplyObservationTyped ==
  ASSUME TypeOK, NEW w \in Workers,
         \/ ApplyNothing(w) \/ MarkAttention(w) \/ ApplyRefusal(w)
         \/ PrepareRemoval(w) \/ ApplyCompletion(w) \/ VerifiedCrash(w)
  PROVE  TypeOK'
<1> DEFINE t == cReq[w].task
<1>1. CTo(w, Idle) => CleanupTypeOK'
  BY CleanRequests, CToTyped DEF TypeOK
<1>2. CASE ApplyNothing(w)
  BY <1>1, <1>2, OnlyCleanupRequestTyped DEF ApplyNothing
<1>3. ASSUME ~ApplyNothing(w)
      PROVE  TypeOK'
  <2>1. Applying(w)
    BY <1>3
    DEF MarkAttention, ApplyRefusal, PrepareRemoval, ApplyCompletion,
        VerifiedCrash, ReadyToComplete, ReservedAccepted, ReadyToApply
  <2>2. cReq[w] \in CleanRevalidated /\ clean[t] # None
    BY <2>1, CleanPhase DEF Applying, TypeOK, CleanupTypeOK
  <2>3. t \in Tasks /\ cReq[w].proof \in ManagedProof
    BY <2>2 DEF CleanRevalidated
  <2>4. clean[t] \in CleanOp
    BY <2>2, <2>3 DEF TypeOK, StoreTypeOK
  <2>5. Verified(w) \in CleanOp
    BY <2>4 DEF Verified, CleanOp, CleanStages
  <2>6. CASE MarkAttention(w)
    <3>1. clean' \in [Tasks -> CleanOp \cup {None}]
      BY <2>3, <2>4, <2>6, AttentionTyped, JournalTyped DEF MarkAttention
    <3> QED BY <1>1, <2>6, <3>1, OnlyCleanupJournalTyped DEF MarkAttention
  <2>7. CASE ApplyRefusal(w)
    <3>1. clean' \in [Tasks -> CleanOp \cup {None}]
      BY <2>3, <2>7, JournalTyped DEF ApplyRefusal
    <3> QED BY <1>1, <2>7, <3>1, OnlyCleanupJournalTyped DEF ApplyRefusal
  <2>8. CASE PrepareRemoval(w)
    <3> DEFINE o == [clean[t] EXCEPT !.stage = "removePrepared",
                                     !.failure = None]
               r == [phase |-> "remove", task |-> t, operation |-> o,
                     proof |-> cReq[w].proof]
    <3>1. o \in CleanOp
      BY <2>4 DEF CleanOp, CleanStages
    <3>2. r \in CleanJournaled
      BY <2>3, <3>1 DEF CleanJournaled
    <3>3. Journal(t, o) /\ CTo(w, IF w \in Tasks THEN Idle ELSE r)
      BY <2>8 DEF PrepareRemoval
    <3>4. clean' \in [Tasks -> CleanOp \cup {None}]
      BY <2>3, <3>1, <3>3, JournalTyped
    <3>5. CleanupTypeOK'
      BY <3>2, <3>3, CleanRequests, CToTyped DEF TypeOK
    <3> QED BY <2>8, <3>4, <3>5, OnlyCleanupJournalTyped DEF PrepareRemoval
  <2>9. CASE ApplyCompletion(w)
    BY <2>3, <2>5, <2>9, CompletionTyped DEF ApplyCompletion
  <2>10. CASE VerifiedCrash(w)
    <3>1. clean' \in [Tasks -> CleanOp \cup {None}]
      BY <2>3, <2>5, <2>10, JournalTyped DEF VerifiedCrash
    <3>2. StoreTypeOK' /\ GitTypeOK'
      BY <2>10, <3>1 DEF VerifiedCrash, TypeOK, StoreTypeOK, GitTypeOK, git
    <3> QED BY <2>10, <3>2, DaemonDiesTyped DEF VerifiedCrash, TypeOK
  <2> QED BY <1>3, <2>6, <2>7, <2>8, <2>9, <2>10
<1> QED BY <1>2, <1>3

\* Removal
LEMMA RemovalOutcomeTyped ==
  ASSUME TypeOK, NEW w \in Workers, NEW result \in RemovalResults,
         cReq[w] \in CleanJournaled \cup CleanRemoving,
         RemovalOutcome(w, result)
  PROVE  CleanupTypeOK'
<1>1. [phase |-> "applyRemoval", task |-> cReq[w].task,
       operation |-> cReq[w].operation, proof |-> cReq[w].proof,
       result |-> result] \in CleanRemoved
  BY DEF CleanJournaled, CleanRemoving, CleanRemoved
<1> QED BY <1>1, CleanRequests, CToTyped DEF RemovalOutcome, TypeOK

LEMMA OnlyCleanupGitTyped ==
  ASSUME TypeOK, OnlyCleanupGit, CleanupTypeOK',
         reg' \in [Paths -> Branches \cup {None, Detached}],
         dir' \in [Paths -> PathStates],
         content' \in [Paths -> SUBSET ContentKinds]
  PROVE  TypeOK'
BY DEF TypeOK, OnlyCleanupGit, StoreTypeOK, GitTypeOK, RuntimeTypeOK,
       ProvisioningTypeOK, store, bounds

LEMMA RemoveWorkingTreeTyped ==
  ASSUME TypeOK, NEW w \in Workers, RemoveWorkingTree(w)
  PROVE  TypeOK'
<1> DEFINE next(deleted) ==
             [phase |-> "deregister", task |-> cReq[w].task,
              operation |-> cReq[w].operation, proof |-> cReq[w].proof,
              deleted |-> deleted]
<1>1. cReq[w] \in CleanJournaled
  BY CleanPhase DEF RemoveWorkingTree, TypeOK, CleanupTypeOK
<1>2. next(TRUE) \in CleanRemoving /\ next(FALSE) \in CleanRemoving
  BY <1>1 DEF CleanJournaled, CleanRemoving
<1>3. \/ RemovalOutcome(w, "contentChanged") \/ RemovalOutcome(w, "failed")
      \/ CTo(w, next(TRUE)) \/ CTo(w, next(FALSE))
  BY DEF RemoveWorkingTree
<1>4. CleanupTypeOK'
  <2>1. CTo(w, next(TRUE)) \/ CTo(w, next(FALSE)) => CleanupTypeOK'
    BY <1>2, CleanRequests, CToTyped DEF TypeOK
  <2>2. RemovalOutcome(w, "contentChanged") \/ RemovalOutcome(w, "failed")
          => CleanupTypeOK'
    BY <1>1, RemovalOutcomeTyped DEF RemovalResults
  <2> QED BY <1>3, <2>1, <2>2
<1>5. /\ dir' \in [Paths -> PathStates]
      /\ content' \in [Paths -> SUBSET ContentKinds]
  BY DEF RemoveWorkingTree, TypeOK, GitTypeOK, PathStates
<1>6. reg' \in [Paths -> Branches \cup {None, Detached}]
  BY DEF RemoveWorkingTree, TypeOK, GitTypeOK
<1> QED BY <1>4, <1>5, <1>6, OnlyCleanupGitTyped DEF RemoveWorkingTree

LEMMA DeregisterTyped ==
  ASSUME TypeOK, NEW w \in Workers, Deregister(w)
  PROVE  TypeOK'
<1>1. cReq[w] \in CleanRemoving
  BY CleanPhase DEF Deregister, TypeOK, CleanupTypeOK
<1>2. \E result \in RemovalResults : RemovalOutcome(w, result)
  BY DEF Deregister, RemovalResults
<1>3. CleanupTypeOK'
  BY <1>1, <1>2, RemovalOutcomeTyped
<1>4. /\ reg' \in [Paths -> Branches \cup {None, Detached}]
      /\ dir' \in [Paths -> PathStates]
      /\ content' \in [Paths -> SUBSET ContentKinds]
  BY DEF Deregister, TypeOK, GitTypeOK
<1> QED BY <1>3, <1>4, OnlyCleanupGitTyped DEF Deregister

LEMMA ApplyRemovalTyped ==
  ASSUME TypeOK, NEW w \in Workers, ApplyRemoval(w)
  PROVE  TypeOK'
<1> DEFINE t == cReq[w].task
           o == clean[t]
           failed == [o EXCEPT !.failure = FailureOf(cReq[w].result)]
<1>1. cReq[w] \in CleanRemoved
  BY CleanPhase DEF ApplyRemoval, TypeOK, CleanupTypeOK
<1>2. t \in Tasks /\ cReq[w].proof \in ManagedProof
  BY <1>1 DEF CleanRemoved
<1>3. \/ o # None /\ Revalidating(w, t, o, cReq[w].proof) /\ UNCHANGED clean
      \/ o # None /\ Journal(t, failed) /\ CTo(w, Idle)
      \/ CTo(w, Idle) /\ UNCHANGED clean
  BY DEF ApplyRemoval
<1>4. o # None => o \in CleanOp /\ failed \in CleanOp
  BY <1>2 DEF TypeOK, StoreTypeOK, CleanOp, CleanFailures, FailureOf
<1>5. clean' \in [Tasks -> CleanOp \cup {None}]
  BY <1>2, <1>3, <1>4, JournalTyped DEF TypeOK, StoreTypeOK
<1>6. CleanupTypeOK'
  BY <1>2, <1>3, <1>4, RevalidatingTyped, CleanRequests, CToTyped DEF TypeOK
<1> QED BY <1>5, <1>6, OnlyCleanupJournalTyped DEF ApplyRemoval

LEMMA LoseCleanupWorkerTyped ==
  ASSUME TypeOK, NEW w \in Workers, LoseCleanupWorker(w)
  PROVE  TypeOK'
<1>1. CleanupTypeOK'
  BY CleanRequests, CToTyped DEF LoseCleanupWorker, TypeOK
<1>2. RuntimeTypeOK'
  BY BoundsAssumption DEF LoseCleanupWorker, Loss, TypeOK, RuntimeTypeOK
<1>3. StoreTypeOK' /\ GitTypeOK' /\ ProvisioningTypeOK'
  BY DEF LoseCleanupWorker, TypeOK, StoreTypeOK, GitTypeOK,
         ProvisioningTypeOK, store, git
<1> QED BY <1>1, <1>2, <1>3 DEF TypeOK

\* Startup, recovery and sessions
LEMMA CleanupStartupTyped ==
  ASSUME TypeOK, CleanupStartup
  PROVE  TypeOK'
<1>1. CASE ReconcileCleanup
  <2>1. \A t \in Tasks : ReconciledCleanup(t) \in CleanOp \cup {None}
    BY DEF ReconciledCleanup, TypeOK, StoreTypeOK, CleanOp, CleanFailures
  <2>2. clean' \in [Tasks -> CleanOp \cup {None}]
    BY <1>1, <2>1 DEF ReconcileCleanup
  <2>3. RuntimeTypeOK'
    BY <1>1 DEF ReconcileCleanup, TypeOK, RuntimeTypeOK, bounds
  <2>4. GitTypeOK' /\ ProvisioningTypeOK' /\ CleanupTypeOK'
    BY <1>1
    DEF ReconcileCleanup, TypeOK, GitTypeOK, ProvisioningTypeOK,
        CleanupTypeOK, git
  <2>5. StoreTypeOK'
    BY <1>1, <2>2 DEF ReconcileCleanup, TypeOK, StoreTypeOK
  <2> QED BY <2>3, <2>4, <2>5 DEF TypeOK
<1>2. CASE PlanRecovery
  <2>1. ASSUME NEW w \in Workers, w \in Tasks, clean[w] # None, proof[w] # None
        PROVE  [phase |-> "revalidate", task |-> w, operation |-> clean[w],
                proof |-> proof[w]] \in CleanRequest
    BY <2>1, CleanRequests DEF TypeOK, StoreTypeOK, CleanJournaled
  <2>2. CleanupTypeOK'
    BY <1>2, <2>1 DEF PlanRecovery, TypeOK, CleanupTypeOK
  <2>3. RuntimeTypeOK'
    BY <1>2 DEF PlanRecovery, TypeOK, RuntimeTypeOK, bounds
  <2>4. StoreTypeOK' /\ GitTypeOK' /\ ProvisioningTypeOK'
    BY <1>2
    DEF PlanRecovery, TypeOK, StoreTypeOK, GitTypeOK, ProvisioningTypeOK,
        store, git
  <2> QED BY <2>2, <2>3, <2>4 DEF TypeOK
<1> QED BY <1>1, <1>2 DEF CleanupStartup

LEMMA SessionTyped ==
  ASSUME TypeOK, NEW p \in Paths, LaunchSession(p) \/ SessionExits(p)
  PROVE  TypeOK'
<1>1. attached' \in SUBSET Paths
  BY DEF LaunchSession, SessionExits, TypeOK, RuntimeTypeOK
<1>2. UNCHANGED <<store, git, daemon, pReq, cReq, attempts, bounds>>
  BY DEF LaunchSession, SessionExits
<1> QED
  BY <1>1, <1>2
  DEF TypeOK, StoreTypeOK, GitTypeOK, RuntimeTypeOK, ProvisioningTypeOK,
      CleanupTypeOK, store, git, bounds

LEMMA CleanupNextTyped ==
  ASSUME TypeOK, CleanupNext
  PROVE  TypeOK'
<1>1. ASSUME NEW w \in Workers, CleanupStep(w) \/ VerifiedCrash(w)
      PROVE  TypeOK'
  BY <1>1, RevalidateTyped, ApplyObservationTyped, RemoveWorkingTreeTyped,
     DeregisterTyped, ApplyRemovalTyped
  DEF CleanupStep
<1> QED
  BY <1>1, PlanCleanupTyped, FinalizeTyped, ObserveCleanupTyped,
     EndCleanupRequestTyped, BeginAttentionTyped, BeginCleanupTyped,
     RetryCleanupTyped, BeginClearsTyped, LoseCleanupWorkerTyped,
     CleanupStartupTyped, SessionTyped
  DEF CleanupNext

-----------------------------------------------------------------------------
(* Everything else, and the theorem *)

LEMMA BranchBindingTyped ==
  ASSUME TypeOK, NEW t \in Tasks,
         ReleaseTaskBranch(t) \/ \E b \in Branches : BindTaskBranch(t, b)
  PROVE  TypeOK'
<1>1. task' \in [Tasks -> TaskRecord]
  BY DEF ReleaseTaskBranch, BindTaskBranch, TypeOK, StoreTypeOK, TaskRecord
<1>2. UNCHANGED <<proof, prov, clean, receipt, git, daemon, attached, pReq,
                  cReq, attempts, bounds>>
  BY DEF ReleaseTaskBranch, BindTaskBranch
<1> QED
  BY <1>1, <1>2
  DEF TypeOK, StoreTypeOK, GitTypeOK, RuntimeTypeOK, ProvisioningTypeOK,
      CleanupTypeOK, git, bounds

LEMMA UserNextTyped ==
  ASSUME TypeOK, UserNext
  PROVE  TypeOK'
<1>1. \E move : UserStep(move)
  BY DEF UserNext, UserCreatesBranch, UserMovesBranch, UserDeletesBranch,
         UserEdits, UserSwitches, UserChangesDirectory, UserChangesWorktree
<1>2. RuntimeTypeOK'
  BY <1>1, BoundsAssumption DEF UserStep, TypeOK, RuntimeTypeOK
<1>3. StoreTypeOK' /\ ProvisioningTypeOK' /\ CleanupTypeOK'
  BY <1>1
  DEF UserStep, TypeOK, StoreTypeOK, ProvisioningTypeOK, CleanupTypeOK, store
<1>4. GitTypeOK'
  <2>1. ASSUME NEW b \in Branches,
               UserCreatesBranch(b) \/ UserMovesBranch(b) \/ UserDeletesBranch(b)
        PROVE  GitTypeOK'
    BY <2>1
    DEF UserCreatesBranch, UserMovesBranch, UserDeletesBranch, TypeOK,
        GitTypeOK, Ref
  <2>2. ASSUME NEW p \in Paths, UserEdits(p)
        PROVE  GitTypeOK'
    BY <2>2 DEF UserEdits, TypeOK, GitTypeOK
  <2>3. ASSUME NEW p \in Paths, UserSwitches(p)
        PROVE  GitTypeOK'
    BY <2>3 DEF UserSwitches, TypeOK, GitTypeOK
  <2>4. ASSUME NEW p \in Paths,
               UserChangesDirectory(p) \/ UserChangesWorktree(p)
        PROVE  GitTypeOK'
    BY <2>4
    DEF UserChangesDirectory, UserChangesWorktree, TypeOK, GitTypeOK, PathStates
  <2> QED BY <2>1, <2>2, <2>3, <2>4 DEF UserNext
<1> QED BY <1>2, <1>3, <1>4 DEF TypeOK

LEMMA DaemonTyped ==
  ASSUME TypeOK, Crash \/ Restart
  PROVE  TypeOK'
<1>1. CASE Crash
  <2>1. StoreTypeOK' /\ GitTypeOK'
    BY <1>1 DEF Crash, TypeOK, StoreTypeOK, GitTypeOK, store, git
  <2> QED BY <1>1, <2>1, DaemonDiesTyped DEF Crash, TypeOK
<1>2. CASE Restart
  <2>1. RuntimeTypeOK'
    BY <1>2, BoundsAssumption DEF Restart, Loss, TypeOK, RuntimeTypeOK, bounds
  <2>2. StoreTypeOK' /\ GitTypeOK' /\ ProvisioningTypeOK' /\ CleanupTypeOK'
    BY <1>2
    DEF Restart, TypeOK, StoreTypeOK, GitTypeOK, ProvisioningTypeOK,
        CleanupTypeOK, store, git
  <2> QED BY <2>1, <2>2 DEF TypeOK
<1> QED BY <1>1, <1>2

LEMMA InitTyped == Init => TypeOK
<1> SUFFICES ASSUME Init PROVE TypeOK
  OBVIOUS
<1>1. StoreTypeOK
  BY GenerationAssumption DEF Init, StoreTypeOK, TaskRecord
<1>2. GitTypeOK
  BY DEF Init, GitTypeOK, Ref, PathStates
<1>3. RuntimeTypeOK
  BY BoundsAssumption DEF Init, RuntimeInit, RuntimeTypeOK
<1>4. ProvisioningTypeOK /\ CleanupTypeOK
  BY ProvRequests, CleanRequests
  DEF Init, RuntimeInit, ProvisioningTypeOK, CleanupTypeOK
<1> QED BY <1>1, <1>2, <1>3, <1>4 DEF TypeOK

LEMMA NextTyped == TypeOK /\ [Next]_vars => TypeOK'
<1> SUFFICES ASSUME TypeOK, [Next]_vars PROVE TypeOK'
  OBVIOUS
<1>1. CASE Next
  BY <1>1, ProvisioningNextTyped, CleanupNextTyped, BranchBindingTyped,
     UserNextTyped, DaemonTyped
  DEF Next
<1>2. CASE UNCHANGED vars
  BY <1>2
  DEF TypeOK, StoreTypeOK, GitTypeOK, RuntimeTypeOK, ProvisioningTypeOK,
      CleanupTypeOK, vars, store, git, bounds
<1> QED BY <1>1, <1>2

\* TypeOK holds in every state of every instance: in particular the generation
\* of a Task stays within its range, and every request in flight carries a
\* journal, a proof or an observation of the right shape for its phase.
THEOREM TypeCorrect == Spec => []TypeOK
BY InitTyped, NextTyped, PTL DEF Spec

=============================================================================
