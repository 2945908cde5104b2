-------------------------- MODULE TaskWorktreeProofs --------------------------
(***************************************************************************)
(* The durable records of the Task-worktree sagas are consistent in every  *)
(* reachable state, whatever the number of Tasks, clients and crashes, and  *)
(* implement TaskBinding.                                                  *)
(*                                                                         *)
(* Every action of the system changes the store in one of six ways         *)
(* (StoreStep), which is shown first; the invariant and the refinement are *)
(* then proved of these six.                                               *)
(***************************************************************************)
EXTENDS TaskWorktreeTypes

\* A receipt is never ahead of the Task's generation.
ReceiptNotAhead ==
  \A t \in Tasks : receipt[t] # None => receipt[t].gen <= task[t].gen

\* The inductive invariant.  A cleanup clears a binding that its journal names
\* (CleanupJournalSound) and that no provisioning journal has committed
\* (ProvisioningJournalSound), a branch is bound or released where there is no
\* proof (ProofMatchesBinding), and the refinement needs all six parts.
StoreInv ==
  /\ ProofMatchesBinding
  /\ HoldingsExclusive
  /\ ProvisioningJournalSound
  /\ CleanupJournalSound
  /\ ReceiptCoversRelease
  /\ ReceiptNotAhead

-----------------------------------------------------------------------------
(* The ways in which a step changes the store *)

\* The provisioning journal of one Task is cleared, reserved, or moved on
\* within the same operation.
ProvStep(t) ==
  /\ UNCHANGED <<task, proof, clean, receipt>>
  /\ \E o \in ProvOp \cup {None} :
       /\ prov' = [prov EXCEPT ![t] = o]
       /\ \/ o = None
          \/ /\ prov[t] = None /\ o # None /\ o.stage # "bindingCommitted"
             /\ task[t].worktree = None /\ clean[t] = None
             /\ task[t].branch \in {None, o.spec.branch}
             /\ ~PathHeld(t, o.spec.path) /\ ~BranchHeld(t, o.spec.branch)
             /\ ~OwnedByAnotherTask(o.op, t) /\ ~OwnedByCleanup(o.op)
          \/ /\ prov[t] # None /\ o # None
             /\ o.op = prov[t].op /\ o.spec = prov[t].spec
             /\ \/ o.stage = prov[t].stage
                \/ /\ o.stage # "bindingCommitted"
                   /\ prov[t].stage # "bindingCommitted"

\* A provisioning journal is committed.
CommitStep(t) ==
  /\ prov[t] # None /\ CanCommit(t)
  /\ \E left \in ProvOp \cup {None} :
       /\ CommitBinding(t, left)
       /\ left # None => /\ left.op = prov[t].op /\ left.spec = prov[t].spec
                         /\ left.stage = "bindingCommitted"

\* Cleanup journals are cleared, or moved on within the same operation for the
\* binding they name.
CleanStep ==
  /\ UNCHANGED <<task, proof, prov, receipt>>
  /\ \A t \in Tasks :
       \/ clean'[t] \in {None, clean[t]}
       \/ /\ prov[t] = None
          /\ clean[t] # None /\ clean'[t].op = clean[t].op
          /\ clean'[t].stage # "bindingCleared"
          /\ NamesBinding(t, clean'[t])

\* A cleanup journal with a new id is written for the current binding.
BeginStep(t) ==
  /\ UNCHANGED <<task, proof, prov, receipt>>
  /\ \E o \in CleanOp :
       /\ clean' = [clean EXCEPT ![t] = o]
       /\ prov[t] = None /\ o.stage # "bindingCleared"
       /\ NamesBinding(t, o) /\ ~OwnedAnywhere(o.op)

\* A cleanup, the current one or one with a new id, clears the binding.
ClearStep(t) ==
  \E o \in CleanOp :
    /\ prov[t] = None /\ NamesBinding(t, o)
    /\ \/ clean[t] # None /\ clean[t].op = o.op /\ clean[t].stage # "bindingCleared"
       \/ ~OwnedAnywhere(o.op)
    /\ ClearBinding(t, o, None) \/ ClearBinding(t, o, Cleared(o))

\* A branch is bound or released without a worktree.
BranchStep(t) ==
  /\ task[t].worktree = None /\ prov[t] = None /\ clean[t] = None
  /\ \E b \in Branches \cup {None} :
       /\ task' = [task EXCEPT ![t].branch = b]
       /\ b # None => task[t].branch = None /\ ~BranchHeld(t, b)
  /\ UNCHANGED <<proof, prov, clean, receipt>>

StoreStep ==
  \/ UNCHANGED store
  \/ CleanStep
  \/ \E t \in Tasks : \/ ProvStep(t) \/ CommitStep(t)
                     \/ BeginStep(t) \/ ClearStep(t) \/ BranchStep(t)

-----------------------------------------------------------------------------
(* Every step is one of them *)

\* A journal that the store may write names the current binding.
LEMMA TupleNamesBinding ==
  ASSUME NEW t \in Tasks, NEW o, CleanupTuple(t, o)
  PROVE  NamesBinding(t, o)
BY DEF CleanupTuple, NamesBinding

\* A running or failed cleanup journal names the binding and excludes
\* provisioning.
LEMMA CurrentJournal ==
  ASSUME TypeOK, StoreInv, NEW t \in Tasks, clean[t] # None,
         clean[t].stage # "bindingCleared"
  PROVE  NamesBinding(t, clean[t]) /\ prov[t] = None
BY DEF StoreInv, CleanupJournalSound, ProvisioningJournalSound

\* Clearing a cleanup journal, or moving it on, is a CleanStep.
LEMMA JournalIsCleanStep ==
  ASSUME TypeOK, NEW t \in Tasks, NEW o, Journal(t, o),
         UNCHANGED <<task, proof, prov, receipt>>,
         o = None \/ (prov[t] = None /\ clean[t] # None /\ o.op = clean[t].op
                      /\ o.stage # "bindingCleared" /\ NamesBinding(t, o))
  PROVE  CleanStep
<1>1. \A u \in Tasks : clean'[u] = IF u = t THEN o ELSE clean[u]
  BY DEF Journal, TypeOK, StoreTypeOK
<1> QED BY <1>1 DEF CleanStep, NamesBinding

LEMMA ProvisioningStoreStep ==
  ASSUME TypeOK, StoreInv, ProvisioningNext
  PROVE  StoreStep
<1>1. ASSUME NEW c \in Clients, StartProvisioning(c)
      PROVE  StoreStep
  <2> DEFINE t == pReq[c].task
             o == [op |-> pReq[c].op, spec |-> pReq[c].spec,
                   stage |-> "reserved", created |-> FALSE,
                   failed |-> FALSE, updated |-> attempts[t] + 1]
  <2>1. pReq[c] \in Observed
    BY <1>1, ProvPhase DEF TypeOK, ProvisioningTypeOK, StartProvisioning, Workers
  <2>2. /\ UNCHANGED <<task, proof, clean, receipt>>
        /\ prov' = [prov EXCEPT ![t] = o]
        /\ prov[t] = None /\ task[t].worktree = None
        /\ MayReserve(t, pReq[c].op, pReq[c].spec)
        /\ attempts[t] < MaxAttempts
    BY <1>1 DEF StartProvisioning, Attempt
  <2>3. t \in Tasks /\ attempts[t] \in 0..MaxAttempts
    BY <2>1 DEF Observed, TypeOK, RuntimeTypeOK
  <2>4. attempts[t] + 1 \in 1..MaxAttempts
    BY <2>2, <2>3, BoundsAssumption
  <2>5. /\ o \in ProvOp /\ o.spec = pReq[c].spec /\ o.op = pReq[c].op
        /\ o.stage # "bindingCommitted"
    BY <2>1, <2>4 DEF Observed, ProvOp, ProvStages
  <2> HIDE DEF o
  <2>6. ProvStep(t)
    BY <2>2, <2>5 DEF ProvStep, MayReserve
  <2> QED BY <2>3, <2>6 DEF StoreStep
<1>2. ASSUME NEW c \in Clients, RetryProvisioning(c)
      PROVE  StoreStep
  <2> DEFINE t == pReq[c].task
             o == [prov[t] EXCEPT !.failed = FALSE,
                                  !.updated = attempts[t] + 1]
  <2>1. pReq[c] \in Observed
    BY <1>2, ProvPhase DEF TypeOK, ProvisioningTypeOK, RetryProvisioning, Workers
  <2>2. /\ UNCHANGED <<task, proof, clean, receipt>>
        /\ prov' = [prov EXCEPT ![t] = o]
        /\ prov[t] # None
        /\ attempts[t] < MaxAttempts
    BY <1>2 DEF RetryProvisioning, Attempt
  <2>3. t \in Tasks /\ attempts[t] \in 0..MaxAttempts
    BY <2>1 DEF Observed, TypeOK, RuntimeTypeOK
  <2>4. prov[t] \in ProvOp /\ attempts[t] + 1 \in 1..MaxAttempts
    BY <2>2, <2>3, BoundsAssumption DEF TypeOK, StoreTypeOK
  <2>5. /\ o \in ProvOp /\ o.op = prov[t].op /\ o.spec = prov[t].spec
        /\ o.stage = prov[t].stage
    BY <2>4 DEF ProvOp
  <2>6. o = None \/ o # None
    OBVIOUS
  <2>7. ProvStep(t)
    BY <2>2, <2>5, <2>6 DEF ProvStep
  <2> QED BY <2>3, <2>7 DEF StoreStep
<1>3. ASSUME NEW w \in Workers, ApplyStep(w) \/ CommitCrash(w)
      PROVE  StoreStep
  <2> DEFINE t == pReq[w].task
  <2>1. pReq[w] \in Executed
    BY <1>3, ProvPhase
    DEF TypeOK, ProvisioningTypeOK, ApplyStep, ApplyAdvance, ApplyFailure,
        ApplyRollback, ApplyCommit, ApplyRefusedCommit, CommitCrash,
        ReadyToCommit
  <2>2. t \in Tasks
    BY <2>1 DEF Executed
  <2>3. StillCurrent(pReq[w]) => prov[t] # None /\ prov[t] \in ProvOp
    BY <2>2 DEF StillCurrent, TypeOK, StoreTypeOK
  <2>4. CASE ApplyAdvance(w)
    <3> DEFINE o == [prov[t] EXCEPT
                       !.stage = pReq[w].result,
                       !.created = @ \/ pReq[w].result = "branchCreated"]
    <3>1. /\ prov' = [prov EXCEPT ![t] = o]
          /\ UNCHANGED <<task, proof, clean, receipt>>
          /\ ValidAdvance(prov[t].stage, pReq[w].result)
      BY <2>4 DEF ApplyAdvance, OnlyJournal
    <3>2. prov[t] # None /\ prov[t] \in ProvOp
      BY <2>3, <2>4 DEF ApplyAdvance
    <3>3. /\ o \in ProvOp /\ o.op = prov[t].op /\ o.spec = prov[t].spec
          /\ o.stage # "bindingCommitted" /\ prov[t].stage # "bindingCommitted"
      BY <3>1, <3>2 DEF ProvOp, ProvStages, ValidAdvance
    <3>4. ProvStep(t)
      BY <3>1, <3>2, <3>3 DEF ProvStep
    <3> QED BY <2>2, <3>4 DEF StoreStep
  <2>5. CASE ApplyFailure(w) /\ ~StillCurrent(pReq[w])
    BY <2>2, <2>5
    DEF ApplyFailure, OnlyJournal, StoreStep, store, TypeOK, StoreTypeOK
  <2>6. CASE \/ ApplyFailure(w) /\ StillCurrent(pReq[w])
             \/ ApplyRefusedCommit(w)
    <3> DEFINE o == [prov[t] EXCEPT !.failed = TRUE]
    <3>1. /\ prov' = [prov EXCEPT ![t] = o]
          /\ UNCHANGED <<task, proof, clean, receipt>>
          /\ StillCurrent(pReq[w])
      BY <2>6 DEF ApplyFailure, ApplyRefusedCommit, ReadyToCommit, OnlyJournal
    <3>2. /\ o \in ProvOp /\ o.op = prov[t].op /\ o.spec = prov[t].spec
          /\ o.stage = prov[t].stage /\ prov[t] # None
      BY <2>3, <3>1 DEF ProvOp
    <3>3. ProvStep(t)
      BY <3>1, <3>2 DEF ProvStep
    <3> QED BY <2>2, <3>3 DEF StoreStep
  <2>7. CASE ApplyRollback(w)
    <3> DEFINE o == [prov[t] EXCEPT !.stage = "reserved", !.created = FALSE,
                                    !.failed = TRUE]
    <3>1. /\ prov' = [prov EXCEPT ![t] = o]
          /\ UNCHANGED <<task, proof, clean, receipt>>
          /\ prov[t].stage = "branchCreated" /\ prov[t] # None
          /\ prov[t] \in ProvOp
      BY <2>3, <2>7 DEF ApplyRollback, OnlyJournal, ProvOp, TypeOK, StoreTypeOK
    <3>2. /\ o \in ProvOp /\ o.op = prov[t].op /\ o.spec = prov[t].spec
          /\ o.stage # "bindingCommitted"
      BY <3>1 DEF ProvOp, ProvStages
    <3>3. ProvStep(t)
      BY <3>1, <3>2 DEF ProvStep
    <3> QED BY <2>2, <3>3 DEF StoreStep
  <2>8. CASE ApplyCommit(w) \/ CommitCrash(w)
    <3> DEFINE o == Committed(t)
               f == [Committed(t) EXCEPT !.failed = TRUE]
    <3>1. prov[t] # None /\ prov[t] \in ProvOp /\ CanCommit(t)
      BY <2>3, <2>8 DEF ApplyCommit, CommitCrash, ReadyToCommit
    <3>2. /\ o \in ProvOp /\ o.op = prov[t].op /\ o.spec = prov[t].spec
          /\ o.stage = "bindingCommitted"
          /\ f \in ProvOp /\ f.op = prov[t].op /\ f.spec = prov[t].spec
          /\ f.stage = "bindingCommitted"
      BY <3>1 DEF Committed, ProvOp, ProvStages
    <3>3. \E left \in {None, o, f} : CommitBinding(t, left)
      BY <2>8 DEF ApplyCommit, CommitCrash
    <3>4. CommitStep(t)
      BY <3>1, <3>2, <3>3 DEF CommitStep
    <3> QED BY <2>2, <3>4 DEF StoreStep
  <2> QED BY <1>3, <2>4, <2>5, <2>6, <2>7, <2>8 DEF ApplyStep
<1>4. ASSUME NEW c \in Clients, CompleteDismissal(c)
      PROVE  StoreStep
  <2>1. pReq[c].task \in Tasks
    BY <1>4, ProvPhase
    DEF CompleteDismissal, TypeOK, ProvisioningTypeOK, Workers, Journaled
  <2> QED
    BY <1>4, <2>1 DEF CompleteDismissal, OnlyJournal, ProvStep, StoreStep
<1>5. ASSUME NEW t \in Tasks, ReconcileCommitted(t)
      PROVE  StoreStep
  <2> DEFINE o == [prov[t] EXCEPT !.failed = TRUE]
  <2>1. /\ prov[t] # None /\ prov[t] \in ProvOp
        /\ UNCHANGED <<task, proof, clean, receipt>>
        /\ prov' = [prov EXCEPT ![t] = None] \/ prov' = [prov EXCEPT ![t] = o]
    BY <1>5 DEF ReconcileCommitted, OnlyJournal, TypeOK, StoreTypeOK
  <2>2. /\ o \in ProvOp /\ o.op = prov[t].op /\ o.spec = prov[t].spec
        /\ o.stage = prov[t].stage
    BY <2>1 DEF ProvOp
  <2>3. ProvStep(t)
    BY <2>1, <2>2 DEF ProvStep
  <2> QED BY <2>3 DEF StoreStep
<1>6. ASSUME NEW c \in Clients,
             \/ \E t \in Tasks, op \in OpIds, want \in Wanted :
                  PlanProvisioning(c, t, op, want)
             \/ \E t \in Tasks : PlanDismissal(c, t)
             \/ ObserveProvisioning(c) \/ EndRequest(c)
             \/ ObserveDismissal(c) \/ LoseWorker(c)
      PROVE  StoreStep
  BY <1>6
  DEF PlanProvisioning, PlanDismissal, ObserveProvisioning, EndRequest,
      ObserveDismissal, LoseWorker, OnlyRequest, StoreStep
<1>7. ASSUME NEW w \in Workers, ExecuteStep(w)
      PROVE  StoreStep
  BY <1>7
  DEF ExecuteStep, CreateBranch, AddWorktree, VerifyWorktree, CheckRollback,
      DeleteCreatedRef, OnlyGit, StoreStep
<1>8. CASE ProvisioningReconciled \/ \E t \in Tasks : ResumeProvisioning(t)
  BY <1>8
  DEF ProvisioningReconciled, ResumeProvisioning, OnlyRequest, StoreStep
<1> QED
  BY <1>1, <1>2, <1>3, <1>4, <1>5, <1>6, <1>7, <1>8
  DEF ProvisioningNext, ProvisioningStartup

LEMMA CleanupStoreStep ==
  ASSUME TypeOK, StoreInv, CleanupNext
  PROVE  StoreStep
<1>1. ASSUME NEW c \in Clients, Finalize(c)
      PROVE  StoreStep
  <2>1. cReq[c].task \in Tasks
    BY <1>1, CleanPhase
    DEF Finalize, TypeOK, CleanupTypeOK, Workers, CleanFinal
  <2>2. CleanStep
    BY <1>1, <2>1, JournalIsCleanStep DEF Finalize, Journal, OnlyCleanupJournal
  <2> QED BY <2>2 DEF StoreStep
<1>2. ASSUME NEW c \in Clients, BeginAttention(c)
      PROVE  StoreStep
  <2> DEFINE i == cReq[c].intent
             t == i.task
             o == RequestedCleanup(i, cReq[c].facts)
  <2>1. /\ cReq[c].phase = "begin"
        /\ UNCHANGED <<task, proof, prov, receipt>>
    BY <1>2 DEF BeginAttention, BeginReady, OnlyCleanupJournal
  <2>2. t \in Tasks /\ clean[t] \in CleanOp \cup {None}
    BY <2>1, BeginFacts
  <2>3. CASE clean[t] # None /\ CleanupTuple(t, clean[t])
             /\ Journal(t, Attention(clean[t]))
    <3>1. NamesBinding(t, clean[t]) /\ clean[t] \in CleanOp
      BY <2>2, <2>3, TupleNamesBinding
    <3>2. clean[t].stage # "bindingCleared"
      BY <2>2, <2>3, <3>1, NamesAssumption
      DEF StoreInv, CleanupJournalSound, NamesBinding, CleanOp, Baseline
    <3>3. prov[t] = None
      BY <2>2, <2>3, <3>2, CurrentJournal
    <3>4. /\ NamesBinding(t, Attention(clean[t]))
          /\ Attention(clean[t]).stage # "bindingCleared"
          /\ Attention(clean[t]).op = clean[t].op
      BY <3>1, <3>2 DEF NamesBinding, Attention, CleanOp
    <3>5. CleanStep
      BY <2>1, <2>2, <2>3, <3>3, <3>4, JournalIsCleanStep
    <3> QED BY <3>5 DEF StoreStep
  <2>4. CASE HasBaseline(cReq[c].facts) /\ StoreStarts(t, o)
             /\ Journal(t, Attention(o))
    <3>1. NamesBinding(t, o) /\ prov[t] = None /\ ~OwnedAnywhere(o.op)
      BY <2>2, <2>4, TupleNamesBinding DEF StoreStarts
    <3>2. o \in CleanOp /\ o.stage = "reserved"
      BY <2>1, <2>4, BeginFacts, RequestedCleanupTyped DEF RequestedCleanup
    <3> HIDE DEF o
    <3>3. /\ NamesBinding(t, Attention(o)) /\ Attention(o).op = o.op
          /\ Attention(o).stage # "bindingCleared" /\ Attention(o) \in CleanOp
      BY <3>1, <3>2, AttentionTyped DEF NamesBinding, Attention, CleanOp
    <3>4. clean' = [clean EXCEPT ![t] = Attention(o)]
      BY <2>4 DEF Journal
    <3>5. ~OwnedAnywhere(Attention(o).op)
      BY <3>1, <3>3
    <3>6. BeginStep(t)
      BY <2>1, <3>1, <3>3, <3>4, <3>5 DEF BeginStep
    <3> QED BY <2>2, <3>6 DEF StoreStep
  <2> QED BY <1>2, <2>3, <2>4 DEF BeginAttention, StoreCurrent
<1>3. ASSUME NEW c \in Clients, BeginCleanup(c)
      PROVE  StoreStep
  <2> DEFINE i == cReq[c].intent
             t == i.task
             o == RequestedCleanup(i, cReq[c].facts)
  <2>1. /\ cReq[c].phase = "begin" /\ HasBaseline(cReq[c].facts)
        /\ UNCHANGED <<task, proof, prov, receipt>>
        /\ Journal(t, o)
        /\ StoreStarts(t, o) \/ StoreSupersedes(t, i.supersedes, o)
    BY <1>3
    DEF BeginCleanup, BeginAccepted, BeginReady, OnlyCleanupJournal, Starts
  <2>2. t \in Tasks /\ clean[t] \in CleanOp \cup {None}
    BY <2>1, BeginFacts
  <2>3. NamesBinding(t, o)
    BY <2>1, <2>2, TupleNamesBinding DEF StoreStarts, StoreSupersedes
  <2>4. prov[t] = None
    BY <2>1, <2>2
    DEF StoreStarts, StoreSupersedes, StoreInv, ProvisioningJournalSound
  <2>5. o.stage # "bindingCleared" /\ o \in CleanOp
    BY <2>1, BeginFacts, RequestedCleanupTyped DEF RequestedCleanup
  <2>6. ~OwnedAnywhere(o.op) /\ clean' = [clean EXCEPT ![t] = o]
    BY <2>1 DEF StoreStarts, StoreSupersedes, Journal
  <2> HIDE DEF o
  <2>7. BeginStep(t)
    BY <2>1, <2>3, <2>4, <2>5, <2>6 DEF BeginStep
  <2> QED BY <2>2, <2>7 DEF StoreStep
<1>4. ASSUME NEW c \in Clients, RetryCleanup(c)
      PROVE  StoreStep
  <2> DEFINE i == cReq[c].intent
             t == i.task
             o == RetriedCleanup(clean[t])
  <2>1. /\ cReq[c].phase = "begin"
        /\ UNCHANGED <<task, proof, prov, receipt>>
        /\ Journal(t, o)
        /\ clean[t] # None /\ CleanupTuple(t, clean[t])
    BY <1>4
    DEF RetryCleanup, BeginAccepted, BeginReady, OnlyCleanupJournal, StoreCurrent
  <2>2. t \in Tasks /\ clean[t] \in CleanOp
    BY <2>1, BeginFacts
  <2>3. NamesBinding(t, clean[t])
    BY <2>1, <2>2, TupleNamesBinding
  <2>4. clean[t].stage # "bindingCleared"
    BY <2>1, <2>2, <2>3, NamesAssumption
    DEF StoreInv, CleanupJournalSound, NamesBinding, CleanOp, Baseline
  <2>5. prov[t] = None
    BY <2>1, <2>2, <2>4, CurrentJournal
  <2>6. o.stage # "bindingCleared" /\ NamesBinding(t, o) /\ o.op = clean[t].op
    BY <2>2, <2>3, <2>4 DEF RetriedCleanup, NamesBinding, CleanOp
  <2>7. CleanStep
    BY <2>1, <2>2, <2>5, <2>6, JournalIsCleanStep
  <2> QED BY <2>7 DEF StoreStep
<1>5. ASSUME NEW c \in Clients, BeginClears(c)
      PROVE  StoreStep
  <2> DEFINE i == cReq[c].intent
             t == i.task
             o == RequestedCleanup(i, cReq[c].facts)
  <2>1. /\ cReq[c].phase = "begin" /\ HasBaseline(cReq[c].facts)
        /\ CanComplete(t, o)
        /\ ClearBinding(t, o, None) \/ ClearBinding(t, o, Cleared(o))
        /\ StoreStarts(t, o) \/ StoreSupersedes(t, i.supersedes, o)
    BY <1>5
    DEF BeginClears, BeginAccepted, BeginReady, Starts, CompleteCleanup,
        CompleteCrash
  <2>2. t \in Tasks /\ o \in CleanOp
    BY <2>1, BeginFacts, RequestedCleanupTyped
  <2>3. NamesBinding(t, o)
    BY <2>1, <2>2, TupleNamesBinding DEF CanComplete
  <2>4. prov[t] = None
    BY <2>1, <2>2
    DEF StoreStarts, StoreSupersedes, StoreInv, ProvisioningJournalSound
  <2>5. ~OwnedAnywhere(o.op)
    BY <2>1 DEF StoreStarts, StoreSupersedes
  <2> HIDE DEF o
  <2>6. ClearStep(t)
    BY <2>1, <2>2, <2>3, <2>4, <2>5 DEF ClearStep
  <2> QED BY <2>2, <2>6 DEF StoreStep
<1>6. ASSUME NEW w \in Workers, Applying(w),
             \/ MarkAttention(w) \/ ApplyRefusal(w) \/ PrepareRemoval(w)
             \/ ApplyCompletion(w) \/ VerifiedCrash(w)
      PROVE  StoreStep
  <2> DEFINE t == cReq[w].task
  <2>1. cReq[w] \in CleanRevalidated /\ clean[t] # None
    BY <1>6, CleanPhase DEF Applying, TypeOK, CleanupTypeOK
  <2>2. t \in Tasks
    BY <2>1 DEF CleanRevalidated
  <2>3. clean[t] \in CleanOp
    BY <2>1, <2>2 DEF TypeOK, StoreTypeOK
  <2>4. clean[t].stage # "bindingCleared"
    BY <1>6
    DEF MarkAttention, ApplyRefusal, PrepareRemoval, ApplyCompletion,
        VerifiedCrash, ReadyToComplete, ReservedAccepted, ReadyToApply
  <2>5. NamesBinding(t, clean[t]) /\ prov[t] = None
    BY <2>1, <2>2, <2>4, CurrentJournal
  <2>6. CASE ApplyRefusal(w)
    <3>1. CleanStep
      BY <2>2, <2>6, JournalIsCleanStep DEF ApplyRefusal, OnlyCleanupJournal
    <3> QED BY <3>1 DEF StoreStep
  <2>7. CASE MarkAttention(w)
    <3>1. /\ NamesBinding(t, Attention(clean[t]))
          /\ Attention(clean[t]).stage # "bindingCleared"
          /\ Attention(clean[t]).op = clean[t].op
      BY <2>3, <2>4, <2>5 DEF NamesBinding, Attention, CleanOp
    <3>2. CleanStep
      BY <2>1, <2>2, <2>5, <2>7, <3>1, JournalIsCleanStep
      DEF MarkAttention, OnlyCleanupJournal
    <3> QED BY <3>2 DEF StoreStep
  <2>8. CASE PrepareRemoval(w)
    <3> DEFINE o == [clean[t] EXCEPT !.stage = "removePrepared",
                                     !.failure = None]
    <3>1. NamesBinding(t, o) /\ o.stage # "bindingCleared" /\ o.op = clean[t].op
      BY <2>3, <2>5 DEF NamesBinding, CleanOp
    <3>2. Journal(t, o) /\ UNCHANGED <<task, proof, prov, receipt>>
      BY <2>8 DEF PrepareRemoval, OnlyCleanupJournal
    <3> HIDE DEF o
    <3>3. CleanStep
      BY <2>1, <2>2, <2>5, <3>1, <3>2, JournalIsCleanStep
    <3> QED BY <3>3 DEF StoreStep
  <2>9. /\ NamesBinding(t, Verified(w)) /\ Verified(w) \in CleanOp
        /\ Verified(w).stage # "bindingCleared" /\ Verified(w).op = clean[t].op
    BY <2>3, <2>4, <2>5 DEF Verified, NamesBinding, CleanOp, CleanStages
  <2>10. CASE ApplyCompletion(w)
    <3>1. ClearStep(t)
      BY <2>1, <2>4, <2>5, <2>9, <2>10
      DEF ApplyCompletion, CompleteCleanup, CompleteCrash, ClearStep
    <3> QED BY <2>2, <3>1 DEF StoreStep
  <2>11. CASE VerifiedCrash(w)
    <3>1. CleanStep
      BY <2>1, <2>2, <2>5, <2>9, <2>11, JournalIsCleanStep DEF VerifiedCrash
    <3> QED BY <3>1 DEF StoreStep
  <2> QED BY <1>6, <2>6, <2>7, <2>8, <2>10, <2>11
<1>7. ASSUME NEW w \in Workers, ApplyRemoval(w)
      PROVE  StoreStep
  <2> DEFINE t == cReq[w].task
             o == [clean[t] EXCEPT !.failure = FailureOf(cReq[w].result)]
  <2>1. UNCHANGED <<task, proof, prov, receipt>>
    BY <1>7 DEF ApplyRemoval, OnlyCleanupJournal
  <2>2. CASE UNCHANGED clean
    BY <2>1, <2>2 DEF StoreStep, store
  <2>3. CASE clean[t] # None /\ clean[t].stage = "removePrepared" /\ Journal(t, o)
    <3>1. t \in Tasks
      BY <1>7, CleanPhase DEF ApplyRemoval, TypeOK, CleanupTypeOK, CleanRemoved
    <3>2. clean[t] \in CleanOp
      BY <2>3, <3>1 DEF TypeOK, StoreTypeOK
    <3>3. NamesBinding(t, clean[t]) /\ prov[t] = None
      BY <2>3, <3>1, CurrentJournal
    <3>4. NamesBinding(t, o) /\ o.stage # "bindingCleared" /\ o.op = clean[t].op
      BY <2>3, <3>2, <3>3 DEF NamesBinding, CleanOp
    <3> HIDE DEF o
    <3>5. CleanStep
      BY <2>1, <2>3, <3>1, <3>3, <3>4, JournalIsCleanStep
    <3> QED BY <3>5 DEF StoreStep
  <2> QED BY <1>7, <2>2, <2>3 DEF ApplyRemoval
<1>8. CASE ReconcileCleanup
  <2>1. ASSUME NEW t \in Tasks
        PROVE  \/ ReconciledCleanup(t) \in {None, clean[t]}
               \/ /\ prov[t] = None
                  /\ clean[t] # None /\ ReconciledCleanup(t).op = clean[t].op
                  /\ ReconciledCleanup(t).stage # "bindingCleared"
                  /\ NamesBinding(t, ReconciledCleanup(t))
    <3>1. CASE clean[t] # None /\ clean[t].stage = "reserved"
      <4>1. clean[t] \in CleanOp
        BY <3>1 DEF TypeOK, StoreTypeOK
      <4>2. NamesBinding(t, clean[t]) /\ prov[t] = None
        BY <3>1, CurrentJournal
      <4> QED
        BY <3>1, <4>1, <4>2 DEF ReconciledCleanup, NamesBinding, CleanOp
    <3>2. CASE ~(clean[t] # None /\ clean[t].stage = "reserved")
      BY <3>2 DEF ReconciledCleanup
    <3> QED BY <3>1, <3>2
  <2>2. \A t \in Tasks : clean'[t] = ReconciledCleanup(t)
    BY <1>8 DEF ReconcileCleanup
  <2>3. CleanStep
    BY <1>8, <2>1, <2>2 DEF ReconcileCleanup, CleanStep
  <2> QED BY <2>3 DEF StoreStep
<1>9. ASSUME NEW c \in Clients,
             \/ \E t \in Tasks, op \in OpIds, mode \in CleanupModes,
                   acks \in SUBSET ContentKinds : PlanCleanup(c, t, op, mode, acks)
             \/ \E t \in Tasks : PlanFinalize(c, t)
             \/ ObserveCleanup(c) \/ EndCleanupRequest(c)
      PROVE  StoreStep
  BY <1>9
  DEF PlanCleanup, PlanFinalize, ObserveCleanup, EndCleanupRequest,
      OnlyCleanupRequest, StoreStep
<1>10. ASSUME NEW w \in Workers,
              \/ Revalidate(w) \/ ApplyNothing(w)
              \/ RemoveWorkingTree(w) \/ Deregister(w) \/ LoseCleanupWorker(w)
       PROVE  StoreStep
  BY <1>10
  DEF Revalidate, ApplyNothing, RemoveWorkingTree,
      Deregister, LoseCleanupWorker, OnlyCleanupRequest, OnlyCleanupGit,
      StoreStep
<1>11. CASE PlanRecovery \/ \E p \in Paths : LaunchSession(p) \/ SessionExits(p)
  BY <1>11 DEF PlanRecovery, LaunchSession, SessionExits, StoreStep
<1>12. ASSUME NEW w \in Workers, CleanupStep(w) \/ VerifiedCrash(w)
       PROVE  StoreStep
  <2>1. \/ MarkAttention(w) \/ ApplyRefusal(w) \/ PrepareRemoval(w)
        \/ ApplyCompletion(w) \/ VerifiedCrash(w)
        => Applying(w)
    BY DEF MarkAttention, ApplyRefusal, PrepareRemoval, ApplyCompletion,
           VerifiedCrash, ReadyToComplete, ReservedAccepted, ReadyToApply
  <2> QED BY <1>6, <1>7, <1>10, <1>12, <2>1 DEF CleanupStep
<1> QED
  BY <1>1, <1>2, <1>3, <1>4, <1>5, <1>8, <1>9, <1>10, <1>11, <1>12
  DEF CleanupNext, CleanupStartup

LEMMA NextStoreStep ==
  ASSUME TypeOK, StoreInv, [Next]_vars
  PROVE  StoreStep
<1>1. ASSUME NEW t \in Tasks, NEW b \in Branches, BindTaskBranch(t, b)
      PROVE  StoreStep
  <2>1. task[t].worktree = None
    BY <1>1, NamesAssumption
    DEF BindTaskBranch, TypeOK, StoreTypeOK, StoreInv, ProofMatchesBinding,
        ManagedProof, WorktreeSpec
  <2>2. BranchStep(t)
    BY <1>1, <2>1 DEF BindTaskBranch, BranchStep
  <2> QED BY <2>2 DEF StoreStep
<1>2. ASSUME NEW t \in Tasks, ReleaseTaskBranch(t)
      PROVE  StoreStep
  <2>1. BranchStep(t)
    BY <1>2 DEF ReleaseTaskBranch, BranchStep
  <2> QED BY <2>1 DEF StoreStep
<1>3. CASE UserNext \/ Crash \/ Restart \/ UNCHANGED vars
  BY <1>3
  DEF UserNext, UserCreatesBranch, UserMovesBranch, UserDeletesBranch,
      UserEdits, UserSwitches, UserChangesDirectory, UserChangesWorktree,
      UserStep, Crash, Restart, vars, StoreStep
<1> QED
  BY <1>1, <1>2, <1>3, ProvisioningStoreStep, CleanupStoreStep DEF Next

-----------------------------------------------------------------------------
(* The invariant *)

LEMMA InitStoreInv == Init => StoreInv
BY DEF Init, StoreInv, ProofMatchesBinding, HoldingsExclusive, HeldBranches,
       HeldPaths, ProvisioningJournalSound, CleanupJournalSound,
       ReceiptCoversRelease, ReceiptNotAhead

\* The holdings of a Task, as the guards of the store see them
LEMMA HeldByAnother ==
  ASSUME TypeOK, NEW t \in Tasks, NEW b \in Branches, NEW p \in Paths
  PROVE  /\ BranchHeld(t, b) <=> \E u \in Tasks \ {t} : b \in HeldBranches(u)
         /\ PathHeld(t, p) <=> \E u \in Tasks \ {t} : p \in HeldPaths(u)
BY NamesAssumption DEF BranchHeld, PathHeld, HeldBranches, HeldPaths

LEMMA ProvStepInv ==
  ASSUME TypeOK, TypeOK', StoreInv, NEW t \in Tasks, ProvStep(t)
  PROVE  StoreInv'
<1>1. PICK o \in ProvOp \cup {None} :
        /\ prov' = [prov EXCEPT ![t] = o]
        /\ \/ o = None
           \/ /\ prov[t] = None /\ o # None /\ o.stage # "bindingCommitted"
              /\ task[t].worktree = None /\ clean[t] = None
              /\ task[t].branch \in {None, o.spec.branch}
              /\ ~PathHeld(t, o.spec.path) /\ ~BranchHeld(t, o.spec.branch)
              /\ ~OwnedByAnotherTask(o.op, t) /\ ~OwnedByCleanup(o.op)
           \/ /\ prov[t] # None /\ o # None
              /\ o.op = prov[t].op /\ o.spec = prov[t].spec
              /\ \/ o.stage = prov[t].stage
                 \/ /\ o.stage # "bindingCommitted"
                    /\ prov[t].stage # "bindingCommitted"
  BY DEF ProvStep
<1>2. UNCHANGED <<task, proof, clean, receipt>>
  BY DEF ProvStep
<1>3. \A u \in Tasks : prov'[u] = IF u = t THEN o ELSE prov[u]
  BY <1>1 DEF TypeOK, StoreTypeOK
<1>4. ProofMatchesBinding' /\ ReceiptCoversRelease' /\ ReceiptNotAhead'
  BY <1>2
  DEF StoreInv, ProofMatchesBinding, ReceiptCoversRelease, ReceiptNotAhead
<1>5. CleanupJournalSound'
  BY <1>2 DEF StoreInv, CleanupJournalSound, NamesBinding
<1>6. ProvisioningJournalSound'
  BY <1>1, <1>2, <1>3 DEF StoreInv, ProvisioningJournalSound
<1>7. HoldingsExclusive'
  <2>1. ASSUME NEW u \in Tasks, u # t
        PROVE  /\ HeldBranches(u)' = HeldBranches(u)
               /\ HeldPaths(u)' = HeldPaths(u)
    BY <1>2, <1>3, <2>1 DEF HeldBranches, HeldPaths
  <2>2. ASSUME NEW u \in Tasks \ {t}
        PROVE  /\ HeldBranches(t)' \cap HeldBranches(u) = {}
               /\ HeldPaths(t)' \cap HeldPaths(u) = {}
    <3>1. CASE o = None \/ (prov[t] # None /\ o # None /\ o.spec = prov[t].spec)
      <4>1. /\ HeldBranches(t)' \subseteq HeldBranches(t)
            /\ HeldPaths(t)' \subseteq HeldPaths(t)
        BY <1>2, <1>3, <3>1 DEF HeldBranches, HeldPaths
      <4> QED BY <2>2, <4>1 DEF StoreInv, HoldingsExclusive
    <3>2. CASE /\ o # None /\ ~PathHeld(t, o.spec.path)
               /\ ~BranchHeld(t, o.spec.branch)
      <4>1. o.spec.branch \in Branches /\ o.spec.path \in Paths
        BY <3>2 DEF ProvOp, WorktreeSpec
      <4>2. /\ HeldBranches(t)' \subseteq HeldBranches(t) \cup {o.spec.branch}
            /\ HeldPaths(t)' \subseteq HeldPaths(t) \cup {o.spec.path}
        BY <1>2, <1>3, <3>2 DEF HeldBranches, HeldPaths
      <4>3. o.spec.branch \notin HeldBranches(u) /\ o.spec.path \notin HeldPaths(u)
        BY <3>2, <4>1, HeldByAnother
      <4> QED BY <2>2, <4>2, <4>3 DEF StoreInv, HoldingsExclusive
    <3> QED BY <1>1, <3>1, <3>2
  <2>3. ASSUME NEW u \in Tasks, NEW v \in Tasks, u # v
        PROVE  /\ HeldBranches(u)' \cap HeldBranches(v)' = {}
               /\ HeldPaths(u)' \cap HeldPaths(v)' = {}
    BY <2>1, <2>2, <2>3 DEF StoreInv, HoldingsExclusive
  <2> QED BY <2>3 DEF HoldingsExclusive
<1> QED BY <1>4, <1>5, <1>6, <1>7 DEF StoreInv

LEMMA CommitStepInv ==
  ASSUME TypeOK, TypeOK', StoreInv, NEW t \in Tasks, CommitStep(t)
  PROVE  StoreInv'
<1> DEFINE spec == prov[t].spec
           gen == task[t].gen + 1
<1>1. PICK left \in ProvOp \cup {None} :
        /\ CommitBinding(t, left)
        /\ left # None => /\ left.op = prov[t].op /\ left.spec = spec
                          /\ left.stage = "bindingCommitted"
  BY DEF CommitStep
<1>2. /\ prov[t] # None /\ prov[t] \in ProvOp /\ clean[t] = None
      /\ task[t].branch \in {None, spec.branch}
      /\ spec.branch \in Branches /\ spec.path \in Paths
  BY DEF CommitStep, CanCommit, TypeOK, StoreTypeOK, ProvOp, WorktreeSpec
<1>3. /\ \A u \in Tasks : task'[u] =
           IF u = t THEN [branch |-> spec.branch, worktree |-> spec.path,
                          gen |-> gen]
           ELSE task[u]
      /\ \A u \in Tasks : proof'[u] =
           IF u = t THEN [op |-> prov[t].op, gen |-> gen, spec |-> spec]
           ELSE proof[u]
      /\ \A u \in Tasks : prov'[u] = IF u = t THEN left ELSE prov[u]
      /\ UNCHANGED <<clean, receipt>>
  BY <1>1 DEF CommitBinding, TypeOK, StoreTypeOK
<1>4. proof'[t] # None
  <2>1. gen \in 1..MaxGeneration
    BY GenerationAssumption
    DEF CommitStep, CanCommit, TypeOK, StoreTypeOK, TaskRecord
  <2>2. proof'[t] \in ManagedProof
    BY <1>2, <1>3, <2>1 DEF ManagedProof, ProvOp
  <2> QED BY <2>2, RecordAssumption
<1>5. ProofMatchesBinding'
  BY <1>3, <1>4 DEF StoreInv, ProofMatchesBinding
<1>6. ReceiptCoversRelease' /\ ReceiptNotAhead'
  <2>1. task'[t].worktree # None /\ task'[t].gen = task[t].gen + 1
    BY <1>2, <1>3, NamesAssumption
  <2>2. receipt[t] # None => receipt[t].gen \in Nat /\ task[t].gen \in Nat
    BY DEF TypeOK, StoreTypeOK, Receipt, TaskRecord
  <2> QED
    BY <1>3, <2>1, <2>2 DEF StoreInv, ReceiptCoversRelease, ReceiptNotAhead
<1>7. CleanupJournalSound'
  BY <1>2, <1>3 DEF StoreInv, CleanupJournalSound, NamesBinding
<1>8. ProvisioningJournalSound'
  BY <1>1, <1>2, <1>3, <1>4 DEF StoreInv, ProvisioningJournalSound
<1>9. HoldingsExclusive'
  <2>1. /\ HeldBranches(t)' \subseteq HeldBranches(t)
        /\ HeldPaths(t)' \subseteq HeldPaths(t)
    BY <1>1, <1>2, <1>3, NamesAssumption DEF HeldBranches, HeldPaths
  <2>2. ASSUME NEW u \in Tasks, u # t
        PROVE  /\ HeldBranches(u)' = HeldBranches(u)
               /\ HeldPaths(u)' = HeldPaths(u)
    BY <1>3, <2>2 DEF HeldBranches, HeldPaths
  <2>3. \A u \in Tasks : /\ HeldBranches(u)' \subseteq HeldBranches(u)
                         /\ HeldPaths(u)' \subseteq HeldPaths(u)
    BY <2>1, <2>2
  <2>4. ASSUME NEW u \in Tasks, NEW v \in Tasks, u # v
        PROVE  /\ HeldBranches(u)' \cap HeldBranches(v)' = {}
               /\ HeldPaths(u)' \cap HeldPaths(v)' = {}
    BY <2>3, <2>4 DEF StoreInv, HoldingsExclusive
  <2> QED BY <2>4 DEF HoldingsExclusive
<1> QED BY <1>5, <1>6, <1>7, <1>8, <1>9 DEF StoreInv

LEMMA CleanStepInv ==
  ASSUME TypeOK, TypeOK', StoreInv, CleanStep
  PROVE  StoreInv'
<1>1. UNCHANGED <<task, proof, prov, receipt>>
  BY DEF CleanStep
<1>2. /\ ProofMatchesBinding' /\ HoldingsExclusive'
      /\ ReceiptCoversRelease' /\ ReceiptNotAhead'
  BY <1>1
  DEF StoreInv, ProofMatchesBinding, HoldingsExclusive, HeldBranches, HeldPaths,
      ReceiptCoversRelease, ReceiptNotAhead
<1>3. ProvisioningJournalSound'
  BY <1>1 DEF CleanStep, StoreInv, ProvisioningJournalSound
<1>4. CleanupJournalSound'
  BY <1>1 DEF CleanStep, StoreInv, CleanupJournalSound, NamesBinding
<1> QED BY <1>2, <1>3, <1>4 DEF StoreInv

LEMMA BeginStepInv ==
  ASSUME TypeOK, TypeOK', StoreInv, NEW t \in Tasks, BeginStep(t)
  PROVE  StoreInv'
<1>1. PICK o \in CleanOp :
        /\ clean' = [clean EXCEPT ![t] = o]
        /\ prov[t] = None /\ o.stage # "bindingCleared"
        /\ NamesBinding(t, o)
  BY DEF BeginStep
<1>2. UNCHANGED <<task, proof, prov, receipt>>
  BY DEF BeginStep
<1>3. \A u \in Tasks : clean'[u] = IF u = t THEN o ELSE clean[u]
  BY <1>1 DEF TypeOK, StoreTypeOK
<1>4. ProofMatchesBinding' /\ ReceiptCoversRelease' /\ ReceiptNotAhead'
  BY <1>2
  DEF StoreInv, ProofMatchesBinding, ReceiptCoversRelease, ReceiptNotAhead
<1>5. HoldingsExclusive'
  BY <1>2 DEF StoreInv, HoldingsExclusive, HeldBranches, HeldPaths
<1>6. ProvisioningJournalSound'
  BY <1>1, <1>2, <1>3 DEF StoreInv, ProvisioningJournalSound
<1>7. CleanupJournalSound'
  BY <1>1, <1>2, <1>3 DEF StoreInv, CleanupJournalSound, NamesBinding
<1> QED BY <1>4, <1>5, <1>6, <1>7 DEF StoreInv

LEMMA ClearStepInv ==
  ASSUME TypeOK, TypeOK', StoreInv, NEW t \in Tasks, ClearStep(t)
  PROVE  StoreInv'
<1>1. PICK o \in CleanOp :
        /\ prov[t] = None /\ NamesBinding(t, o)
        /\ ClearBinding(t, o, None) \/ ClearBinding(t, o, Cleared(o))
  BY DEF ClearStep
<1> DEFINE r == [op |-> o.op, gen |-> o.gen, managed |-> o.managed,
                 mode |-> o.mode, acks |-> o.acks,
                 outcome |-> IF o.stage = "reserved" THEN "bindingCleared"
                             ELSE "removed"]
<1>2. /\ \A u \in Tasks : task'[u] =
           IF u = t THEN [task[t] EXCEPT !.worktree = None] ELSE task[u]
      /\ \A u \in Tasks : proof'[u] = IF u = t THEN None ELSE proof[u]
      /\ \A u \in Tasks : receipt'[u] = IF u = t THEN r ELSE receipt[u]
      /\ \A u \in Tasks : u # t => clean'[u] = clean[u]
      /\ clean'[t] \in {None, Cleared(o)}
      /\ UNCHANGED prov
  BY <1>1 DEF ClearBinding, TypeOK, StoreTypeOK
<1>3. r \in Receipt /\ r # None /\ r.gen = o.gen /\ r.op = o.op
  BY RecordAssumption DEF CleanOp, Receipt
<1>4. /\ task[t] \in TaskRecord /\ task'[t].worktree = None
      /\ task'[t].gen = task[t].gen /\ task'[t].branch = task[t].branch
      /\ task[t].gen = o.gen /\ o.gen \in Nat
  BY <1>1, <1>2
  DEF TypeOK, StoreTypeOK, TaskRecord, NamesBinding, CleanOp
<1> HIDE DEF r
<1>5. ProofMatchesBinding'
  BY <1>2, <1>4 DEF StoreInv, ProofMatchesBinding
<1>6. ReceiptCoversRelease' /\ ReceiptNotAhead'
  BY <1>2, <1>3, <1>4 DEF StoreInv, ReceiptCoversRelease, ReceiptNotAhead
<1>7. ProvisioningJournalSound'
  BY <1>1, <1>2 DEF StoreInv, ProvisioningJournalSound
<1>8. CleanupJournalSound'
  <2>1. Cleared(o).stage = "bindingCleared" /\ Cleared(o).op = o.op
        /\ Cleared(o).gen = o.gen
    BY DEF Cleared, CleanOp
  <2> QED
    BY <1>2, <1>3, <1>4, <2>1 DEF StoreInv, CleanupJournalSound, NamesBinding
<1>9. HoldingsExclusive'
  <2>1. \A u \in Tasks : /\ HeldBranches(u)' \subseteq HeldBranches(u)
                         /\ HeldPaths(u)' \subseteq HeldPaths(u)
    BY <1>2, <1>4 DEF HeldBranches, HeldPaths
  <2>2. ASSUME NEW u \in Tasks, NEW v \in Tasks, u # v
        PROVE  /\ HeldBranches(u)' \cap HeldBranches(v)' = {}
               /\ HeldPaths(u)' \cap HeldPaths(v)' = {}
    BY <2>1, <2>2 DEF StoreInv, HoldingsExclusive
  <2> QED BY <2>2 DEF HoldingsExclusive
<1> QED BY <1>5, <1>6, <1>7, <1>8, <1>9 DEF StoreInv

LEMMA BranchStepInv ==
  ASSUME TypeOK, TypeOK', StoreInv, NEW t \in Tasks, BranchStep(t)
  PROVE  StoreInv'
<1>1. PICK b \in Branches \cup {None} :
        /\ task' = [task EXCEPT ![t].branch = b]
        /\ b # None => task[t].branch = None /\ ~BranchHeld(t, b)
  BY DEF BranchStep
<1>2. /\ task[t].worktree = None /\ prov[t] = None /\ clean[t] = None
      /\ UNCHANGED <<proof, prov, clean, receipt>>
  BY DEF BranchStep
<1>3. /\ \A u \in Tasks : u # t => task'[u] = task[u]
      /\ task'[t].worktree = None /\ task'[t].gen = task[t].gen
      /\ task'[t].branch = b
  BY <1>1, <1>2 DEF TypeOK, StoreTypeOK, TaskRecord
<1>4. proof[t] = None
  BY <1>2, NamesAssumption
  DEF StoreInv, ProofMatchesBinding, TypeOK, StoreTypeOK, ManagedProof,
      WorktreeSpec
<1>5. ProofMatchesBinding'
  BY <1>2, <1>3, <1>4 DEF StoreInv, ProofMatchesBinding
<1>6. ReceiptCoversRelease' /\ ReceiptNotAhead'
  BY <1>2, <1>3 DEF StoreInv, ReceiptCoversRelease, ReceiptNotAhead
<1>7. ProvisioningJournalSound' /\ CleanupJournalSound'
  BY <1>2, <1>3
  DEF StoreInv, ProvisioningJournalSound, CleanupJournalSound, NamesBinding
<1>8. HoldingsExclusive'
  <2>1. ASSUME NEW u \in Tasks, u # t
        PROVE  /\ HeldBranches(u)' = HeldBranches(u)
               /\ HeldPaths(u)' = HeldPaths(u)
    BY <1>2, <1>3, <2>1 DEF HeldBranches, HeldPaths
  <2>2. HeldPaths(t)' = HeldPaths(t) /\ HeldBranches(t)' = {b} \ {None}
    BY <1>2, <1>3 DEF HeldBranches, HeldPaths
  <2>3. ASSUME NEW u \in Tasks \ {t}
        PROVE  ({b} \ {None}) \cap HeldBranches(u) = {}
    BY <1>1, NamesAssumption DEF BranchHeld, HeldBranches
  <2>4. ASSUME NEW u \in Tasks, NEW v \in Tasks, u # v
        PROVE  /\ HeldBranches(u)' \cap HeldBranches(v)' = {}
               /\ HeldPaths(u)' \cap HeldPaths(v)' = {}
    BY <2>1, <2>2, <2>3, <2>4 DEF StoreInv, HoldingsExclusive
  <2> QED BY <2>4 DEF HoldingsExclusive
<1> QED BY <1>5, <1>6, <1>7, <1>8 DEF StoreInv

LEMMA NextStoreInv ==
  ASSUME TypeOK, TypeOK', StoreInv, [Next]_vars
  PROVE  StoreInv'
<1>1. StoreStep
  BY NextStoreStep
<1>2. CASE UNCHANGED store
  BY <1>2
  DEF store, StoreInv, ProofMatchesBinding, HoldingsExclusive, HeldBranches,
      HeldPaths, ProvisioningJournalSound, CleanupJournalSound, NamesBinding,
      ReceiptCoversRelease, ReceiptNotAhead
<1> QED
  BY <1>1, <1>2, ProvStepInv, CommitStepInv, CleanStepInv, BeginStepInv,
     ClearStepInv, BranchStepInv
  DEF StoreStep

\* The inductive invariant holds in every reachable state.
THEOREM StoreConsistent == Spec => []StoreInv
<1>1. TypeOK /\ TypeOK' /\ StoreInv /\ [Next]_vars => StoreInv'
  BY NextStoreInv
<1> QED BY <1>1, InitStoreInv, TypeCorrect, PTL DEF Spec

\* No branch and no path is ever held by two Tasks, by binding or by journal.
THEOREM HoldingsAreExclusive == Spec => []HoldingsExclusive
<1>1. StoreInv => HoldingsExclusive
  BY DEF StoreInv
<1> QED BY <1>1, StoreConsistent, PTL

\* The managed proof and the binding of a Task always agree.
THEOREM ProofAlwaysMatches == Spec => []ProofMatchesBinding
<1>1. StoreInv => ProofMatchesBinding
  BY DEF StoreInv
<1> QED BY <1>1, StoreConsistent, PTL

\* A Task is never provisioned and cleaned up at once, and a provisioning journal
\* stands for the binding it will make or has made.
THEOREM ProvisioningJournalsAreSound == Spec => []ProvisioningJournalSound
<1>1. StoreInv => ProvisioningJournalSound
  BY DEF StoreInv
<1> QED BY <1>1, StoreConsistent, PTL

\* A cleanup journal stands for the binding it is about to clear, or for the
\* receipt of the binding it has cleared.
THEOREM CleanupJournalsAreSound == Spec => []CleanupJournalSound
<1>1. StoreInv => CleanupJournalSound
  BY DEF StoreInv
<1> QED BY <1>1, StoreConsistent, PTL

\* The release of the last generation of every Task is on record.
THEOREM ReleasesAreReceipted == Spec => []ReceiptCoversRelease
<1>1. StoreInv => ReceiptCoversRelease
  BY DEF StoreInv
<1> QED BY <1>1, StoreConsistent, PTL

-----------------------------------------------------------------------------
(* Operation ids *)

\* The id of a journal or proof of one Task is not that of another Task's.
ProvisioningIdsApart ==
  \A t, u \in Tasks :
    /\ prov[t] # None /\ proof[u] # None /\ prov[t].op = proof[u].op => t = u
    /\ prov[t] # None /\ prov[u] # None /\ prov[t].op = prov[u].op => t = u
    /\ proof[t] # None /\ proof[u] # None /\ proof[t].op = proof[u].op => t = u

CleanupIdsApart ==
  \A t, u \in Tasks :
    clean[t] # None /\ clean[u] # None /\ clean[t].op = clean[u].op => t = u

\* The id of a cleanup that has not cleared its binding is not a provisioning's.
JournalIdsApart ==
  \A t \in Tasks :
    clean[t] # None /\ clean[t].stage # "bindingCleared" =>
      ~OwnedByProvisioning(clean[t].op)

\* The ids a receipt keeps are not a provisioning's.
ReceiptIdsApart ==
  \A t \in Tasks :
    receipt[t] # None =>
      ~OwnedByProvisioning(receipt[t].op) /\ ~OwnedByProvisioning(receipt[t].managed)

LEMMA IdsExclusive ==
  OperationIdsExclusive <=> /\ ProvisioningIdsApart /\ CleanupIdsApart
                            /\ JournalIdsApart /\ ReceiptIdsApart
BY DEF OperationIdsExclusive, ProvisioningIdsApart, CleanupIdsApart, JournalIdsApart,
       ReceiptIdsApart

LEMMA IdsExclusiveNext ==
  OperationIdsExclusive' <=> /\ ProvisioningIdsApart' /\ CleanupIdsApart'
                             /\ JournalIdsApart' /\ ReceiptIdsApart'
BY IdsExclusive, PTL

LEMMA ProvStepIds ==
  ASSUME TypeOK, StoreInv, OperationIdsExclusive, NEW t \in Tasks, ProvStep(t)
  PROVE  OperationIdsExclusive'
<1>1. PICK o \in ProvOp \cup {None} :
        /\ prov' = [prov EXCEPT ![t] = o]
        /\ \/ o = None
           \/ /\ o # None /\ prov[t] = None /\ task[t].worktree = None
              /\ ~OwnedByAnotherTask(o.op, t) /\ ~OwnedByCleanup(o.op)
           \/ o # None /\ prov[t] # None /\ o.op = prov[t].op
  BY DEF ProvStep
<1>2. UNCHANGED <<proof, clean, receipt>>
  BY DEF ProvStep
<1>3. \A u \in Tasks : prov'[u] = IF u = t THEN o ELSE prov[u]
  BY <1>1 DEF TypeOK, StoreTypeOK
<1>4. /\ ProvisioningIdsApart /\ CleanupIdsApart
      /\ JournalIdsApart /\ ReceiptIdsApart
  BY IdsExclusive
<1>5. ProvisioningIdsApart'
  BY <1>1, <1>2, <1>3, <1>4 DEF ProvisioningIdsApart, OwnedByAnotherTask
<1>6. CleanupIdsApart'
  BY <1>2, <1>4 DEF CleanupIdsApart
<1>7. ASSUME NEW op, ~OwnedByProvisioning(op), OwnedByCleanup(op)
      PROVE  ~OwnedByProvisioning(op)'
  BY <1>1, <1>2, <1>3, <1>7 DEF OwnedByProvisioning
<1>8. JournalIdsApart'
  <2>1. \A u \in Tasks : clean[u] # None => OwnedByCleanup(clean[u].op)
    BY DEF OwnedByCleanup
  <2> QED BY <1>2, <1>4, <1>7, <2>1 DEF JournalIdsApart
<1>9. ReceiptIdsApart'
  <2>1. \A u \in Tasks : receipt[u] # None => /\ OwnedByCleanup(receipt[u].op)
                                              /\ OwnedByCleanup(receipt[u].managed)
    BY DEF OwnedByCleanup
  <2> QED BY <1>2, <1>4, <1>7, <2>1 DEF ReceiptIdsApart
<1> QED BY <1>5, <1>6, <1>8, <1>9, IdsExclusiveNext

LEMMA CommitStepIds ==
  ASSUME TypeOK, StoreInv, OperationIdsExclusive, NEW t \in Tasks, CommitStep(t)
  PROVE  OperationIdsExclusive'
<1>1. PICK left \in ProvOp \cup {None} :
        CommitBinding(t, left) /\ (left # None => left.op = prov[t].op)
  BY DEF CommitStep
<1>2. prov[t] # None /\ UNCHANGED <<clean, receipt>>
  BY <1>1 DEF CommitStep, CommitBinding
<1>3. /\ \A u \in Tasks : prov'[u] = IF u = t THEN left ELSE prov[u]
      /\ \A u \in Tasks : u # t => proof'[u] = proof[u]
      /\ proof'[t].op = prov[t].op
  BY <1>1 DEF CommitBinding, TypeOK, StoreTypeOK
<1>4. /\ ProvisioningIdsApart /\ CleanupIdsApart
      /\ JournalIdsApart /\ ReceiptIdsApart
  BY IdsExclusive
<1>5. ProvisioningIdsApart'
  BY <1>1, <1>2, <1>3, <1>4 DEF ProvisioningIdsApart
<1>6. CleanupIdsApart'
  BY <1>2, <1>4 DEF CleanupIdsApart
<1>7. ASSUME NEW op, ~OwnedByProvisioning(op)
      PROVE  ~OwnedByProvisioning(op)'
  BY <1>1, <1>2, <1>3, <1>7 DEF OwnedByProvisioning
<1>8. JournalIdsApart' /\ ReceiptIdsApart'
  BY <1>2, <1>4, <1>7 DEF JournalIdsApart, ReceiptIdsApart
<1> QED BY <1>5, <1>6, <1>8, IdsExclusiveNext

\* Cleanup journals move on, or a new one is written.
LEMMA CleanStepIds ==
  ASSUME TypeOK, StoreInv, OperationIdsExclusive,
         CleanStep \/ \E t \in Tasks : BeginStep(t)
  PROVE  OperationIdsExclusive'
<1>1. UNCHANGED <<task, proof, prov, receipt>>
  BY DEF CleanStep, BeginStep
<1>2. /\ ProvisioningIdsApart /\ CleanupIdsApart
      /\ JournalIdsApart /\ ReceiptIdsApart
  BY IdsExclusive
<1>3. ProvisioningIdsApart' /\ ReceiptIdsApart'
  BY <1>1, <1>2 DEF ProvisioningIdsApart, ReceiptIdsApart, OwnedByProvisioning
<1>4. \A op : OwnedByProvisioning(op)' <=> OwnedByProvisioning(op)
  BY <1>1 DEF OwnedByProvisioning
<1>5. ASSUME CleanStep
      PROVE  CleanupIdsApart' /\ JournalIdsApart'
  <2>1. ASSUME NEW t \in Tasks, clean'[t] # None
        PROVE  /\ clean[t] # None /\ clean'[t].op = clean[t].op
               /\ clean'[t].stage # "bindingCleared" => clean[t].stage # "bindingCleared"
    <3>1. CASE clean'[t] = clean[t]
      BY <2>1, <3>1
    <3>2. CASE clean[t] # None /\ clean'[t].op = clean[t].op /\ NamesBinding(t, clean'[t])
      <4>1. proof[t] # None
        BY <3>2 DEF NamesBinding
      <4>2. task[t].worktree # None
        BY <4>1, NamesAssumption
        DEF StoreInv, ProofMatchesBinding, TypeOK, StoreTypeOK, ManagedProof, WorktreeSpec
      <4> QED BY <3>2, <4>2 DEF StoreInv, CleanupJournalSound
    <3> QED BY <1>5, <2>1, <3>1, <3>2 DEF CleanStep
  <2> QED BY <1>2, <1>4, <2>1 DEF CleanupIdsApart, JournalIdsApart
<1>6. ASSUME NEW t \in Tasks, BeginStep(t)
      PROVE  CleanupIdsApart' /\ JournalIdsApart'
  <2>1. PICK o \in CleanOp : clean' = [clean EXCEPT ![t] = o] /\ ~OwnedAnywhere(o.op)
    BY <1>6 DEF BeginStep
  <2>2. \A u \in Tasks : clean'[u] = IF u = t THEN o ELSE clean[u]
    BY <2>1 DEF TypeOK, StoreTypeOK
  <2>3. ~OwnedByProvisioning(o.op) /\ \A u \in Tasks : clean[u] # None => clean[u].op # o.op
    BY <2>1 DEF OwnedAnywhere, OwnedByCleanup
  <2> QED BY <1>2, <1>4, <2>2, <2>3 DEF CleanupIdsApart, JournalIdsApart
<1>7. CleanupIdsApart' /\ JournalIdsApart'
  BY <1>5, <1>6
<1> QED BY <1>3, <1>7, IdsExclusiveNext

LEMMA ClearStepIds ==
  ASSUME TypeOK, StoreInv, OperationIdsExclusive, NEW t \in Tasks, ClearStep(t)
  PROVE  OperationIdsExclusive'
<1>1. PICK o \in CleanOp :
        /\ prov[t] = None /\ NamesBinding(t, o)
        /\ \/ clean[t] # None /\ clean[t].op = o.op /\ clean[t].stage # "bindingCleared"
           \/ ~OwnedAnywhere(o.op)
        /\ ClearBinding(t, o, None) \/ ClearBinding(t, o, Cleared(o))
  BY DEF ClearStep
<1>2. /\ UNCHANGED prov
      /\ \A u \in Tasks : proof'[u] = IF u = t THEN None ELSE proof[u]
      /\ \A u \in Tasks : u # t => receipt'[u] = receipt[u] /\ clean'[u] = clean[u]
      /\ receipt'[t].op = o.op /\ receipt'[t].managed = o.managed
      /\ clean'[t] \in {None, Cleared(o)}
  BY <1>1 DEF ClearBinding, TypeOK, StoreTypeOK
<1>3. Cleared(o).op = o.op /\ Cleared(o).stage = "bindingCleared"
  BY DEF Cleared, CleanOp
<1>4. /\ ProvisioningIdsApart /\ CleanupIdsApart
      /\ JournalIdsApart /\ ReceiptIdsApart
  BY IdsExclusive
<1>5. ProvisioningIdsApart'
  BY <1>2, <1>4 DEF ProvisioningIdsApart
<1>6. ~OwnedByProvisioning(o.op) /\ \A u \in Tasks \ {t} : clean[u] # None => clean[u].op # o.op
  BY <1>1, <1>4 DEF OwnedAnywhere, OwnedByCleanup, CleanupIdsApart, JournalIdsApart
<1>7. CleanupIdsApart'
  BY <1>2, <1>3, <1>4, <1>6 DEF CleanupIdsApart
<1>8. ASSUME NEW op, ~OwnedByProvisioning(op)
      PROVE  ~OwnedByProvisioning(op)'
  BY <1>2, <1>8 DEF OwnedByProvisioning
<1>9. JournalIdsApart'
  BY <1>2, <1>3, <1>4, <1>8 DEF JournalIdsApart
<1>10. ~OwnedByProvisioning(o.managed)'
  <2>1. proof[t] # None /\ proof[t].op = o.managed
    BY <1>1 DEF NamesBinding
  <2> QED BY <1>1, <1>2, <1>4, <2>1 DEF OwnedByProvisioning, ProvisioningIdsApart
<1>11. ReceiptIdsApart'
  BY <1>2, <1>4, <1>6, <1>8, <1>10 DEF ReceiptIdsApart
<1> QED BY <1>5, <1>7, <1>9, <1>11, IdsExclusiveNext

LEMMA NextIds ==
  ASSUME TypeOK, StoreInv, OperationIdsExclusive, [Next]_vars
  PROVE  OperationIdsExclusive'
<1>1. StoreStep
  BY NextStoreStep
<1>2. CASE UNCHANGED <<proof, prov, clean, receipt>>
  BY <1>2 DEF OperationIdsExclusive, OwnedByProvisioning
<1>3. UNCHANGED store \/ (\E t \in Tasks : BranchStep(t))
        => UNCHANGED <<proof, prov, clean, receipt>>
  BY DEF store, BranchStep
<1> QED
  BY <1>1, <1>2, <1>3, ProvStepIds, CommitStepIds, CleanStepIds, ClearStepIds
  DEF StoreStep

\* An operation id names one thing: no request is ever answered from the record of
\* another operation.
THEOREM OperationIdsAreExclusive == Spec => []OperationIdsExclusive
<1>1. TypeOK /\ StoreInv /\ OperationIdsExclusive /\ [Next]_vars => OperationIdsExclusive'
  BY NextIds
<1>2. Init => OperationIdsExclusive
  BY DEF Init, OperationIdsExclusive
<1> QED BY <1>1, <1>2, TypeCorrect, StoreConsistent, PTL DEF Spec

-----------------------------------------------------------------------------
(* The refinement *)

LEMMA CommitIsBind ==
  ASSUME TypeOK, StoreInv, NEW t \in Tasks, CommitStep(t)
  PROVE  Binding!BindingNext
<1> DEFINE spec == prov[t].spec
<1>1. /\ prov[t] \in ProvOp /\ prov[t] # None /\ CanCommit(t)
      /\ spec.branch \in Branches /\ spec.path \in Paths
  BY DEF CommitStep, TypeOK, StoreTypeOK, ProvOp, WorktreeSpec
<1>2. /\ task' = [task EXCEPT ![t] = [branch |-> spec.branch,
                                      worktree |-> spec.path,
                                      gen |-> task[t].gen + 1]]
      /\ UNCHANGED receipt
  BY DEF CommitStep, CommitBinding
<1>3. task \in [Tasks -> TaskRecord]
  BY DEF TypeOK, StoreTypeOK
<1>4. /\ task[t].worktree = None
      /\ task[t].branch \in {None, spec.branch}
      /\ task[t].gen = IF receipt[t] = None THEN 0 ELSE receipt[t].gen
  <2>1. task[t].worktree = None /\ task[t].branch \in {None, spec.branch}
    BY <1>1 DEF CanCommit
  <2>2. task[t].gen \in Nat
    BY GenerationAssumption DEF TypeOK, StoreTypeOK, TaskRecord
  <2>3. receipt[t] # None => receipt[t].gen \in Nat \ {0}
    BY GenerationAssumption DEF TypeOK, StoreTypeOK, Receipt
  <2>4. receipt[t] # None => receipt[t].gen <= task[t].gen
    BY DEF StoreInv, ReceiptNotAhead
  <2>5. task[t].gen > 0 => receipt[t] # None /\ receipt[t].gen = task[t].gen
    BY <2>1 DEF StoreInv, ReceiptCoversRelease
  <2> QED BY <2>1, <2>2, <2>3, <2>4, <2>5
<1>5. \A u \in Tasks \ {t} :
        task[u].branch # spec.branch /\ task[u].worktree # spec.path
  <2>1. spec.path \in HeldPaths(t)
    BY <1>1, NamesAssumption DEF HeldPaths
  <2>2. \A u \in Tasks \ {t} : spec.path \notin HeldPaths(u)
    BY <2>1 DEF StoreInv, HoldingsExclusive
  <2>3. \A u \in Tasks \ {t} : task[u].worktree # spec.path
    BY <1>1, <2>2, NamesAssumption DEF HeldPaths
  <2> QED BY <1>1, <2>3 DEF CanCommit, BranchHeld
<1>6. /\ [u \in Tasks |-> task'[u].branch]
           = [[u \in Tasks |-> task[u].branch] EXCEPT ![t] = spec.branch]
      /\ [u \in Tasks |-> task'[u].worktree]
           = [[u \in Tasks |-> task[u].worktree] EXCEPT ![t] = spec.path]
      /\ [u \in Tasks |-> task'[u].gen]
           = [[u \in Tasks |-> task[u].gen] EXCEPT ![t] = @ + 1]
  BY <1>2, <1>3
<1>7. PICK b \in Branches, p \in Paths : b = spec.branch /\ p = spec.path
  BY <1>1
<1>8. Binding!Bind(t, b, p)
  BY <1>2, <1>4, <1>5, <1>6, <1>7
  DEF Binding!Bind, Binding!FreeBranch, Binding!FreePath
<1> QED BY <1>8 DEF Binding!BindingNext

LEMMA ClearIsRelease ==
  ASSUME TypeOK, StoreInv, NEW t \in Tasks, ClearStep(t)
  PROVE  Binding!BindingNext
<1>1. PICK o \in CleanOp :
        /\ prov[t] = None /\ NamesBinding(t, o)
        /\ ClearBinding(t, o, None) \/ ClearBinding(t, o, Cleared(o))
  BY DEF ClearStep
<1> DEFINE r == [op |-> o.op, gen |-> o.gen, managed |-> o.managed,
                 mode |-> o.mode, acks |-> o.acks,
                 outcome |-> IF o.stage = "reserved" THEN "bindingCleared"
                             ELSE "removed"]
<1>2. /\ task' = [task EXCEPT ![t].worktree = None]
      /\ receipt' = [receipt EXCEPT ![t] = r]
  BY <1>1 DEF ClearBinding
<1>3. task \in [Tasks -> TaskRecord] /\ receipt \in [Tasks -> Receipt \cup {None}]
  BY DEF TypeOK, StoreTypeOK
<1>4. r # None /\ r.gen = o.gen
  BY RecordAssumption DEF CleanOp, Receipt
<1>5. task[t].gen = o.gen /\ task[t].worktree # None
  BY <1>1, NamesAssumption DEF NamesBinding, CleanOp, Baseline
<1> HIDE DEF r
<1>6. /\ [u \in Tasks |-> task'[u].worktree]
           = [[u \in Tasks |-> task[u].worktree] EXCEPT ![t] = None]
      /\ [u \in Tasks |-> task'[u].branch] = [u \in Tasks |-> task[u].branch]
      /\ [u \in Tasks |-> task'[u].gen] = [u \in Tasks |-> task[u].gen]
  BY <1>2, <1>3 DEF TaskRecord
<1>7. [u \in Tasks |-> IF receipt'[u] = None THEN 0 ELSE receipt'[u].gen]
        = [[u \in Tasks |-> IF receipt[u] = None THEN 0 ELSE receipt[u].gen]
             EXCEPT ![t] = task[t].gen]
  BY <1>2, <1>3, <1>4, <1>5
<1>8. Binding!Release(t)
  BY <1>5, <1>6, <1>7 DEF Binding!Release
<1> QED BY <1>8 DEF Binding!BindingNext

LEMMA BranchStepIsChange ==
  ASSUME TypeOK, NEW t \in Tasks, BranchStep(t)
  PROVE  Binding!BindingNext
<1>1. PICK b \in Branches \cup {None} :
        /\ task' = [task EXCEPT ![t].branch = b]
        /\ b # None => task[t].branch = None /\ ~BranchHeld(t, b)
  BY DEF BranchStep
<1>2. task[t].worktree = None /\ UNCHANGED receipt
  BY DEF BranchStep
<1>3. task \in [Tasks -> TaskRecord]
  BY DEF TypeOK, StoreTypeOK
<1>4. /\ [u \in Tasks |-> task'[u].branch]
           = [[u \in Tasks |-> task[u].branch] EXCEPT ![t] = b]
      /\ [u \in Tasks |-> task'[u].worktree] = [u \in Tasks |-> task[u].worktree]
      /\ [u \in Tasks |-> task'[u].gen] = [u \in Tasks |-> task[u].gen]
  BY <1>1, <1>3 DEF TaskRecord
<1>5. b # None => \A u \in Tasks \ {t} : task[u].branch # b
  BY <1>1 DEF BranchHeld
<1>6. Binding!ChangeBranch(t)
  BY <1>1, <1>2, <1>4, <1>5 DEF Binding!ChangeBranch, Binding!FreeBranch
<1> QED BY <1>6 DEF Binding!BindingNext

LEMMA InitIsBindingInit == Init => Binding!BindingInit
BY DEF Init, Binding!BindingInit

LEMMA NextIsBindingNext ==
  ASSUME TypeOK, StoreInv, [Next]_vars
  PROVE  [Binding!BindingNext]_(Binding!bindingVars)
<1>1. StoreStep
  BY NextStoreStep
<1>2. CASE UNCHANGED <<task, receipt>>
  BY <1>2 DEF Binding!bindingVars
<1>3. UNCHANGED store \/ CleanStep \/ (\E t \in Tasks : ProvStep(t) \/ BeginStep(t))
        => UNCHANGED <<task, receipt>>
  BY DEF store, CleanStep, ProvStep, BeginStep
<1> QED
  BY <1>1, <1>2, <1>3, CommitIsBind, ClearIsRelease, BranchStepIsChange
  DEF StoreStep

\* The sagas, with all their concurrency, crashes and lost workers, implement
\* the atomic binding of TaskBinding.
THEOREM SagasImplementBinding == Spec => ImplementsBinding
<1>1. TypeOK /\ StoreInv /\ [Next]_vars => [Binding!BindingNext]_(Binding!bindingVars)
  BY NextIsBindingNext
<1> QED
  BY <1>1, InitIsBindingInit, TypeCorrect, StoreConsistent, PTL
  DEF Spec, ImplementsBinding, Binding!BindingSpec

=============================================================================
