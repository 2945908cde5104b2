------------------------- MODULE TaskWorktreeWorkers -------------------------
(***************************************************************************)
(* The requests in flight of the Task-worktree sagas: who drives a         *)
(* provisioning journal, what of the checkouts the journals and the        *)
(* bindings account for, what is left of one under a cleanup journal, and  *)
(* who may delete one while others ask for the same.                       *)
(*                                                                         *)
(* What a step does to the provisioning journals and to the requests is    *)
(* classified first (ProvisioningMove); the invariants follow from that.   *)
(***************************************************************************)
EXTENDS TaskWorktreeProofs

-----------------------------------------------------------------------------
(* The inductive invariant of the provisioning requests *)

\* A journal bears the stamp of an attempt that was made.
Stamped ==
  \A t \in Tasks : prov[t] # None => prov[t].updated <= attempts[t]

\* A dismissal was planned for a failed journal.  That journal is still the current
\* one, or it is gone for good: a later one bears a later stamp.
DismissalOf(r) ==
  r.phase \in {"dismissObserve", "dismiss"} =>
    /\ r.operation.failed /\ r.operation.updated <= attempts[r.task]
    /\ \/ prov[r.task] \in {None, r.operation}
       \/ prov[r.task].updated > r.operation.updated

ProvisionersInv ==
  /\ SingleProvisioner /\ Stamped
  /\ \A w \in Workers : DismissalOf(pReq[w])

-----------------------------------------------------------------------------
(* What a step does to the provisioning journals and requests *)

OthersWait(w) == \A v \in Workers : v # w => pReq'[v] = pReq[v]

OtherJournals(t) == \A u \in Tasks : u # t => prov'[u] = prov[u]

\* Requests at most end.
Kept ==
  UNCHANGED <<prov, attempts>> /\ \A w \in Workers : pReq'[w] \in {pReq[w], Idle}

\* A request that drives nothing is planned or observed.
Looks(w) ==
  /\ UNCHANGED <<prov, attempts>> /\ OthersWait(w)
  /\ pReq'[w].phase \in {"observe", "begin"}

\* A dismissal is planned for the current journal, or goes on to its completion
\* when nothing is left of the checkout.
Dismissing(w) ==
  /\ UNCHANGED <<prov, attempts, dir, reg>> /\ OthersWait(w)
  /\ \/ /\ pReq'[w].phase = "dismissObserve"
        /\ pReq'[w].task \in Tasks /\ prov[pReq'[w].task] # None
        /\ pReq'[w].operation = prov[pReq'[w].task] /\ pReq'[w].operation.failed
     \/ /\ pReq[w].phase = "dismissObserve" /\ pReq'[w].phase = "dismiss"
        /\ pReq'[w].task = pReq[w].task /\ pReq'[w].operation = pReq[w].operation
        /\ DestinationFree(pReq[w].operation.spec.path)

\* Git is at work on the journal.
Works(w) ==
  /\ ExecuteStep(w) /\ UNCHANGED <<prov, attempts>> /\ OthersWait(w)
  /\ pReq[w].phase \in Driving /\ pReq'[w].phase \in Driving
  /\ pReq'[w].task = pReq[w].task /\ pReq'[w].operation = pReq[w].operation

\* A journal is started, or a failed one tried again.
Begins(w, t) ==
  /\ OthersWait(w) /\ OtherJournals(t)
  /\ prov[t] # None => prov[t].failed
  /\ attempts'[t] = attempts[t] + 1
  /\ \A u \in Tasks : u # t => attempts'[u] = attempts[u]
  /\ pReq'[w].phase = "execute" /\ pReq'[w].task = t
  /\ prov'[t] = pReq'[w].operation /\ prov'[t] # None
  /\ ~prov'[t].failed /\ prov'[t].updated = attempts'[t]
  /\ prov[t] # None => prov'[t].spec = prov[t].spec

\* A result is applied to the journal it was got for.
Applies(w, t) ==
  /\ pReq[w].phase = "apply" /\ pReq[w].task = t /\ StillCurrent(pReq[w])
  /\ UNCHANGED attempts /\ OtherJournals(t)
  /\ \A v \in Workers : v # w => pReq'[v] \in {pReq[v], Idle}
  /\ \/ prov'[t] = None /\ task'[t].worktree = prov[t].spec.path
     \/ /\ prov'[t] # None /\ prov'[t].updated = prov[t].updated
        /\ prov'[t].spec = prov[t].spec
  /\ \/ pReq'[w] = Idle
     \/ /\ pReq'[w].phase = "execute" /\ pReq'[w].task = t
        /\ prov'[t] = pReq'[w].operation /\ prov'[t] # None /\ ~prov'[t].failed

\* A failed journal is dismissed.
Dismisses(w, t) ==
  /\ pReq[w].phase = "dismiss" /\ pReq[w].task = t
  /\ prov[t] # None /\ prov[t] = pReq[w].operation
  /\ prov'[t] = None /\ OtherJournals(t) /\ pReq'[w] = Idle /\ OthersWait(w)
  /\ UNCHANGED <<attempts, dir, reg>>

\* The startup clears a committed journal, or goes on with one.
Reconciles(t) ==
  /\ NoWorker /\ UNCHANGED <<attempts, task>> /\ OtherJournals(t)
  /\ prov[t] # None /\ ~prov[t].failed
  /\ \/ /\ prov'[t] = None /\ task[t].worktree = prov[t].spec.path /\ UNCHANGED pReq
     \/ /\ prov'[t] # None /\ prov'[t].updated = prov[t].updated
        /\ prov'[t].spec = prov[t].spec /\ UNCHANGED pReq
     \/ /\ prov'[t] = prov[t] /\ OthersWait(t)
        /\ pReq'[t].phase = "execute" /\ pReq'[t].task = t
        /\ pReq'[t].operation = prov[t]

ProvisioningMove ==
  \/ Kept
  \/ \E w \in Workers : Looks(w) \/ Dismissing(w) \/ Works(w)
  \/ \E w \in Workers, t \in Tasks : Begins(w, t) \/ Applies(w, t) \/ Dismisses(w, t)
  \/ \E t \in Tasks : Reconciles(t)

-----------------------------------------------------------------------------
(* Every step is one of them *)

LEMMA ToKeeps ==
  ASSUME TypeOK, NEW w \in Workers, NEW r, To(w, r)
  PROVE  pReq'[w] = r /\ OthersWait(w)
BY DEF TypeOK, ProvisioningTypeOK, To, OthersWait

\* Requests are planned, observed, ended or lost.
LEMMA RequestMoves ==
  ASSUME TypeOK, NEW c \in Clients,
         \/ \E t \in Tasks, op \in OpIds, want \in Wanted :
              PlanProvisioning(c, t, op, want)
         \/ \E t \in Tasks : PlanDismissal(c, t)
         \/ ObserveProvisioning(c) \/ EndRequest(c)
         \/ ObserveDismissal(c) \/ LoseWorker(c)
  PROVE  ProvisioningMove
<1>1. c \in Workers
  BY DEF Workers
<1>2. UNCHANGED <<prov, attempts>>
  BY DEF PlanProvisioning, PlanDismissal, ObserveProvisioning, EndRequest,
         ObserveDismissal, LoseWorker, OnlyRequest, store
<1>3. CASE EndRequest(c) \/ LoseWorker(c)
  <2>1. pReq'[c] = Idle /\ OthersWait(c)
    BY <1>1, <1>3, ToKeeps DEF EndRequest, LoseWorker
  <2> QED BY <1>2, <2>1 DEF ProvisioningMove, Kept, OthersWait
<1>4. ASSUME \/ ObserveProvisioning(c)
             \/ \E t \in Tasks, op \in OpIds, want \in Wanted :
                  PlanProvisioning(c, t, op, want)
      PROVE  ProvisioningMove
  <2>1. CASE ObserveProvisioning(c)
    <3>1. PICK spec : To(c, [phase |-> "begin", task |-> pReq[c].task,
                             op |-> pReq[c].op, spec |-> spec])
      BY <2>1 DEF ObserveProvisioning
    <3>2. pReq'[c].phase = "begin" /\ OthersWait(c)
      BY <1>1, <3>1, ToKeeps
    <3> QED BY <1>1, <1>2, <3>2 DEF ProvisioningMove, Looks
  <2>2. ASSUME NEW t \in Tasks, NEW op \in OpIds, NEW want \in Wanted,
               PlanProvisioning(c, t, op, want)
        PROVE  ProvisioningMove
    <3> DEFINE r == [phase |-> "observe", task |-> t, op |-> op, want |-> want,
                     branch |-> task[t].branch, bound |-> task[t].worktree # None,
                     prior |-> IF prov[t] # None THEN prov[t].spec
                               ELSE IF proof[t] # None /\ proof[t].op = op
                                    THEN proof[t].spec ELSE None,
                     completed |-> proof[t] # None /\ proof[t].op = op]
    <3>1. To(c, r) /\ r.phase = "observe"
      BY <2>2 DEF PlanProvisioning
    <3> HIDE DEF r
    <3>2. pReq'[c].phase = "observe" /\ OthersWait(c)
      BY <1>1, <3>1, ToKeeps
    <3> QED BY <1>1, <1>2, <3>2 DEF ProvisioningMove, Looks
  <2> QED BY <1>4, <2>1, <2>2
<1>5. ASSUME NEW t \in Tasks, PlanDismissal(c, t)
      PROVE  ProvisioningMove
  <2>1. /\ pReq'[c] = [phase |-> "dismissObserve", task |-> t, operation |-> prov[t]]
        /\ OthersWait(c)
    BY <1>1, <1>5, ToKeeps DEF PlanDismissal
  <2>2. prov[t] # None /\ prov[t].failed /\ UNCHANGED <<dir, reg>>
    BY <1>5 DEF PlanDismissal, OnlyRequest, git
  <2>3. Dismissing(c)
    BY <1>2, <2>1, <2>2 DEF Dismissing
  <2> QED BY <1>1, <2>3 DEF ProvisioningMove
<1>6. CASE ObserveDismissal(c)
  <2>1. pReq[c] \in Journaled /\ pReq[c].phase = "dismissObserve"
    BY <1>1, <1>6, ProvPhase DEF ObserveDismissal, TypeOK, ProvisioningTypeOK
  <2>2. pReq'[c] = [pReq[c] EXCEPT !.phase = "dismiss"] /\ OthersWait(c)
    BY <1>1, <1>6, ToKeeps DEF ObserveDismissal
  <2>3. /\ pReq'[c].phase = "dismiss" /\ pReq'[c].task = pReq[c].task
        /\ pReq'[c].operation = pReq[c].operation
    BY <2>1, <2>2 DEF Journaled
  <2>4. DestinationFree(pReq[c].operation.spec.path) /\ UNCHANGED <<dir, reg>>
    BY <1>6 DEF ObserveDismissal, OnlyRequest, git
  <2>5. Dismissing(c)
    BY <1>2, <2>1, <2>2, <2>3, <2>4 DEF Dismissing
  <2> QED BY <1>1, <2>5 DEF ProvisioningMove
<1> QED BY <1>3, <1>4, <1>5, <1>6

\* A journal is started or retried.
LEMMA BeginMoves ==
  ASSUME TypeOK, NEW c \in Clients, StartProvisioning(c) \/ RetryProvisioning(c)
  PROVE  ProvisioningMove
<1> DEFINE t == pReq[c].task
<1>1. c \in Workers /\ pReq[c] \in Observed
  BY ProvPhase
  DEF Workers, TypeOK, ProvisioningTypeOK, StartProvisioning, RetryProvisioning
<1>2. t \in Tasks /\ attempts \in [Tasks -> 0..MaxAttempts]
  BY <1>1 DEF Observed, TypeOK, RuntimeTypeOK
<1>3. attempts' = [attempts EXCEPT ![t] = @ + 1] /\ attempts[t] < MaxAttempts
  BY DEF StartProvisioning, RetryProvisioning, Attempt
<1>4. attempts'[t] = attempts[t] + 1 /\ \A u \in Tasks : u # t => attempts'[u] = attempts[u]
  BY <1>2, <1>3
<1>5. attempts[t] + 1 \in 1..MaxAttempts
  BY <1>2, <1>3, BoundsAssumption
<1>6. CASE StartProvisioning(c)
  <2> DEFINE o == [op |-> pReq[c].op, spec |-> pReq[c].spec, stage |-> "reserved",
                   created |-> FALSE, failed |-> FALSE, updated |-> attempts[t] + 1]
  <2>1. prov[t] = None /\ prov' = [prov EXCEPT ![t] = o] /\ Execute(c, t, o)
    BY <1>6 DEF StartProvisioning
  <2>2. o \in ProvOp /\ o.failed = FALSE /\ o.updated = attempts[t] + 1
    BY <1>1, <1>5 DEF Observed, ProvOp, ProvStages
  <2> HIDE DEF o
  <2>6. o # None
    BY <2>2, RecordAssumption
  <2>3. prov'[t] = o /\ OtherJournals(t)
    BY <1>2, <2>1 DEF OtherJournals, TypeOK, StoreTypeOK
  <2>4. /\ pReq'[c] = [phase |-> "execute", task |-> t, operation |-> o]
        /\ OthersWait(c)
    BY <1>1, <2>1, ToKeeps DEF Execute
  <2>5. Begins(c, t)
    BY <1>4, <2>1, <2>2, <2>3, <2>4, <2>6 DEF Begins
  <2> QED BY <1>1, <1>2, <2>5 DEF ProvisioningMove
<1>7. CASE RetryProvisioning(c)
  <2> DEFINE o == [prov[t] EXCEPT !.failed = FALSE, !.updated = attempts[t] + 1]
  <2>1. /\ prov[t] # None /\ prov[t].failed
        /\ prov' = [prov EXCEPT ![t] = o] /\ Execute(c, t, o)
    BY <1>7 DEF RetryProvisioning
  <2>2. prov[t] \in ProvOp
    BY <1>2, <2>1 DEF TypeOK, StoreTypeOK
  <2>3. o \in ProvOp /\ ~o.failed /\ o.updated = attempts[t] + 1 /\ o.spec = prov[t].spec
    BY <1>5, <2>2 DEF ProvOp
  <2>4. o # None
    BY <2>3, RecordAssumption
  <2>5. prov'[t] = o /\ OtherJournals(t)
    BY <1>2, <2>1 DEF OtherJournals, TypeOK, StoreTypeOK
  <2>6. /\ pReq'[c] = [phase |-> "execute", task |-> t, operation |-> o]
        /\ OthersWait(c)
    BY <1>1, <2>1, ToKeeps DEF Execute
  <2> HIDE DEF o
  <2>7. Begins(c, t)
    BY <1>4, <2>1, <2>3, <2>4, <2>5, <2>6 DEF Begins
  <2> QED BY <1>1, <1>2, <2>7 DEF ProvisioningMove
<1> QED BY <1>6, <1>7

\* Git works on the journal of a request.
LEMMA ExecuteMoves ==
  ASSUME TypeOK, NEW w \in Workers, ExecuteStep(w)
  PROVE  ProvisioningMove
<1>1. pReq[w] \in Journaled /\ pReq[w].phase \in Driving
  BY ProvPhase
  DEF TypeOK, ProvisioningTypeOK, ExecuteStep, CreateBranch, AddWorktree,
      VerifyWorktree, CheckRollback, DeleteCreatedRef, Driving
<1>2. UNCHANGED <<prov, attempts>>
  BY DEF ExecuteStep, CreateBranch, AddWorktree, VerifyWorktree, CheckRollback,
         DeleteCreatedRef, OnlyGit, store
<1>3. \/ \E result \in ProvResults : Outcome(w, result)
      \/ \E ph \in {"rollback", "deleteRef"} : To(w, [pReq[w] EXCEPT !.phase = ph])
  BY DEF ExecuteStep, CreateBranch, AddWorktree, VerifyWorktree, CheckRollback,
         DeleteCreatedRef, StepFailed, ProvResults
<1>4. /\ pReq'[w].task = pReq[w].task /\ pReq'[w].operation = pReq[w].operation
      /\ OthersWait(w) /\ pReq'[w].phase \in Driving
  <2>1. ASSUME NEW result \in ProvResults, Outcome(w, result)
        PROVE  /\ pReq'[w].task = pReq[w].task /\ pReq'[w].operation = pReq[w].operation
               /\ OthersWait(w) /\ pReq'[w].phase \in Driving
    BY <2>1, ToKeeps DEF Outcome, Driving
  <2>2. ASSUME NEW ph \in {"rollback", "deleteRef"}, To(w, [pReq[w] EXCEPT !.phase = ph])
        PROVE  /\ pReq'[w].task = pReq[w].task /\ pReq'[w].operation = pReq[w].operation
               /\ OthersWait(w) /\ pReq'[w].phase \in Driving
    <3>1. pReq'[w] = [pReq[w] EXCEPT !.phase = ph] /\ OthersWait(w)
      BY <2>2, ToKeeps
    <3> QED BY <1>1, <2>2, <3>1 DEF Journaled, Driving
  <2> QED BY <1>3, <2>1, <2>2
<1>5. Works(w)
  BY <1>1, <1>2, <1>4 DEF Works
<1> QED BY <1>5 DEF ProvisioningMove

\* A result is applied.
LEMMA ApplyMoves ==
  ASSUME TypeOK, NEW w \in Workers, ApplyStep(w) \/ CommitCrash(w)
  PROVE  ProvisioningMove
<1> DEFINE t == pReq[w].task
<1>1. pReq[w] \in Executed /\ pReq[w].phase = "apply"
  BY ProvPhase
  DEF TypeOK, ProvisioningTypeOK, ApplyStep, ApplyAdvance, ApplyFailure,
      ApplyRollback, ApplyCommit, ApplyRefusedCommit, CommitCrash, ReadyToCommit
<1>2. t \in Tasks /\ UNCHANGED attempts
  BY <1>1
  DEF Executed, ApplyStep, ApplyAdvance, ApplyFailure, ApplyRollback, ApplyCommit,
      ApplyRefusedCommit, CommitCrash, DaemonDies, OnlyJournal
<1>3. CASE ApplyFailure(w) /\ ~StillCurrent(pReq[w])
  <2>1. prov' = prov
    BY <1>2, <1>3 DEF ApplyFailure, TypeOK, StoreTypeOK
  <2>2. pReq'[w] = Idle /\ OthersWait(w)
    BY <1>3, ToKeeps DEF ApplyFailure
  <2> QED BY <1>2, <2>1, <2>2 DEF ProvisioningMove, Kept, OthersWait
<1>4. ASSUME StillCurrent(pReq[w])
      PROVE  ProvisioningMove
  <2>1. prov[t] # None /\ prov[t] \in ProvOp
    BY <1>2, <1>4 DEF StillCurrent, TypeOK, StoreTypeOK
  <2>2. ASSUME NEW o, o \in ProvOp \cup {None}, prov' = [prov EXCEPT ![t] = o]
        PROVE  prov'[t] = o /\ OtherJournals(t)
    BY <1>2, <2>2 DEF OtherJournals, TypeOK, StoreTypeOK
  <2>3. CASE ApplyAdvance(w)
    <3> DEFINE o == [prov[t] EXCEPT !.stage = pReq[w].result,
                                    !.created = @ \/ pReq[w].result = "branchCreated"]
    <3>1. /\ prov' = [prov EXCEPT ![t] = o] /\ Execute(w, t, o)
          /\ ValidAdvance(prov[t].stage, pReq[w].result)
      BY <2>3 DEF ApplyAdvance
    <3>2. o \in ProvOp /\ o.failed = prov[t].failed /\ o.updated = prov[t].updated
          /\ o.spec = prov[t].spec
      BY <2>1, <3>1 DEF ProvOp, ProvStages, ValidAdvance
    <3>3. o # None /\ ~o.failed
      BY <1>4, <3>2, RecordAssumption DEF StillCurrent
    <3>4. prov'[t] = o /\ OtherJournals(t)
      BY <2>2, <3>1, <3>2
    <3>5. /\ pReq'[w] = [phase |-> "execute", task |-> t, operation |-> o]
          /\ OthersWait(w)
      BY <3>1, ToKeeps DEF Execute
    <3> HIDE DEF o
    <3>6. Applies(w, t)
      BY <1>1, <1>2, <1>4, <3>2, <3>3, <3>4, <3>5 DEF Applies, OthersWait
    <3> QED BY <1>2, <3>6 DEF ProvisioningMove
  <2>4. CASE ApplyFailure(w) \/ ApplyRefusedCommit(w)
    <3> DEFINE o == [prov[t] EXCEPT !.failed = TRUE]
    <3>1. prov' = [prov EXCEPT ![t] = o] /\ To(w, Idle)
      BY <1>4, <2>4 DEF ApplyFailure, ApplyRefusedCommit
    <3>2. o \in ProvOp /\ o.updated = prov[t].updated /\ o.spec = prov[t].spec
      BY <2>1 DEF ProvOp
    <3>3. o # None
      BY <3>2, RecordAssumption
    <3>4. prov'[t] = o /\ OtherJournals(t) /\ pReq'[w] = Idle /\ OthersWait(w)
      BY <2>2, <3>1, <3>2, ToKeeps
    <3> HIDE DEF o
    <3>5. Applies(w, t)
      BY <1>1, <1>2, <1>4, <3>2, <3>3, <3>4 DEF Applies, OthersWait
    <3> QED BY <1>2, <3>5 DEF ProvisioningMove
  <2>5. CASE ApplyRollback(w)
    <3> DEFINE o == [prov[t] EXCEPT !.stage = "reserved", !.created = FALSE,
                                    !.failed = TRUE]
    <3>1. prov' = [prov EXCEPT ![t] = o] /\ To(w, Idle)
      BY <2>1, <2>5 DEF ApplyRollback, ProvOp, TypeOK, StoreTypeOK
    <3>2. o \in ProvOp /\ o.updated = prov[t].updated /\ o.spec = prov[t].spec
      BY <2>1 DEF ProvOp, ProvStages
    <3>3. o # None
      BY <3>2, RecordAssumption
    <3>4. prov'[t] = o /\ OtherJournals(t) /\ pReq'[w] = Idle /\ OthersWait(w)
      BY <2>2, <3>1, <3>2, ToKeeps
    <3> HIDE DEF o
    <3>5. Applies(w, t)
      BY <1>1, <1>2, <1>4, <3>2, <3>3, <3>4 DEF Applies, OthersWait
    <3> QED BY <1>2, <3>5 DEF ProvisioningMove
  <2>6. CASE ApplyCommit(w) \/ CommitCrash(w)
    <3> DEFINE o == Committed(t)
               f == [Committed(t) EXCEPT !.failed = TRUE]
    <3>1. /\ o \in ProvOp /\ o.updated = prov[t].updated /\ o.spec = prov[t].spec
          /\ f \in ProvOp /\ f.updated = prov[t].updated /\ f.spec = prov[t].spec
      BY <2>1 DEF Committed, ProvOp, ProvStages
    <3>2. o # None /\ f # None
      BY <3>1, RecordAssumption
    <3>3. PICK left \in {None, o, f} : CommitBinding(t, left)
      BY <2>6 DEF ApplyCommit, CommitCrash
    <3>4. prov'[t] = left /\ OtherJournals(t)
      BY <2>2, <3>1, <3>3 DEF CommitBinding
    <3>5. task'[t].worktree = prov[t].spec.path
      BY <1>2, <3>3 DEF CommitBinding, TypeOK, StoreTypeOK
    <3>6. /\ pReq'[w] = Idle
          /\ \A v \in Workers : v # w => pReq'[v] \in {pReq[v], Idle}
      BY <2>6, ToKeeps DEF ApplyCommit, CommitCrash, DaemonDies, OthersWait
    <3>7. \/ prov'[t] = None
          \/ /\ prov'[t] # None /\ prov'[t].updated = prov[t].updated
             /\ prov'[t].spec = prov[t].spec
      BY <3>1, <3>2, <3>3, <3>4
    <3> HIDE DEF o, f
    <3>8. Applies(w, t)
      BY <1>1, <1>2, <1>4, <3>4, <3>5, <3>6, <3>7 DEF Applies
    <3> QED BY <1>2, <3>8 DEF ProvisioningMove
  <2> QED BY <2>3, <2>4, <2>5, <2>6 DEF ApplyStep
<1> QED BY <1>3, <1>4
        DEF ApplyStep, ApplyAdvance, ApplyRollback, ApplyCommit, ApplyRefusedCommit,
            CommitCrash, ReadyToCommit

\* A failed journal is dismissed; the startup goes through the journals.
LEMMA SettleMoves ==
  ASSUME TypeOK,
         \/ \E c \in Clients : CompleteDismissal(c)
         \/ \E t \in Tasks : ReconcileCommitted(t) \/ ResumeProvisioning(t)
  PROVE  ProvisioningMove
<1>1. ASSUME NEW c \in Clients, CompleteDismissal(c)
      PROVE  ProvisioningMove
  <2> DEFINE t == pReq[c].task
  <2>1. c \in Workers /\ pReq[c] \in Journaled
    BY <1>1, ProvPhase DEF CompleteDismissal, TypeOK, ProvisioningTypeOK, Workers
  <2>2. t \in Tasks
    BY <2>1 DEF Journaled
  <2>3. prov'[t] = None /\ OtherJournals(t)
    BY <1>1, <2>2 DEF CompleteDismissal, OtherJournals, TypeOK, StoreTypeOK
  <2>4. pReq'[c] = Idle /\ OthersWait(c)
    BY <1>1, <2>1, ToKeeps DEF CompleteDismissal
  <2>5. Dismisses(c, t)
    BY <1>1, <2>3, <2>4 DEF CompleteDismissal, SameJournal, OnlyJournal, git, Dismisses
  <2> QED BY <2>1, <2>2, <2>5 DEF ProvisioningMove
<1>2. ASSUME NEW t \in Tasks, ReconcileCommitted(t)
      PROVE  ProvisioningMove
  <2> DEFINE o == [prov[t] EXCEPT !.failed = TRUE]
  <2>1. /\ prov[t] # None /\ prov[t] \in ProvOp /\ ~prov[t].failed /\ NoWorker
        /\ UNCHANGED <<pReq, attempts, task>>
    BY <1>2 DEF ReconcileCommitted, OnlyJournal, TypeOK, StoreTypeOK
  <2>2. \/ /\ prov' = [prov EXCEPT ![t] = None]
           /\ task[t].worktree = prov[t].spec.path
        \/ prov' = [prov EXCEPT ![t] = o]
    BY <1>2 DEF ReconcileCommitted
  <2>3. o \in ProvOp /\ o.updated = prov[t].updated /\ o.spec = prov[t].spec
    BY <2>1 DEF ProvOp
  <2>4. o # None
    BY <2>3, RecordAssumption
  <2> HIDE DEF o
  <2>5. /\ OtherJournals(t)
        /\ \/ prov'[t] = None /\ task[t].worktree = prov[t].spec.path
           \/ prov'[t] = o
    BY <2>2 DEF OtherJournals, TypeOK, StoreTypeOK
  <2>6. Reconciles(t)
    BY <2>1, <2>3, <2>4, <2>5 DEF Reconciles
  <2> QED BY <2>6 DEF ProvisioningMove
<1>3. ASSUME NEW t \in Tasks, ResumeProvisioning(t)
      PROVE  ProvisioningMove
  <2>1. /\ prov[t] # None /\ ~prov[t].failed /\ NoWorker
        /\ UNCHANGED <<prov, attempts, task>>
    BY <1>3 DEF ResumeProvisioning, OnlyRequest, store
  <2>2. /\ pReq'[t] = [phase |-> "execute", task |-> t, operation |-> prov[t]]
        /\ OthersWait(t)
    BY <1>3, ToKeeps DEF ResumeProvisioning, Execute, Workers
  <2>3. Reconciles(t)
    BY <2>1, <2>2 DEF Reconciles, OtherJournals
  <2> QED BY <2>3 DEF ProvisioningMove
<1> QED BY <1>1, <1>2, <1>3

\* The rest of the system leaves the provisioning journals and requests alone, or ends
\* them all.
LEMMA ElsewhereKept ==
  ASSUME TypeOK,
         \/ CleanupNext \/ UserNext \/ Crash \/ Restart \/ ProvisioningReconciled
         \/ \E t \in Tasks : ReleaseTaskBranch(t) \/ \E b \in Branches : BindTaskBranch(t, b)
         \/ UNCHANGED vars
  PROVE  Kept
<1>1. CASE CleanupNext
  <2>1. ASSUME NEW w, NEW t, NEW o, CompleteCleanup(w, t, o) \/ CompleteCrash(t, o)
        PROVE  Kept
    BY <2>1 DEF CompleteCleanup, CompleteCrash, ClearBinding, DaemonDies, Kept
  <2>2. ASSUME NEW c \in Clients, BeginClears(c)
        PROVE  Kept
    BY <2>1, <2>2 DEF BeginClears
  <2>3. ASSUME NEW w \in Workers, ApplyCompletion(w)
        PROVE  Kept
    BY <2>1, <2>3 DEF ApplyCompletion
  <2>4. ASSUME NEW w \in Workers, VerifiedCrash(w)
        PROVE  Kept
    BY <2>4 DEF VerifiedCrash, DaemonDies, Kept
  <2>5. ASSUME NEW c \in Clients,
               \/ \E t \in Tasks, op \in OpIds, mode \in CleanupModes,
                     acks \in SUBSET ContentKinds : PlanCleanup(c, t, op, mode, acks)
               \/ \E t \in Tasks : PlanFinalize(c, t)
               \/ ObserveCleanup(c) \/ EndCleanupRequest(c) \/ Finalize(c)
               \/ BeginAttention(c) \/ BeginCleanup(c) \/ RetryCleanup(c)
        PROVE  UNCHANGED <<prov, attempts, pReq>>
    BY <2>5
    DEF PlanCleanup, PlanFinalize, ObserveCleanup, EndCleanupRequest, Finalize,
        BeginAttention, BeginCleanup, RetryCleanup, OnlyCleanupRequest,
        OnlyCleanupJournal, store
  <2>6. ASSUME NEW w \in Workers,
               \/ Revalidate(w) \/ ApplyNothing(w) \/ MarkAttention(w) \/ ApplyRefusal(w)
               \/ PrepareRemoval(w) \/ RemoveWorkingTree(w) \/ Deregister(w)
               \/ ApplyRemoval(w) \/ LoseCleanupWorker(w)
        PROVE  UNCHANGED <<prov, attempts, pReq>>
    BY <2>6
    DEF Revalidate, ApplyNothing, MarkAttention, ApplyRefusal, PrepareRemoval,
        RemoveWorkingTree, Deregister, ApplyRemoval, LoseCleanupWorker,
        OnlyCleanupRequest, OnlyCleanupJournal, OnlyCleanupGit, store
  <2>7. CASE CleanupStartup \/ \E p \in Paths : LaunchSession(p) \/ SessionExits(p)
    BY <2>7 DEF CleanupStartup, ReconcileCleanup, PlanRecovery, LaunchSession,
                SessionExits, Kept, store
  <2>8. UNCHANGED <<prov, attempts, pReq>> => Kept
    BY DEF Kept
  <2> QED BY <1>1, <2>2, <2>3, <2>4, <2>5, <2>6, <2>7, <2>8 DEF CleanupNext, CleanupStep
<1>2. CASE UserNext
  BY <1>2
  DEF UserNext, UserCreatesBranch, UserMovesBranch, UserDeletesBranch, UserEdits,
      UserSwitches, UserChangesDirectory, UserChangesWorktree, UserStep, store, Kept
<1>3. CASE Crash \/ Restart
  BY <1>3 DEF Crash, Restart, DaemonDies, store, Kept
<1>4. CASE \/ ProvisioningReconciled \/ UNCHANGED vars
           \/ \E t \in Tasks : ReleaseTaskBranch(t)
                               \/ \E b \in Branches : BindTaskBranch(t, b)
  BY <1>4 DEF ProvisioningReconciled, ReleaseTaskBranch, BindTaskBranch, vars, store, Kept
<1> QED BY <1>1, <1>2, <1>3, <1>4

LEMMA ProvisioningMoves ==
  ASSUME TypeOK, [Next]_vars
  PROVE  ProvisioningMove
<1>1. Kept => ProvisioningMove
  BY DEF ProvisioningMove
<1>2. CASE ProvisioningNext
  BY <1>1, <1>2, RequestMoves, BeginMoves, ExecuteMoves, ApplyMoves, SettleMoves,
     ElsewhereKept
  DEF ProvisioningNext, ProvisioningStartup
<1> QED BY <1>1, <1>2, ElsewhereKept DEF Next

-----------------------------------------------------------------------------
(* The invariant of the provisioning requests *)

\* What a request that drives or dismisses a journal carries.
LEMMA RequestFacts ==
  ASSUME TypeOK, NEW w \in Workers,
         pReq[w].phase \in Driving \cup {"dismissObserve", "dismiss"}
  PROVE  /\ pReq[w].task \in Tasks /\ pReq[w].operation \in ProvOp
         /\ pReq[w].operation # None
<1>1. pReq[w].task \in Tasks /\ pReq[w].operation \in ProvOp
  BY ProvPhase DEF TypeOK, ProvisioningTypeOK, Driving, Journaled, Executed
<1> QED BY <1>1, RecordAssumption

\* The stamp of a journal and the number of attempts are numbers.
LEMMA StampFacts ==
  ASSUME TypeOK, NEW t \in Tasks
  PROVE  /\ attempts[t] \in Nat
         /\ prov[t] # None => prov[t] \in ProvOp /\ prov[t].updated \in Nat
BY BoundsAssumption DEF TypeOK, StoreTypeOK, RuntimeTypeOK, ProvOp

LEMMA SingleProvisionerKept ==
  ASSUME TypeOK, TypeOK', ProvisionersInv, ProvisioningMove
  PROVE  SingleProvisioner'
<1> SUFFICES ASSUME NEW w \in Workers, pReq'[w].phase \in Driving
             PROVE  LET t == pReq'[w].task  o == pReq'[w].operation
                    IN  /\ prov'[t] = o /\ ~o.failed
                        /\ \A v \in Workers \ {w} :
                             pReq'[v].phase \in Driving => pReq'[v].task # t
  BY DEF SingleProvisioner
<1>1. ASSUME NEW v \in Workers, pReq[v].phase \in Driving
      PROVE  /\ pReq[v].task \in Tasks /\ pReq[v].operation # None
             /\ prov[pReq[v].task] = pReq[v].operation /\ ~pReq[v].operation.failed
             /\ \A x \in Workers \ {v} :
                  pReq[x].phase \in Driving => pReq[x].task # pReq[v].task
  BY <1>1, RequestFacts DEF ProvisionersInv, SingleProvisioner
<1>2. Idle.phase \notin Driving /\ Idle.phase \notin {"dismissObserve", "dismiss"}
  BY DEF Idle, Driving
<1>3. CASE Kept
  BY <1>1, <1>2, <1>3 DEF Kept
<1>4. ASSUME NEW x \in Workers, Looks(x) \/ Dismissing(x)
      PROVE  /\ UNCHANGED prov /\ pReq'[x].phase \notin Driving
             /\ \A v \in Workers : v # x => pReq'[v] = pReq[v]
  BY <1>4 DEF Looks, Dismissing, OthersWait, Driving
<1>5. ASSUME NEW x \in Workers, Works(x)
      PROVE  /\ UNCHANGED prov /\ pReq[x].phase \in Driving
             /\ pReq'[x].task = pReq[x].task /\ pReq'[x].operation = pReq[x].operation
             /\ \A v \in Workers : v # x => pReq'[v] = pReq[v]
  BY <1>5 DEF Works, OthersWait
<1>6. CASE \E x \in Workers : Looks(x) \/ Dismissing(x) \/ Works(x)
  BY <1>1, <1>4, <1>5, <1>6
<1>7. ASSUME NEW x \in Workers, NEW t \in Tasks, Begins(x, t)
      PROVE  LET u == pReq'[w].task  o == pReq'[w].operation
             IN  /\ prov'[u] = o /\ ~o.failed
                 /\ \A v \in Workers \ {w} :
                      pReq'[v].phase \in Driving => pReq'[v].task # u
  <2>1. \A v \in Workers : pReq[v].phase \in Driving => pReq[v].task # t
    BY <1>1, <1>7 DEF Begins
  <2>2. /\ \A v \in Workers : v # x => pReq'[v] = pReq[v]
        /\ \A u \in Tasks : u # t => prov'[u] = prov[u]
        /\ pReq'[x].task = t /\ prov'[t] = pReq'[x].operation /\ ~prov'[t].failed
    BY <1>7 DEF Begins, OthersWait, OtherJournals
  <2> QED BY <1>1, <2>1, <2>2
<1>8. ASSUME NEW x \in Workers, NEW t \in Tasks, Applies(x, t)
      PROVE  LET u == pReq'[w].task  o == pReq'[w].operation
             IN  /\ prov'[u] = o /\ ~o.failed
                 /\ \A v \in Workers \ {w} :
                      pReq'[v].phase \in Driving => pReq'[v].task # u
  <2>1. pReq[x].phase \in Driving /\ pReq[x].task = t
    BY <1>8 DEF Applies, Driving
  <2>2. \A v \in Workers : v # x => pReq'[v] \in {pReq[v], Idle}
    BY <1>8 DEF Applies
  <2>3. \A u \in Tasks : u # t => prov'[u] = prov[u]
    BY <1>8 DEF Applies, OtherJournals
  <2>4. \/ pReq'[x] = Idle
        \/ pReq'[x].task = t /\ prov'[t] = pReq'[x].operation /\ ~prov'[t].failed
    BY <1>8 DEF Applies
  <2>5. \A v \in Workers : v # x /\ pReq[v].phase \in Driving => pReq[v].task # t
    BY <1>1, <2>1
  <2> QED BY <1>1, <1>2, <2>1, <2>2, <2>3, <2>4, <2>5
<1>9. ASSUME NEW x \in Workers, NEW t \in Tasks, Dismisses(x, t)
      PROVE  LET u == pReq'[w].task  o == pReq'[w].operation
             IN  /\ prov'[u] = o /\ ~o.failed
                 /\ \A v \in Workers \ {w} :
                      pReq'[v].phase \in Driving => pReq'[v].task # u
  <2>1. prov[t].failed
    BY <1>9 DEF Dismisses, ProvisionersInv, DismissalOf
  <2>2. \A v \in Workers : pReq[v].phase \in Driving => pReq[v].task # t
    BY <1>1, <2>1
  <2>3. /\ \A v \in Workers : v # x => pReq'[v] = pReq[v]
        /\ \A u \in Tasks : u # t => prov'[u] = prov[u]
        /\ pReq'[x] = Idle
    BY <1>9 DEF Dismisses, OthersWait, OtherJournals
  <2> QED BY <1>1, <1>2, <2>2, <2>3
<1>10. ASSUME NEW t \in Tasks, Reconciles(t)
       PROVE  LET u == pReq'[w].task  o == pReq'[w].operation
              IN  /\ prov'[u] = o /\ ~o.failed
                  /\ \A v \in Workers \ {w} :
                       pReq'[v].phase \in Driving => pReq'[v].task # u
  <2>1. \A v \in Workers : pReq[v].phase \notin Driving
    BY <1>2, <1>10 DEF Reconciles, NoWorker
  <2>2. ~UNCHANGED pReq
    BY <2>1
  <2>3. /\ prov'[t] = prov[t] /\ ~prov[t].failed
        /\ \A v \in Workers : v # t => pReq'[v] = pReq[v]
        /\ pReq'[t].task = t /\ pReq'[t].operation = prov[t]
    BY <1>10, <2>2 DEF Reconciles, OthersWait
  <2> QED BY <2>1, <2>3
<1> QED BY <1>3, <1>6, <1>7, <1>8, <1>9, <1>10 DEF ProvisioningMove

LEMMA StampedKept ==
  ASSUME TypeOK, TypeOK', ProvisionersInv, ProvisioningMove
  PROVE  Stamped'
<1> SUFFICES ASSUME NEW u \in Tasks, prov'[u] # None
             PROVE  prov'[u].updated <= attempts'[u]
  BY DEF Stamped
<1>1. prov[u] # None => prov[u].updated <= attempts[u]
  BY DEF ProvisionersInv, Stamped
<1>2. CASE UNCHANGED <<prov, attempts>>
  BY <1>1, <1>2
<1>3. ASSUME NEW x \in Workers, NEW t \in Tasks, Begins(x, t)
      PROVE  prov'[u].updated <= attempts'[u]
  <2>1. CASE u = t
    <3>1. prov'[u].updated = attempts'[u] /\ attempts'[u] \in Nat
      BY <1>3, <2>1, BoundsAssumption DEF Begins, TypeOK, RuntimeTypeOK
    <3> QED BY <3>1
  <2>2. CASE u # t
    BY <1>1, <1>3, <2>2 DEF Begins, OtherJournals
  <2> QED BY <2>1, <2>2
<1>4. ASSUME NEW t \in Tasks,
             \/ \E x \in Workers : Applies(x, t) \/ Dismisses(x, t)
             \/ Reconciles(t)
      PROVE  prov'[u].updated <= attempts'[u]
  <2>1. UNCHANGED attempts /\ prov[t] # None
    BY <1>4 DEF Applies, Dismisses, Reconciles, StillCurrent
  <2>2. CASE u # t
    BY <1>1, <1>4, <2>1, <2>2 DEF Applies, Dismisses, Reconciles, OtherJournals
  <2>3. CASE u = t
    <3>1. prov'[u].updated = prov[u].updated
      BY <1>4, <2>3 DEF Applies, Dismisses, Reconciles
    <3> QED BY <1>1, <2>1, <2>3, <3>1
  <2> QED BY <2>2, <2>3
<1> QED BY <1>2, <1>3, <1>4
        DEF ProvisioningMove, Kept, Looks, Dismissing, Works

\* A dismissal that waits loses its journal for good or not at all.
LEMMA DismissalWaits ==
  ASSUME TypeOK, TypeOK', ProvisionersInv, ProvisioningMove,
         NEW v \in Workers, pReq'[v] = pReq[v]
  PROVE  DismissalOf(pReq[v])'
<1> SUFFICES ASSUME pReq[v].phase \in {"dismissObserve", "dismiss"}
             PROVE  LET o == pReq[v].operation  u == pReq[v].task
                    IN  /\ o.failed /\ o.updated <= attempts'[u]
                        /\ prov'[u] \in {None, o} \/ prov'[u].updated > o.updated
  BY DEF DismissalOf
<1> DEFINE u == pReq[v].task
           o == pReq[v].operation
<1>1. u \in Tasks /\ o \in ProvOp /\ o.updated \in Nat /\ o # None
  BY RequestFacts, BoundsAssumption DEF ProvOp
<1>2. /\ o.failed /\ o.updated <= attempts[u]
      /\ prov[u] \in {None, o} \/ prov[u].updated > o.updated
  BY DEF ProvisionersInv, DismissalOf
<1>3. attempts[u] \in Nat
  BY <1>1, StampFacts
<1> HIDE DEF u, o
<1>4. CASE UNCHANGED <<prov, attempts>>
  BY <1>2, <1>4 DEF u, o
<1>5. ASSUME NEW x \in Workers, NEW t \in Tasks, Begins(x, t)
      PROVE  /\ o.failed /\ o.updated <= attempts'[u]
             /\ prov'[u] \in {None, o} \/ prov'[u].updated > o.updated
  <2>1. CASE u = t
    <3>1. prov'[u].updated = attempts[u] + 1 /\ attempts'[u] = attempts[u] + 1
      BY <1>5, <2>1 DEF Begins
    <3>2. o.updated <= attempts'[u] /\ prov'[u].updated > o.updated
      BY <1>1, <1>2, <1>3, <3>1
    <3> QED BY <1>2, <3>2
  <2>2. CASE u # t
    BY <1>1, <1>2, <1>5, <2>2 DEF Begins, OtherJournals
  <2> QED BY <2>1, <2>2
<1>6. ASSUME NEW x \in Workers, NEW t \in Tasks, Applies(x, t)
      PROVE  /\ o.failed /\ o.updated <= attempts'[u]
             /\ prov'[u] \in {None, o} \/ prov'[u].updated > o.updated
  <2>1. attempts' = attempts
    BY <1>6 DEF Applies
  <2>2. CASE u = t
    <3>1. prov[u] # None /\ ~prov[u].failed
      BY <1>6, <2>2 DEF Applies, StillCurrent
    <3>2. prov[u].updated > o.updated
      BY <1>2, <3>1
    <3>3. prov'[u] = None \/ prov'[u].updated = prov[u].updated
      BY <1>6, <2>2 DEF Applies
    <3> QED BY <1>2, <2>1, <3>2, <3>3
  <2>3. CASE u # t
    BY <1>1, <1>2, <1>6, <2>1, <2>3 DEF Applies, OtherJournals
  <2> QED BY <2>2, <2>3
<1>7. ASSUME NEW x \in Workers, NEW t \in Tasks, Dismisses(x, t)
      PROVE  /\ o.failed /\ o.updated <= attempts'[u]
             /\ prov'[u] \in {None, o} \/ prov'[u].updated > o.updated
  BY <1>1, <1>2, <1>7 DEF Dismisses, OtherJournals
<1>8. ASSUME NEW t \in Tasks, Reconciles(t)
      PROVE  FALSE
  BY <1>8 DEF Reconciles, NoWorker, Idle
<1> QED BY <1>4, <1>5, <1>6, <1>7, <1>8
        DEF ProvisioningMove, Kept, Looks, Dismissing, Works, u, o

\* A dismissal that is planned or goes on knows the current journal.
LEMMA DismissalsKept ==
  ASSUME TypeOK, TypeOK', ProvisionersInv, ProvisioningMove, NEW w \in Workers
  PROVE  DismissalOf(pReq[w])'
<1> SUFFICES ASSUME pReq'[w] # pReq[w], pReq'[w].phase \in {"dismissObserve", "dismiss"}
             PROVE  DismissalOf(pReq[w])'
  BY DismissalWaits DEF DismissalOf
<1>1. Dismissing(w)
  BY DEF ProvisioningMove, Kept, Looks, Dismissing, Works, Begins, Applies, Dismisses,
         Reconciles, OthersWait, Driving, Idle
<1>2. CASE /\ pReq'[w].phase = "dismissObserve"
           /\ pReq'[w].task \in Tasks /\ prov[pReq'[w].task] # None
           /\ pReq'[w].operation = prov[pReq'[w].task] /\ pReq'[w].operation.failed
  BY <1>1, <1>2 DEF Dismissing, DismissalOf, ProvisionersInv, Stamped
<1>3. CASE /\ pReq[w].phase = "dismissObserve" /\ pReq'[w].phase = "dismiss"
           /\ pReq'[w].task = pReq[w].task /\ pReq'[w].operation = pReq[w].operation
  BY <1>1, <1>3 DEF Dismissing, DismissalOf, ProvisionersInv
<1> QED BY <1>1, <1>2, <1>3 DEF Dismissing

LEMMA InitProvisioners == Init => ProvisionersInv
BY DEF Init, RuntimeInit, ProvisionersInv, SingleProvisioner, Stamped, DismissalOf, Idle,
       Driving

\* The inductive invariant holds in every reachable state.
THEOREM ProvisionersConsistent == Spec => []ProvisionersInv
<1>1. TypeOK /\ TypeOK' /\ ProvisionersInv /\ [Next]_vars => ProvisionersInv'
  <2> SUFFICES ASSUME TypeOK, TypeOK', ProvisionersInv, [Next]_vars
               PROVE  ProvisionersInv'
    OBVIOUS
  <2>1. ProvisioningMove
    BY ProvisioningMoves
  <2>2. \A w \in Workers : DismissalOf(pReq[w])'
    BY <2>1, DismissalsKept
  <2> QED BY <2>1, <2>2, SingleProvisionerKept, StampedKept DEF ProvisionersInv
<1> QED BY <1>1, InitProvisioners, TypeCorrect, PTL DEF Spec

\* A journal has at most one worker, which knows its current stage: no result is
\* applied twice, to another stage, or to a journal that was dismissed and started
\* again.
THEOREM ProvisionersAreSingle == Spec => []SingleProvisioner
<1>1. ProvisionersInv => SingleProvisioner
  BY DEF ProvisionersInv
<1> QED BY <1>1, ProvisionersConsistent, PTL

-----------------------------------------------------------------------------
(* The rollback of a created branch *)

\* A cleanup leaves the refs alone, and frees destinations only.
LEMMA CleanupFrees ==
  ASSUME TypeOK, CleanupNext
  PROVE  UNCHANGED ref /\ \A p \in Paths : DestinationFree(p) => DestinationFree(p)'
<1>1. UNCHANGED git => UNCHANGED ref
                       /\ \A p \in Paths : DestinationFree(p) => DestinationFree(p)'
  BY DEF git, DestinationFree
<1>2. ASSUME NEW w, NEW t, NEW o, CompleteCleanup(w, t, o) \/ CompleteCrash(t, o)
      PROVE  UNCHANGED git
  BY <1>2 DEF CompleteCleanup, CompleteCrash, ClearBinding
<1>3. ASSUME NEW c \in Clients, BeginClears(c)
      PROVE  UNCHANGED git
  BY <1>2, <1>3 DEF BeginClears
<1>4. ASSUME NEW w \in Workers, ApplyCompletion(w)
      PROVE  UNCHANGED git
  BY <1>2, <1>4 DEF ApplyCompletion
<1>5. ASSUME NEW c \in Clients,
             \/ \E t \in Tasks, op \in OpIds, mode \in CleanupModes,
                   acks \in SUBSET ContentKinds : PlanCleanup(c, t, op, mode, acks)
             \/ \E t \in Tasks : PlanFinalize(c, t)
             \/ ObserveCleanup(c) \/ EndCleanupRequest(c) \/ Finalize(c)
             \/ BeginAttention(c) \/ BeginCleanup(c) \/ RetryCleanup(c)
      PROVE  UNCHANGED git
  BY <1>5
  DEF PlanCleanup, PlanFinalize, ObserveCleanup, EndCleanupRequest, Finalize,
      BeginAttention, BeginCleanup, RetryCleanup, OnlyCleanupRequest,
      OnlyCleanupJournal
<1>6. ASSUME NEW w \in Workers,
             \/ Revalidate(w) \/ ApplyNothing(w) \/ MarkAttention(w) \/ ApplyRefusal(w)
             \/ PrepareRemoval(w) \/ ApplyRemoval(w) \/ LoseCleanupWorker(w)
             \/ VerifiedCrash(w)
      PROVE  UNCHANGED git
  BY <1>6
  DEF Revalidate, ApplyNothing, MarkAttention, ApplyRefusal, PrepareRemoval,
      ApplyRemoval, LoseCleanupWorker, VerifiedCrash, OnlyCleanupRequest,
      OnlyCleanupJournal
<1>7. CASE CleanupStartup \/ \E p \in Paths : LaunchSession(p) \/ SessionExits(p)
  BY <1>1, <1>7 DEF CleanupStartup, ReconcileCleanup, PlanRecovery, LaunchSession,
                    SessionExits
<1>8. ASSUME NEW w \in Workers, RemoveWorkingTree(w) \/ Deregister(w)
      PROVE  UNCHANGED ref /\ \A p \in Paths : DestinationFree(p) => DestinationFree(p)'
  <2>1. UNCHANGED ref
    BY <1>8 DEF RemoveWorkingTree, Deregister, OnlyCleanupGit
  <2>2. PICK q : \/ UNCHANGED <<dir, reg>>
                 \/ dir' = [dir EXCEPT ![q] = "absent"] /\ UNCHANGED reg
                 \/ reg' = [reg EXCEPT ![q] = None] /\ UNCHANGED dir
    BY <1>8 DEF RemoveWorkingTree, Deregister
  <2>3. \A p \in Paths : DestinationFree(p) => DestinationFree(p)'
    BY <2>2 DEF DestinationFree, TypeOK, GitTypeOK
  <2> QED BY <2>1, <2>3
<1> QED BY <1>1, <1>3, <1>4, <1>5, <1>6, <1>7, <1>8 DEF CleanupNext, CleanupStep

\* The user's steps are not the daemon's.
LEMMA DaemonWorks ==
  ASSUME TypeOK, ByDaemon
  PROVE  ~UserNext
<1> SUFFICES ASSUME UserNext
             PROVE  FALSE
  OBVIOUS
<1>1. userSteps' = userSteps + 1
  BY DEF UserNext, UserCreatesBranch, UserMovesBranch, UserDeletesBranch, UserEdits,
         UserSwitches, UserChangesDirectory, UserChangesWorktree, UserStep
<1>2. userSteps \in Nat
  BY BoundsAssumption DEF TypeOK, RuntimeTypeOK
<1> QED BY <1>1, <1>2 DEF ByDaemon

\* Refs change only where a worker creates or deletes one, or the user is at work.
LEMMA RefMoves ==
  ASSUME TypeOK, [Next]_vars, ~UserNext
  PROVE  \/ UNCHANGED ref
         \/ \E w \in Workers : CreateBranch(w) \/ DeleteCreatedRef(w)
<1>1. CASE ProvisioningNext
  BY <1>1
  DEF ProvisioningNext, ProvisioningStartup, PlanProvisioning, PlanDismissal,
      ObserveProvisioning, EndRequest, StartProvisioning, RetryProvisioning, Attempt,
      ObserveDismissal, CompleteDismissal, LoseWorker, ExecuteStep, AddWorktree,
      VerifyWorktree, CheckRollback, ApplyStep, ApplyAdvance, ApplyFailure,
      ApplyRollback, ApplyCommit, ApplyRefusedCommit, CommitCrash, CommitBinding,
      ReconcileCommitted, ResumeProvisioning, ProvisioningReconciled, OnlyRequest,
      OnlyJournal, git
<1>2. CASE CleanupNext
  BY <1>2, CleanupFrees
<1>3. CASE \/ Crash \/ Restart \/ UNCHANGED vars
           \/ \E t \in Tasks : ReleaseTaskBranch(t)
                               \/ \E b \in Branches : BindTaskBranch(t, b)
  BY <1>3 DEF Crash, Restart, ReleaseTaskBranch, BindTaskBranch, vars, git
<1> QED BY <1>1, <1>2, <1>3 DEF Next

\* The worker that deletes a ref still drives the journal that created it.
LEMMA DeletesOwnRef ==
  ASSUME TypeOK, SingleProvisioner, NEW w \in Workers, NEW b \in Branches,
         CreateBranch(w) \/ DeleteCreatedRef(w), ref[b] # None, ref'[b] = None
  PROVE  \E t \in Tasks : /\ prov[t] # None /\ prov[t].spec.branch = b
                          /\ prov[t].spec.base = ref[b].oid
<1> DEFINE t == pReq[w].task
           o == pReq[w].operation
<1>1. pReq[w].phase \in Driving
  BY DEF CreateBranch, DeleteCreatedRef, Driving
<1>2. t \in Tasks /\ o \in ProvOp /\ o # None /\ prov[t] = o
  BY <1>1, RequestFacts DEF SingleProvisioner
<1>3. o.spec.branch \in Branches
  BY <1>2 DEF ProvOp, WorktreeSpec
<1>4. ref \in [Branches -> Ref \cup {None}]
  BY DEF TypeOK, GitTypeOK
<1>5. CASE CreateBranch(w)
  <2>1. \/ UNCHANGED ref
        \/ /\ ref[o.spec.branch] = None
           /\ ref' = [ref EXCEPT ![o.spec.branch] =
                        [oid |-> o.spec.base, mark |-> o.op]]
    BY <1>5 DEF CreateBranch
  <2> QED BY <1>3, <1>4, <2>1
<1>6. CASE DeleteCreatedRef(w)
  <2>1. /\ ref' = [ref EXCEPT ![o.spec.branch] = None]
        /\ ref[o.spec.branch].oid = o.spec.base
    BY <1>6 DEF DeleteCreatedRef
  <2>2. b = o.spec.branch
    BY <1>3, <1>4, <2>1
  <2> QED BY <1>2, <2>1, <2>2
<1> QED BY <1>5, <1>6

\* The daemon deletes a branch only while it points at the commit the journal
\* created it at, however late the deletion runs.
THEOREM RollbacksLoseNoCommit == Spec => RollbackLosesNoCommit
<1>1. TypeOK /\ SingleProvisioner /\ [Next]_vars =>
        [ByDaemon =>
           \A b \in Branches :
             ref[b] # None /\ ref'[b] = None =>
               \E t \in Tasks : /\ prov[t] # None /\ prov[t].spec.branch = b
                                /\ prov[t].spec.base = ref[b].oid]_vars
  BY DaemonWorks, RefMoves, DeletesOwnRef
<1> QED BY <1>1, TypeCorrect, ProvisionersAreSingle, PTL DEF Spec, RollbackLosesNoCommit

-----------------------------------------------------------------------------
(* The requests of a cleanup *)

\* The phases in which a cleanup request knows a proof
Knowing == {"observe", "begin"} \cup CleanupDriving

TaskOf(r) == IF r.phase \in {"observe", "begin"} THEN r.intent.task ELSE r.task

ProofOf(r) == IF r.phase \in {"observe", "begin"} THEN r.intent.proof ELSE r.proof

\* The proof a request knows is not of a generation still to come.
KnownProof(r) == r.phase \in Knowing => ProofOf(r).gen <= task[TaskOf(r)].gen

\* A checkout seen to be gone is gone for as long as its proof is on record.
AbsenceKnown(r) ==
  /\ r.phase \in {"begin", "applyObservation"}
  /\ proof[TaskOf(r)] = ProofOf(r)
  /\ BothAbsent(r.facts)
  => DestinationFree(ProofOf(r).spec.path)

\* A journal that may be dismissed has nothing left at its destination.
DismissalFree(r) ==
  r.phase = "dismiss" /\ prov[r.task] = r.operation =>
    DestinationFree(r.operation.spec.path)

CheckoutsInv ==
  /\ NoForgottenCheckout
  /\ \A w \in Workers : /\ DismissalFree(pReq[w])
                        /\ KnownProof(cReq[w]) /\ AbsenceKnown(cReq[w])

\* A request learns the current proof.
Learns(w) ==
  /\ UNCHANGED <<task, proof>>
  /\ cReq'[w].phase \in {"observe", "revalidate"}
  /\ TaskOf(cReq'[w]) \in Tasks /\ proof[TaskOf(cReq'[w])] # None
  /\ ProofOf(cReq'[w]) = proof[TaskOf(cReq'[w])]

\* A request goes on with the proof it knows.
GoesOn(w) ==
  /\ cReq[w].phase \in Knowing
  /\ TaskOf(cReq'[w]) = TaskOf(cReq[w]) /\ ProofOf(cReq'[w]) = ProofOf(cReq[w])
  /\ UNCHANGED <<task, proof>>
  /\ \/ cReq'[w].phase \in {"revalidate", "remove", "deregister", "applyRemoval"}
     \/ /\ cReq'[w].phase \in {"begin", "applyObservation"}
        /\ UNCHANGED git
        /\ BothAbsent(cReq'[w].facts) => DestinationFree(ProofOf(cReq[w]).spec.path)

CleanupMove(w) ==
  \/ cReq'[w] = cReq[w]
  \/ cReq'[w].phase \in {"idle", "finalize"}
  \/ Learns(w)
  \/ GoesOn(w)

LEMMA CToKeeps ==
  ASSUME TypeOK, NEW w \in Workers, NEW r, CTo(w, r)
  PROVE  cReq'[w] = r /\ \A v \in Workers : v # w => cReq'[v] = cReq[v]
BY DEF TypeOK, CleanupTypeOK, CTo

\* One request moves, and the others wait.
LEMMA OneMoves ==
  ASSUME TypeOK, NEW w \in Workers, NEW r, CTo(w, r),
         cReq'[w] = r => CleanupMove(w)
  PROVE  \A v \in Workers : CleanupMove(v)
BY CToKeeps DEF CleanupMove

\* The facts of an observation say the destination is free only if it is.
LEMMA AbsenceSeen ==
  ASSUME NEW pf, NEW b, NEW blocked, BothAbsent(ObservedFacts(pf, b, blocked))
  PROVE  DestinationFree(pf.spec.path)
BY DEF BothAbsent, ObservedFacts, DestinationFree

LEMMA CleanupPlanMoves ==
  ASSUME TypeOK, NEW c \in Clients,
         \/ \E t \in Tasks, op \in OpIds, mode \in CleanupModes,
               acks \in SUBSET ContentKinds : PlanCleanup(c, t, op, mode, acks)
         \/ ObserveCleanup(c)
  PROVE  \A w \in Workers : CleanupMove(w)
<1>1. c \in Workers
  BY DEF Workers
<1>2. UNCHANGED <<task, proof>> /\ UNCHANGED git
  BY DEF PlanCleanup, ObserveCleanup, OnlyCleanupRequest, store
<1>3. ASSUME NEW t \in Tasks, NEW op \in OpIds, NEW mode \in CleanupModes,
             NEW acks \in SUBSET ContentKinds, PlanCleanup(c, t, op, mode, acks)
      PROVE  \A w \in Workers : CleanupMove(w)
  <2>1. PICK s : CTo(c, [phase |-> "observe",
                         intent |-> [task |-> t, op |-> op, mode |-> mode,
                                     acks |-> acks, supersedes |-> s,
                                     proof |-> proof[t]]])
    BY <1>3 DEF PlanCleanup
  <2> DEFINE r == [phase |-> "observe",
                   intent |-> [task |-> t, op |-> op, mode |-> mode, acks |-> acks,
                               supersedes |-> s, proof |-> proof[t]]]
  <2>2. r.phase = "observe" /\ TaskOf(r) = t /\ ProofOf(r) = proof[t]
    BY DEF TaskOf, ProofOf
  <2>3. proof[t] # None /\ CTo(c, r)
    BY <1>3, <2>1 DEF PlanCleanup
  <2> HIDE DEF r
  <2>4. cReq'[c] = r => CleanupMove(c)
    BY <1>2, <2>2, <2>3 DEF CleanupMove, Learns
  <2> QED BY <1>1, <2>3, <2>4, OneMoves
<1>4. CASE ObserveCleanup(c)
  <2> DEFINE i == cReq[c].intent
  <2>1. PICK blocked \in BOOLEAN :
          CTo(c, [phase |-> "begin", intent |-> i,
                  facts |-> ObservedFacts(i.proof, i.proof.spec.branch, blocked)])
    BY <1>4 DEF ObserveCleanup
  <2> DEFINE f == ObservedFacts(i.proof, i.proof.spec.branch, blocked)
             r == [phase |-> "begin", intent |-> i, facts |-> f]
  <2>2. BothAbsent(f) => DestinationFree(i.proof.spec.path)
    BY AbsenceSeen
  <2> HIDE DEF f
  <2>3. r.phase = "begin" /\ TaskOf(r) = i.task /\ ProofOf(r) = i.proof /\ r.facts = f
    BY DEF TaskOf, ProofOf
  <2>4. /\ cReq[c].phase \in Knowing
        /\ TaskOf(cReq[c]) = i.task /\ ProofOf(cReq[c]) = i.proof
    BY <1>4 DEF ObserveCleanup, TaskOf, ProofOf, Knowing
  <2>5. CTo(c, r)
    BY <2>1 DEF f
  <2> HIDE DEF r
  <2>6. cReq'[c] = r => CleanupMove(c)
    BY <1>2, <2>2, <2>3, <2>4 DEF CleanupMove, GoesOn
  <2> QED BY <1>1, <2>5, <2>6, OneMoves
<1> QED BY <1>3, <1>4

\* A request ends, or is about to clear a journal whose binding is gone.
LEMMA CleanupEndMoves ==
  ASSUME TypeOK, NEW w \in Workers,
         \/ EndCleanupRequest(w) \/ Finalize(w) \/ BeginAttention(w)
         \/ \E t \in Tasks : PlanFinalize(w, t)
         \/ ApplyNothing(w) \/ MarkAttention(w) \/ ApplyRefusal(w)
         \/ LoseCleanupWorker(w)
  PROVE  \A v \in Workers : CleanupMove(v)
<1>1. \/ CTo(w, Idle)
      \/ \E t \in Tasks : CTo(w, [phase |-> "finalize", task |-> t, receipt |-> receipt[t]])
  BY DEF EndCleanupRequest, Finalize, BeginAttention, PlanFinalize, ApplyNothing,
         MarkAttention, ApplyRefusal, LoseCleanupWorker
<1>2. ASSUME NEW r, r.phase \in {"idle", "finalize"}, CTo(w, r)
      PROVE  \A v \in Workers : CleanupMove(v)
  BY <1>2, OneMoves DEF CleanupMove
<1>3. Idle.phase = "idle"
  BY DEF Idle
<1>4. CASE CTo(w, Idle)
  BY <1>2, <1>3, <1>4
<1>5. ASSUME NEW t \in Tasks,
             CTo(w, [phase |-> "finalize", task |-> t, receipt |-> receipt[t]])
      PROVE  \A v \in Workers : CleanupMove(v)
  <2> DEFINE r == [phase |-> "finalize", task |-> t, receipt |-> receipt[t]]
  <2>1. r.phase = "finalize" /\ CTo(w, r)
    BY <1>5
  <2> HIDE DEF r
  <2> QED BY <1>2, <2>1
<1> QED BY <1>1, <1>4, <1>5

\* A request takes the next phase of the journal it drives.
LEMMA CleanupDriveMoves ==
  ASSUME TypeOK, NEW w \in Workers,
         \/ BeginCleanup(w) \/ RetryCleanup(w)
         \/ PrepareRemoval(w) \/ RemoveWorkingTree(w) \/ Deregister(w)
         \/ ApplyRemoval(w)
  PROVE  \A v \in Workers : CleanupMove(v)
<1>1. UNCHANGED <<task, proof>> /\ cReq[w].phase \in Knowing
  BY DEF BeginCleanup, RetryCleanup, BeginAccepted, BeginReady, PrepareRemoval,
         ReservedAccepted, ReadyToApply, Applying, RemoveWorkingTree, Deregister,
         ApplyRemoval, OnlyCleanupJournal, OnlyCleanupGit, store, Knowing, CleanupDriving
<1>2. CASE BeginCleanup(w) \/ RetryCleanup(w)
  <2> DEFINE i == cReq[w].intent
  <2>1. TaskOf(cReq[w]) = i.task /\ ProofOf(cReq[w]) = i.proof
    BY <1>2 DEF BeginCleanup, RetryCleanup, BeginAccepted, BeginReady, TaskOf, ProofOf
  <2>2. PICK o : CTo(w, [phase |-> "revalidate", task |-> i.task, operation |-> o,
                         proof |-> i.proof])
    BY <1>2 DEF BeginCleanup, RetryCleanup, Revalidating
  <2> QED BY <1>1, <2>1, <2>2, OneMoves DEF CleanupMove, GoesOn, TaskOf, ProofOf
<1>3. CASE ~(BeginCleanup(w) \/ RetryCleanup(w))
  <2>1. TaskOf(cReq[w]) = cReq[w].task /\ ProofOf(cReq[w]) = cReq[w].proof
    BY <1>3 DEF PrepareRemoval, ReservedAccepted, ReadyToApply, Applying,
                RemoveWorkingTree, Deregister, ApplyRemoval, TaskOf, ProofOf
  <2>2. CASE CTo(w, Idle)
    BY <2>2, OneMoves DEF CleanupMove, Idle
  <2>3. ASSUME NEW o, CTo(w, [phase |-> "remove", task |-> cReq[w].task,
                              operation |-> o, proof |-> cReq[w].proof])
        PROVE  \A v \in Workers : CleanupMove(v)
    BY <1>1, <2>1, <2>3, OneMoves DEF CleanupMove, GoesOn, TaskOf, ProofOf
  <2>4. ASSUME NEW o, CTo(w, [phase |-> "revalidate", task |-> cReq[w].task,
                              operation |-> o, proof |-> cReq[w].proof])
        PROVE  \A v \in Workers : CleanupMove(v)
    BY <1>1, <2>1, <2>4, OneMoves DEF CleanupMove, GoesOn, TaskOf, ProofOf
  <2>5. ASSUME NEW o, NEW d, CTo(w, [phase |-> "deregister", task |-> cReq[w].task,
                                     operation |-> o, proof |-> cReq[w].proof,
                                     deleted |-> d])
        PROVE  \A v \in Workers : CleanupMove(v)
    BY <1>1, <2>1, <2>5, OneMoves DEF CleanupMove, GoesOn, TaskOf, ProofOf
  <2>6. ASSUME NEW o, NEW d, CTo(w, [phase |-> "applyRemoval", task |-> cReq[w].task,
                                     operation |-> o, proof |-> cReq[w].proof,
                                     result |-> d])
        PROVE  \A v \in Workers : CleanupMove(v)
    BY <1>1, <2>1, <2>6, OneMoves DEF CleanupMove, GoesOn, TaskOf, ProofOf
  <2>7. CASE PrepareRemoval(w)
    BY <2>2, <2>3, <2>7 DEF PrepareRemoval
  <2>8. CASE RemoveWorkingTree(w)
    BY <2>5, <2>6, <2>8 DEF RemoveWorkingTree, RemovalOutcome
  <2>9. CASE Deregister(w)
    BY <2>6, <2>9 DEF Deregister, RemovalOutcome
  <2>10. CASE ApplyRemoval(w)
    BY <2>2, <2>4, <2>10 DEF ApplyRemoval, Revalidating
  <2> QED BY <1>3, <2>7, <2>8, <2>9, <2>10
<1> QED BY <1>2, <1>3

\* A checkout is looked at again under its journal.
LEMMA RevalidateMoves ==
  ASSUME TypeOK, NEW w \in Workers, Revalidate(w)
  PROVE  \A v \in Workers : CleanupMove(v)
<1> DEFINE q == cReq[w]
           b == IF q.operation.baseline.checkout # None
                THEN q.operation.baseline.checkout ELSE q.operation.baseline.branch
<1>1. UNCHANGED <<task, proof>> /\ UNCHANGED git
  BY DEF Revalidate, OnlyCleanupRequest, store
<1>2. PICK blocked \in BOOLEAN :
        CTo(w, [phase |-> "applyObservation", task |-> q.task,
                operation |-> q.operation, proof |-> q.proof,
                facts |-> ObservedFacts(q.proof, b, blocked)])
  BY DEF Revalidate
<1> DEFINE f == ObservedFacts(q.proof, b, blocked)
           r == [phase |-> "applyObservation", task |-> q.task,
                 operation |-> q.operation, proof |-> q.proof, facts |-> f]
<1>3. BothAbsent(f) => DestinationFree(q.proof.spec.path)
  BY AbsenceSeen
<1> HIDE DEF f
<1>4. /\ r.phase = "applyObservation" /\ r.facts = f
      /\ TaskOf(r) = q.task /\ ProofOf(r) = q.proof
  BY DEF TaskOf, ProofOf
<1>5. q.phase \in Knowing /\ TaskOf(q) = q.task /\ ProofOf(q) = q.proof
  BY DEF Revalidate, TaskOf, ProofOf, Knowing, CleanupDriving
<1>6. CTo(w, r)
  BY <1>2 DEF f
<1> HIDE DEF r
<1>7. cReq'[w] = r => CleanupMove(w)
  BY <1>1, <1>3, <1>4, <1>5 DEF CleanupMove, GoesOn
<1> QED BY <1>6, <1>7, OneMoves

LEMMA CleanupMoves ==
  ASSUME TypeOK, [Next]_vars
  PROVE  \A w \in Workers : CleanupMove(w)
<1>1. CASE UNCHANGED cReq
  BY <1>1 DEF CleanupMove
<1>2. CASE DaemonDies
  BY <1>2 DEF DaemonDies, CleanupMove, Idle
<1>3. CASE ProvisioningNext
  <2>1. UNCHANGED cReq \/ DaemonDies
    BY <1>3
    DEF ProvisioningNext, ProvisioningStartup, PlanProvisioning, PlanDismissal,
        ObserveProvisioning, EndRequest, StartProvisioning, RetryProvisioning, Attempt,
        ObserveDismissal, CompleteDismissal, LoseWorker, ExecuteStep, CreateBranch,
        AddWorktree, VerifyWorktree, CheckRollback, DeleteCreatedRef, ApplyStep,
        ApplyAdvance, ApplyFailure, ApplyRollback, ApplyCommit, ApplyRefusedCommit,
        CommitCrash, ReconcileCommitted, ResumeProvisioning, ProvisioningReconciled,
        OnlyRequest, OnlyJournal, OnlyGit
  <2> QED BY <1>1, <1>2, <2>1
<1>4. ASSUME NEW w \in Workers, NEW t, NEW o, CompleteCleanup(w, t, o)
      PROVE  \A v \in Workers : CleanupMove(v)
  BY <1>4, OneMoves DEF CompleteCleanup, CleanupMove, Idle
<1>5. ASSUME NEW t, NEW o, CompleteCrash(t, o)
      PROVE  DaemonDies
  BY <1>5 DEF CompleteCrash
<1>6. ASSUME NEW c \in Clients, BeginClears(c)
      PROVE  \A v \in Workers : CleanupMove(v)
  BY <1>2, <1>4, <1>5, <1>6 DEF BeginClears, Workers
<1>7. ASSUME NEW w \in Workers, ApplyCompletion(w) \/ VerifiedCrash(w)
      PROVE  \A v \in Workers : CleanupMove(v)
  BY <1>2, <1>4, <1>5, <1>7 DEF ApplyCompletion, VerifiedCrash
<1>8. CASE PlanRecovery
  <2>1. ASSUME NEW w \in Workers, cReq'[w] # cReq[w]
        PROVE  Learns(w)
    <3>1. /\ w \in Tasks /\ proof[w] # None
          /\ cReq'[w] = [phase |-> "revalidate", task |-> w, operation |-> clean[w],
                         proof |-> proof[w]]
      BY <1>8, <2>1 DEF PlanRecovery
    <3>2. UNCHANGED <<task, proof>>
      BY <1>8 DEF PlanRecovery, store
    <3> QED BY <3>1, <3>2 DEF Learns, TaskOf, ProofOf
  <2> QED BY <2>1 DEF CleanupMove
<1>9. CASE \/ ReconcileCleanup \/ \E p \in Paths : LaunchSession(p) \/ SessionExits(p)
           \/ UNCHANGED vars \/ UserNext \/ Restart
           \/ \E t \in Tasks : ReleaseTaskBranch(t)
                               \/ \E b \in Branches : BindTaskBranch(t, b)
  <2>1. UNCHANGED cReq
    BY <1>9
    DEF ReconcileCleanup, LaunchSession, SessionExits, vars, UserNext, UserCreatesBranch,
        UserMovesBranch, UserDeletesBranch, UserEdits, UserSwitches,
        UserChangesDirectory, UserChangesWorktree, UserStep, Restart, ReleaseTaskBranch,
        BindTaskBranch
  <2> QED BY <1>1, <2>1
<1>10. CASE CleanupNext
  BY <1>6, <1>7, <1>8, <1>9, <1>10, CleanupPlanMoves, CleanupEndMoves, CleanupDriveMoves,
     RevalidateMoves
  DEF CleanupNext, CleanupStep, CleanupStartup, Workers
<1>11. CASE Crash
  BY <1>2, <1>11 DEF Crash
<1> QED BY <1>3, <1>9, <1>10, <1>11 DEF Next

-----------------------------------------------------------------------------
(* No checkout is forgotten *)

\* Only the daemon adds and removes checkouts: the users of the repository commit,
\* branch, switch and edit.
DaemonOwnsCheckouts == UserMoves \cap {"directory", "worktree"} = {}

\* Only git worktree add of a journal's worker takes a free destination.
LEMMA DestinationTaken ==
  ASSUME TypeOK, DaemonOwnsCheckouts, [Next]_vars, NEW p \in Paths,
         DestinationFree(p), ~DestinationFree(p)'
  PROVE  \E w \in Workers : AddWorktree(w) /\ p = pReq[w].operation.spec.path
<1>1. CASE UNCHANGED <<dir, reg>>
  BY <1>1 DEF DestinationFree
<1>2. CASE CleanupNext
  BY <1>2, CleanupFrees
<1>3. CASE UserNext
  <2>1. UNCHANGED <<dir, reg>> \/ \E q \in Paths : UserSwitches(q)
    BY <1>3
    DEF UserNext, UserCreatesBranch, UserMovesBranch, UserDeletesBranch, UserEdits,
        UserChangesDirectory, UserChangesWorktree, UserStep, DaemonOwnsCheckouts
  <2>2. ASSUME NEW q \in Paths, UserSwitches(q)
        PROVE  FALSE
    <3>1. reg[q] # None /\ UNCHANGED dir /\ \E b : reg' = [reg EXCEPT ![q] = b]
      BY <2>2 DEF UserSwitches
    <3>2. q # p
      BY <3>1 DEF DestinationFree
    <3> QED BY <3>1, <3>2 DEF DestinationFree, TypeOK, GitTypeOK
  <2> QED BY <1>1, <2>1, <2>2
<1>4. ASSUME NEW w \in Workers, AddWorktree(w)
      PROVE  p = pReq[w].operation.spec.path
  <2> DEFINE q == pReq[w].operation.spec.path
  <2>1. /\ dir' = dir \/ dir' = [dir EXCEPT ![q] = "present"]
        /\ reg' = reg \/ \E b : reg' = [reg EXCEPT ![q] = b]
    BY <1>4 DEF AddWorktree
  <2> QED BY <2>1 DEF DestinationFree, TypeOK, GitTypeOK
<1>5. CASE ProvisioningNext /\ ~\E w \in Workers : AddWorktree(w)
  <2>1. UNCHANGED <<dir, reg>>
    BY <1>5
    DEF ProvisioningNext, ProvisioningStartup, PlanProvisioning, PlanDismissal,
        ObserveProvisioning, EndRequest, StartProvisioning, RetryProvisioning, Attempt,
        ObserveDismissal, CompleteDismissal, LoseWorker, ExecuteStep, CreateBranch,
        VerifyWorktree, CheckRollback, DeleteCreatedRef, ApplyStep, ApplyAdvance,
        ApplyFailure, ApplyRollback, ApplyCommit, ApplyRefusedCommit, CommitCrash,
        CommitBinding, ReconcileCommitted, ResumeProvisioning, ProvisioningReconciled,
        OnlyRequest, OnlyJournal, git
  <2> QED BY <1>1, <2>1
<1>6. CASE \/ Crash \/ Restart \/ UNCHANGED vars
           \/ \E t \in Tasks : ReleaseTaskBranch(t)
                               \/ \E b \in Branches : BindTaskBranch(t, b)
  BY <1>1, <1>6 DEF Crash, Restart, ReleaseTaskBranch, BindTaskBranch, vars, git
<1> QED BY <1>2, <1>3, <1>4, <1>5, <1>6 DEF Next

\* The destination that a worker takes belongs to the journal it drives, which has
\* no binding yet.
LEMMA TakenByJournal ==
  ASSUME TypeOK, StoreInv, SingleProvisioner, NEW w \in Workers, AddWorktree(w)
  PROVE  \E t \in Tasks : LET p == pReq[w].operation.spec.path
                          IN  /\ p \in HeldPaths(t) /\ p \in HeldPaths(t)'
                              /\ prov[t] # None /\ ~prov[t].failed
                              /\ task[t].worktree = None
<1> DEFINE o == pReq[w].operation
<1>1. pReq[w].phase \in Driving /\ o.stage # "bindingCommitted"
  BY DEF AddWorktree, Driving
<1>2. PICK t \in Tasks : o \in ProvOp /\ o # None /\ prov[t] = o /\ ~o.failed
  BY <1>1, RequestFacts DEF SingleProvisioner
<1>3. o.spec.path \in Paths
  BY <1>2 DEF ProvOp, WorktreeSpec
<1>4. UNCHANGED <<prov, task>>
  BY DEF AddWorktree, OnlyGit, store
<1>5. o.spec.path \in HeldPaths(t) /\ o.spec.path \in HeldPaths(t)'
  BY <1>2, <1>3, <1>4, NamesAssumption DEF HeldPaths
<1>6. task[t].worktree = None
  BY <1>1, <1>2 DEF StoreInv, ProvisioningJournalSound
<1> QED BY <1>2, <1>5, <1>6

\* A destination that was free, and is not any more, is not that of a binding or
\* of a failed journal.
LEMMA FreeStaysFree ==
  ASSUME TypeOK, StoreInv, SingleProvisioner, DaemonOwnsCheckouts, [Next]_vars,
         NEW t \in Tasks, NEW p \in Paths, DestinationFree(p),
         \/ task[t].worktree = p
         \/ prov[t] # None /\ prov[t].failed /\ prov[t].spec.path = p
  PROVE  DestinationFree(p)'
<1> SUFFICES ASSUME ~DestinationFree(p)'
             PROVE  FALSE
  OBVIOUS
<1>1. PICK w \in Workers : AddWorktree(w) /\ p = pReq[w].operation.spec.path
  BY DestinationTaken
<1>2. PICK u \in Tasks : p \in HeldPaths(u) /\ ~prov[u].failed /\ task[u].worktree = None
  BY <1>1, TakenByJournal
<1>3. p \in HeldPaths(t)
  BY NamesAssumption DEF HeldPaths
<1>4. u = t
  BY <1>2, <1>3 DEF StoreInv, HoldingsExclusive
<1> QED BY <1>2, <1>4, NamesAssumption

\* The generation of a Task does not fall, and a proof that is new is of a new one.
LEMMA GenerationsRise ==
  ASSUME TypeOK, StoreInv, [Next]_vars, NEW t \in Tasks
  PROVE  /\ task[t].gen \in Nat /\ task'[t].gen \in Nat /\ task'[t].gen >= task[t].gen
         /\ proof'[t] \in {None, proof[t]} \/ proof'[t].gen > task[t].gen
<1>1. task[t].gen \in Nat
  BY GenerationAssumption DEF TypeOK, StoreTypeOK, TaskRecord
<1>2. StoreStep
  BY NextStoreStep
<1>3. CASE UNCHANGED <<task, proof>>
  BY <1>1, <1>3
<1>4. ASSUME NEW u \in Tasks, CommitStep(u)
      PROVE  /\ task'[t].gen \in Nat /\ task'[t].gen >= task[t].gen
             /\ proof'[t] \in {None, proof[t]} \/ proof'[t].gen > task[t].gen
  <2>1. PICK left : CommitBinding(u, left)
    BY <1>4 DEF CommitStep
  <2>2. CASE t = u
    <3>1. task'[t].gen = task[t].gen + 1 /\ proof'[t].gen = task[t].gen + 1
      BY <2>1, <2>2 DEF CommitBinding, TypeOK, StoreTypeOK
    <3> QED BY <1>1, <3>1
  <2>3. CASE t # u
    <3>1. task'[t] = task[t] /\ proof'[t] = proof[t]
      BY <2>1, <2>3 DEF CommitBinding, TypeOK, StoreTypeOK
    <3> QED BY <1>1, <3>1
  <2> QED BY <2>2, <2>3
<1>5. ASSUME NEW u \in Tasks, ClearStep(u)
      PROVE  /\ task'[t].gen = task[t].gen /\ proof'[t] \in {None, proof[t]}
  BY <1>5 DEF ClearStep, ClearBinding, TypeOK, StoreTypeOK, TaskRecord
<1>6. ASSUME NEW u \in Tasks, BranchStep(u)
      PROVE  /\ task'[t].gen = task[t].gen /\ proof'[t] = proof[t]
  BY <1>6 DEF BranchStep, TypeOK, StoreTypeOK, TaskRecord
<1>7. UNCHANGED store \/ CleanStep \/ (\E u \in Tasks : ProvStep(u) \/ BeginStep(u))
        => UNCHANGED <<task, proof>>
  BY DEF store, CleanStep, ProvStep, BeginStep
<1> QED BY <1>1, <1>2, <1>3, <1>4, <1>5, <1>6, <1>7 DEF StoreStep

\* What a cleanup request knows is of the right types.
LEMMA KnowingFacts ==
  ASSUME TypeOK, NEW w \in Workers, cReq[w].phase \in Knowing
  PROVE  /\ TaskOf(cReq[w]) \in Tasks /\ ProofOf(cReq[w]) \in ManagedProof
         /\ ProofOf(cReq[w]) # None
         /\ ProofOf(cReq[w]).gen \in Nat /\ ProofOf(cReq[w]).spec.path \in Paths
<1>1. TaskOf(cReq[w]) \in Tasks /\ ProofOf(cReq[w]) \in ManagedProof
  BY CleanPhase
  DEF TypeOK, CleanupTypeOK, Knowing, CleanupDriving, TaskOf, ProofOf, CleanPlanned,
      CleanObserved, CleanJournaled, CleanRemoving, CleanRevalidated, CleanRemoved,
      Intent
<1>2. ProofOf(cReq[w]).gen \in Nat /\ ProofOf(cReq[w]).spec.path \in Paths
  BY <1>1, GenerationAssumption DEF ManagedProof, WorktreeSpec
<1> QED BY <1>1, <1>2, RecordAssumption

LEMMA KnownProofKept ==
  ASSUME TypeOK, StoreInv, CheckoutsInv, [Next]_vars, NEW w \in Workers
  PROVE  KnownProof(cReq[w])'
<1>1. CleanupMove(w)
  BY CleanupMoves
<1>2. ASSUME cReq[w].phase \in Knowing
      PROVE  /\ ProofOf(cReq[w]).gen <= task'[TaskOf(cReq[w])].gen
  <2>1. /\ TaskOf(cReq[w]) \in Tasks /\ ProofOf(cReq[w]).gen \in Nat
        /\ ProofOf(cReq[w]).gen <= task[TaskOf(cReq[w])].gen
    BY <1>2, KnowingFacts DEF CheckoutsInv, KnownProof
  <2>2. /\ task[TaskOf(cReq[w])].gen \in Nat /\ task'[TaskOf(cReq[w])].gen \in Nat
        /\ task'[TaskOf(cReq[w])].gen >= task[TaskOf(cReq[w])].gen
    BY <2>1, GenerationsRise
  <2> QED BY <2>1, <2>2
<1>3. CASE cReq'[w] = cReq[w]
  BY <1>2, <1>3 DEF KnownProof, TaskOf, ProofOf
<1>4. CASE cReq'[w].phase \in {"idle", "finalize"}
  BY <1>4 DEF KnownProof, Knowing, CleanupDriving
<1>5. CASE Learns(w)
  <2>1. proof[TaskOf(cReq'[w])].gen = task[TaskOf(cReq'[w])].gen
    BY <1>5 DEF Learns, StoreInv, ProofMatchesBinding
  <2>2. task[TaskOf(cReq'[w])].gen \in Nat
    BY <1>5, GenerationsRise DEF Learns
  <2> QED BY <1>5, <2>1, <2>2 DEF Learns, KnownProof, TaskOf, ProofOf
<1>6. CASE GoesOn(w)
  BY <1>2, <1>6 DEF GoesOn, KnownProof, TaskOf, ProofOf
<1> QED BY <1>1, <1>3, <1>4, <1>5, <1>6 DEF CleanupMove

LEMMA AbsenceKept ==
  ASSUME TypeOK, StoreInv, SingleProvisioner, DaemonOwnsCheckouts, CheckoutsInv,
         [Next]_vars, NEW w \in Workers
  PROVE  AbsenceKnown(cReq[w])'
<1>1. CleanupMove(w)
  BY CleanupMoves
<1>2. CASE cReq'[w] = cReq[w]
  <2> DEFINE t == TaskOf(cReq[w])
             pf == ProofOf(cReq[w])
  <2> SUFFICES ASSUME cReq[w].phase \in {"begin", "applyObservation"}, proof'[t] = pf,
                      BothAbsent(cReq[w].facts)
               PROVE  dir'[pf.spec.path] = "absent" /\ reg'[pf.spec.path] = None
    BY <1>2 DEF AbsenceKnown, TaskOf, ProofOf, BothAbsent, DestinationFree
  <2>1. cReq[w].phase \in Knowing
    BY DEF Knowing, CleanupDriving
  <2>2. /\ t \in Tasks /\ pf # None /\ pf.gen \in Nat /\ pf.spec.path \in Paths
        /\ pf.gen <= task[t].gen
    BY <2>1, KnowingFacts DEF CheckoutsInv, KnownProof
  <2>3. proof[t] = pf
    BY <2>2, GenerationsRise
  <2>4. DestinationFree(pf.spec.path)
    BY <2>3 DEF CheckoutsInv, AbsenceKnown
  <2>5. task[t].worktree = pf.spec.path
    BY <2>2, <2>3 DEF StoreInv, ProofMatchesBinding
  <2>6. PICK p \in Paths : p = pf.spec.path
    BY <2>2
  <2>7. DestinationFree(p)'
    BY <2>2, <2>4, <2>5, <2>6, FreeStaysFree
  <2> QED BY <2>6, <2>7 DEF DestinationFree
<1>3. CASE cReq'[w].phase \in {"idle", "finalize"} \/ Learns(w)
  BY <1>3 DEF AbsenceKnown, Learns
<1>4. CASE GoesOn(w)
  <2>1. CASE cReq'[w].phase \in {"revalidate", "remove", "deregister", "applyRemoval"}
    BY <2>1 DEF AbsenceKnown
  <2>2. CASE /\ UNCHANGED git
             /\ BothAbsent(cReq'[w].facts) => DestinationFree(ProofOf(cReq[w]).spec.path)
    BY <1>4, <2>2 DEF GoesOn, AbsenceKnown, BothAbsent, DestinationFree, git, ProofOf
  <2> QED BY <1>4, <2>1, <2>2 DEF GoesOn
<1> QED BY <1>1, <1>2, <1>3, <1>4 DEF CleanupMove

LEMMA DismissalFreeKept ==
  ASSUME TypeOK, TypeOK', StoreInv, ProvisionersInv, DaemonOwnsCheckouts, CheckoutsInv,
         [Next]_vars, NEW w \in Workers
  PROVE  DismissalFree(pReq[w])'
<1> SUFFICES ASSUME pReq'[w].phase = "dismiss", prov'[pReq'[w].task] = pReq'[w].operation
             PROVE  /\ dir'[pReq'[w].operation.spec.path] = "absent"
                    /\ reg'[pReq'[w].operation.spec.path] = None
  BY DEF DismissalFree, DestinationFree
<1>1. ProvisioningMove
  BY ProvisioningMoves
<1>2. CASE pReq'[w] = pReq[w]
  <2> DEFINE o == pReq[w].operation
  <2>1. PICK t \in Tasks : t = pReq[w].task /\ o \in ProvOp /\ o # None
    BY <1>2, RequestFacts
  <2>2. o.failed /\ (prov[t] \in {None, o} \/ prov[t].updated > o.updated)
    BY <1>2, <2>1 DEF ProvisionersInv, DismissalOf
  <2>3. prov'[t] = o /\ o.updated \in Nat
    BY <1>2, <2>1, BoundsAssumption DEF ProvOp
  <2>4. prov[t] = o
    <3>1. CASE prov'[t] = prov[t]
      BY <2>3, <3>1
    <3>2. ASSUME NEW x \in Workers, Begins(x, t)
          PROVE  FALSE
      BY <2>2, <2>3, <3>2 DEF Begins
    <3>3. ASSUME \/ \E x \in Workers : Applies(x, t) \/ Dismisses(x, t)
                 \/ Reconciles(t)
          PROVE  FALSE
      <4>1. /\ prov[t] # None /\ prov'[t].updated = prov[t].updated
            /\ ~prov[t].failed \/ prov'[t] = None
        BY <2>1, <2>3, <3>3 DEF Applies, Dismisses, Reconciles, StillCurrent
      <4> QED BY <2>1, <2>2, <2>3, <4>1
    <3>4. ASSUME NEW u \in Tasks, u # t,
                 \/ \E x \in Workers : Begins(x, u) \/ Applies(x, u) \/ Dismisses(x, u)
                 \/ Reconciles(u)
          PROVE  prov'[t] = prov[t]
      BY <3>4 DEF Begins, Applies, Dismisses, Reconciles, OtherJournals
    <3>5. Kept \/ (\E x \in Workers : Looks(x) \/ Dismissing(x) \/ Works(x))
            => prov'[t] = prov[t]
      BY DEF Kept, Looks, Dismissing, Works
    <3> QED BY <1>1, <3>1, <3>2, <3>3, <3>4, <3>5 DEF ProvisioningMove
  <2>5. PICK p \in Paths : p = o.spec.path
    BY <2>1 DEF ProvOp, WorktreeSpec
  <2>6. DestinationFree(p)
    BY <1>2, <2>1, <2>4, <2>5 DEF CheckoutsInv, DismissalFree
  <2>7. DestinationFree(p)'
    BY <2>1, <2>2, <2>4, <2>5, <2>6, FreeStaysFree DEF ProvisionersInv
  <2> QED BY <1>2, <2>5, <2>7 DEF DestinationFree
<1>3. CASE pReq'[w] # pReq[w]
  <2>1. Dismissing(w)
    BY <1>1, <1>3
    DEF ProvisioningMove, Kept, Looks, Dismissing, Works, Begins, Applies, Dismisses,
        Reconciles, OthersWait, Driving, Idle
  <2> QED BY <2>1 DEF Dismissing, DestinationFree
<1> QED BY <1>2, <1>3

\* Other steps leave the bindings of worktrees as they are.
LEMMA BindingKept ==
  ASSUME TypeOK, [Next]_vars, NEW t \in Tasks, task[t].worktree # None,
         ~\E c \in Clients : BeginClears(c), ~\E w \in Workers : ApplyCompletion(w)
  PROVE  task'[t].worktree = task[t].worktree
<1>1. CASE UNCHANGED task
  BY <1>1
<1>2. ASSUME NEW w \in Workers, ApplyCommit(w) \/ CommitCrash(w)
      PROVE  task'[t].worktree = task[t].worktree
  <2>1. CanCommit(pReq[w].task) /\ \E left : CommitBinding(pReq[w].task, left)
    BY <1>2 DEF ApplyCommit, CommitCrash
  <2>2. pReq[w].task # t
    BY <2>1 DEF CanCommit
  <2> QED BY <2>1, <2>2 DEF CommitBinding, TypeOK, StoreTypeOK
<1>3. CASE ProvisioningNext /\ ~\E w \in Workers : ApplyCommit(w) \/ CommitCrash(w)
  BY <1>1, <1>3
  DEF ProvisioningNext, ProvisioningStartup, PlanProvisioning, PlanDismissal,
      ObserveProvisioning, EndRequest, StartProvisioning, RetryProvisioning, Attempt,
      ObserveDismissal, CompleteDismissal, LoseWorker, ExecuteStep, CreateBranch,
      AddWorktree, VerifyWorktree, CheckRollback, DeleteCreatedRef, ApplyStep,
      ApplyAdvance, ApplyFailure, ApplyRollback, ApplyRefusedCommit,
      ReconcileCommitted, ResumeProvisioning, ProvisioningReconciled, OnlyRequest,
      OnlyJournal, OnlyGit, store
<1>4. CASE CleanupNext
  <2>1. ASSUME NEW c \in Clients,
               \/ \E u \in Tasks, op \in OpIds, mode \in CleanupModes,
                     acks \in SUBSET ContentKinds : PlanCleanup(c, u, op, mode, acks)
               \/ \E u \in Tasks : PlanFinalize(c, u)
               \/ ObserveCleanup(c) \/ EndCleanupRequest(c) \/ Finalize(c)
               \/ BeginAttention(c) \/ BeginCleanup(c) \/ RetryCleanup(c)
        PROVE  UNCHANGED task
    BY <2>1
    DEF PlanCleanup, PlanFinalize, ObserveCleanup, EndCleanupRequest, Finalize,
        BeginAttention, BeginCleanup, RetryCleanup, OnlyCleanupRequest,
        OnlyCleanupJournal, store
  <2>2. ASSUME NEW w \in Workers,
               \/ Revalidate(w) \/ ApplyNothing(w) \/ MarkAttention(w) \/ ApplyRefusal(w)
               \/ PrepareRemoval(w) \/ RemoveWorkingTree(w) \/ Deregister(w)
               \/ ApplyRemoval(w) \/ LoseCleanupWorker(w) \/ VerifiedCrash(w)
        PROVE  UNCHANGED task
    BY <2>2
    DEF Revalidate, ApplyNothing, MarkAttention, ApplyRefusal, PrepareRemoval,
        RemoveWorkingTree, Deregister, ApplyRemoval, LoseCleanupWorker, VerifiedCrash,
        OnlyCleanupRequest, OnlyCleanupJournal, OnlyCleanupGit, store
  <2>3. CASE CleanupStartup \/ \E p \in Paths : LaunchSession(p) \/ SessionExits(p)
    BY <2>3 DEF CleanupStartup, ReconcileCleanup, PlanRecovery, LaunchSession,
                SessionExits, store
  <2> QED BY <1>1, <1>4, <2>1, <2>2, <2>3 DEF CleanupNext, CleanupStep
<1>5. CASE UserNext \/ Crash \/ Restart \/ UNCHANGED vars
  BY <1>1, <1>5
  DEF UserNext, UserCreatesBranch, UserMovesBranch, UserDeletesBranch, UserEdits,
      UserSwitches, UserChangesDirectory, UserChangesWorktree, UserStep, Crash, Restart,
      vars, store
<1>6. ASSUME NEW u \in Tasks,
             ReleaseTaskBranch(u) \/ \E b \in Branches : BindTaskBranch(u, b)
      PROVE  task'[t].worktree = task[t].worktree
  <2>1. PICK b : task' = [task EXCEPT ![u].branch = b]
    BY <1>6 DEF ReleaseTaskBranch, BindTaskBranch
  <2> QED BY <2>1 DEF TypeOK, StoreTypeOK, TaskRecord
<1> QED BY <1>2, <1>3, <1>4, <1>5, <1>6 DEF Next

\* A binding is lost only to a cleanup that has seen its checkout gone.
LEMMA ClearedCheckoutGone ==
  ASSUME TypeOK, StoreInv, CheckoutsInv, [Next]_vars, NEW t \in Tasks,
         task[t].worktree # None, task'[t].worktree # task[t].worktree
  PROVE  DestinationFree(task[t].worktree) /\ UNCHANGED <<dir, reg>>
<1>1. ASSUME NEW w \in Workers, NEW u \in Tasks, NEW o,
             CompleteCleanup(w, u, o) \/ CompleteCrash(u, o),
             proof[u] = ProofOf(cReq[w]), u = TaskOf(cReq[w]), proof[u] # None,
             cReq[w].phase \in {"begin", "applyObservation"}, BothAbsent(cReq[w].facts)
      PROVE  DestinationFree(task[t].worktree) /\ UNCHANGED <<dir, reg>>
  <2>1. u = t /\ UNCHANGED <<dir, reg>>
    BY <1>1 DEF CompleteCleanup, CompleteCrash, ClearBinding, git, TypeOK, StoreTypeOK
  <2>2. DestinationFree(proof[t].spec.path)
    BY <1>1, <2>1 DEF CheckoutsInv, AbsenceKnown
  <2> QED BY <1>1, <2>1, <2>2 DEF StoreInv, ProofMatchesBinding
<1>2. ASSUME NEW c \in Clients, BeginClears(c)
      PROVE  DestinationFree(task[t].worktree) /\ UNCHANGED <<dir, reg>>
  <2> DEFINE i == cReq[c].intent
             o == RequestedCleanup(i, cReq[c].facts)
  <2>1. /\ cReq[c].phase = "begin" /\ BothAbsent(cReq[c].facts)
        /\ proof[i.task] = i.proof
        /\ CompleteCleanup(c, i.task, o) \/ CompleteCrash(i.task, o)
    BY <1>2 DEF BeginClears, BeginAccepted, BeginReady, TupleCurrent
  <2>2. i.task \in Tasks /\ i.proof # None /\ c \in Workers
    BY <2>1, BeginFacts, RecordAssumption DEF Workers
  <2>3. i.task = TaskOf(cReq[c]) /\ i.proof = ProofOf(cReq[c])
    BY <2>1 DEF TaskOf, ProofOf
  <2> QED BY <1>1, <2>1, <2>2, <2>3
<1>3. ASSUME NEW w \in Workers, ApplyCompletion(w)
      PROVE  DestinationFree(task[t].worktree) /\ UNCHANGED <<dir, reg>>
  <2> DEFINE r == cReq[w]
  <2>1. /\ r.phase = "applyObservation" /\ BothAbsent(r.facts)
        /\ proof[r.task] = r.proof
        /\ CompleteCleanup(w, r.task, Verified(w)) \/ CompleteCrash(r.task, Verified(w))
    BY <1>3
    DEF ApplyCompletion, ReadyToComplete, ReservedAccepted, ReadyToApply, Applying,
        TupleCurrent, PostRemovalMatches
  <2>2. r.task = TaskOf(r) /\ r.proof = ProofOf(r) /\ r.phase \in Knowing
    BY <2>1 DEF TaskOf, ProofOf, Knowing, CleanupDriving
  <2>3. r.task \in Tasks /\ r.proof # None
    BY <2>2, KnowingFacts
  <2> QED BY <1>1, <2>1, <2>2, <2>3
<1> QED BY <1>2, <1>3, BindingKept

\* A path that is held stays held, or nothing is left there.
LEMMA HeldOrGone ==
  ASSUME TypeOK, TypeOK', StoreInv, ProvisionersInv, CheckoutsInv, [Next]_vars,
         NEW t \in Tasks, NEW p \in Paths, p \in HeldPaths(t)
  PROVE  p \in HeldPaths(t)' \/ DestinationFree(p)'
<1>1. ProvisioningMove
  BY ProvisioningMoves
<1>2. CASE p = task[t].worktree
  <2>1. CASE task'[t].worktree = task[t].worktree
    BY <1>2, <2>1, NamesAssumption DEF HeldPaths
  <2>2. CASE task'[t].worktree # task[t].worktree
    BY <1>2, <2>2, ClearedCheckoutGone, NamesAssumption DEF DestinationFree
  <2> QED BY <2>1, <2>2
<1>3. CASE prov[t] # None /\ p = prov[t].spec.path
  <2>1. CASE prov'[t] # None /\ prov'[t].spec = prov[t].spec
    BY <1>3, <2>1, NamesAssumption DEF HeldPaths
  <2>2. CASE task'[t].worktree = prov[t].spec.path
    BY <1>3, <2>2, NamesAssumption DEF HeldPaths
  <2>3. ASSUME NEW w \in Workers, Dismisses(w, t)
        PROVE  DestinationFree(p)'
    <3>1. DestinationFree(p) /\ UNCHANGED <<dir, reg>>
      BY <1>3, <2>3 DEF Dismisses, CheckoutsInv, DismissalFree
    <3> QED BY <3>1 DEF DestinationFree
  <2>4. ASSUME NEW u \in Tasks,
               \/ \E x \in Workers : Begins(x, u) \/ Applies(x, u)
               \/ Reconciles(u)
        PROVE  \/ prov'[t] # None /\ prov'[t].spec = prov[t].spec
               \/ task'[t].worktree = prov[t].spec.path
    <3>1. CASE u = t
      BY <1>3, <2>4, <3>1 DEF Begins, Applies, Reconciles
    <3>2. CASE u # t
      BY <1>3, <2>4, <3>2 DEF Begins, Applies, Reconciles, OtherJournals
    <3> QED BY <3>1, <3>2
  <2>5. ASSUME \/ Kept \/ (\E x \in Workers : Looks(x) \/ Dismissing(x) \/ Works(x))
               \/ \E x \in Workers, u \in Tasks : u # t /\ Dismisses(x, u)
        PROVE  prov'[t] = prov[t]
    BY <2>5 DEF Kept, Looks, Dismissing, Works, Dismisses, OtherJournals
  <2> QED BY <1>1, <1>3, <2>1, <2>2, <2>3, <2>4, <2>5 DEF ProvisioningMove
<1> QED BY <1>2, <1>3, NamesAssumption DEF HeldPaths

LEMMA CheckoutsKept ==
  ASSUME TypeOK, StoreInv, ProvisionersInv, DaemonOwnsCheckouts, CheckoutsInv,
         TypeOK', [Next]_vars
  PROVE  NoForgottenCheckout'
<1> SUFFICES ASSUME NEW p \in Paths, ~DestinationFree(p)'
             PROVE  \E t \in Tasks : p \in HeldPaths(t)'
  BY DEF NoForgottenCheckout
<1>1. CASE ~DestinationFree(p)
  <2>1. PICK t \in Tasks : p \in HeldPaths(t)
    BY <1>1 DEF CheckoutsInv, NoForgottenCheckout
  <2> QED BY <2>1, HeldOrGone
<1>2. CASE DestinationFree(p)
  <2>1. PICK w \in Workers : AddWorktree(w) /\ p = pReq[w].operation.spec.path
    BY <1>2, DestinationTaken
  <2> QED BY <2>1, TakenByJournal DEF ProvisionersInv
<1> QED BY <1>1, <1>2

LEMMA InitCheckouts == Init => CheckoutsInv
BY DEF Init, RuntimeInit, CheckoutsInv, NoForgottenCheckout, DestinationFree,
       DismissalFree, KnownProof, AbsenceKnown, Idle, Knowing, CleanupDriving

\* CheckoutsInv holds always, as long as only the daemon adds and removes worktrees.
THEOREM CheckoutsConsistent ==
  ASSUME DaemonOwnsCheckouts
  PROVE  Spec => []CheckoutsInv
<1>1. TypeOK /\ StoreInv /\ ProvisionersInv /\ CheckoutsInv /\ TypeOK' /\ [Next]_vars
        => CheckoutsInv'
  <2> SUFFICES ASSUME TypeOK, StoreInv, ProvisionersInv, CheckoutsInv, TypeOK',
                      [Next]_vars
               PROVE  CheckoutsInv'
    OBVIOUS
  <2>1. \A w \in Workers : /\ DismissalFree(pReq[w])'
                           /\ KnownProof(cReq[w])' /\ AbsenceKnown(cReq[w])'
    BY DismissalFreeKept, KnownProofKept, AbsenceKept DEF ProvisionersInv
  <2> QED BY <2>1, CheckoutsKept DEF CheckoutsInv
<1> QED
  BY <1>1, InitCheckouts, TypeCorrect, StoreConsistent, ProvisionersConsistent, PTL
  DEF Spec

\* As long as only the daemon adds and removes worktrees, every checkout belongs to a
\* binding or to a journal: no crash, timeout, dismissal, late cleanup or lost worker
\* makes the daemon forget one.
THEOREM CheckoutsAreAccounted ==
  ASSUME DaemonOwnsCheckouts
  PROVE  Spec => []NoForgottenCheckout
<1>1. CheckoutsInv => NoForgottenCheckout
  BY DEF CheckoutsInv
<1> QED BY <1>1, CheckoutsConsistent, PTL

-----------------------------------------------------------------------------
(* What a Reserved cleanup journal says of its checkout *)

OneClient == \A c, d \in Clients : c = d

Stands(p) == dir[p] = "present" /\ reg[p] # None

\* A journal, or none, under which nothing has been removed: it is reserved, or Git
\* refused the safe removal that it prepared.
Untouched(o) ==
  \/ o = None
  \/ o.stage = "reserved"
  \/ o.stage = "removePrepared" /\ o.mode = "safe" /\ o.failure = "contentAppeared"

BindingsStand ==
  \A t \in Tasks :
    proof[t] # None /\ Untouched(clean[t]) => Stands(proof[t].spec.path)

\* A journal whose checkout is about to be bound has one.
AddedStands ==
  /\ \A t \in Tasks :
       prov[t] # None /\ prov[t].stage = "worktreeAdded" => Stands(prov[t].spec.path)
  /\ \A w \in Workers :
       pReq[w].phase = "apply" /\ pReq[w].result = "worktreeAdded" =>
         pReq[w].operation.stage # "bindingCommitted" /\ Stands(pReq[w].operation.spec.path)

\* A removal is under way, or Git refused it and the refusal is not applied yet.
Removing(r) ==
  \/ r.phase \in {"remove", "deregister"}
  \/ r.phase = "applyRemoval" /\ r.result = "contentChanged"

\* Then its intent is on record for the current proof, and Git still has the checkout.
RemovalSound(r) ==
  LET t == r.task  p == r.proof.spec.path
  IN  Removing(r) =>
        /\ proof[t] = r.proof /\ r.operation.baseline.path = p
        /\ clean[t] # None /\ clean[t].stage = "removePrepared"
        /\ clean[t].failure # "contentAppeared" /\ clean[t].mode = r.operation.mode
        /\ reg[p] # None
        /\ r.phase # "deregister" => dir[p] = "present"

\* What a request saw of the checkout is so for as long as the proof is on record.
FactsHold(r) ==
  LET i == r.intent  p == r.intent.proof.spec.path
  IN  r.phase = "begin" /\ proof[i.task] = i.proof =>
        r.facts.path = dir[p] /\ r.facts.registered = (reg[p] # None)

\* The workers of the recovery scheduler only look.
RecoveryLooks ==
  \A t \in Tasks : cReq[t].phase \in {"idle", "revalidate", "applyObservation"}

IntactInv ==
  /\ BindingsStand /\ AddedStands /\ RecoveryLooks
  /\ \A w \in Workers : RemovalSound(cReq[w]) /\ FactsHold(cReq[w])
  /\ \A p \in Paths : content[p] # {} => dir[p] = "present"

-----------------------------------------------------------------------------
(* What a step does to a checkout, to the cleanup journals and to their requests *)

\* Checkouts change by the user's work in them, by git worktree add of a journal's
\* worker and by the removal of a cleanup.
LEMMA GitMoves ==
  ASSUME DaemonOwnsCheckouts, [Next]_vars
  PROVE  \/ UNCHANGED <<dir, reg, content>>
         \/ \E q \in Paths : UserEdits(q) \/ UserSwitches(q)
         \/ \E w \in Workers : AddWorktree(w) \/ RemoveWorkingTree(w) \/ Deregister(w)
<1>1. UNCHANGED git => UNCHANGED <<dir, reg, content>>
  BY DEF git
<1>2. CASE UserNext
  <2>1. ASSUME NEW q \in Paths
        PROVE  ~UserChangesDirectory(q) /\ ~UserChangesWorktree(q)
    BY DEF UserChangesDirectory, UserChangesWorktree, UserStep, DaemonOwnsCheckouts
  <2>2. ASSUME NEW b \in Branches,
               UserCreatesBranch(b) \/ UserMovesBranch(b) \/ UserDeletesBranch(b)
        PROVE  UNCHANGED <<dir, reg, content>>
    BY <2>2 DEF UserCreatesBranch, UserMovesBranch, UserDeletesBranch
  <2> QED BY <1>2, <2>1, <2>2 DEF UserNext
<1>3. CASE ProvisioningNext /\ ~\E w \in Workers : AddWorktree(w)
  <2>1. UNCHANGED <<dir, reg, content>>
    BY <1>3
    DEF ProvisioningNext, ProvisioningStartup, PlanProvisioning, PlanDismissal,
        ObserveProvisioning, EndRequest, StartProvisioning, RetryProvisioning, Attempt,
        ObserveDismissal, CompleteDismissal, LoseWorker, ExecuteStep, CreateBranch,
        VerifyWorktree, CheckRollback, DeleteCreatedRef, ApplyStep, ApplyAdvance,
        ApplyFailure, ApplyRollback, ApplyCommit, ApplyRefusedCommit, CommitCrash,
        CommitBinding, ReconcileCommitted, ResumeProvisioning, ProvisioningReconciled,
        OnlyRequest, OnlyJournal, git
  <2> QED BY <2>1
<1>4. CASE CleanupNext /\ ~\E w \in Workers : RemoveWorkingTree(w) \/ Deregister(w)
  <2>1. ASSUME NEW w, NEW t, NEW o, CompleteCleanup(w, t, o) \/ CompleteCrash(t, o)
        PROVE  UNCHANGED git
    BY <2>1 DEF CompleteCleanup, CompleteCrash, ClearBinding
  <2>2. ASSUME \/ \E c \in Clients : BeginClears(c)
               \/ \E w \in Workers : ApplyCompletion(w)
        PROVE  UNCHANGED git
    BY <2>1, <2>2 DEF BeginClears, ApplyCompletion
  <2>3. ASSUME NEW c \in Clients,
               \/ \E t \in Tasks, op \in OpIds, mode \in CleanupModes,
                     acks \in SUBSET ContentKinds : PlanCleanup(c, t, op, mode, acks)
               \/ \E t \in Tasks : PlanFinalize(c, t)
               \/ ObserveCleanup(c) \/ EndCleanupRequest(c) \/ Finalize(c)
               \/ BeginAttention(c) \/ BeginCleanup(c) \/ RetryCleanup(c)
        PROVE  UNCHANGED git
    BY <2>3
    DEF PlanCleanup, PlanFinalize, ObserveCleanup, EndCleanupRequest, Finalize,
        BeginAttention, BeginCleanup, RetryCleanup, OnlyCleanupRequest,
        OnlyCleanupJournal
  <2>4. ASSUME NEW w \in Workers,
               \/ Revalidate(w) \/ ApplyNothing(w) \/ MarkAttention(w) \/ ApplyRefusal(w)
               \/ PrepareRemoval(w) \/ ApplyRemoval(w) \/ LoseCleanupWorker(w)
               \/ VerifiedCrash(w)
        PROVE  UNCHANGED git
    BY <2>4
    DEF Revalidate, ApplyNothing, MarkAttention, ApplyRefusal, PrepareRemoval,
        ApplyRemoval, LoseCleanupWorker, VerifiedCrash, OnlyCleanupRequest,
        OnlyCleanupJournal
  <2>5. CASE CleanupStartup \/ \E q \in Paths : LaunchSession(q) \/ SessionExits(q)
    BY <1>1, <2>5
    DEF CleanupStartup, ReconcileCleanup, PlanRecovery, LaunchSession, SessionExits
  <2> QED BY <1>1, <1>4, <2>2, <2>3, <2>4, <2>5 DEF CleanupNext, CleanupStep
<1>5. CASE \/ Crash \/ Restart \/ UNCHANGED vars
           \/ \E t \in Tasks : ReleaseTaskBranch(t)
                               \/ \E b \in Branches : BindTaskBranch(t, b)
  BY <1>1, <1>5 DEF Crash, Restart, ReleaseTaskBranch, BindTaskBranch, vars
<1> QED BY <1>2, <1>3, <1>4, <1>5 DEF Next

SameAt(p) == dir'[p] = dir[p] /\ (reg'[p] = None <=> reg[p] = None)

\* A checkout comes with git worktree add of a journal's worker and goes with the
\* removal of a cleanup.
LEMMA CheckoutMoves ==
  ASSUME TypeOK, DaemonOwnsCheckouts, [Next]_vars, NEW p \in Paths
  PROVE  \/ SameAt(p)
         \/ \E w \in Workers : AddWorktree(w) /\ p = pReq[w].operation.spec.path
         \/ \E w \in Workers : /\ RemoveWorkingTree(w) \/ Deregister(w)
                               /\ p = cReq[w].operation.baseline.path
<1>1. CASE UNCHANGED <<dir, reg>>
  BY <1>1 DEF SameAt
<1>2. ASSUME NEW w \in Workers, RemoveWorkingTree(w) \/ Deregister(w)
      PROVE  SameAt(p) \/ p = cReq[w].operation.baseline.path
  <2> DEFINE q == cReq[w].operation.baseline.path
  <2>1. \/ UNCHANGED <<dir, reg>>
        \/ dir' = [dir EXCEPT ![q] = "absent"] /\ UNCHANGED reg
        \/ reg' = [reg EXCEPT ![q] = None] /\ UNCHANGED dir
    BY <1>2 DEF RemoveWorkingTree, Deregister
  <2> QED BY <2>1 DEF SameAt, TypeOK, GitTypeOK
<1>3. ASSUME NEW w \in Workers, AddWorktree(w)
      PROVE  SameAt(p) \/ p = pReq[w].operation.spec.path
  <2> DEFINE q == pReq[w].operation.spec.path
  <2>1. /\ dir' = dir \/ dir' = [dir EXCEPT ![q] = "present"]
        /\ reg' = reg \/ \E b : reg' = [reg EXCEPT ![q] = b]
    BY <1>3 DEF AddWorktree
  <2> QED BY <2>1 DEF SameAt, TypeOK, GitTypeOK
<1>4. ASSUME NEW q \in Paths, UserSwitches(q)
      PROVE  SameAt(p)
  <2>1. PICK b \in Branches \cup {Detached} : /\ reg[q] # None /\ UNCHANGED dir
                                             /\ reg' = [reg EXCEPT ![q] = b]
    BY <1>4 DEF UserSwitches
  <2>2. b # None
    BY NamesAssumption
  <2> QED BY <2>1, <2>2 DEF SameAt, TypeOK, GitTypeOK
<1>5. ASSUME NEW q \in Paths, UserEdits(q)
      PROVE  UNCHANGED <<dir, reg>>
  BY <1>5 DEF UserEdits
<1> QED BY <1>1, <1>2, <1>3, <1>4, <1>5, GitMoves

\* A cleanup request ends, looks or looks again, or a client's request removes.
RequestStep(w) ==
  \/ cReq'[w] = cReq[w]
  \/ cReq'[w].phase \in {"idle", "revalidate", "applyObservation"}
  \/ w \in Clients /\ cReq'[w].phase \in {"observe", "finalize"}
  \/ w \in Clients /\ (ObserveCleanup(w) \/ PrepareRemoval(w))
  \/ RemoveWorkingTree(w) \/ Deregister(w)

\* The request of w takes a step, and the others wait.
LEMMA OneSteps ==
  ASSUME TypeOK, NEW w \in Workers, NEW r, CTo(w, r), cReq'[w] = r => RequestStep(w)
  PROVE  \A v \in Workers : RequestStep(v)
BY CToKeeps DEF RequestStep

LEMMA EndsOrLooks ==
  ASSUME TypeOK, NEW w \in Workers, NEW r, CTo(w, r),
         r.phase \in {"idle", "revalidate", "applyObservation"}
  PROVE  \A v \in Workers : RequestStep(v)
BY OneSteps DEF RequestStep

LEMMA RequestSteps ==
  ASSUME TypeOK, [Next]_vars
  PROVE  \A w \in Workers : RequestStep(w)
<1>1. CASE UNCHANGED cReq
  BY <1>1 DEF RequestStep
<1>2. CASE DaemonDies
  BY <1>2 DEF DaemonDies, RequestStep, Idle
<1>3. Idle.phase = "idle"
  BY DEF Idle
<1>4. ASSUME NEW w \in Workers, CTo(w, Idle)
      PROVE  \A v \in Workers : RequestStep(v)
  BY <1>3, <1>4, EndsOrLooks
<1>5. ASSUME NEW w \in Workers, NEW t, NEW o, NEW pf, Revalidating(w, t, o, pf)
      PROVE  \A v \in Workers : RequestStep(v)
  BY <1>5, EndsOrLooks DEF Revalidating
<1>6. CASE ProvisioningNext
  <2>1. UNCHANGED cReq \/ DaemonDies
    BY <1>6
    DEF ProvisioningNext, ProvisioningStartup, PlanProvisioning, PlanDismissal,
        ObserveProvisioning, EndRequest, StartProvisioning, RetryProvisioning, Attempt,
        ObserveDismissal, CompleteDismissal, LoseWorker, ExecuteStep, CreateBranch,
        AddWorktree, VerifyWorktree, CheckRollback, DeleteCreatedRef, ApplyStep,
        ApplyAdvance, ApplyFailure, ApplyRollback, ApplyCommit, ApplyRefusedCommit,
        CommitCrash, ReconcileCommitted, ResumeProvisioning, ProvisioningReconciled,
        OnlyRequest, OnlyJournal, OnlyGit
  <2> QED BY <1>1, <1>2, <2>1
<1>7. ASSUME NEW c \in Clients,
             \/ EndCleanupRequest(c) \/ Finalize(c) \/ BeginAttention(c)
             \/ BeginCleanup(c) \/ RetryCleanup(c) \/ BeginClears(c)
      PROVE  \A v \in Workers : RequestStep(v)
  <2>1. c \in Workers
    BY DEF Workers
  <2>2. \/ CTo(c, Idle) \/ DaemonDies
        \/ \E t, o, pf : Revalidating(c, t, o, pf)
    BY <1>7 DEF EndCleanupRequest, Finalize, BeginAttention, BeginCleanup, RetryCleanup,
                BeginClears, CompleteCleanup, CompleteCrash
  <2> QED BY <1>2, <1>4, <1>5, <2>1, <2>2
<1>8. ASSUME NEW c \in Clients, NEW t \in Tasks,
             \/ \E op \in OpIds, mode \in CleanupModes, acks \in SUBSET ContentKinds :
                  PlanCleanup(c, t, op, mode, acks)
             \/ PlanFinalize(c, t)
      PROVE  \A v \in Workers : RequestStep(v)
  <2>1. c \in Workers
    BY DEF Workers
  <2>2. ASSUME NEW r, CTo(c, r), r.phase \in {"observe", "finalize"}
        PROVE  \A v \in Workers : RequestStep(v)
    BY <2>1, <2>2, OneSteps DEF RequestStep
  <2>3. CASE PlanFinalize(c, t)
    BY <2>2, <2>3 DEF PlanFinalize
  <2>4. ASSUME NEW op, NEW mode, NEW acks, PlanCleanup(c, t, op, mode, acks)
        PROVE  \A v \in Workers : RequestStep(v)
    <3>1. PICK i : CTo(c, [phase |-> "observe", intent |-> i])
      BY <2>4 DEF PlanCleanup
    <3> QED BY <2>2, <3>1
  <2> QED BY <1>8, <2>3, <2>4
<1>9. ASSUME NEW c \in Clients, ObserveCleanup(c)
      PROVE  \A v \in Workers : RequestStep(v)
  <2>1. c \in Workers /\ \E r : CTo(c, r)
    BY <1>9 DEF Workers, ObserveCleanup
  <2> QED BY <1>9, <2>1, OneSteps DEF RequestStep
<1>10. ASSUME NEW w \in Workers,
              \/ ApplyNothing(w) \/ MarkAttention(w) \/ ApplyRefusal(w)
              \/ ApplyCompletion(w) \/ ApplyRemoval(w) \/ VerifiedCrash(w)
              \/ LoseCleanupWorker(w)
       PROVE  \A v \in Workers : RequestStep(v)
  <2>1. \/ CTo(w, Idle) \/ DaemonDies
        \/ \E t, o, pf : Revalidating(w, t, o, pf)
    BY <1>10 DEF ApplyNothing, MarkAttention, ApplyRefusal, ApplyCompletion, ApplyRemoval,
                 VerifiedCrash, LoseCleanupWorker, CompleteCleanup, CompleteCrash
  <2> QED BY <1>2, <1>4, <1>5, <2>1
<1>11. ASSUME NEW w \in Workers, Revalidate(w)
       PROVE  \A v \in Workers : RequestStep(v)
  <2>1. PICK r : CTo(w, r) /\ r.phase = "applyObservation"
    BY <1>11 DEF Revalidate
  <2> QED BY <2>1, EndsOrLooks
<1>12. ASSUME NEW w \in Workers, PrepareRemoval(w)
       PROVE  \A v \in Workers : RequestStep(v)
  <2>1. CASE w \in Tasks
    BY <1>4, <1>12, <2>1 DEF PrepareRemoval
  <2>2. CASE w \in Clients
    <3>1. \E r : CTo(w, r)
      BY <1>12 DEF PrepareRemoval
    <3> QED BY <1>12, <2>2, <3>1, OneSteps DEF RequestStep
  <2> QED BY <2>1, <2>2 DEF Workers
<1>13. ASSUME NEW w \in Workers, RemoveWorkingTree(w) \/ Deregister(w)
       PROVE  \A v \in Workers : RequestStep(v)
  <2>1. \E r : CTo(w, r)
    BY <1>13 DEF RemoveWorkingTree, Deregister, RemovalOutcome
  <2> QED BY <1>13, <2>1, OneSteps DEF RequestStep
<1>14. CASE PlanRecovery
  <2>1. ASSUME NEW w \in Workers, cReq'[w] # cReq[w]
        PROVE  cReq'[w].phase = "revalidate"
    BY <1>14, <2>1 DEF PlanRecovery
  <2> QED BY <2>1 DEF RequestStep
<1>15. CASE \/ ReconcileCleanup \/ \E p \in Paths : LaunchSession(p) \/ SessionExits(p)
            \/ UNCHANGED vars \/ UserNext \/ Restart
            \/ \E t \in Tasks : ReleaseTaskBranch(t)
                                \/ \E b \in Branches : BindTaskBranch(t, b)
  <2>1. UNCHANGED cReq
    BY <1>15
    DEF ReconcileCleanup, LaunchSession, SessionExits, vars, UserNext, UserCreatesBranch,
        UserMovesBranch, UserDeletesBranch, UserEdits, UserSwitches,
        UserChangesDirectory, UserChangesWorktree, UserStep, Restart, ReleaseTaskBranch,
        BindTaskBranch
  <2> QED BY <1>1, <2>1
<1>16. CASE CleanupNext
  BY <1>7, <1>8, <1>9, <1>10, <1>11, <1>12, <1>13, <1>14, <1>15, <1>16
  DEF CleanupNext, CleanupStep, CleanupStartup
<1>17. CASE Crash
  BY <1>2, <1>17 DEF Crash
<1> QED BY <1>6, <1>15, <1>16, <1>17 DEF Next

\* The steps that write a proof or a cleanup journal.
JournalStep ==
  \/ UNCHANGED <<proof, clean>>
  \/ \E w \in Workers : ApplyCommit(w) \/ CommitCrash(w)
  \/ \E c \in Clients : \/ Finalize(c) \/ BeginAttention(c) \/ BeginCleanup(c)
                       \/ RetryCleanup(c) \/ BeginClears(c)
  \/ \E w \in Workers : \/ MarkAttention(w) \/ ApplyRefusal(w) \/ PrepareRemoval(w)
                       \/ ApplyCompletion(w) \/ ApplyRemoval(w) \/ VerifiedCrash(w)
  \/ ReconcileCleanup

LEMMA JournalSteps ==
  ASSUME [Next]_vars
  PROVE  JournalStep
<1>1. CASE ProvisioningNext /\ ~\E w \in Workers : ApplyCommit(w) \/ CommitCrash(w)
  <2>1. UNCHANGED <<proof, clean>>
    BY <1>1
    DEF ProvisioningNext, ProvisioningStartup, PlanProvisioning, PlanDismissal,
        ObserveProvisioning, EndRequest, StartProvisioning, RetryProvisioning, Attempt,
        ObserveDismissal, CompleteDismissal, LoseWorker, ExecuteStep, CreateBranch,
        AddWorktree, VerifyWorktree, CheckRollback, DeleteCreatedRef, ApplyStep,
        ApplyAdvance, ApplyFailure, ApplyRollback, ApplyRefusedCommit,
        ReconcileCommitted, ResumeProvisioning, ProvisioningReconciled,
        OnlyRequest, OnlyJournal, OnlyGit, store
  <2> QED BY <2>1 DEF JournalStep
<1>2. ASSUME NEW c \in Clients,
             \/ \E t \in Tasks, op \in OpIds, mode \in CleanupModes,
                   acks \in SUBSET ContentKinds : PlanCleanup(c, t, op, mode, acks)
             \/ \E t \in Tasks : PlanFinalize(c, t)
             \/ ObserveCleanup(c) \/ EndCleanupRequest(c)
      PROVE  UNCHANGED <<proof, clean>>
  BY <1>2 DEF PlanCleanup, PlanFinalize, ObserveCleanup, EndCleanupRequest,
              OnlyCleanupRequest, store
<1>3. ASSUME NEW w \in Workers,
             \/ Revalidate(w) \/ ApplyNothing(w) \/ RemoveWorkingTree(w) \/ Deregister(w)
             \/ LoseCleanupWorker(w)
      PROVE  UNCHANGED <<proof, clean>>
  BY <1>3 DEF Revalidate, ApplyNothing, RemoveWorkingTree, Deregister, LoseCleanupWorker,
              OnlyCleanupRequest, OnlyCleanupGit, store
<1>4. CASE \/ PlanRecovery \/ \E p \in Paths : LaunchSession(p) \/ SessionExits(p)
           \/ UNCHANGED vars \/ UserNext \/ Crash \/ Restart
           \/ \E t \in Tasks : ReleaseTaskBranch(t)
                               \/ \E b \in Branches : BindTaskBranch(t, b)
  <2>1. UNCHANGED <<proof, clean>>
    BY <1>4
    DEF PlanRecovery, LaunchSession, SessionExits, vars, store, UserNext,
        UserCreatesBranch, UserMovesBranch, UserDeletesBranch, UserEdits, UserSwitches,
        UserChangesDirectory, UserChangesWorktree, UserStep, Crash, Restart,
        ReleaseTaskBranch, BindTaskBranch
  <2> QED BY <2>1 DEF JournalStep
<1>5. CASE CleanupNext
  BY <1>2, <1>3, <1>4, <1>5 DEF CleanupNext, CleanupStep, CleanupStartup, JournalStep
<1>6. CASE \E w \in Workers : ApplyCommit(w) \/ CommitCrash(w)
  BY <1>6 DEF JournalStep
<1> QED BY <1>1, <1>4, <1>5, <1>6 DEF Next

-----------------------------------------------------------------------------
(* Bindings whose checkout has not been touched *)

\* A journal that says that nothing has been removed either said so before, or is
\* written when the checkout stands.
Justified(t) ==
  proof'[t] # None /\ Untouched(clean'[t]) =>
    \/ proof'[t] = proof[t] /\ (Untouched(clean[t]) \/ Stands(proof[t].spec.path))
    \/ /\ prov[t] # None /\ prov[t].stage = "worktreeAdded"
       /\ proof'[t].spec = prov[t].spec /\ UNCHANGED <<dir, reg>>

\* Facts that let a cleanup begin are those of a checkout that stands.
LEMMA AcceptedStands ==
  ASSUME TypeOK, NEW c \in Clients, FactsHold(cReq[c]),
         BeginAccepted(c), ~BothAbsent(cReq[c].facts)
  PROVE  Stands(proof[cReq[c].intent.task].spec.path)
<1> DEFINE f == cReq[c].facts
<1>1. cReq[c].phase = "begin" /\ proof[cReq[c].intent.task] = cReq[c].intent.proof
  BY DEF BeginAccepted, BeginReady, TupleCurrent
<1>2. f.path \in PathStates /\ f.registered \in BOOLEAN
  BY <1>1, BeginFacts DEF Facts
<1>3. f.path = "present" /\ f.registered
  BY <1>2 DEF BeginAccepted, NeedsAttention, BothAbsent, PathStates
<1> QED BY <1>1, <1>3 DEF FactsHold, Stands

\* Marking a journal, or trying it again, does not make it untouched.
LEMMA MarkedUntouched ==
  ASSUME NEW o \in CleanOp
  PROVE  /\ Untouched(Attention(o)) => Untouched(o)
         /\ Untouched(RetriedCleanup(o)) => Untouched(o)
<1>1. Attention(o) # None /\ RetriedCleanup(o) # None
  BY AttentionTyped, RecordAssumption DEF RetriedCleanup, CleanOp, CleanStages
<1>2. None # "contentAppeared"
  BY RecordAssumption DEF CleanFailures
<1> QED BY <1>1, <1>2 DEF Untouched, Attention, RetriedCleanup, CleanOp

\* The journals that a client's request writes.
LEMMA BeginsJustified ==
  ASSUME TypeOK, StoreInv, IntactInv, NEW t \in Tasks, NEW c \in Clients,
         \/ Finalize(c) \/ BeginAttention(c) \/ BeginCleanup(c) \/ RetryCleanup(c)
         \/ BeginClears(c)
  PROVE  Justified(t)
<1> DEFINE i == cReq[c].intent
<1>1. clean[t] \in CleanOp \cup {None} /\ c \in Workers
  BY DEF TypeOK, StoreTypeOK, Workers
<1>2. CASE Finalize(c)
  <2>1. UNCHANGED proof
    BY <1>2 DEF Finalize, OnlyCleanupJournal
  <2>2. CASE cReq[c].task = t
    <3>1. clean[t] # None /\ clean[t].stage = "bindingCleared"
      BY <1>2, <2>2 DEF Finalize
    <3>2. proof[t] = None
      BY <3>1, NamesAssumption
      DEF StoreInv, CleanupJournalSound, ProofMatchesBinding, TypeOK, StoreTypeOK,
          ManagedProof, WorktreeSpec
    <3> QED BY <2>1, <3>2 DEF Justified
  <2>3. CASE cReq[c].task # t
    <3>1. clean'[t] = clean[t]
      BY <1>2, <2>3 DEF Finalize, TypeOK, StoreTypeOK
    <3> QED BY <2>1, <3>1 DEF Justified
  <2> QED BY <2>2, <2>3
<1>3. CASE BeginAttention(c)
  <2>1. UNCHANGED proof
    BY <1>3 DEF BeginAttention, OnlyCleanupJournal
  <2>2. \/ clean'[t] = clean[t]
        \/ clean[t] = None
        \/ clean[t] # None /\ clean'[t] = Attention(clean[t])
    BY <1>3 DEF BeginAttention, Journal, StoreStarts, StoreCurrent, TypeOK, StoreTypeOK
  <2>3. Untouched(clean'[t]) => Untouched(clean[t])
    BY <1>1, <2>2, MarkedUntouched DEF Untouched
  <2> QED BY <2>1, <2>3 DEF Justified
<1>4. CASE BeginCleanup(c)
  <2>1. UNCHANGED proof
    BY <1>4 DEF BeginCleanup, OnlyCleanupJournal
  <2>2. Stands(proof[i.task].spec.path)
    BY <1>1, <1>4, AcceptedStands DEF BeginCleanup, IntactInv
  <2>3. i.task = t \/ clean'[t] = clean[t]
    BY <1>4 DEF BeginCleanup, Journal, TypeOK, StoreTypeOK
  <2> QED BY <2>1, <2>2, <2>3 DEF Justified
<1>5. CASE RetryCleanup(c)
  <2>1. UNCHANGED proof
    BY <1>5 DEF RetryCleanup, OnlyCleanupJournal
  <2>2. \/ clean'[t] = clean[t]
        \/ clean[t] # None /\ clean'[t] = RetriedCleanup(clean[t])
    BY <1>5 DEF RetryCleanup, Journal, StoreCurrent, TypeOK, StoreTypeOK
  <2>3. Untouched(clean'[t]) => Untouched(clean[t])
    BY <1>1, <2>2, MarkedUntouched
  <2> QED BY <2>1, <2>3 DEF Justified
<1>6. CASE BeginClears(c)
  <2>1. PICK o, left : ClearBinding(i.task, o, left)
    BY <1>6 DEF BeginClears, CompleteCleanup, CompleteCrash
  <2>2. proof'[t] = None \/ (proof'[t] = proof[t] /\ clean'[t] = clean[t])
    BY <2>1 DEF ClearBinding, TypeOK, StoreTypeOK
  <2> QED BY <2>2 DEF Justified
<1> QED BY <1>2, <1>3, <1>4, <1>5, <1>6

\* The journals that a worker or the startup writes.
LEMMA AppliesJustified ==
  ASSUME TypeOK, StoreInv, IntactInv, NEW t \in Tasks,
         \/ \E w \in Workers : \/ MarkAttention(w) \/ ApplyRefusal(w) \/ PrepareRemoval(w)
                              \/ ApplyCompletion(w) \/ ApplyRemoval(w) \/ VerifiedCrash(w)
         \/ ReconcileCleanup
  PROVE  Justified(t)
<1>1. /\ clean[t] \in CleanOp \cup {None}
      /\ clean[t] # None => clean[t].stage \in CleanStages
      /\ None # "contentAppeared"
  BY RecordAssumption DEF TypeOK, StoreTypeOK, CleanOp, CleanFailures
<1>2. ASSUME NEW w \in Workers, MarkAttention(w) \/ ApplyRefusal(w)
      PROVE  Justified(t)
  <2>1. UNCHANGED proof
    BY <1>2 DEF MarkAttention, ApplyRefusal, OnlyCleanupJournal
  <2>2. \/ clean'[t] = clean[t]
        \/ clean[t] # None /\ clean'[t] = Attention(clean[t])
        \/ clean[t].stage = "reserved"
    BY <1>2 DEF MarkAttention, ApplyRefusal, ReadyToApply, Applying, Journal, TypeOK,
                StoreTypeOK
  <2>3. Untouched(clean'[t]) => Untouched(clean[t])
    BY <1>1, <2>2, MarkedUntouched DEF Untouched
  <2> QED BY <2>1, <2>3 DEF Justified
<1>3. ASSUME NEW w \in Workers, PrepareRemoval(w) \/ VerifiedCrash(w)
      PROVE  Justified(t)
  <2>1. UNCHANGED proof
    BY <1>3 DEF PrepareRemoval, VerifiedCrash, OnlyCleanupJournal
  <2>2. CASE clean'[t] = clean[t]
    BY <2>1, <2>2 DEF Justified
  <2>3. CASE clean'[t] # clean[t]
    <3> DEFINE o == clean[t]
    <3>1. /\ cReq[w].task = t /\ o # None
          /\ \/ clean'[t] = [o EXCEPT !.stage = "removePrepared", !.failure = None]
             \/ clean'[t] = [o EXCEPT !.stage = "removalVerified", !.failure = None]
      BY <1>3, <2>3 DEF PrepareRemoval, VerifiedCrash, Verified, ReservedAccepted,
                        ReadyToApply, Applying, Journal, TypeOK, StoreTypeOK
    <3>2. o \in CleanOp
      BY <1>1, <3>1
    <3>3. /\ clean'[t] \in CleanOp /\ clean'[t].failure = None
          /\ clean'[t].stage \in {"removePrepared", "removalVerified"}
      BY <3>1, <3>2 DEF CleanOp, CleanStages
    <3>4. ~Untouched(clean'[t])
      BY <1>1, <3>3, RecordAssumption DEF Untouched
    <3> QED BY <3>4 DEF Justified
  <2> QED BY <2>2, <2>3
<1>4. ASSUME NEW w \in Workers, ApplyCompletion(w)
      PROVE  Justified(t)
  <2>1. PICK u, o, left : ClearBinding(u, o, left)
    BY <1>4 DEF ApplyCompletion, CompleteCleanup, CompleteCrash
  <2>2. proof'[t] = None \/ (proof'[t] = proof[t] /\ clean'[t] = clean[t])
    BY <2>1 DEF ClearBinding, TypeOK, StoreTypeOK
  <2> QED BY <2>2 DEF Justified
<1>5. ASSUME NEW w \in Workers, ApplyRemoval(w)
      PROVE  Justified(t)
  <2>1. UNCHANGED proof
    BY <1>5 DEF ApplyRemoval, OnlyCleanupJournal
  <2>2. CASE clean'[t] = clean[t]
    BY <2>1, <2>2 DEF Justified
  <2>3. CASE clean'[t] # clean[t]
    <3> DEFINE o == clean[t]
               r == cReq[w]
    <3>1. /\ r.phase = "applyRemoval" /\ r.task = t
          /\ o # None /\ o.stage = "removePrepared"
          /\ clean'[t] = [o EXCEPT !.failure = FailureOf(r.result)]
      BY <1>5, <2>3 DEF ApplyRemoval, Journal, TypeOK, StoreTypeOK
    <3>2. o \in CleanOp
      BY <1>1, <3>1
    <3>3. /\ clean'[t] # None /\ clean'[t].stage = "removePrepared"
          /\ clean'[t].failure = FailureOf(r.result)
      <4>1. FailureOf(r.result) \in CleanFailures
        BY DEF FailureOf, CleanFailures
      <4>2. clean'[t] \in CleanOp
        BY <3>1, <3>2, <4>1 DEF CleanOp
      <4> QED BY <3>1, <3>2, <4>2, RecordAssumption DEF CleanOp
    <3>4. CASE r.result = "contentChanged"
      <4>1. RemovalSound(r) /\ Removing(r)
        BY <3>1, <3>4 DEF IntactInv, Removing
      <4>2. Stands(proof[t].spec.path)
        BY <3>1, <4>1 DEF RemovalSound, Stands
      <4> QED BY <2>1, <4>2 DEF Justified
    <3>5. CASE r.result # "contentChanged"
      <4>1. FailureOf(r.result) # "contentAppeared"
        BY <3>5 DEF FailureOf
      <4> QED BY <3>3, <4>1 DEF Justified, Untouched
    <3> QED BY <3>4, <3>5
  <2> QED BY <2>2, <2>3
<1>6. CASE ReconcileCleanup
  <2>1. UNCHANGED proof /\ clean'[t] = ReconciledCleanup(t)
    BY <1>6 DEF ReconcileCleanup
  <2>2. clean[t] # None /\ clean[t].stage = "bindingCleared" => proof[t] = None
    BY NamesAssumption
    DEF StoreInv, CleanupJournalSound, ProofMatchesBinding, TypeOK, StoreTypeOK,
        ManagedProof, WorktreeSpec
  <2>3. \/ clean'[t] = clean[t]
        \/ clean[t] # None /\ clean[t].stage \in {"reserved", "bindingCleared"}
    BY <2>1 DEF ReconciledCleanup
  <2> QED BY <2>1, <2>2, <2>3 DEF Justified, Untouched
<1> QED BY <1>2, <1>3, <1>4, <1>5, <1>6

LEMMA JournalsJustified ==
  ASSUME TypeOK, StoreInv, IntactInv, [Next]_vars, NEW t \in Tasks
  PROVE  Justified(t)
<1>1. ASSUME NEW w \in Workers, ApplyCommit(w) \/ CommitCrash(w)
      PROVE  Justified(t)
  <2> DEFINE u == pReq[w].task
  <2>1. PICK left : CommitBinding(u, left)
    BY <1>1 DEF ApplyCommit, CommitCrash
  <2>2. prov[u] # None /\ prov[u].stage = "worktreeAdded"
    BY <1>1 DEF ApplyCommit, CommitCrash, ReadyToCommit, StillCurrent, CanCommit
  <2>3. CASE t = u
    <3>1. proof'[t].spec = prov[t].spec /\ UNCHANGED <<dir, reg>>
      BY <2>1, <2>3 DEF CommitBinding, git, TypeOK, StoreTypeOK
    <3> QED BY <2>2, <2>3, <3>1 DEF Justified
  <2>4. CASE t # u
    <3>1. proof'[t] = proof[t] /\ clean'[t] = clean[t]
      BY <2>1, <2>4 DEF CommitBinding, TypeOK, StoreTypeOK
    <3> QED BY <3>1 DEF Justified
  <2> QED BY <2>3, <2>4
<1>2. CASE UNCHANGED <<proof, clean>>
  BY <1>2 DEF Justified
<1> QED BY <1>1, <1>2, JournalSteps, BeginsJustified, AppliesJustified DEF JournalStep

\* The path of a binding is held by its Task only.
LEMMA BoundPath ==
  ASSUME TypeOK, StoreInv, NEW t \in Tasks, proof[t] # None
  PROVE  /\ proof[t] \in ManagedProof /\ proof[t].spec.path \in Paths
         /\ task[t].worktree = proof[t].spec.path
         /\ \A u \in Tasks : proof[t].spec.path \in HeldPaths(u) => u = t
<1>1. proof[t] \in ManagedProof /\ proof[t].spec.path \in Paths
  BY DEF TypeOK, StoreTypeOK, ManagedProof, WorktreeSpec
<1>2. task[t].worktree = proof[t].spec.path
  BY DEF StoreInv, ProofMatchesBinding
<1>3. proof[t].spec.path \in HeldPaths(t)
  BY <1>1, <1>2, NamesAssumption DEF HeldPaths
<1> QED BY <1>1, <1>2, <1>3 DEF StoreInv, HoldingsExclusive

\* A removal that is under way is that of a client, and has the path of a binding.
LEMMA RemovalFacts ==
  ASSUME TypeOK, StoreInv, IntactInv, NEW w \in Workers, Removing(cReq[w])
  PROVE  LET r == cReq[w]  t == cReq[w].task  p == cReq[w].proof.spec.path
         IN  /\ w \in Clients /\ t \in Tasks /\ p \in Paths
             /\ r.proof # None /\ proof[t] = r.proof /\ task[t].worktree = p
             /\ r.operation.baseline.path = p
             /\ clean[t] # None /\ clean[t].stage = "removePrepared"
             /\ clean[t].failure # "contentAppeared"
             /\ clean[t].mode = r.operation.mode
             /\ reg[p] # None
             /\ r.phase # "deregister" => dir[p] = "present"
             /\ \A u \in Tasks : p \in HeldPaths(u) => u = t
<1> DEFINE r == cReq[w]
<1>1. w \in Clients
  BY DEF IntactInv, RecoveryLooks, Removing, Workers
<1>2. r.phase \in Knowing /\ TaskOf(r) = r.task /\ ProofOf(r) = r.proof
  BY DEF Removing, Knowing, CleanupDriving, TaskOf, ProofOf
<1>3. r.task \in Tasks /\ r.proof # None /\ r.proof.spec.path \in Paths
  BY <1>2, KnowingFacts
<1>4. RemovalSound(r)
  BY DEF IntactInv
<1>5. proof[r.task] = r.proof
  BY <1>4 DEF RemovalSound
<1> QED BY <1>1, <1>3, <1>4, <1>5, BoundPath DEF RemovalSound

\* A checkout that stands at a held path is lost only to the removal of the binding
\* there, which its journal has on record.
LEMMA LostToRemoval ==
  ASSUME TypeOK, StoreInv, DaemonOwnsCheckouts, IntactInv, [Next]_vars,
         NEW t \in Tasks, NEW p \in Paths, p \in HeldPaths(t), Stands(p), ~Stands(p)'
  PROVE  /\ proof[t] # None /\ task[t].worktree = p
         /\ clean[t] # None /\ clean[t].stage = "removePrepared"
         /\ clean[t].failure # "contentAppeared"
         /\ UNCHANGED <<proof, clean, prov, pReq>>
<1>1. ~SameAt(p)
  BY DEF SameAt, Stands
<1>2. ASSUME NEW w \in Workers, AddWorktree(w), p = pReq[w].operation.spec.path
      PROVE  FALSE
  <2>1. ~DestinationFree(p)
    BY DEF Stands, DestinationFree
  <2>2. UNCHANGED <<dir, reg>>
    BY <1>2, <2>1 DEF AddWorktree
  <2> QED BY <1>1, <2>2 DEF SameAt
<1>3. PICK w \in Workers : /\ RemoveWorkingTree(w) \/ Deregister(w)
                           /\ p = cReq[w].operation.baseline.path
  BY <1>1, <1>2, CheckoutMoves
<1>4. Removing(cReq[w])
  BY <1>3 DEF RemoveWorkingTree, Deregister, Removing
<1>5. t = cReq[w].task
  BY <1>3, <1>4, RemovalFacts
<1>6. UNCHANGED <<proof, clean, prov, pReq>>
  BY <1>3 DEF RemoveWorkingTree, Deregister, OnlyCleanupGit, store
<1> QED BY <1>3, <1>4, <1>5, <1>6, RemovalFacts

LEMMA BindingsStandKept ==
  ASSUME TypeOK, TypeOK', StoreInv, DaemonOwnsCheckouts, IntactInv, [Next]_vars
  PROVE  BindingsStand'
<1> SUFFICES ASSUME NEW t \in Tasks, proof'[t] # None, Untouched(clean'[t])
             PROVE  dir'[proof'[t].spec.path] = "present" /\ reg'[proof'[t].spec.path] # None
  BY DEF BindingsStand, Stands, Untouched
<1>1. Justified(t)
  BY JournalsJustified
<1>2. CASE proof'[t] = proof[t] /\ (Untouched(clean[t]) \/ Stands(proof[t].spec.path))
  <2>1. PICK p \in Paths : p = proof[t].spec.path /\ p = task[t].worktree
    BY <1>2, BoundPath
  <2>2. p \in HeldPaths(t)
    BY <2>1, NamesAssumption DEF HeldPaths
  <2>3. Stands(p)
    BY <1>2, <2>1 DEF IntactInv, BindingsStand
  <2>4. CASE Stands(p)'
    BY <1>2, <2>1, <2>4 DEF Stands
  <2>5. CASE ~Stands(p)'
    BY <2>2, <2>3, <2>5, LostToRemoval DEF Untouched
  <2> QED BY <2>4, <2>5
<1>3. CASE /\ prov[t] # None /\ prov[t].stage = "worktreeAdded"
           /\ proof'[t].spec = prov[t].spec /\ UNCHANGED <<dir, reg>>
  BY <1>3 DEF IntactInv, AddedStands, Stands
<1> QED BY <1>1, <1>2, <1>3 DEF Justified

-----------------------------------------------------------------------------
(* Removals under way *)

\* The checkout of a binding is touched by the removal of a client's request only.
LEMMA BoundSame ==
  ASSUME TypeOK, StoreInv, SingleProvisioner, DaemonOwnsCheckouts, OneClient, IntactInv,
         [Next]_vars, NEW w \in Clients, cReq'[w] = cReq[w],
         NEW t \in Tasks, NEW p \in Paths, task[t].worktree = p
  PROVE  SameAt(p)
<1>1. ASSUME NEW v \in Workers, AddWorktree(v), p = pReq[v].operation.spec.path
      PROVE  FALSE
  <2>1. PICK u \in Tasks : p \in HeldPaths(u) /\ task[u].worktree = None
    BY <1>1, TakenByJournal
  <2>2. p \in HeldPaths(t) /\ p # None
    BY NamesAssumption DEF HeldPaths
  <2> QED BY <2>1, <2>2 DEF StoreInv, HoldingsExclusive
<1>2. ASSUME NEW v \in Workers, RemoveWorkingTree(v) \/ Deregister(v)
      PROVE  FALSE
  <2>1. Removing(cReq[v])
    BY <1>2 DEF RemoveWorkingTree, Deregister, Removing
  <2>2. v = w
    BY <2>1, RemovalFacts DEF OneClient
  <2>3. PICK r : CTo(v, r) /\ r.phase # cReq[v].phase
    <3>1. ASSUME NEW d PROVE /\ [phase |-> "applyRemoval", task |-> cReq[v].task,
                                 operation |-> cReq[v].operation, proof |-> cReq[v].proof,
                                 result |-> d].phase = "applyRemoval"
                             /\ [phase |-> "deregister", task |-> cReq[v].task,
                                 operation |-> cReq[v].operation, proof |-> cReq[v].proof,
                                 deleted |-> d].phase = "deregister"
      OBVIOUS
    <3>2. CASE RemoveWorkingTree(v)
      <4>1. cReq[v].phase = "remove"
        BY <3>2 DEF RemoveWorkingTree
      <4>2. \/ \E d : CTo(v, [phase |-> "applyRemoval", task |-> cReq[v].task,
                              operation |-> cReq[v].operation, proof |-> cReq[v].proof,
                              result |-> d])
            \/ \E d : CTo(v, [phase |-> "deregister", task |-> cReq[v].task,
                              operation |-> cReq[v].operation, proof |-> cReq[v].proof,
                              deleted |-> d])
        BY <3>2 DEF RemoveWorkingTree, RemovalOutcome
      <4> QED BY <3>1, <4>1, <4>2
    <3>3. CASE Deregister(v)
      <4>1. cReq[v].phase = "deregister"
        BY <3>3 DEF Deregister
      <4>2. \E d : CTo(v, [phase |-> "applyRemoval", task |-> cReq[v].task,
                           operation |-> cReq[v].operation, proof |-> cReq[v].proof,
                           result |-> d])
        BY <3>3 DEF Deregister, RemovalOutcome
      <4> QED BY <3>1, <4>1, <4>2
    <3> QED BY <1>2, <3>2, <3>3
  <2> QED BY <2>2, <2>3, CToKeeps
<1> QED BY <1>1, <1>2, CheckoutMoves

\* While a removal is under way its journal and its proof stay on record.
LEMMA RemovalWaits ==
  ASSUME TypeOK, StoreInv, OneClient, CheckoutsInv, IntactInv, [Next]_vars,
         NEW w \in Workers, Removing(cReq[w]), cReq'[w] = cReq[w]
  PROVE  LET t == cReq[w].task
         IN  /\ proof'[t] = proof[t]
             /\ clean'[t] # None /\ clean'[t].stage = "removePrepared"
             /\ clean'[t].failure # "contentAppeared" /\ clean'[t].mode = clean[t].mode
<1> DEFINE t == cReq[w].task
<1>1. /\ w \in Clients /\ t \in Tasks /\ proof[t] = cReq[w].proof
      /\ clean[t] # None /\ clean[t].stage = "removePrepared"
      /\ clean[t].failure # "contentAppeared" /\ reg[proof[t].spec.path] # None
      /\ proof[t] # None
  BY RemovalFacts
<1>2. cReq[w].phase \in {"remove", "deregister", "applyRemoval"}
  BY DEF Removing
<1>3. CASE proof'[t] = proof[t] /\ clean'[t] = clean[t]
  BY <1>1, <1>3
<1>4. ASSUME NEW v \in Workers, ApplyCommit(v) \/ CommitCrash(v)
      PROVE  proof'[t] = proof[t] /\ clean'[t] = clean[t]
  <2>1. CanCommit(pReq[v].task) /\ \E left : CommitBinding(pReq[v].task, left)
    BY <1>4 DEF ApplyCommit, CommitCrash
  <2>2. pReq[v].task # t
    BY <1>1, <2>1 DEF CanCommit
  <2> QED BY <2>1, <2>2 DEF CommitBinding, TypeOK, StoreTypeOK
<1>5. ASSUME NEW c \in Clients,
             \/ Finalize(c) \/ BeginAttention(c) \/ BeginCleanup(c) \/ RetryCleanup(c)
             \/ BeginClears(c)
      PROVE  FALSE
  <2>1. cReq[c].phase \in {"finalize", "begin"}
    BY <1>5 DEF Finalize, BeginAttention, BeginCleanup, RetryCleanup, BeginClears,
                BeginAccepted, BeginReady
  <2> QED BY <1>1, <1>2, <2>1 DEF OneClient
<1>6. ASSUME NEW v \in Workers, MarkAttention(v)
      PROVE  /\ proof'[t] = proof[t]
             /\ clean'[t] # None /\ clean'[t].stage = "removePrepared"
             /\ clean'[t].failure # "contentAppeared" /\ clean'[t].mode = clean[t].mode
  <2>1. clean[t] \in CleanOp
    BY <1>1 DEF TypeOK, StoreTypeOK
  <2>2. Attention(clean[t]) # None
    BY <2>1, AttentionTyped, RecordAssumption
  <2>3. /\ Attention(clean[t]).stage = "removePrepared"
        /\ Attention(clean[t]).failure # "contentAppeared"
        /\ Attention(clean[t]).mode = clean[t].mode
    BY <1>1, <2>1 DEF Attention, CleanOp
  <2>4. clean'[t] \in {clean[t], Attention(clean[t])} /\ UNCHANGED proof
    BY <1>1, <1>6 DEF MarkAttention, Journal, OnlyCleanupJournal, TypeOK, StoreTypeOK
  <2> QED BY <1>1, <2>2, <2>3, <2>4
<1>7. ASSUME NEW v \in Workers, ApplyRefusal(v) \/ PrepareRemoval(v)
      PROVE  proof'[t] = proof[t] /\ clean'[t] = clean[t]
  <2>1. clean[cReq[v].task].stage = "reserved" /\ UNCHANGED proof
    BY <1>7 DEF ApplyRefusal, PrepareRemoval, ReservedAccepted, ReadyToApply,
                OnlyCleanupJournal
  <2>2. cReq[v].task # t
    BY <1>1, <2>1
  <2> QED BY <1>1, <1>7, <2>1, <2>2
          DEF ApplyRefusal, PrepareRemoval, Journal, TypeOK, StoreTypeOK
<1>8. ASSUME NEW v \in Workers, ApplyCompletion(v)
      PROVE  proof'[t] = proof[t] /\ clean'[t] = clean[t]
  <2> DEFINE r == cReq[v]
  <2>1. /\ r.phase = "applyObservation" /\ BothAbsent(r.facts)
        /\ proof[r.task] = r.proof /\ \E o, left : ClearBinding(r.task, o, left)
    BY <1>8
    DEF ApplyCompletion, ReadyToComplete, ReservedAccepted, ReadyToApply, Applying,
        TupleCurrent, PostRemovalMatches, CompleteCleanup, CompleteCrash
  <2>2. DestinationFree(r.proof.spec.path)
    BY <2>1 DEF CheckoutsInv, AbsenceKnown, TaskOf, ProofOf
  <2>3. r.task # t
    BY <1>1, <2>1, <2>2 DEF DestinationFree
  <2> QED BY <1>1, <2>1, <2>3 DEF ClearBinding, TypeOK, StoreTypeOK
<1>9. ASSUME NEW v \in Workers, ApplyRemoval(v)
      PROVE  FALSE
  <2>1. v \in Clients
    BY <1>9 DEF ApplyRemoval, IntactInv, RecoveryLooks, Workers
  <2>2. v = w
    BY <1>1, <2>1 DEF OneClient
  <2>3. cReq[w].phase = "applyRemoval"
    BY <1>9, <2>2 DEF ApplyRemoval
  <2>4. CTo(w, Idle) \/ \E u, o, pf : Revalidating(w, u, o, pf)
    BY <1>9, <2>2 DEF ApplyRemoval
  <2>5. cReq'[w].phase \in {"idle", "revalidate"}
    BY <2>4 DEF CTo, Revalidating, Idle, TypeOK, CleanupTypeOK
  <2> QED BY <2>3, <2>5
<1>10. ASSUME NEW v \in Workers, VerifiedCrash(v)
       PROVE  FALSE
  <2>1. cReq'[w].phase = "idle"
    BY <1>10 DEF VerifiedCrash, DaemonDies, Idle
  <2> QED BY <1>2, <2>1
<1>11. CASE ReconcileCleanup
  BY <1>1, <1>11 DEF ReconcileCleanup, ReconciledCleanup
<1>12. CASE UNCHANGED <<proof, clean>>
  BY <1>1, <1>12
<1> QED BY <1>1, <1>4, <1>5, <1>6, <1>7, <1>8, <1>9, <1>10, <1>11, <1>12, JournalSteps
        DEF JournalStep

LEMMA RemovalKept ==
  ASSUME TypeOK, StoreInv, SingleProvisioner, DaemonOwnsCheckouts, OneClient,
         CheckoutsInv, IntactInv, [Next]_vars, NEW w \in Workers
  PROVE  RemovalSound(cReq[w])'
<1> SUFFICES ASSUME Removing(cReq'[w])
             PROVE  LET r == cReq'[w]  t == cReq'[w].task  p == cReq'[w].proof.spec.path
                    IN  /\ proof'[t] = r.proof /\ r.operation.baseline.path = p
                        /\ clean'[t] # None /\ clean'[t].stage = "removePrepared"
                        /\ clean'[t].failure # "contentAppeared"
                        /\ clean'[t].mode = r.operation.mode
                        /\ reg'[p] # None
                        /\ r.phase # "deregister" => dir'[p] = "present"
  BY DEF RemovalSound, Removing
<1>1. RequestStep(w)
  BY RequestSteps
<1>2. CASE cReq'[w] = cReq[w]
  <2>1. Removing(cReq[w])
    BY <1>2
  <2>2. PICK t \in Tasks, p \in Paths :
          /\ t = cReq[w].task /\ p = cReq[w].proof.spec.path /\ task[t].worktree = p
          /\ w \in Clients /\ proof[t] = cReq[w].proof
          /\ cReq[w].operation.baseline.path = p /\ reg[p] # None
          /\ clean[t].mode = cReq[w].operation.mode
          /\ cReq[w].phase # "deregister" => dir[p] = "present"
    BY <2>1, RemovalFacts
  <2>3. SameAt(p)
    BY <1>2, <2>2, BoundSame
  <2> QED BY <1>2, <2>1, <2>2, <2>3, RemovalWaits DEF SameAt
<1>3. CASE \/ cReq'[w].phase \in {"idle", "revalidate", "applyObservation"}
           \/ cReq'[w].phase \in {"observe", "finalize"}
  BY <1>3 DEF Removing
<1>4. CASE ObserveCleanup(w)
  <2>1. cReq'[w].phase = "begin"
    BY <1>4 DEF ObserveCleanup, CTo, TypeOK, CleanupTypeOK
  <2> QED BY <2>1 DEF Removing
<1>5. CASE w \in Clients /\ PrepareRemoval(w)
  <2> DEFINE t == cReq[w].task
             o == [clean[t] EXCEPT !.stage = "removePrepared", !.failure = None]
  <2>1. /\ cReq[w].phase = "applyObservation" /\ proof[t] = cReq[w].proof
        /\ clean[t] # None /\ clean[t].stage = "reserved"
        /\ Journal(t, o) /\ w \notin Tasks /\ UNCHANGED <<proof, dir, reg>>
    BY <1>5, NamesAssumption
    DEF PrepareRemoval, ReservedAccepted, ReadyToApply, Applying, TupleCurrent,
        OnlyCleanupJournal, git
  <2>2. cReq[w].phase \in Knowing /\ TaskOf(cReq[w]) = t /\ ProofOf(cReq[w]) = proof[t]
    BY <2>1 DEF Knowing, CleanupDriving, TaskOf, ProofOf
  <2>3. t \in Tasks /\ proof[t] # None
    BY <2>2, KnowingFacts
  <2>4. clean[t] \in CleanOp /\ None # "contentAppeared"
    BY <2>1, <2>3, RecordAssumption DEF TypeOK, StoreTypeOK, CleanFailures
  <2>5. /\ o \in CleanOp /\ o.stage = "removePrepared" /\ o.failure = None
        /\ o.baseline = clean[t].baseline /\ o.mode = clean[t].mode
    BY <2>4 DEF CleanOp, CleanStages
  <2>6. clean[t].baseline.path = proof[t].spec.path
    BY <2>1, <2>3, BoundPath DEF StoreInv, CleanupJournalSound, NamesBinding
  <2>7. Stands(proof[t].spec.path)
    BY <2>1, <2>3 DEF IntactInv, BindingsStand, Untouched
  <2>8. clean'[t] = o
    BY <2>1, <2>3 DEF Journal, TypeOK, StoreTypeOK
  <2> HIDE DEF o
  <2>9. cReq'[w] = [phase |-> "remove", task |-> t, operation |-> o, proof |-> proof[t]]
    BY <1>5, <2>1 DEF PrepareRemoval, CTo, o, TypeOK, CleanupTypeOK
  <2>10. o # None
    BY <2>5, RecordAssumption
  <2> QED BY <2>1, <2>4, <2>5, <2>6, <2>7, <2>8, <2>9, <2>10 DEF Stands
<1>6. CASE RemoveWorkingTree(w)
  <2>1. cReq[w].phase = "remove" /\ Removing(cReq[w])
    BY <1>6 DEF RemoveWorkingTree, Removing
  <2>2. UNCHANGED <<proof, clean, reg>>
    BY <1>6 DEF RemoveWorkingTree, OnlyCleanupGit, store
  <2> DEFINE r == cReq[w]
  <2>3. CASE /\ UNCHANGED <<dir, content>>
             /\ \E d : CTo(w, [phase |-> "applyRemoval", task |-> r.task,
                               operation |-> r.operation, proof |-> r.proof, result |-> d])
    <3>1. /\ cReq'[w].task = r.task /\ cReq'[w].operation = r.operation
          /\ cReq'[w].proof = r.proof
      BY <2>3 DEF CTo, TypeOK, CleanupTypeOK
    <3> QED BY <2>1, <2>2, <2>3, <3>1, RemovalFacts
  <2>4. CASE \E d : CTo(w, [phase |-> "deregister", task |-> r.task,
                            operation |-> r.operation, proof |-> r.proof, deleted |-> d])
    <3>1. /\ cReq'[w].task = r.task /\ cReq'[w].operation = r.operation
          /\ cReq'[w].proof = r.proof /\ cReq'[w].phase = "deregister"
      BY <2>4 DEF CTo, TypeOK, CleanupTypeOK
    <3> QED BY <2>1, <2>2, <3>1, RemovalFacts
  <2> QED BY <1>6, <2>3, <2>4 DEF RemoveWorkingTree, RemovalOutcome
<1>7. CASE Deregister(w)
  <2>1. PICK d \in {"ok", "attention", "failed"} : RemovalOutcome(w, d)
    BY <1>7 DEF Deregister
  <2>2. cReq'[w].phase = "applyRemoval" /\ cReq'[w].result = d
    BY <2>1 DEF RemovalOutcome, CTo, TypeOK, CleanupTypeOK
  <2> QED BY <2>2 DEF Removing
<1> QED BY <1>1, <1>2, <1>3, <1>4, <1>5, <1>6, <1>7 DEF RequestStep

-----------------------------------------------------------------------------
(* What requests have seen, and what is about to be bound *)

LEMMA FactsKept ==
  ASSUME TypeOK, StoreInv, SingleProvisioner, DaemonOwnsCheckouts, OneClient,
         CheckoutsInv, IntactInv, [Next]_vars, NEW w \in Workers
  PROVE  FactsHold(cReq[w])'
<1> SUFFICES ASSUME cReq'[w].phase = "begin",
                    proof'[cReq'[w].intent.task] = cReq'[w].intent.proof
             PROVE  LET f == cReq'[w].facts  p == cReq'[w].intent.proof.spec.path
                    IN  f.path = dir'[p] /\ f.registered = (reg'[p] # None)
  BY DEF FactsHold
<1>1. RequestStep(w)
  BY RequestSteps
<1>2. CASE cReq'[w] = cReq[w]
  <2> DEFINE i == cReq[w].intent
  <2>1. /\ cReq[w].phase \in Knowing /\ w \in Clients
        /\ TaskOf(cReq[w]) = i.task /\ ProofOf(cReq[w]) = i.proof
    BY <1>2 DEF Knowing, TaskOf, ProofOf, IntactInv, RecoveryLooks, Workers
  <2>2. PICK t \in Tasks, p \in Paths :
          /\ t = i.task /\ p = i.proof.spec.path /\ i.proof # None
          /\ i.proof.gen \in Nat /\ i.proof.gen <= task[t].gen
    BY <2>1, KnowingFacts DEF CheckoutsInv, KnownProof
  <2>3. proof[t] = i.proof
    BY <1>2, <2>2, GenerationsRise
  <2>4. task[t].worktree = p
    BY <2>2, <2>3, BoundPath
  <2>5. SameAt(p)
    BY <1>2, <2>1, <2>4, BoundSame
  <2>6. cReq[w].facts.path = dir[p] /\ cReq[w].facts.registered = (reg[p] # None)
    BY <1>2, <2>2, <2>3 DEF IntactInv, FactsHold
  <2> QED BY <1>2, <2>2, <2>5, <2>6 DEF SameAt
<1>3. CASE ObserveCleanup(w)
  <2> DEFINE i == cReq[w].intent
  <2>1. PICK blocked \in BOOLEAN :
          cReq'[w] = [phase |-> "begin", intent |-> i,
                      facts |-> ObservedFacts(i.proof, i.proof.spec.branch, blocked)]
    BY <1>3 DEF ObserveCleanup, CTo, TypeOK, CleanupTypeOK
  <2>2. UNCHANGED <<dir, reg>>
    BY <1>3 DEF ObserveCleanup, OnlyCleanupRequest, git
  <2>3. /\ ObservedFacts(i.proof, i.proof.spec.branch, blocked).path
             = dir[i.proof.spec.path]
        /\ ObservedFacts(i.proof, i.proof.spec.branch, blocked).registered
             = (reg[i.proof.spec.path] # None)
    BY DEF ObservedFacts
  <2> QED BY <2>1, <2>2, <2>3
<1>4. CASE PrepareRemoval(w) \/ RemoveWorkingTree(w) \/ Deregister(w)
  <2>1. \/ CTo(w, Idle)
        \/ \E r : CTo(w, r) /\ r.phase \in {"remove", "deregister", "applyRemoval"}
    <3>1. ASSUME NEW t, NEW o, NEW pf, NEW d
          PROVE  /\ [phase |-> "remove", task |-> t, operation |-> o,
                     proof |-> pf].phase = "remove"
                 /\ [phase |-> "applyRemoval", task |-> t, operation |-> o,
                     proof |-> pf, result |-> d].phase = "applyRemoval"
                 /\ [phase |-> "deregister", task |-> t, operation |-> o,
                     proof |-> pf, deleted |-> d].phase = "deregister"
      OBVIOUS
    <3>2. CASE PrepareRemoval(w)
      BY <3>1, <3>2 DEF PrepareRemoval
    <3>3. CASE RemoveWorkingTree(w)
      BY <3>1, <3>3 DEF RemoveWorkingTree, RemovalOutcome
    <3>4. CASE Deregister(w)
      BY <3>1, <3>4 DEF Deregister, RemovalOutcome
    <3> QED BY <1>4, <3>2, <3>3, <3>4
  <2> QED BY <2>1, CToKeeps DEF Idle
<1> QED BY <1>1, <1>2, <1>3, <1>4 DEF RequestStep

\* A journal is at WorktreeAdded because it was so before, or because git worktree add
\* reported success to its worker.
LEMMA AddedJournals ==
  ASSUME TypeOK, [Next]_vars, NEW t \in Tasks,
         prov'[t] # None, prov'[t].stage = "worktreeAdded"
  PROVE  \/ /\ prov[t] # None /\ prov[t].stage = "worktreeAdded"
            /\ prov'[t].spec = prov[t].spec
         \/ \E w \in Workers : /\ pReq[w].phase = "apply" /\ pReq[w].result = "worktreeAdded"
                               /\ pReq[w].operation.spec = prov'[t].spec
                               /\ UNCHANGED <<dir, reg>>
<1>1. CASE prov'[t] = prov[t]
  BY <1>1
<1>2. CASE Kept \/ \E w \in Workers : Looks(w) \/ Dismissing(w) \/ Works(w)
  BY <1>1, <1>2 DEF Kept, Looks, Dismissing, Works
<1>3. ASSUME NEW c \in Clients, StartProvisioning(c)
      PROVE  prov'[t] = prov[t]
  <2> DEFINE u == pReq[c].task
             o == [op |-> pReq[c].op, spec |-> pReq[c].spec, stage |-> "reserved",
                   created |-> FALSE, failed |-> FALSE, updated |-> attempts[u] + 1]
  <2>1. prov' = [prov EXCEPT ![u] = o] /\ o.stage = "reserved"
    BY <1>3 DEF StartProvisioning
  <2> HIDE DEF o
  <2> QED BY <2>1 DEF TypeOK, StoreTypeOK
<1>4. ASSUME NEW c \in Clients, RetryProvisioning(c)
      PROVE  /\ prov[t] # None /\ prov[t].stage = "worktreeAdded"
             /\ prov'[t].spec = prov[t].spec
  <2> DEFINE u == pReq[c].task
             o == [prov[u] EXCEPT !.failed = FALSE, !.updated = attempts[u] + 1]
  <2>1. prov[u] # None /\ prov' = [prov EXCEPT ![u] = o]
    BY <1>4 DEF RetryProvisioning
  <2>2. CASE u = t
    <3>1. prov[u] \in ProvOp
      BY <2>1, <2>2 DEF TypeOK, StoreTypeOK
    <3>2. o.stage = prov[u].stage /\ o.spec = prov[u].spec
      BY <3>1 DEF ProvOp
    <3>3. prov'[t] = o
      BY <2>1, <2>2 DEF TypeOK, StoreTypeOK
    <3> HIDE DEF o
    <3> QED BY <2>1, <2>2, <3>2, <3>3
  <2>3. CASE u # t
    <3>1. prov'[t] = prov[t]
      BY <2>1, <2>3 DEF TypeOK, StoreTypeOK
    <3> QED BY <3>1
  <2> QED BY <2>2, <2>3
<1>5. ASSUME NEW w \in Workers, ApplyAdvance(w), prov'[t] # prov[t]
      PROVE  /\ pReq[w].phase = "apply" /\ pReq[w].result = "worktreeAdded"
             /\ pReq[w].operation.spec = prov'[t].spec /\ UNCHANGED <<dir, reg>>
  <2> DEFINE u == pReq[w].task
             o == [prov[u] EXCEPT !.stage = pReq[w].result,
                                  !.created = @ \/ pReq[w].result = "branchCreated"]
  <2>1. /\ prov[u] # None /\ prov' = [prov EXCEPT ![u] = o] /\ pReq[w].phase = "apply"
        /\ prov[u].spec = pReq[w].operation.spec /\ UNCHANGED <<dir, reg>>
    BY <1>5 DEF ApplyAdvance, StillCurrent, OnlyJournal, git
  <2>2. u = t
    BY <1>5, <2>1 DEF TypeOK, StoreTypeOK
  <2>3. prov[u] \in ProvOp /\ prov'[t] = o
    BY <2>1, <2>2 DEF TypeOK, StoreTypeOK
  <2>4. o.stage = pReq[w].result /\ o.spec = prov[u].spec
    BY <2>3 DEF ProvOp
  <2> HIDE DEF o
  <2> QED BY <2>1, <2>3, <2>4
<1>6. ASSUME NEW w \in Workers, ApplyFailure(w) \/ ApplyRefusedCommit(w)
      PROVE  /\ prov[t] # None /\ prov[t].stage = "worktreeAdded"
             /\ prov'[t].spec = prov[t].spec
  <2> DEFINE u == pReq[w].task
             o == [prov[u] EXCEPT !.failed = TRUE]
  <2>1. \/ prov'[t] = prov[t]
        \/ prov[u] # None /\ u = t /\ prov'[t] = o
    BY <1>6 DEF ApplyFailure, ApplyRefusedCommit, ReadyToCommit, StillCurrent, TypeOK,
                StoreTypeOK
  <2>2. CASE prov[u] # None /\ u = t /\ prov'[t] = o
    <3>1. prov[u] \in ProvOp
      BY <2>2 DEF TypeOK, StoreTypeOK
    <3>2. o.stage = prov[u].stage /\ o.spec = prov[u].spec
      BY <3>1 DEF ProvOp
    <3> HIDE DEF o
    <3> QED BY <2>2, <3>2
  <2> QED BY <2>1, <2>2
<1>7. ASSUME NEW w \in Workers, ApplyRollback(w)
      PROVE  prov'[t] = prov[t]
  <2> DEFINE u == pReq[w].task
             o == [prov[u] EXCEPT !.stage = "reserved", !.created = FALSE, !.failed = TRUE]
  <2>1. prov[u] # None /\ (prov'[t] = prov[t] \/ (u = t /\ prov'[t] = o))
    BY <1>7 DEF ApplyRollback, StillCurrent, TypeOK, StoreTypeOK, ProvOp
  <2>2. CASE u = t /\ prov'[t] = o
    <3>1. prov[u] \in ProvOp
      BY <2>1, <2>2 DEF TypeOK, StoreTypeOK
    <3>2. o.stage = "reserved"
      BY <3>1 DEF ProvOp
    <3> QED BY <2>2, <3>2
  <2> QED BY <2>1, <2>2
<1>8. ASSUME NEW w \in Workers, ApplyCommit(w) \/ CommitCrash(w)
      PROVE  prov'[t] = prov[t]
  <2> DEFINE u == pReq[w].task
             f == [Committed(u) EXCEPT !.failed = TRUE]
  <2>1. prov[u] # None /\ \E left \in {None, Committed(u), f} : CommitBinding(u, left)
    BY <1>8 DEF ApplyCommit, CommitCrash, ReadyToCommit, StillCurrent
  <2>2. CASE u = t
    <3>1. prov[u] \in ProvOp
      BY <2>1, <2>2 DEF TypeOK, StoreTypeOK
    <3>2. Committed(u).stage = "bindingCommitted" /\ f.stage = "bindingCommitted"
      BY <3>1 DEF ProvOp, Committed
    <3>3. prov'[t] \in {None, Committed(u), f}
      BY <2>1, <2>2 DEF CommitBinding, TypeOK, StoreTypeOK
    <3> HIDE DEF f
    <3> QED BY <3>2, <3>3
  <2>3. CASE u # t
    BY <2>1, <2>3 DEF CommitBinding, TypeOK, StoreTypeOK
  <2> QED BY <2>2, <2>3
<1>9. ASSUME NEW c \in Clients, CompleteDismissal(c)
      PROVE  prov'[t] = prov[t]
  BY <1>9 DEF CompleteDismissal, TypeOK, StoreTypeOK
<1>10. ASSUME NEW u \in Tasks, ReconcileCommitted(u)
       PROVE  prov'[t] = prov[t]
  <2> DEFINE f == [prov[u] EXCEPT !.failed = TRUE]
  <2>1. prov[u] \in ProvOp /\ prov[u].stage = "bindingCommitted"
    BY <1>10 DEF ReconcileCommitted, TypeOK, StoreTypeOK
  <2>2. f.stage = "bindingCommitted"
    BY <2>1 DEF ProvOp
  <2>3. prov'[t] = prov[t] \/ prov'[t] \in {None, f}
    BY <1>10 DEF ReconcileCommitted, TypeOK, StoreTypeOK
  <2> HIDE DEF f
  <2> QED BY <2>2, <2>3
<1>11. ASSUME NEW u \in Tasks, ResumeProvisioning(u)
       PROVE  prov'[t] = prov[t]
  BY <1>11 DEF ResumeProvisioning, OnlyRequest, store
<1>12. ASSUME NEW c \in Clients,
              \/ \E u \in Tasks, op \in OpIds, want \in Wanted :
                   PlanProvisioning(c, u, op, want)
              \/ \E u \in Tasks : PlanDismissal(c, u)
              \/ ObserveProvisioning(c) \/ EndRequest(c)
              \/ ObserveDismissal(c) \/ LoseWorker(c)
       PROVE  prov'[t] = prov[t]
  BY <1>12 DEF PlanProvisioning, PlanDismissal, ObserveProvisioning, EndRequest,
               ObserveDismissal, LoseWorker, OnlyRequest, store
<1>13. ASSUME NEW w \in Workers, ExecuteStep(w)
       PROVE  prov'[t] = prov[t]
  BY <1>13 DEF ExecuteStep, CreateBranch, AddWorktree, VerifyWorktree, CheckRollback,
               DeleteCreatedRef, OnlyGit, store
<1>14. CASE ProvisioningNext
  BY <1>1, <1>2, <1>3, <1>4, <1>5, <1>6, <1>7, <1>8, <1>9, <1>10, <1>11, <1>12, <1>13,
     <1>14, ElsewhereKept
  DEF ProvisioningNext, ProvisioningStartup, ApplyStep
<1> QED BY <1>2, <1>14, ElsewhereKept DEF Next

\* A worker has the success of git worktree add to report because it had it before, or
\* because the checkout is there now.
LEMMA AddedOutcomes ==
  ASSUME TypeOK, [Next]_vars, NEW w \in Workers,
         pReq'[w].phase = "apply", pReq'[w].result = "worktreeAdded"
  PROVE  \/ pReq'[w] = pReq[w]
         \/ /\ pReq'[w].operation.stage # "bindingCommitted"
            /\ Stands(pReq[w].operation.spec.path)'
<1>1. Idle.phase = "idle"
  BY DEF Idle
<1>2. CASE Kept
  BY <1>1, <1>2 DEF Kept
<1>3. ASSUME NEW v \in Workers, Looks(v) \/ Dismissing(v)
      PROVE  pReq'[w] = pReq[w]
  BY <1>3 DEF Looks, Dismissing, OthersWait
<1>4. ASSUME NEW v \in Workers, NEW t \in Tasks,
             Begins(v, t) \/ Applies(v, t) \/ Dismisses(v, t)
      PROVE  pReq'[w] = pReq[w]
  BY <1>1, <1>4 DEF Begins, Applies, Dismisses, OthersWait
<1>5. ASSUME NEW t \in Tasks, Reconciles(t)
      PROVE  pReq'[w] = pReq[w]
  BY <1>5 DEF Reconciles, OthersWait
<1>6. ASSUME NEW v \in Workers, Works(v), v # w
      PROVE  pReq'[w] = pReq[w]
  BY <1>6 DEF Works, OthersWait
<1>7. CASE Works(w)
  <2> DEFINE o == pReq[w].operation
  <2>1. o \in ProvOp /\ pReq'[w].operation = o /\ ExecuteStep(w)
    BY <1>7, RequestFacts DEF Works
  <2>2. o.spec.path \in Paths /\ o.spec.branch \in Branches
    BY <2>1 DEF ProvOp, WorktreeSpec
  <2>3. pReq[w] \in Journaled \/ pReq[w].phase = "apply"
    BY <1>7, ProvPhase DEF Works, TypeOK, ProvisioningTypeOK, Driving
  <2>4. ASSUME NEW ph \in {"rollback", "deleteRef"}, To(w, [pReq[w] EXCEPT !.phase = ph]),
               pReq[w].phase # "apply"
        PROVE  FALSE
    <3>1. pReq'[w] = [pReq[w] EXCEPT !.phase = ph]
      BY <2>4, ToKeeps
    <3> QED BY <2>3, <2>4, <3>1 DEF Journaled
  <2>5. ASSUME NEW d, Outcome(w, d)
        PROVE  d = "worktreeAdded"
    BY <2>5, ToKeeps DEF Outcome
  <2>6. ~(CreateBranch(w) \/ VerifyWorktree(w) \/ CheckRollback(w) \/ DeleteCreatedRef(w))
    BY <2>4, <2>5 DEF CreateBranch, VerifyWorktree, CheckRollback, DeleteCreatedRef
  <2>7. AddWorktree(w)
    BY <2>1, <2>6 DEF ExecuteStep
  <2>8. ~StepFailed(w)
    BY <2>4, <2>5, <2>7 DEF StepFailed, AddWorktree
  <2>9. /\ o.stage # "bindingCommitted"
        /\ reg' = [reg EXCEPT ![o.spec.path] = o.spec.branch]
        /\ dir' = [dir EXCEPT ![o.spec.path] = "present"]
    BY <2>7, <2>8 DEF AddWorktree
  <2>10. reg'[o.spec.path] # None /\ dir'[o.spec.path] = "present"
    BY <2>2, <2>9, NamesAssumption DEF TypeOK, GitTypeOK
  <2> QED BY <2>1, <2>9, <2>10 DEF Stands
<1> QED BY <1>2, <1>3, <1>4, <1>5, <1>6, <1>7, ProvisioningMoves DEF ProvisioningMove

\* The checkout of a journal that has no binding yet stays.
LEMMA UnboundStands ==
  ASSUME TypeOK, StoreInv, DaemonOwnsCheckouts, IntactInv, [Next]_vars,
         NEW t \in Tasks, NEW p \in Paths, prov[t] # None, prov[t].spec.path = p,
         prov[t].stage # "bindingCommitted", Stands(p)
  PROVE  Stands(p)'
<1>1. p \in HeldPaths(t)
  BY NamesAssumption DEF HeldPaths
<1>2. task[t].worktree # p
  BY NamesAssumption DEF StoreInv, ProvisioningJournalSound
<1> QED BY <1>1, <1>2, LostToRemoval

LEMMA AddedStandsKept ==
  ASSUME TypeOK, StoreInv, SingleProvisioner, DaemonOwnsCheckouts, IntactInv, [Next]_vars
  PROVE  AddedStands'
<1>1. ASSUME NEW t \in Tasks, prov'[t] # None, prov'[t].stage = "worktreeAdded"
      PROVE  Stands(prov[t].spec.path)'
  <2>1. CASE /\ prov[t] # None /\ prov[t].stage = "worktreeAdded"
             /\ prov'[t].spec = prov[t].spec
    <3>1. PICK p \in Paths : p = prov[t].spec.path
      BY <2>1 DEF TypeOK, StoreTypeOK, ProvOp, WorktreeSpec
    <3>2. Stands(p)
      BY <2>1, <3>1 DEF IntactInv, AddedStands
    <3>3. Stands(p)'
      BY <2>1, <3>1, <3>2, UnboundStands
    <3> QED BY <2>1, <3>1, <3>3 DEF Stands
  <2>2. CASE \E w \in Workers :
               /\ pReq[w].phase = "apply" /\ pReq[w].result = "worktreeAdded"
               /\ pReq[w].operation.spec = prov'[t].spec /\ UNCHANGED <<dir, reg>>
    BY <2>2 DEF IntactInv, AddedStands, Stands
  <2> QED BY <1>1, <2>1, <2>2, AddedJournals
<1>2. ASSUME NEW w \in Workers, pReq'[w].phase = "apply",
             pReq'[w].result = "worktreeAdded"
      PROVE  /\ pReq'[w].operation.stage # "bindingCommitted"
             /\ Stands(pReq[w].operation.spec.path)'
  <2>1. CASE pReq'[w] = pReq[w]
    <3> DEFINE o == pReq[w].operation
    <3>1. pReq[w].phase \in Driving
      BY <1>2, <2>1 DEF Driving
    <3>2. PICK t \in Tasks : o \in ProvOp /\ o # None /\ prov[t] = o
      BY <3>1, RequestFacts DEF SingleProvisioner
    <3>3. PICK p \in Paths : p = o.spec.path
      BY <3>2 DEF ProvOp, WorktreeSpec
    <3>4. o.stage # "bindingCommitted" /\ Stands(p)
      BY <1>2, <2>1, <3>3 DEF IntactInv, AddedStands
    <3>5. Stands(p)'
      BY <3>2, <3>3, <3>4, UnboundStands
    <3> QED BY <2>1, <3>3, <3>4, <3>5 DEF Stands
  <2> QED BY <1>2, <2>1, AddedOutcomes
<1> QED BY <1>1, <1>2 DEF AddedStands

LEMMA RecoveryLooksKept ==
  ASSUME TypeOK, IntactInv, [Next]_vars
  PROVE  RecoveryLooks'
<1> SUFFICES ASSUME NEW t \in Tasks
             PROVE  cReq'[t].phase \in {"idle", "revalidate", "applyObservation"}
  BY DEF RecoveryLooks
<1>1. t \in Workers /\ t \notin Clients
  BY NamesAssumption DEF Workers
<1>2. cReq[t].phase \in {"idle", "revalidate", "applyObservation"}
  BY DEF IntactInv, RecoveryLooks
<1>3. ~(RemoveWorkingTree(t) \/ Deregister(t))
  BY <1>2 DEF RemoveWorkingTree, Deregister
<1> QED BY <1>1, <1>2, <1>3, RequestSteps DEF RequestStep

LEMMA ContentKept ==
  ASSUME TypeOK, IntactInv, DaemonOwnsCheckouts, [Next]_vars,
         NEW p \in Paths, content'[p] # {}
  PROVE  dir'[p] = "present"
<1>1. content[p] # {} => dir[p] = "present"
  BY DEF IntactInv
<1>2. CASE UNCHANGED <<dir, content>>
  BY <1>1, <1>2
<1>3. ASSUME NEW q \in Paths, UserEdits(q)
      PROVE  dir'[p] = "present"
  <2>1. /\ dir[q] = "present" /\ UNCHANGED dir
        /\ \E K : content' = [content EXCEPT ![q] = K]
    BY <1>3 DEF UserEdits
  <2> QED BY <1>1, <2>1 DEF TypeOK, GitTypeOK
<1>4. ASSUME NEW w \in Workers, RemoveWorkingTree(w)
      PROVE  dir'[p] = "present"
  <2> DEFINE q == cReq[w].operation.baseline.path
  <2>1. \/ UNCHANGED <<dir, content>>
        \/ /\ dir' = [dir EXCEPT ![q] = "absent"]
           /\ content' = [content EXCEPT ![q] = {}]
    BY <1>4 DEF RemoveWorkingTree
  <2> QED BY <1>1, <1>2, <2>1 DEF TypeOK, GitTypeOK
<1>5. ASSUME NEW w \in Workers, AddWorktree(w)
      PROVE  dir'[p] = "present"
  <2>1. /\ dir' = dir \/ \E q : dir' = [dir EXCEPT ![q] = "present"]
        /\ UNCHANGED content
    BY <1>5 DEF AddWorktree
  <2> QED BY <1>1, <2>1 DEF TypeOK, GitTypeOK
<1>6. ASSUME NEW w \in Workers, Deregister(w)
      PROVE  UNCHANGED <<dir, content>>
  BY <1>6 DEF Deregister
<1>7. ASSUME NEW q \in Paths, UserSwitches(q)
      PROVE  UNCHANGED <<dir, content>>
  BY <1>7 DEF UserSwitches
<1> QED BY <1>2, <1>3, <1>4, <1>5, <1>6, <1>7, GitMoves

LEMMA InitIntact == Init => IntactInv
BY DEF Init, RuntimeInit, IntactInv, BindingsStand, AddedStands, RecoveryLooks, RemovalSound,
       Removing, FactsHold, Idle, Workers

LEMMA IntactKept ==
  ASSUME TypeOK, StoreInv, ProvisionersInv, CheckoutsInv, DaemonOwnsCheckouts, OneClient,
         IntactInv, TypeOK', [Next]_vars
  PROVE  IntactInv'
<1>1. SingleProvisioner
  BY DEF ProvisionersInv
<1>2. BindingsStand' /\ AddedStands' /\ RecoveryLooks'
  BY <1>1, BindingsStandKept, AddedStandsKept, RecoveryLooksKept
<1>3. \A w \in Workers : RemovalSound(cReq[w])' /\ FactsHold(cReq[w])'
  BY <1>1, RemovalKept, FactsKept
<1>4. \A p \in Paths : content'[p] # {} => dir'[p] = "present"
  BY ContentKept
<1> QED BY <1>2, <1>3, <1>4 DEF IntactInv

\* IntactInv holds always, with one client and nobody else at the checkouts.
THEOREM CheckoutsStayIntact ==
  ASSUME DaemonOwnsCheckouts, OneClient
  PROVE  Spec => []IntactInv
<1>1. TypeOK /\ StoreInv /\ ProvisionersInv /\ CheckoutsInv /\ IntactInv /\ TypeOK'
        /\ [Next]_vars => IntactInv'
  BY IntactKept
<1> QED BY <1>1, InitIntact, TypeCorrect, StoreConsistent, ProvisionersConsistent,
           CheckoutsConsistent, PTL DEF Spec

\* With one request at a time and nobody else at the checkout, a Reserved cleanup
\* journal has its whole checkout, whatever crashed, was lost, was refused by Git or was
\* tried again before: a retry may start over, and a refusal may clear the journal.
THEOREM ReservedJournalsAreIntact ==
  ASSUME DaemonOwnsCheckouts, OneClient
  PROVE  Spec => []ReservedMeansIntact
<1>1. TypeOK /\ StoreInv /\ IntactInv => ReservedMeansIntact
  <2> SUFFICES ASSUME TypeOK, StoreInv, IntactInv, NEW t \in Tasks,
                      clean[t] # None, clean[t].stage = "reserved"
               PROVE  Stands(clean[t].baseline.path)
    BY DEF ReservedMeansIntact, Stands
  <2>1. proof[t] # None /\ task[t].worktree = clean[t].baseline.path
    BY DEF StoreInv, CleanupJournalSound, NamesBinding
  <2> QED BY <2>1, BoundPath DEF IntactInv, BindingsStand, Untouched
<1> QED BY <1>1, CheckoutsStayIntact, TypeCorrect, StoreConsistent, PTL

\* Under the same conditions the daemon deletes a checkout only under a journal that
\* says so, which a restart finds, and never what Git refuses to lose in safe mode.
THEOREM RemovalsAreOnRecord ==
  ASSUME DaemonOwnsCheckouts, OneClient
  PROVE  Spec => RemovalOnRecord
<1> DEFINE Recorded(p) ==
      dir[p] = "present" /\ dir'[p] = "absent" =>
        \E t \in Tasks :
          /\ clean[t] # None /\ clean[t].stage = "removePrepared"
          /\ clean[t].baseline.path = p
          /\ clean[t].mode = "safe" => content[p] \cap GitRefusedKinds = {}
<1>1. TypeOK /\ StoreInv /\ IntactInv /\ [Next]_vars
        => [ByDaemon => \A p \in Paths : Recorded(p)]_vars
  <2> SUFFICES ASSUME TypeOK, StoreInv, IntactInv, [Next]_vars, NEW p \in Paths,
                      dir[p] = "present", dir'[p] = "absent"
               PROVE  \E t \in Tasks :
                        /\ clean[t] # None /\ clean[t].stage = "removePrepared"
                        /\ clean[t].baseline.path = p
                        /\ clean[t].mode = "safe" => content[p] \cap GitRefusedKinds = {}
    OBVIOUS
  <2>1. ASSUME NEW w \in Workers, AddWorktree(w)
        PROVE  FALSE
    <3>1. dir' = dir \/ \E q : dir' = [dir EXCEPT ![q] = "present"]
      BY <2>1 DEF AddWorktree
    <3> QED BY <3>1 DEF TypeOK, GitTypeOK
  <2>2. PICK w \in Workers : /\ RemoveWorkingTree(w) \/ Deregister(w)
                             /\ p = cReq[w].operation.baseline.path
    BY <2>1, CheckoutMoves DEF SameAt
  <2>3. RemoveWorkingTree(w)
    BY <2>2 DEF Deregister
  <2>4. cReq[w].phase = "remove" /\ Removing(cReq[w])
    BY <2>3 DEF RemoveWorkingTree, Removing
  <2>5. cReq[w].operation.mode = "safe" => content[p] \cap GitRefusedKinds = {}
    BY <2>2, <2>3 DEF RemoveWorkingTree
  <2>6. PICK t \in Tasks :
          /\ clean[t] # None /\ clean[t].stage = "removePrepared"
          /\ task[t].worktree = p /\ clean[t].mode = cReq[w].operation.mode
    BY <2>2, <2>4, RemovalFacts
  <2>7. clean[t].baseline.path = p
    BY <2>6 DEF StoreInv, CleanupJournalSound, NamesBinding
  <2> QED BY <2>5, <2>6, <2>7
<1> QED BY <1>1, CheckoutsStayIntact, TypeCorrect, StoreConsistent, PTL
        DEF Spec, RemovalOnRecord

-----------------------------------------------------------------------------
(* The reservation of a checkout that is about to be deleted *)

\* The daemon does not crash, and nobody else switches, adds or removes a checkout:
\* the users of the repository edit, commit, and create and delete branches.
Undisturbed == MaxCrashes = 0 /\ UserMoves \cap {"switch", "directory", "worktree"} = {}

OpOf(r) == IF r.phase \in {"observe", "begin"} THEN r.intent.op ELSE r.operation.op

SameOperationRequest(r, q) == TaskOf(r) = TaskOf(q) /\ OpOf(r) = OpOf(q)

\* Clients draw operation ids at random: a new request does not bear the id of one
\* that is still in flight for an earlier worktree of the Task.
FreshIds ==
  \A c \in Clients : cReq[c] = Idle /\ cReq'[c].phase = "observe" =>
    \A w \in Workers :
      cReq[w].phase \in Knowing /\ SameOperationRequest(cReq[w], cReq'[c]) =>
        ProofOf(cReq[w]) = ProofOf(cReq'[c])

\* A binding whose checkout Git knows has its own branch there.
BoundHeads ==
  \A t \in Tasks : proof[t] # None /\ reg[proof[t].spec.path] # None =>
    reg[proof[t].spec.path] = proof[t].spec.branch /\ ref[proof[t].spec.branch] # None

\* So has a journal that was verified and may be committed; and only a journal without
\* a worktree is rolled back.
ReadyHeads ==
  \A w \in Workers :
    LET o == pReq[w].operation
    IN  /\ pReq[w].phase = "apply" /\ pReq[w].result = "readyToCommit"
             /\ o.stage = "worktreeAdded" =>
             reg[o.spec.path] = o.spec.branch /\ ref[o.spec.branch] # None
        /\ pReq[w].phase \in {"rollback", "deleteRef"} => o.stage = "branchCreated"

\* An operation id is that of one worktree of the Task, in requests and on record.
IdsApart ==
  \A w \in Workers : cReq[w].phase \in Knowing =>
    LET t == TaskOf(cReq[w])
    IN  /\ \A v \in Workers :
             cReq[v].phase \in Knowing /\ SameOperationRequest(cReq[v], cReq[w]) =>
               ProofOf(cReq[v]) = ProofOf(cReq[w])
        /\ clean[t] # None /\ clean[t].stage # "bindingCleared"
             /\ clean[t].op = OpOf(cReq[w]) => ProofOf(cReq[w]) = proof[t]

\* What a request saw of a checkout: nothing that needs attention while it stands, and
\* a checkout that still does.
Seen(r) ==
  LET p == ProofOf(r).spec.path
  IN  r.phase \in {"begin", "applyObservation"} /\ proof[TaskOf(r)] = ProofOf(r) =>
        /\ r.phase = "begin" /\ Stands(p) => ~NeedsAttention(r.facts)
        /\ r.phase = "applyObservation" /\ r.facts.path = "present" /\ r.facts.registered
             => Stands(p)

\* While the checkout stands, one request drives the journal, which has no failure.
Driven(w) ==
  LET r == cReq[w]  t == cReq[w].task
  IN  r.phase \in CleanupDriving /\ proof[t] = r.proof /\ Stands(r.proof.spec.path) =>
        /\ clean[t] # None /\ clean[t].op = r.operation.op /\ clean[t].failure = None
        /\ \A v \in Workers \ {w} :
             cReq[v].phase \in CleanupDriving /\ cReq[v].task = t => cReq[v].proof # proof[t]

\* Git is at work on a checkout for one request only, and no session runs there before
\* the working tree is gone.
Owned(w) ==
  LET r == cReq[w]  t == cReq[w].task  p == cReq[w].proof.spec.path
  IN  r.phase \in {"remove", "deregister"} =>
        /\ proof[t] = r.proof /\ r.operation.baseline.path = p /\ reg[p] # None
        /\ \A v \in Workers \ {w} :
             cReq[v].phase \in {"remove", "deregister"} => cReq[v].task # t
        /\ r.phase = "remove" =>
             /\ dir[p] = "present" /\ p \notin attached
             /\ clean[t] = r.operation /\ clean[t].stage = "removePrepared"

ReservationInv ==
  /\ daemon = "up" /\ BoundHeads /\ ReadyHeads /\ IdsApart
  /\ \A w \in Workers : Seen(cReq[w]) /\ Driven(w) /\ Owned(w)

\* Then nothing interrupts the daemon.
LEMMA StaysUp ==
  ASSUME TypeOK, Undisturbed, daemon = "up", [Next]_vars
  PROVE  /\ daemon' = "up" /\ ~DaemonDies /\ DaemonOwnsCheckouts
         /\ ~Restart /\ ~ProvisioningStartup /\ ~CleanupStartup
         /\ \A q \in Paths : ~UserSwitches(q)
<1>1. crashes = 0 /\ MaxCrashes = 0
  BY DEF TypeOK, RuntimeTypeOK, Undisturbed
<1>2. ~DaemonDies
  BY <1>1 DEF DaemonDies
<1>3. DaemonOwnsCheckouts /\ \A q \in Paths : ~UserSwitches(q)
  BY DEF Undisturbed, DaemonOwnsCheckouts, UserSwitches, UserStep
<1>4. ~Restart /\ ~ProvisioningStartup /\ ~CleanupStartup
  BY DEF Restart, ProvisioningStartup, ReconcileCommitted, ResumeProvisioning,
         ProvisioningReconciled, CleanupStartup, ReconcileCleanup, PlanRecovery
<1>5. ~Crash
  BY <1>2 DEF Crash
<1>6. UNCHANGED daemon
  <2>1. CASE ProvisioningNext
    BY <1>2, <1>4, <2>1
    DEF ProvisioningNext, PlanProvisioning, PlanDismissal, ObserveProvisioning, EndRequest,
        StartProvisioning, RetryProvisioning, Attempt, ObserveDismissal, CompleteDismissal,
        LoseWorker, ExecuteStep, CreateBranch, AddWorktree, VerifyWorktree, CheckRollback,
        DeleteCreatedRef, ApplyStep, ApplyAdvance, ApplyFailure, ApplyRollback, ApplyCommit,
        ApplyRefusedCommit, CommitCrash, OnlyRequest, OnlyJournal, OnlyGit
  <2>2. CASE CleanupNext
    <3>1. ASSUME NEW w, NEW t, NEW o, CompleteCleanup(w, t, o) \/ CompleteCrash(t, o)
          PROVE  UNCHANGED daemon
      BY <1>2, <3>1 DEF CompleteCleanup, CompleteCrash
    <3>2. ASSUME \/ \E c \in Clients : BeginClears(c)
                 \/ \E w \in Workers : ApplyCompletion(w)
          PROVE  UNCHANGED daemon
      BY <3>1, <3>2 DEF BeginClears, ApplyCompletion
    <3>3. ASSUME NEW c \in Clients,
                 \/ \E t \in Tasks, op \in OpIds, mode \in CleanupModes,
                       acks \in SUBSET ContentKinds : PlanCleanup(c, t, op, mode, acks)
                 \/ \E t \in Tasks : PlanFinalize(c, t)
                 \/ ObserveCleanup(c) \/ EndCleanupRequest(c) \/ Finalize(c)
                 \/ BeginAttention(c) \/ BeginCleanup(c) \/ RetryCleanup(c)
          PROVE  UNCHANGED daemon
      BY <3>3
      DEF PlanCleanup, PlanFinalize, ObserveCleanup, EndCleanupRequest, Finalize,
          BeginAttention, BeginCleanup, RetryCleanup, OnlyCleanupRequest,
          OnlyCleanupJournal
    <3>4. ASSUME NEW w \in Workers,
                 \/ Revalidate(w) \/ ApplyNothing(w) \/ MarkAttention(w) \/ ApplyRefusal(w)
                 \/ PrepareRemoval(w) \/ RemoveWorkingTree(w) \/ Deregister(w)
                 \/ ApplyRemoval(w) \/ LoseCleanupWorker(w) \/ VerifiedCrash(w)
          PROVE  UNCHANGED daemon
      BY <1>2, <3>4
      DEF Revalidate, ApplyNothing, MarkAttention, ApplyRefusal, PrepareRemoval,
          RemoveWorkingTree, Deregister, ApplyRemoval, LoseCleanupWorker, VerifiedCrash,
          OnlyCleanupRequest, OnlyCleanupJournal, OnlyCleanupGit
    <3>5. CASE \E q \in Paths : LaunchSession(q) \/ SessionExits(q)
      BY <3>5 DEF LaunchSession, SessionExits
    <3> QED BY <1>4, <2>2, <3>2, <3>3, <3>4, <3>5 DEF CleanupNext, CleanupStep
  <2>3. CASE \/ UserNext \/ UNCHANGED vars
             \/ \E t \in Tasks : ReleaseTaskBranch(t)
                                 \/ \E b \in Branches : BindTaskBranch(t, b)
    BY <2>3
    DEF UserNext, UserCreatesBranch, UserMovesBranch, UserDeletesBranch, UserEdits,
        UserSwitches, UserChangesDirectory, UserChangesWorktree, UserStep, vars,
        ReleaseTaskBranch, BindTaskBranch
  <2> QED BY <1>4, <1>5, <2>1, <2>2, <2>3 DEF Next
<1> QED BY <1>2, <1>3, <1>4, <1>6

\* The checkout at a path stays exactly as it is.
SamePlace(p) == dir'[p] = dir[p] /\ reg'[p] = reg[p]

\* The checkout of a binding changes only with a removal there.
LEMMA BoundMoves ==
  ASSUME TypeOK, StoreInv, SingleProvisioner, Undisturbed, daemon = "up", [Next]_vars,
         NEW p \in Paths, NEW t \in Tasks, task[t].worktree = p
  PROVE  \/ SamePlace(p)
         \/ \E w \in Workers : /\ RemoveWorkingTree(w) \/ Deregister(w)
                               /\ p = cReq[w].operation.baseline.path
<1>1. CASE UNCHANGED <<dir, reg>>
  BY <1>1 DEF SamePlace
<1>2. ASSUME NEW w \in Workers, RemoveWorkingTree(w) \/ Deregister(w)
      PROVE  SamePlace(p) \/ p = cReq[w].operation.baseline.path
  <2> DEFINE q == cReq[w].operation.baseline.path
  <2>1. \/ UNCHANGED <<dir, reg>>
        \/ dir' = [dir EXCEPT ![q] = "absent"] /\ UNCHANGED reg
        \/ reg' = [reg EXCEPT ![q] = None] /\ UNCHANGED dir
    BY <1>2 DEF RemoveWorkingTree, Deregister
  <2> QED BY <2>1 DEF SamePlace, TypeOK, GitTypeOK
<1>3. ASSUME NEW w \in Workers, AddWorktree(w)
      PROVE  SamePlace(p)
  <2> DEFINE q == pReq[w].operation.spec.path
  <2>1. /\ dir' = dir \/ dir' = [dir EXCEPT ![q] = "present"]
        /\ reg' = reg \/ \E b : reg' = [reg EXCEPT ![q] = b]
    BY <1>3 DEF AddWorktree
  <2>2. PICK u \in Tasks : q \in HeldPaths(u) /\ task[u].worktree = None
    BY <1>3, TakenByJournal
  <2>3. p \in HeldPaths(t) /\ p # None
    BY NamesAssumption DEF HeldPaths
  <2>4. q # p
    BY <2>2, <2>3 DEF StoreInv, HoldingsExclusive
  <2> QED BY <2>1, <2>4 DEF SamePlace, TypeOK, GitTypeOK
<1>4. ASSUME NEW q \in Paths, UserEdits(q)
      PROVE  UNCHANGED <<dir, reg>>
  BY <1>4 DEF UserEdits
<1> QED BY <1>1, <1>2, <1>3, <1>4, GitMoves, StaysUp

\* A ref that is checked out goes only with the rollback of the journal of its branch.
LEMMA RefStays ==
  ASSUME TypeOK, [Next]_vars, NEW b \in Branches, CheckedOut(b),
         ref[b] # None, ref'[b] = None
  PROVE  \E w \in Workers : /\ pReq[w].phase = "deleteRef"
                            /\ pReq[w].operation.spec.branch = b
<1>1. CASE UserNext
  <2>1. ASSUME NEW c \in Branches, UserCreatesBranch(c) \/ UserMovesBranch(c)
        PROVE  FALSE
    <3>1. PICK o \in Oids : ref' = [ref EXCEPT ![c] = [oid |-> o, mark |-> User]]
      BY <2>1 DEF UserCreatesBranch, UserMovesBranch
    <3>2. [oid |-> o, mark |-> User] # None
      BY RecordAssumption DEF Ref
    <3> QED BY <3>1, <3>2 DEF TypeOK, GitTypeOK
  <2>2. ASSUME NEW c \in Branches, UserDeletesBranch(c)
        PROVE  FALSE
    BY <2>2 DEF UserDeletesBranch, TypeOK, GitTypeOK
  <2>3. ASSUME NEW q \in Paths,
               \/ UserEdits(q) \/ UserSwitches(q) \/ UserChangesDirectory(q)
               \/ UserChangesWorktree(q)
        PROVE  FALSE
    BY <2>3 DEF UserEdits, UserSwitches, UserChangesDirectory, UserChangesWorktree
  <2> QED BY <1>1, <2>1, <2>2, <2>3 DEF UserNext
<1>2. CASE ~UserNext
  <2>1. PICK w \in Workers : CreateBranch(w) \/ DeleteCreatedRef(w)
    BY <1>2, RefMoves
  <2> DEFINE o == pReq[w].operation
  <2>2. \/ UNCHANGED ref
        \/ /\ CreateBranch(w) /\ ref[o.spec.branch] = None
           /\ ref' = [ref EXCEPT ![o.spec.branch] = [oid |-> o.spec.base, mark |-> o.op]]
        \/ DeleteCreatedRef(w) /\ ref' = [ref EXCEPT ![o.spec.branch] = None]
    BY <2>1 DEF CreateBranch, DeleteCreatedRef
  <2>3. DeleteCreatedRef(w) /\ o.spec.branch = b
    BY <2>2 DEF TypeOK, GitTypeOK
  <2> QED BY <2>3 DEF DeleteCreatedRef
<1> QED BY <1>1, <1>2

-----------------------------------------------------------------------------
(* One request acts at a time *)

ClientActs(c) ==
  \/ \E t \in Tasks, op \in OpIds, mode \in CleanupModes, acks \in SUBSET ContentKinds :
       PlanCleanup(c, t, op, mode, acks)
  \/ \E t \in Tasks : PlanFinalize(c, t)
  \/ ObserveCleanup(c) \/ EndCleanupRequest(c) \/ Finalize(c)
  \/ BeginAttention(c) \/ BeginCleanup(c) \/ RetryCleanup(c) \/ BeginClears(c)

Acts(w) == (w \in Clients /\ ClientActs(w)) \/ CleanupStep(w) \/ LoseCleanupWorker(w)

LEMMA WhoActs ==
  ASSUME TypeOK, Undisturbed, daemon = "up", [Next]_vars
  PROVE  UNCHANGED <<cReq, clean>> \/ \E w \in Workers : Acts(w)
<1>1. ~DaemonDies /\ ~Restart /\ ~ProvisioningStartup /\ ~CleanupStartup
  BY StaysUp
<1>2. CASE ProvisioningNext
  <2>1. ASSUME NEW w \in Workers, ApplyCommit(w)
        PROVE  UNCHANGED <<cReq, clean>>
    BY <2>1 DEF ApplyCommit, CommitBinding
  <2>2. ASSUME NEW w \in Workers, CommitCrash(w)
        PROVE  FALSE
    BY <1>1, <2>2 DEF CommitCrash
  <2>3. ASSUME ~\E w \in Workers : ApplyCommit(w) \/ CommitCrash(w)
        PROVE  UNCHANGED <<cReq, clean>>
    BY <1>1, <1>2, <2>3
    DEF ProvisioningNext, PlanProvisioning, PlanDismissal, ObserveProvisioning, EndRequest,
        StartProvisioning, RetryProvisioning, Attempt, ObserveDismissal,
        CompleteDismissal, LoseWorker, ExecuteStep, CreateBranch, AddWorktree,
        VerifyWorktree, CheckRollback, DeleteCreatedRef, ApplyStep, ApplyAdvance,
        ApplyFailure, ApplyRollback, ApplyRefusedCommit, OnlyRequest, OnlyJournal, OnlyGit,
        store
  <2> QED BY <2>1, <2>2, <2>3
<1>3. CASE CleanupNext
  <2>1. ASSUME NEW w \in Workers, VerifiedCrash(w)
        PROVE  FALSE
    BY <1>1, <2>1 DEF VerifiedCrash
  <2>2. CASE \E q \in Paths : LaunchSession(q) \/ SessionExits(q)
    BY <2>2 DEF LaunchSession, SessionExits, store
  <2> QED BY <1>1, <1>3, <2>1, <2>2 DEF CleanupNext, Acts, ClientActs, Workers
<1>4. CASE \/ UserNext \/ Crash \/ UNCHANGED vars
           \/ \E t \in Tasks : ReleaseTaskBranch(t)
                               \/ \E b \in Branches : BindTaskBranch(t, b)
  BY <1>1, <1>4
  DEF UserNext, UserCreatesBranch, UserMovesBranch, UserDeletesBranch, UserEdits,
      UserSwitches, UserChangesDirectory, UserChangesWorktree, UserStep, vars, store, Crash,
      ReleaseTaskBranch, BindTaskBranch
<1> QED BY <1>1, <1>2, <1>3, <1>4 DEF Next

\* The others wait.
LEMMA ActsAlone ==
  ASSUME TypeOK, ~DaemonDies, NEW w \in Workers, Acts(w)
  PROVE  \A v \in Workers : v # w => cReq'[v] = cReq[v]
<1>1. \E r : CTo(w, r)
  <2>1. ASSUME NEW t, NEW o, CompleteCleanup(w, t, o) \/ CompleteCrash(t, o)
        PROVE  CTo(w, Idle)
    BY <2>1 DEF CompleteCleanup, CompleteCrash
  <2>2. CASE BeginClears(w) \/ ApplyCompletion(w)
    BY <2>1, <2>2 DEF BeginClears, ApplyCompletion
  <2>3. CASE LoseCleanupWorker(w)
    BY <2>3 DEF LoseCleanupWorker
  <2>4. CASE CleanupStep(w) /\ ~ApplyCompletion(w)
    BY <2>4
    DEF CleanupStep, Revalidate, ApplyNothing, MarkAttention, ApplyRefusal, PrepareRemoval,
        RemoveWorkingTree, Deregister, ApplyRemoval, RemovalOutcome, Revalidating
  <2>5. CASE ClientActs(w) /\ ~BeginClears(w)
    BY <2>5
    DEF ClientActs, PlanCleanup, PlanFinalize, ObserveCleanup, EndCleanupRequest,
        Finalize, BeginAttention, BeginCleanup, RetryCleanup, Revalidating
  <2> QED BY <2>2, <2>3, <2>4, <2>5 DEF Acts
<1> QED BY <1>1, CToKeeps

\* A request rests or acts.
LEMMA RestsOrActs ==
  ASSUME TypeOK, Undisturbed, daemon = "up", [Next]_vars, NEW w \in Workers
  PROVE  cReq'[w] = cReq[w] \/ Acts(w)
BY StaysUp, WhoActs, ActsAlone

\* The phase that a request is in after it has acted.
LEMMA PhasesAfter ==
  ASSUME TypeOK, ~DaemonDies, NEW w \in Workers, Acts(w)
  PROVE  \/ cReq'[w].phase \in {"idle", "finalize"}
         \/ /\ w \in Clients /\ cReq'[w].phase = "observe"
            /\ \E t \in Tasks, op \in OpIds, mode \in CleanupModes,
                  acks \in SUBSET ContentKinds : PlanCleanup(w, t, op, mode, acks)
         \/ w \in Clients /\ cReq'[w].phase = "begin" /\ ObserveCleanup(w)
         \/ /\ w \in Clients /\ cReq'[w].phase = "revalidate"
            /\ BeginCleanup(w) \/ RetryCleanup(w)
         \/ cReq'[w].phase = "revalidate" /\ ApplyRemoval(w)
         \/ cReq'[w].phase = "applyObservation" /\ Revalidate(w)
         \/ w \in Clients /\ cReq'[w].phase = "remove" /\ PrepareRemoval(w)
         \/ cReq'[w].phase = "deregister" /\ RemoveWorkingTree(w)
         \/ /\ cReq'[w].phase = "applyRemoval"
            /\ RemoveWorkingTree(w) \/ Deregister(w)
<1>1. Idle.phase = "idle"
  BY DEF Idle
<1>2. CASE CTo(w, Idle)
  BY <1>1, <1>2, CToKeeps
<1>3. CASE BeginClears(w) \/ ApplyCompletion(w)
  <2>1. ASSUME NEW t, NEW o, CompleteCleanup(w, t, o) \/ CompleteCrash(t, o)
        PROVE  CTo(w, Idle)
    BY <2>1 DEF CompleteCleanup, CompleteCrash
  <2> QED BY <1>2, <1>3, <2>1 DEF BeginClears, ApplyCompletion
<1>4. CASE \/ LoseCleanupWorker(w) \/ ApplyNothing(w) \/ MarkAttention(w)
           \/ ApplyRefusal(w) \/ EndCleanupRequest(w) \/ Finalize(w) \/ BeginAttention(w)
  BY <1>2, <1>4 DEF LoseCleanupWorker, ApplyNothing, MarkAttention, ApplyRefusal,
                    EndCleanupRequest, Finalize, BeginAttention
<1>5. ASSUME NEW t, NEW o, NEW pf, Revalidating(w, t, o, pf)
      PROVE  cReq'[w].phase = "revalidate"
  BY <1>5, CToKeeps DEF Revalidating
<1>6. CASE w \in Clients /\ (BeginCleanup(w) \/ RetryCleanup(w))
  BY <1>5, <1>6 DEF BeginCleanup, RetryCleanup
<1>7. CASE ApplyRemoval(w)
  BY <1>2, <1>5, <1>7 DEF ApplyRemoval
<1>8. CASE Revalidate(w)
  <2>1. PICK r : CTo(w, r) /\ r.phase = "applyObservation"
    BY <1>8 DEF Revalidate
  <2> QED BY <1>8, <2>1, CToKeeps
<1>9. CASE PrepareRemoval(w)
  <2>1. CASE w \in Tasks
    BY <1>2, <1>9, <2>1 DEF PrepareRemoval
  <2>2. CASE w \in Clients
    <3>1. w \notin Tasks
      BY <2>2, NamesAssumption
    <3>2. PICK r : CTo(w, r) /\ r.phase = "remove"
      BY <1>9, <3>1 DEF PrepareRemoval
    <3> QED BY <1>9, <2>2, <3>2, CToKeeps
  <2> QED BY <2>1, <2>2 DEF Workers
<1>10. ASSUME NEW d, RemovalOutcome(w, d)
       PROVE  cReq'[w].phase = "applyRemoval"
  BY <1>10, CToKeeps DEF RemovalOutcome
<1>11. CASE RemoveWorkingTree(w)
  <2>1. \/ \E d : RemovalOutcome(w, d)
        \/ \E r : CTo(w, r) /\ r.phase = "deregister"
    BY <1>11 DEF RemoveWorkingTree
  <2> QED BY <1>10, <1>11, <2>1, CToKeeps
<1>12. CASE Deregister(w)
  BY <1>10, <1>12 DEF Deregister
<1>13. CASE w \in Clients /\ ObserveCleanup(w)
  <2>1. PICK r : CTo(w, r) /\ r.phase = "begin"
    BY <1>13 DEF ObserveCleanup
  <2> QED BY <1>13, <2>1, CToKeeps
<1>14. CASE \E t \in Tasks : PlanFinalize(w, t)
  <2>1. PICK r : CTo(w, r) /\ r.phase = "finalize"
    BY <1>14 DEF PlanFinalize
  <2> QED BY <2>1, CToKeeps
<1>15. ASSUME w \in Clients, NEW t \in Tasks, NEW op \in OpIds, NEW mode \in CleanupModes,
              NEW acks \in SUBSET ContentKinds, PlanCleanup(w, t, op, mode, acks)
       PROVE  cReq'[w].phase = "observe"
  <2>1. PICK i : CTo(w, [phase |-> "observe", intent |-> i])
    BY <1>15 DEF PlanCleanup
  <2> QED BY <2>1, CToKeeps
<1> QED BY <1>3, <1>4, <1>6, <1>7, <1>8, <1>9, <1>11, <1>12, <1>13, <1>14, <1>15
        DEF Acts, ClientActs, CleanupStep

-----------------------------------------------------------------------------
(* The branch of a checkout *)

\* A proof changes when its binding is cleared or committed.
LEMMA ProofSteps ==
  ASSUME TypeOK, Undisturbed, daemon = "up", [Next]_vars, NEW t \in Tasks,
         proof'[t] # None, proof'[t] # proof[t]
  PROVE  \E w \in Workers : /\ ReadyToCommit(w) /\ CanCommit(t) /\ pReq[w].task = t
                            /\ proof'[t].spec = prov[t].spec /\ UNCHANGED <<clean, git>>
<1>1. ~DaemonDies /\ ~CleanupStartup
  BY StaysUp
<1>2. ASSUME NEW w \in Workers, CommitCrash(w) \/ VerifiedCrash(w)
      PROVE  FALSE
  BY <1>1, <1>2 DEF CommitCrash, VerifiedCrash
<1>3. ASSUME NEW c \in Clients,
             Finalize(c) \/ BeginAttention(c) \/ BeginCleanup(c) \/ RetryCleanup(c)
      PROVE  FALSE
  BY <1>3 DEF Finalize, BeginAttention, BeginCleanup, RetryCleanup, OnlyCleanupJournal
<1>4. ASSUME NEW w \in Workers,
             MarkAttention(w) \/ ApplyRefusal(w) \/ PrepareRemoval(w) \/ ApplyRemoval(w)
      PROVE  FALSE
  BY <1>4 DEF MarkAttention, ApplyRefusal, PrepareRemoval, ApplyRemoval,
              OnlyCleanupJournal
<1>5. ASSUME NEW u, NEW o, NEW left, ClearBinding(u, o, left)
      PROVE  FALSE
  BY <1>5 DEF ClearBinding, TypeOK, StoreTypeOK
<1>6. ASSUME \/ \E c \in Clients : BeginClears(c)
             \/ \E w \in Workers : ApplyCompletion(w)
      PROVE  FALSE
  BY <1>5, <1>6 DEF BeginClears, ApplyCompletion, CompleteCleanup, CompleteCrash
<1>7. PICK w \in Workers : ApplyCommit(w)
  BY <1>1, <1>2, <1>3, <1>4, <1>6, JournalSteps DEF JournalStep, CleanupStartup
<1>8. PICK left : CommitBinding(pReq[w].task, left)
  BY <1>7 DEF ApplyCommit
<1>9. pReq[w].task = t /\ proof'[t].spec = prov[t].spec
  BY <1>8 DEF CommitBinding, TypeOK, StoreTypeOK
<1> QED BY <1>7, <1>8, <1>9 DEF ApplyCommit, CommitBinding

\* A worker that drives a journal is the only one for its branch and for its path.
LEMMA DriverOf ==
  ASSUME TypeOK, StoreInv, SingleProvisioner, NEW v \in Workers,
         pReq[v].phase \in Driving
  PROVE  LET o == pReq[v].operation  u == pReq[v].task
         IN  /\ u \in Tasks /\ o \in ProvOp /\ prov[u] = o /\ o # None
             /\ o.spec.branch \in Branches /\ o.spec.path \in Paths
             /\ o.stage # "bindingCommitted" => task[u].worktree = None
             /\ \A t \in Tasks : o.spec.branch \in HeldBranches(t) => t = u
             /\ \A t \in Tasks : o.spec.path \in HeldPaths(t) => t = u
             /\ \A w \in Workers : pReq[w].phase \in Driving /\ pReq[w].task = u => w = v
<1> DEFINE o == pReq[v].operation
           u == pReq[v].task
<1>1. u \in Tasks /\ o \in ProvOp /\ prov[u] = o /\ o # None
  BY RequestFacts DEF SingleProvisioner
<1>2. o.spec.branch \in Branches /\ o.spec.path \in Paths
  BY <1>1 DEF ProvOp, WorktreeSpec
<1>3. o.spec.branch \in HeldBranches(u) /\ o.spec.path \in HeldPaths(u)
  BY <1>1, <1>2, NamesAssumption DEF HeldBranches, HeldPaths
<1>4. o.stage # "bindingCommitted" => task[u].worktree = None
  BY <1>1 DEF StoreInv, ProvisioningJournalSound
<1>5. \A w \in Workers : pReq[w].phase \in Driving /\ pReq[w].task = u => w = v
  BY DEF SingleProvisioner
<1> QED BY <1>1, <1>2, <1>3, <1>4, <1>5 DEF StoreInv, HoldingsExclusive

LEMMA BoundHeadsKept ==
  ASSUME TypeOK, StoreInv, SingleProvisioner, Undisturbed, ReservationInv, [Next]_vars
  PROVE  BoundHeads'
<1> SUFFICES ASSUME NEW t \in Tasks, proof'[t] # None, reg'[proof'[t].spec.path] # None
             PROVE  /\ reg'[proof'[t].spec.path] = proof'[t].spec.branch
                    /\ ref'[proof'[t].spec.branch] # None
  BY DEF BoundHeads
<1>1. daemon = "up"
  BY DEF ReservationInv
<1>2. CASE proof'[t] = proof[t]
  <2>1. PICK p \in Paths : p = proof[t].spec.path /\ task[t].worktree = p
    BY <1>2, BoundPath
  <2>2. reg'[p] = reg[p]
    <3>1. CASE SamePlace(p)
      BY <3>1 DEF SamePlace
    <3>2. ASSUME NEW w \in Workers, RemoveWorkingTree(w) \/ Deregister(w),
                 p = cReq[w].operation.baseline.path
          PROVE  reg'[p] = reg[p]
      <4>1. UNCHANGED reg \/ reg' = [reg EXCEPT ![p] = None]
        BY <3>2 DEF RemoveWorkingTree, Deregister
      <4> QED BY <1>2, <2>1, <4>1 DEF TypeOK, GitTypeOK
    <3> QED BY <1>1, <2>1, <3>1, <3>2, BoundMoves
  <2>3. PICK b \in Branches : b = proof[t].spec.branch /\ task[t].branch = b
    BY <1>2 DEF TypeOK, StoreTypeOK, ManagedProof, WorktreeSpec, StoreInv,
                ProofMatchesBinding
  <2>4. reg[p] = b /\ ref[b] # None
    BY <1>2, <2>1, <2>2, <2>3 DEF ReservationInv, BoundHeads
  <2>5. ref'[b] # None
    <3> SUFFICES ASSUME ref'[b] = None
                 PROVE  FALSE
      OBVIOUS
    <3>1. PICK w \in Workers : /\ pReq[w].phase = "deleteRef"
                               /\ pReq[w].operation.spec.branch = b
      BY <2>4, RefStays DEF CheckedOut
    <3>2. pReq[w].phase \in Driving /\ pReq[w].operation.stage = "branchCreated"
      BY <3>1 DEF Driving, ReservationInv, ReadyHeads
    <3>3. b \in HeldBranches(t)
      BY <2>3, NamesAssumption DEF HeldBranches
    <3>4. task[t].worktree = None
      BY <3>1, <3>2, <3>3, DriverOf
    <3> QED BY <2>1, <3>4, NamesAssumption
  <2> QED BY <1>2, <2>1, <2>2, <2>3, <2>4, <2>5
<1>3. CASE proof'[t] # proof[t]
  <2>1. PICK w \in Workers : /\ ReadyToCommit(w) /\ CanCommit(t) /\ pReq[w].task = t
                             /\ proof'[t].spec = prov[t].spec /\ UNCHANGED git
    BY <1>1, <1>3, ProofSteps
  <2>2. /\ pReq[w].phase = "apply" /\ pReq[w].result = "readyToCommit"
        /\ pReq[w].operation.stage = "worktreeAdded"
        /\ pReq[w].operation.spec = prov[t].spec
    BY <2>1 DEF ReadyToCommit, StillCurrent, CanCommit
  <2> QED BY <2>1, <2>2 DEF ReservationInv, ReadyHeads, git
<1> QED BY <1>2, <1>3

\* A removal is at the path of its own binding.
LEMMA RemovesBound ==
  ASSUME TypeOK, StoreInv, ReservationInv, NEW w \in Workers,
         RemoveWorkingTree(w) \/ Deregister(w)
  PROVE  LET t == cReq[w].task  p == cReq[w].proof.spec.path
         IN  /\ t \in Tasks /\ p \in Paths /\ cReq[w].operation.baseline.path = p
             /\ proof[t] = cReq[w].proof /\ proof[t] # None /\ task[t].worktree = p
             /\ \A u \in Tasks : p \in HeldPaths(u) => u = t
             /\ cReq[w].phase \in {"remove", "deregister"}
<1>1. cReq[w].phase \in {"remove", "deregister"}
  BY DEF RemoveWorkingTree, Deregister
<1>2. /\ proof[cReq[w].task] = cReq[w].proof
      /\ cReq[w].operation.baseline.path = cReq[w].proof.spec.path
  BY <1>1 DEF ReservationInv, Owned
<1>3. /\ cReq[w].phase \in Knowing /\ TaskOf(cReq[w]) = cReq[w].task
      /\ ProofOf(cReq[w]) = cReq[w].proof
  BY <1>1 DEF Knowing, CleanupDriving, TaskOf, ProofOf
<1>4. cReq[w].task \in Tasks /\ cReq[w].proof # None
  BY <1>3, KnowingFacts
<1> QED BY <1>1, <1>2, <1>4, BoundPath

LEMMA ReadyHeadsKept ==
  ASSUME TypeOK, StoreInv, SingleProvisioner, Undisturbed, ReservationInv, [Next]_vars
  PROVE  ReadyHeads'
<1> SUFFICES ASSUME NEW w \in Workers
             PROVE  LET o == pReq'[w].operation
                    IN  /\ pReq'[w].phase = "apply" /\ pReq'[w].result = "readyToCommit"
                             /\ o.stage = "worktreeAdded" =>
                             reg'[o.spec.path] = o.spec.branch /\ ref'[o.spec.branch] # None
                        /\ pReq'[w].phase \in {"rollback", "deleteRef"}
                             => o.stage = "branchCreated"
  BY DEF ReadyHeads
<1>1. daemon = "up" /\ DaemonOwnsCheckouts /\ \A q \in Paths : ~UserSwitches(q)
  BY StaysUp DEF ReservationInv
<1>2. CASE pReq'[w] = pReq[w]
  <2> DEFINE o == pReq[w].operation
  <2>1. ASSUME pReq[w].phase = "apply", pReq[w].result = "readyToCommit",
               o.stage = "worktreeAdded"
        PROVE  reg'[o.spec.path] = o.spec.branch /\ ref'[o.spec.branch] # None
    <3>1. pReq[w].phase \in Driving
      BY <2>1 DEF Driving
    <3>2. PICK t \in Tasks, p \in Paths, b \in Branches :
            /\ t = pReq[w].task /\ p = o.spec.path /\ b = o.spec.branch
            /\ prov[t] = o /\ o # None /\ task[t].worktree = None
            /\ \A u \in Tasks : (b \in HeldBranches(u) \/ p \in HeldPaths(u)) => u = t
            /\ \A v \in Workers : pReq[v].phase \in Driving /\ pReq[v].task = t => v = w
      BY <2>1, <3>1, DriverOf
    <3>3. reg[p] = b /\ ref[b] # None
      BY <2>1, <3>2 DEF ReservationInv, ReadyHeads
    <3>4. p \in HeldPaths(t) /\ b \in HeldBranches(t)
      BY <3>2, NamesAssumption DEF HeldPaths, HeldBranches
    <3>5. ASSUME NEW v \in Workers, AddWorktree(v)
          PROVE  reg'[p] = reg[p]
      <4>1. pReq[v].phase = "execute" /\ pReq[v].phase \in Driving
        BY <3>5 DEF AddWorktree, Driving
      <4>2. pReq[v].operation.spec.path # p
        BY <2>1, <3>2, <3>4, <4>1, DriverOf
      <4>3. UNCHANGED reg \/ \E c : reg' = [reg EXCEPT ![pReq[v].operation.spec.path] = c]
        BY <3>5 DEF AddWorktree
      <4> QED BY <4>2, <4>3 DEF TypeOK, GitTypeOK
    <3>6. ASSUME NEW v \in Workers, RemoveWorkingTree(v) \/ Deregister(v)
          PROVE  reg'[p] = reg[p]
      <4>1. cReq[v].operation.baseline.path # p
        BY <3>2, <3>4, <3>6, RemovesBound, NamesAssumption
      <4>2. UNCHANGED reg \/ reg' = [reg EXCEPT ![cReq[v].operation.baseline.path] = None]
        BY <3>6 DEF RemoveWorkingTree, Deregister
      <4> QED BY <4>1, <4>2 DEF TypeOK, GitTypeOK
    <3>7. ASSUME NEW q \in Paths, UserEdits(q)
          PROVE  UNCHANGED reg
      BY <3>7 DEF UserEdits
    <3>8. reg'[p] = reg[p]
      BY <1>1, <3>5, <3>6, <3>7, GitMoves
    <3>9. ASSUME NEW v \in Workers, pReq[v].phase = "deleteRef",
                 pReq[v].operation.spec.branch = b
          PROVE  FALSE
      <4>1. pReq[v].phase \in Driving
        BY <3>9 DEF Driving
      <4> QED BY <2>1, <3>2, <3>4, <3>9, <4>1, DriverOf
    <3>10. ref'[b] # None
      BY <3>3, <3>9, RefStays DEF CheckedOut
    <3> QED BY <3>2, <3>3, <3>8, <3>10
  <2>2. pReq[w].phase \in {"rollback", "deleteRef"} => o.stage = "branchCreated"
    BY DEF ReservationInv, ReadyHeads
  <2> QED BY <1>2, <2>1, <2>2
<1>3. CASE Works(w)
  <2> DEFINE o == pReq[w].operation
  <2>1. ExecuteStep(w) /\ pReq'[w].operation = o
    BY <1>3 DEF Works
  <2>2. ASSUME NEW d, Outcome(w, d)
        PROVE  pReq'[w].phase = "apply" /\ pReq'[w].result = d
    BY <2>2, ToKeeps DEF Outcome
  <2>3. CASE VerifyWorktree(w)
    <3>1. /\ UNCHANGED git /\ pReq'[w].phase = "apply"
          /\ \/ reg[o.spec.path] = o.spec.branch /\ ref[o.spec.branch] # None
             \/ pReq'[w].result = "failed"
      BY <2>2, <2>3 DEF VerifyWorktree
    <3> QED BY <2>1, <3>1 DEF git
  <2>4. CASE CheckRollback(w) \/ DeleteCreatedRef(w)
    <3>1. o.stage = "branchCreated"
      BY <2>4 DEF CheckRollback, DeleteCreatedRef, ReservationInv, ReadyHeads
    <3> QED BY <2>1, <3>1
  <2>5. CASE CreateBranch(w)
    <3>1. o.stage = "reserved" /\ \E d : Outcome(w, d)
      BY <2>5 DEF CreateBranch
    <3> QED BY <2>1, <2>2, <3>1
  <2>6. CASE AddWorktree(w)
    <3>1. o.stage \in {"reserved", "branchCreated"}
          /\ (StepFailed(w) \/ Outcome(w, "worktreeAdded"))
      BY <2>6 DEF AddWorktree
    <3>2. o.stage = "branchCreated" \/ \E d : Outcome(w, d)
      BY <3>1 DEF StepFailed
    <3> QED BY <2>1, <2>2, <3>1, <3>2
  <2> QED BY <2>1, <2>3, <2>4, <2>5, <2>6 DEF ExecuteStep
<1>4. CASE pReq'[w] # pReq[w] /\ ~Works(w)
  <2>1. pReq'[w].phase \notin {"apply", "rollback", "deleteRef"}
    BY <1>4, ProvisioningMoves
    DEF ProvisioningMove, Kept, Looks, Dismissing, Works, Begins, Applies, Dismisses,
        Reconciles, OthersWait, Idle
  <2> QED BY <2>1
<1> QED BY <1>2, <1>3, <1>4

-----------------------------------------------------------------------------
(* The request that drives a journal *)

\* A proof that a request knows and that is on record was on record before.
LEMMA StaysCurrent ==
  ASSUME TypeOK, StoreInv, CheckoutsInv, [Next]_vars, NEW w \in Workers,
         cReq[w].phase \in Knowing, proof'[TaskOf(cReq[w])] = ProofOf(cReq[w])
  PROVE  proof[TaskOf(cReq[w])] = ProofOf(cReq[w])
<1> DEFINE t == TaskOf(cReq[w])
           pf == ProofOf(cReq[w])
<1>1. /\ t \in Tasks /\ pf # None /\ pf.gen \in Nat /\ pf.gen <= task[t].gen
  BY KnowingFacts DEF CheckoutsInv, KnownProof
<1> QED BY <1>1, GenerationsRise

\* The checkout of a binding that stands stood before.
LEMMA StoodBefore ==
  ASSUME TypeOK, StoreInv, SingleProvisioner, Undisturbed, daemon = "up", [Next]_vars,
         NEW p \in Paths, NEW t \in Tasks, task[t].worktree = p, Stands(p)'
  PROVE  Stands(p)
<1>1. dir'[p] = "present" /\ reg'[p] # None
  BY DEF Stands
<1>2. CASE SamePlace(p)
  BY <1>1, <1>2 DEF SamePlace, Stands
<1>3. ASSUME NEW w \in Workers, RemoveWorkingTree(w) \/ Deregister(w),
             p = cReq[w].operation.baseline.path
      PROVE  Stands(p)
  <2>1. \/ UNCHANGED <<dir, reg>>
        \/ dir' = [dir EXCEPT ![p] = "absent"]
        \/ reg' = [reg EXCEPT ![p] = None]
    BY <1>3 DEF RemoveWorkingTree, Deregister
  <2> QED BY <1>1, <2>1 DEF TypeOK, GitTypeOK, Stands
<1> QED BY <1>2, <1>3, BoundMoves

\* A request goes on with the journal it drives.
Continues(w) ==
  /\ cReq[w].phase \in CleanupDriving
  /\ cReq'[w].task = cReq[w].task /\ cReq'[w].proof = cReq[w].proof
  /\ cReq'[w].operation.op = cReq[w].operation.op

LEMMA ContinuesTo ==
  ASSUME TypeOK, NEW w \in Workers, NEW r, CTo(w, r), cReq[w].phase \in CleanupDriving,
         r.task = cReq[w].task, r.proof = cReq[w].proof,
         r.operation.op = cReq[w].operation.op
  PROVE  Continues(w)
BY CToKeeps DEF Continues

LEMMA DriverSteps ==
  ASSUME TypeOK, Undisturbed, daemon = "up", [Next]_vars, NEW w \in Workers,
         cReq'[w].phase \in CleanupDriving
  PROVE  Continues(w) \/ (w \in Clients /\ (BeginCleanup(w) \/ RetryCleanup(w)))
<1>1. CASE cReq'[w] = cReq[w]
  BY <1>1 DEF Continues
<1>2. CASE ApplyRemoval(w)
  <2>1. cReq[w].phase = "applyRemoval"
    BY <1>2 DEF ApplyRemoval
  <2>2. CASE CTo(w, Idle)
    BY <2>2, CToKeeps DEF Idle, CleanupDriving
  <2>3. CASE /\ Revalidating(w, cReq[w].task, clean[cReq[w].task], cReq[w].proof)
             /\ clean[cReq[w].task].op = cReq[w].operation.op
    BY <2>1, <2>3, CToKeeps DEF Revalidating, Continues, CleanupDriving
  <2> QED BY <1>2, <2>2, <2>3 DEF ApplyRemoval
<1>3. CASE Revalidate(w)
  <2>1. cReq[w].phase = "revalidate"
    BY <1>3 DEF Revalidate
  <2>2. PICK f : CTo(w, [phase |-> "applyObservation", task |-> cReq[w].task,
                         operation |-> cReq[w].operation, proof |-> cReq[w].proof,
                         facts |-> f])
    BY <1>3 DEF Revalidate
  <2> QED BY <2>1, <2>2, CToKeeps DEF Continues, CleanupDriving
<1>4. CASE w \in Clients /\ PrepareRemoval(w)
  <2> DEFINE t == cReq[w].task
             o == [clean[t] EXCEPT !.stage = "removePrepared", !.failure = None]
  <2>1. /\ cReq[w].phase = "applyObservation"
        /\ clean[t] # None /\ clean[t].op = cReq[w].operation.op
    BY <1>4 DEF PrepareRemoval, ReservedAccepted, ReadyToApply, Applying
  <2>2. w \notin Tasks
    BY <1>4, NamesAssumption
  <2>3. CTo(w, [phase |-> "remove", task |-> t, operation |-> o, proof |-> cReq[w].proof])
    BY <1>4, <2>2 DEF PrepareRemoval
  <2>4. t \in Tasks
    BY <2>1, KnowingFacts DEF Knowing, CleanupDriving, TaskOf
  <2>5. o.op = clean[t].op
    BY <2>1, <2>4 DEF TypeOK, StoreTypeOK, CleanOp
  <2> HIDE DEF o
  <2> QED BY <2>1, <2>3, <2>5, ContinuesTo DEF CleanupDriving
<1>5. ASSUME NEW d, RemovalOutcome(w, d), cReq[w].phase \in CleanupDriving
      PROVE  Continues(w)
  BY <1>5, CToKeeps DEF RemovalOutcome, Continues
<1>6. CASE RemoveWorkingTree(w)
  <2>1. cReq[w].phase \in CleanupDriving
    BY <1>6 DEF RemoveWorkingTree, CleanupDriving
  <2>2. \/ \E d : RemovalOutcome(w, d)
        \/ \E d : CTo(w, [phase |-> "deregister", task |-> cReq[w].task,
                          operation |-> cReq[w].operation, proof |-> cReq[w].proof,
                          deleted |-> d])
    BY <1>6 DEF RemoveWorkingTree
  <2> QED BY <1>5, <2>1, <2>2, ContinuesTo
<1>7. CASE Deregister(w)
  BY <1>5, <1>7 DEF Deregister, CleanupDriving
<1> QED BY <1>1, <1>2, <1>3, <1>4, <1>6, <1>7, StaysUp, RestsOrActs, PhasesAfter
        DEF CleanupDriving

\* A request that drives a journal, and what it knows.
LEMMA DrivingFacts ==
  ASSUME TypeOK, NEW w \in Workers, cReq[w].phase \in CleanupDriving
  PROVE  /\ cReq[w].phase \in Knowing /\ TaskOf(cReq[w]) = cReq[w].task
         /\ ProofOf(cReq[w]) = cReq[w].proof /\ OpOf(cReq[w]) = cReq[w].operation.op
         /\ cReq[w].task \in Tasks /\ cReq[w].proof # None
         /\ cReq[w].proof.spec.path \in Paths
<1>1. /\ cReq[w].phase \in Knowing /\ TaskOf(cReq[w]) = cReq[w].task
      /\ ProofOf(cReq[w]) = cReq[w].proof /\ OpOf(cReq[w]) = cReq[w].operation.op
  BY DEF Knowing, CleanupDriving, TaskOf, ProofOf, OpOf
<1> QED BY <1>1, KnowingFacts

\* While the checkout stands, nobody else writes the journal that a request drives.
LEMMA JournalDriven ==
  ASSUME TypeOK, StoreInv, Undisturbed, ReservationInv, [Next]_vars,
         NEW w \in Workers, cReq[w].phase \in CleanupDriving,
         proof[cReq[w].task] = cReq[w].proof, Stands(cReq[w].proof.spec.path)
  PROVE  LET t == cReq[w].task
         IN  \/ clean'[t] = clean[t] \/ PrepareRemoval(w)
             \/ cReq'[w].phase \notin CleanupDriving
<1> DEFINE t == cReq[w].task
           p == cReq[w].proof.spec.path
<1> SUFFICES ASSUME clean'[t] # clean[t], ~PrepareRemoval(w)
             PROVE  cReq'[w].phase \notin CleanupDriving
  OBVIOUS
<1>1. t \in Tasks /\ proof[t] # None /\ p \in Paths
  BY DrivingFacts
<1>2. /\ clean[t] # None /\ clean[t].failure = None
      /\ \A v \in Workers : cReq[v].phase \in CleanupDriving /\ cReq[v].task = t
                              /\ cReq[v].proof = proof[t] => v = w
  BY DEF ReservationInv, Driven
<1>3. ~DaemonDies /\ ~CleanupStartup
  BY StaysUp DEF ReservationInv
<1>4. ASSUME NEW u, NEW o, Journal(u, o)
      PROVE  u = t
  BY <1>1, <1>4 DEF Journal, TypeOK, StoreTypeOK
<1>5. ASSUME CTo(w, Idle)
      PROVE  cReq'[w].phase \notin CleanupDriving
  BY <1>5, CToKeeps DEF Idle, CleanupDriving
<1>6. ASSUME NEW v \in Workers, ApplyCommit(v) \/ CommitCrash(v) \/ VerifiedCrash(v)
      PROVE  FALSE
  BY <1>3, <1>6 DEF ApplyCommit, CommitBinding, CommitCrash, VerifiedCrash
<1>7. ASSUME NEW c \in Clients, Finalize(c)
      PROVE  FALSE
  <2>1. cReq[c].task = t /\ clean[t].stage = "bindingCleared"
    BY <1>1, <1>7 DEF Finalize, TypeOK, StoreTypeOK
  <2>2. task[t].worktree = None
    BY <1>1, <1>2, <2>1 DEF StoreInv, CleanupJournalSound
  <2> QED BY <1>1, <2>2, BoundPath, NamesAssumption
<1>8. ASSUME NEW c \in Clients, Starts(c), cReq[c].intent.task = t
      PROVE  FALSE
  BY <1>2, <1>8 DEF Starts, StoreStarts, StoreSupersedes
<1>9. ASSUME NEW c \in Clients, BeginCleanup(c) \/ RetryCleanup(c)
      PROVE  FALSE
  <2>1. cReq[c].intent.task = t
    BY <1>4, <1>9 DEF BeginCleanup, RetryCleanup
  <2> QED BY <1>2, <1>8, <1>9, <2>1 DEF BeginCleanup, RetryCleanup
<1>10. ASSUME NEW u, NEW o, NEW left, ClearBinding(u, o, left)
       PROVE  u = t
  BY <1>1, <1>10 DEF ClearBinding, TypeOK, StoreTypeOK
<1>11. ASSUME NEW c \in Clients, BeginClears(c)
       PROVE  FALSE
  <2>1. cReq[c].intent.task = t
    BY <1>10, <1>11 DEF BeginClears, CompleteCleanup, CompleteCrash
  <2> QED BY <1>8, <1>11, <2>1 DEF BeginClears
<1>12. ASSUME NEW c \in Clients, BeginAttention(c)
       PROVE  FALSE
  <2>1. cReq[c].intent.task = t
    BY <1>4, <1>12 DEF BeginAttention
  <2>2. /\ cReq[c].phase = "begin" /\ proof[t] = cReq[c].intent.proof
        /\ NeedsAttention(cReq[c].facts)
    BY <1>12, <2>1 DEF BeginAttention, BeginReady, TupleCurrent
  <2>3. TaskOf(cReq[c]) = t /\ ProofOf(cReq[c]) = proof[t] /\ Seen(cReq[c])
    BY <2>1, <2>2 DEF TaskOf, ProofOf, ReservationInv, Workers
  <2> QED BY <2>2, <2>3 DEF Seen
<1>13. ASSUME NEW v \in Workers, Applying(v), cReq[v].task = t
       PROVE  v = w
  BY <1>2, <1>13 DEF Applying, TupleCurrent, CleanupDriving
<1>14. ASSUME NEW v \in Workers,
              MarkAttention(v) \/ ApplyRefusal(v) \/ PrepareRemoval(v)
       PROVE  cReq'[w].phase \notin CleanupDriving
  <2>1. cReq[v].task = t /\ Applying(v)
    BY <1>4, <1>14 DEF MarkAttention, ApplyRefusal, PrepareRemoval, ReservedAccepted,
                       ReadyToApply
  <2>2. v = w
    BY <1>13, <2>1
  <2> QED BY <1>5, <1>14, <2>2 DEF MarkAttention, ApplyRefusal
<1>15. ASSUME NEW v \in Workers, ApplyCompletion(v)
       PROVE  cReq'[w].phase \notin CleanupDriving
  <2>1. cReq[v].task = t /\ CTo(v, Idle)
    BY <1>3, <1>10, <1>15 DEF ApplyCompletion, CompleteCleanup, CompleteCrash
  <2>2. Applying(v)
    BY <1>15 DEF ApplyCompletion, ReadyToComplete, ReservedAccepted, ReadyToApply
  <2> QED BY <1>5, <1>13, <2>1, <2>2
<1>16. ASSUME NEW v \in Workers, ApplyRemoval(v)
       PROVE  cReq'[w].phase \notin CleanupDriving
  <2>1. /\ cReq[v].task = t /\ cReq[v].phase = "applyRemoval"
        /\ clean[t].op = cReq[v].operation.op /\ clean[t].stage = "removePrepared"
        /\ CTo(v, Idle)
    BY <1>4, <1>16 DEF ApplyRemoval
  <2>2. cReq[v].phase \in CleanupDriving
    BY <2>1 DEF CleanupDriving
  <2>3. cReq[v].proof = proof[t]
    BY <1>2, <2>1, <2>2, DrivingFacts DEF ReservationInv, IdsApart
  <2> QED BY <1>2, <1>5, <2>1, <2>2, <2>3
<1> QED BY <1>3, <1>6, <1>7, <1>9, <1>11, <1>12, <1>14, <1>15, <1>16, JournalSteps
        DEF JournalStep, CleanupStartup

\* A client's request becomes the driver of a journal that has none.
LEMMA NewDriver ==
  ASSUME TypeOK, StoreInv, NEW c \in Clients, BeginCleanup(c) \/ RetryCleanup(c)
  PROVE  LET t == cReq[c].intent.task
         IN  /\ t \in Tasks /\ cReq[c].phase = "begin"
             /\ proof[t] = cReq[c].intent.proof /\ proof[t] # None
             /\ clean[t] = None \/ clean[t].failure # None
             /\ cReq'[c].phase = "revalidate" /\ cReq'[c].task = t
             /\ cReq'[c].proof = proof[t] /\ cReq'[c].operation = clean'[t]
             /\ clean'[t] # None /\ clean'[t].failure = None
             /\ clean'[t].op = cReq[c].intent.op
                  \/ (clean[t] # None /\ clean'[t].op = clean[t].op)
             /\ UNCHANGED <<proof, git, attached>>
             /\ \A v \in Workers : v # c => cReq'[v] = cReq[v]
<1> DEFINE t == cReq[c].intent.task
<1>1. c \in Workers
  BY DEF Workers
<1>2. /\ cReq[c].phase = "begin" /\ proof[t] = cReq[c].intent.proof
      /\ UNCHANGED <<proof, git, attached>>
  BY DEF BeginCleanup, RetryCleanup, BeginAccepted, BeginReady, TupleCurrent,
         OnlyCleanupJournal
<1>3. t \in Tasks /\ proof[t] # None
  BY <1>1, <1>2, KnowingFacts DEF Knowing, TaskOf, ProofOf
<1>4. clean[t] = None \/ clean[t].failure # None
  BY DEF BeginCleanup, RetryCleanup, Starts, StoreStarts, StoreSupersedes
<1>5. PICK o \in CleanOp :
        /\ Journal(t, o) /\ Revalidating(c, t, o, cReq[c].intent.proof)
        /\ o.failure = None
        /\ o.op = cReq[c].intent.op \/ (clean[t] # None /\ o.op = clean[t].op)
  <2>1. CASE BeginCleanup(c)
    <3> DEFINE q == RequestedCleanup(cReq[c].intent, cReq[c].facts)
    <3>1. q \in CleanOp
      BY <1>1, <1>2, <2>1, BeginFacts, RequestedCleanupTyped
      DEF BeginCleanup, BeginAccepted
    <3>2. q.failure = None /\ q.op = cReq[c].intent.op
      BY DEF RequestedCleanup
    <3> QED BY <2>1, <3>1, <3>2 DEF BeginCleanup
  <2>2. CASE RetryCleanup(c)
    <3> DEFINE q == RetriedCleanup(clean[t])
    <3>1. clean[t] # None /\ clean[t] \in CleanOp
      BY <1>3, <2>2 DEF RetryCleanup, StoreCurrent, TypeOK, StoreTypeOK
    <3>2. q \in CleanOp /\ q.failure = None /\ q.op = clean[t].op
      BY <3>1 DEF RetriedCleanup, CleanOp, CleanStages
    <3> QED BY <2>2, <3>1, <3>2 DEF RetryCleanup
  <2> QED BY <2>1, <2>2
<1>6. clean'[t] = o /\ o # None
  BY <1>3, <1>5, RecordAssumption DEF Journal, TypeOK, StoreTypeOK
<1> QED BY <1>1, <1>2, <1>3, <1>4, <1>5, <1>6, CToKeeps DEF Revalidating

LEMMA DrivenKept ==
  ASSUME TypeOK, StoreInv, SingleProvisioner, CheckoutsInv, Undisturbed, ReservationInv,
         [Next]_vars, NEW w \in Workers
  PROVE  Driven(w)'
<1> DEFINE t == cReq'[w].task
           p == cReq'[w].proof.spec.path
<1> SUFFICES ASSUME cReq'[w].phase \in CleanupDriving, proof'[t] = cReq'[w].proof,
                    dir'[p] = "present", reg'[p] # None
             PROVE  /\ clean'[t] # None /\ clean'[t].op = cReq'[w].operation.op
                    /\ clean'[t].failure = None
                    /\ \A v \in Workers \ {w} :
                         cReq'[v].phase \in CleanupDriving /\ cReq'[v].task = t
                           => cReq'[v].proof # proof'[t]
  BY DEF Driven, Stands
<1>1. daemon = "up"
  BY DEF ReservationInv
<1>2. CASE Continues(w)
  <2>1. cReq[w].phase \in CleanupDriving /\ t = cReq[w].task /\ cReq'[w].proof = cReq[w].proof
    BY <1>2 DEF Continues
  <2>2. t \in Tasks /\ proof[t] = cReq[w].proof /\ proof[t] # None
    BY <2>1, DrivingFacts, StaysCurrent
  <2>3. PICK q \in Paths : q = p /\ task[t].worktree = q
    BY <2>1, <2>2, BoundPath
  <2>4. Stands(p)
    <3>1. Stands(q)'
      BY <2>3 DEF Stands
    <3> QED BY <1>1, <2>2, <2>3, <3>1, StoodBefore
  <2>5. /\ clean[t] # None /\ clean[t].op = cReq[w].operation.op /\ clean[t].failure = None
        /\ \A v \in Workers \ {w} :
             cReq[v].phase \in CleanupDriving /\ cReq[v].task = t => cReq[v].proof # proof[t]
    BY <2>1, <2>2, <2>4 DEF ReservationInv, Driven
  <2>6. /\ clean'[t] # None /\ clean'[t].op = clean[t].op /\ clean'[t].failure = None
    <3>1. CASE clean'[t] = clean[t]
      BY <2>5, <3>1
    <3>2. CASE PrepareRemoval(w)
      <4> DEFINE o == [clean[t] EXCEPT !.stage = "removePrepared", !.failure = None]
      <4>1. Journal(t, o)
        BY <2>1, <3>2 DEF PrepareRemoval
      <4>2. clean[t] \in CleanOp
        BY <2>2, <2>5 DEF TypeOK, StoreTypeOK
      <4>3. o \in CleanOp /\ o.op = clean[t].op /\ o.failure = None
        BY <4>2 DEF CleanOp, CleanStages
      <4>4. clean'[t] = o
        BY <2>2, <4>1 DEF Journal, TypeOK, StoreTypeOK
      <4> QED BY <4>3, <4>4, RecordAssumption
    <3> QED BY <2>1, <2>2, <2>4, <3>1, <3>2, JournalDriven
  <2>7. ASSUME NEW v \in Workers, v # w, cReq'[v].phase \in CleanupDriving,
               cReq'[v].task = t, cReq'[v].proof = proof'[t]
        PROVE  FALSE
    <3>1. CASE Continues(v)
      BY <2>1, <2>2, <2>5, <2>7, <3>1 DEF Continues
    <3>2. CASE v \in Clients /\ (BeginCleanup(v) \/ RetryCleanup(v))
      BY <2>5, <2>7, <3>2, NewDriver
    <3> QED BY <1>1, <2>7, <3>1, <3>2, DriverSteps
  <2> QED BY <1>2, <2>5, <2>6, <2>7 DEF Continues
<1>3. CASE w \in Clients /\ (BeginCleanup(w) \/ RetryCleanup(w))
  <2>1. /\ t \in Tasks /\ (clean[t] = None \/ clean[t].failure # None)
        /\ cReq'[w].operation = clean'[t] /\ clean'[t] # None /\ clean'[t].failure = None
        /\ UNCHANGED <<proof, git>> /\ \A v \in Workers : v # w => cReq'[v] = cReq[v]
    BY <1>3, NewDriver
  <2>2. Stands(p)
    BY <2>1 DEF Stands, git
  <2>3. ASSUME NEW v \in Workers, v # w, cReq'[v].phase \in CleanupDriving,
               cReq'[v].task = t, cReq'[v].proof = proof'[t]
        PROVE  FALSE
    <3>1. /\ cReq[v].phase \in CleanupDriving /\ cReq[v].task = t
          /\ cReq[v].proof = proof[t] /\ Stands(cReq[v].proof.spec.path)
      BY <2>1, <2>2, <2>3
    <3> QED BY <2>1, <3>1 DEF ReservationInv, Driven
  <2> QED BY <2>1, <2>3
<1> QED BY <1>1, <1>2, <1>3, DriverSteps

-----------------------------------------------------------------------------
(* What a request saw *)

\* The facts of an observation say of a checkout that it stands only if it does, and
\* that it needs attention only if it does not or has another branch.
LEMMA StandingSeen ==
  ASSUME NEW pf, NEW b, NEW blocked
  PROVE  LET f == ObservedFacts(pf, b, blocked)
         IN  /\ f.path = "present" /\ f.registered => Stands(pf.spec.path)
             /\ Stands(pf.spec.path) /\ reg[pf.spec.path] = b /\ b \in Branches
                  /\ OidOf(b) # None => ~NeedsAttention(f)
<1> DEFINE f == ObservedFacts(pf, b, blocked)
<1>1. /\ f.path = dir[pf.spec.path]
      /\ f.registered <=> reg[pf.spec.path] # None
      /\ reg[pf.spec.path] = b /\ b \in Branches /\ OidOf(b) # None => f.matches
  BY DEF ObservedFacts
<1> QED BY <1>1 DEF Stands, NeedsAttention

LEMMA SeenKept ==
  ASSUME TypeOK, StoreInv, SingleProvisioner, CheckoutsInv, Undisturbed, ReservationInv,
         [Next]_vars, NEW w \in Workers
  PROVE  Seen(cReq[w])'
<1> DEFINE r == cReq'[w]
           t == TaskOf(r)
           p == ProofOf(r).spec.path
<1>0. daemon = "up" /\ ~DaemonDies
  BY StaysUp DEF ReservationInv
<1>1. CASE r = cReq[w]
  <2> SUFFICES ASSUME r.phase \in {"begin", "applyObservation"}, proof'[t] = ProofOf(r)
               PROVE  /\ r.phase = "begin" /\ dir'[p] = "present" /\ reg'[p] # None
                           => ~NeedsAttention(r.facts)
                      /\ r.phase = "applyObservation" /\ r.facts.path = "present"
                           /\ r.facts.registered
                           => dir'[p] = "present" /\ reg'[p] # None
    BY <1>1 DEF Seen, TaskOf, ProofOf, NeedsAttention, Stands
  <2>1. cReq[w].phase \in Knowing
    BY <1>1 DEF Knowing, CleanupDriving
  <2>2. t \in Tasks /\ proof[t] = ProofOf(r) /\ proof[t] # None
    BY <1>1, <2>1, KnowingFacts, StaysCurrent
  <2>3. PICK q \in Paths : q = p /\ task[t].worktree = q
    BY <2>2, BoundPath
  <2>4. Seen(cReq[w])
    BY DEF ReservationInv
  <2>5. ASSUME r.phase = "begin", dir'[p] = "present", reg'[p] # None
        PROVE  ~NeedsAttention(r.facts)
    <3>1. Stands(q)'
      BY <1>1, <2>3, <2>5 DEF Stands
    <3>2. Stands(p)
      BY <1>0, <2>2, <2>3, <3>1, StoodBefore
    <3> QED BY <1>1, <2>2, <2>4, <2>5, <3>2 DEF Seen
  <2>6. ASSUME r.phase = "applyObservation", r.facts.path = "present", r.facts.registered
        PROVE  dir'[p] = "present" /\ reg'[p] # None
    <3>1. Stands(q)
      BY <1>1, <2>2, <2>3, <2>4, <2>6 DEF Seen
    <3>2. r.phase \in CleanupDriving /\ cReq[w].task = t /\ cReq[w].proof = proof[t]
      BY <1>1, <2>2, <2>6 DEF CleanupDriving, TaskOf, ProofOf
    <3>3. ASSUME NEW v \in Workers, RemoveWorkingTree(v) \/ Deregister(v),
                 q = cReq[v].operation.baseline.path
          PROVE  FALSE
      <4>1. /\ cReq[v].proof.spec.path = q /\ cReq[v].phase \in {"remove", "deregister"}
            /\ cReq[v].task \in Tasks /\ proof[cReq[v].task] = cReq[v].proof
            /\ task[cReq[v].task].worktree = q
        BY <3>3, RemovesBound
      <4>2. q \in HeldPaths(cReq[v].task)
        BY <4>1, NamesAssumption DEF HeldPaths
      <4>3. cReq[v].task = t
        BY <2>2, <2>3, <4>1, <4>2, BoundPath
      <4>4. cReq[v].phase \in CleanupDriving /\ v # w
        BY <1>1, <2>6, <4>1 DEF CleanupDriving
      <4> QED BY <1>1, <3>1, <3>2, <4>1, <4>3, <4>4 DEF ReservationInv, Driven
    <3>4. SamePlace(q)
      BY <1>0, <2>2, <2>3, <3>3, BoundMoves
    <3> QED BY <2>3, <3>1, <3>4 DEF SamePlace, Stands
  <2> QED BY <2>5, <2>6
<1>2. CASE w \in Clients /\ ObserveCleanup(w)
  <2> DEFINE i == cReq[w].intent
  <2>1. PICK blocked \in BOOLEAN :
          CTo(w, [phase |-> "begin", intent |-> i,
                  facts |-> ObservedFacts(i.proof, i.proof.spec.branch, blocked)])
    BY <1>2 DEF ObserveCleanup
  <2>2. UNCHANGED <<proof, git>> /\ cReq[w].phase = "observe"
    BY <1>2 DEF ObserveCleanup, OnlyCleanupRequest, store
  <2>3. /\ r.phase = "begin" /\ r.intent = i
        /\ r.facts = ObservedFacts(i.proof, i.proof.spec.branch, blocked)
    BY <2>1, CToKeeps
  <2> SUFFICES ASSUME proof[i.task] = i.proof, dir[i.proof.spec.path] = "present",
                      reg[i.proof.spec.path] # None
               PROVE  ~NeedsAttention(r.facts)
    BY <2>2, <2>3 DEF Seen, TaskOf, ProofOf, Stands, git
  <2>4. i.task \in Tasks /\ i.proof # None /\ i.proof \in ManagedProof
    BY <2>2, KnowingFacts DEF Knowing, TaskOf, ProofOf
  <2>5. /\ reg[i.proof.spec.path] = i.proof.spec.branch
        /\ ref[i.proof.spec.branch] # None /\ i.proof.spec.branch \in Branches
    BY <2>4 DEF ReservationInv, BoundHeads, ManagedProof, WorktreeSpec
  <2>6. OidOf(i.proof.spec.branch) # None
    <3>1. ref[i.proof.spec.branch] \in Ref
      BY <2>5 DEF TypeOK, GitTypeOK
    <3>2. ref[i.proof.spec.branch].oid # None
      BY <3>1, NamesAssumption DEF Ref
    <3> QED BY <2>5, <3>2 DEF OidOf
  <2> QED BY <2>3, <2>5, <2>6, StandingSeen DEF Stands
<1>3. CASE Revalidate(w)
  <2>1. PICK b, blocked :
          CTo(w, [phase |-> "applyObservation", task |-> cReq[w].task,
                  operation |-> cReq[w].operation, proof |-> cReq[w].proof,
                  facts |-> ObservedFacts(cReq[w].proof, b, blocked)])
    BY <1>3 DEF Revalidate
  <2>2. UNCHANGED <<proof, git>>
    BY <1>3 DEF Revalidate, OnlyCleanupRequest, store
  <2>3. /\ r.phase = "applyObservation" /\ r.proof = cReq[w].proof
        /\ r.facts = ObservedFacts(cReq[w].proof, b, blocked)
    BY <2>1, CToKeeps
  <2>4. r.facts.path = "present" /\ r.facts.registered =>
          dir'[r.proof.spec.path] = "present" /\ reg'[r.proof.spec.path] # None
    BY <2>2, <2>3, StandingSeen DEF Stands, git
  <2> QED BY <2>3, <2>4 DEF Seen, ProofOf, Stands
<1>4. CASE r.phase \notin {"begin", "applyObservation"}
  BY <1>4 DEF Seen
<1> QED BY <1>0, <1>1, <1>2, <1>3, <1>4, RestsOrActs, PhasesAfter

-----------------------------------------------------------------------------
(* The request that removes a checkout *)

\* The binding of a checkout that Git knows stays.
LEMMA ProofStays ==
  ASSUME TypeOK, StoreInv, CheckoutsInv, Undisturbed, daemon = "up", [Next]_vars,
         NEW t \in Tasks, proof[t] # None, reg[proof[t].spec.path] # None
  PROVE  proof'[t] = proof[t]
<1> SUFFICES ASSUME proof'[t] # proof[t]
             PROVE  FALSE
  OBVIOUS
<1>1. ~DaemonDies /\ ~CleanupStartup
  BY StaysUp
<1>2. ASSUME NEW v \in Workers, ApplyCommit(v)
      PROVE  FALSE
  <2>1. PICK left : CommitBinding(pReq[v].task, left)
    BY <1>2 DEF ApplyCommit
  <2>2. pReq[v].task = t
    BY <2>1 DEF CommitBinding, TypeOK, StoreTypeOK
  <2>3. task[t].worktree = None
    BY <1>2, <2>2 DEF ApplyCommit, CanCommit
  <2> QED BY <2>3, BoundPath, NamesAssumption
<1>3. ASSUME NEW v \in Workers, CommitCrash(v) \/ VerifiedCrash(v)
      PROVE  FALSE
  BY <1>1, <1>3 DEF CommitCrash, VerifiedCrash
<1>4. ASSUME NEW c \in Clients,
             Finalize(c) \/ BeginAttention(c) \/ BeginCleanup(c) \/ RetryCleanup(c)
      PROVE  FALSE
  BY <1>4 DEF Finalize, BeginAttention, BeginCleanup, RetryCleanup, OnlyCleanupJournal
<1>5. ASSUME NEW v \in Workers,
             MarkAttention(v) \/ ApplyRefusal(v) \/ PrepareRemoval(v) \/ ApplyRemoval(v)
      PROVE  FALSE
  BY <1>5 DEF MarkAttention, ApplyRefusal, PrepareRemoval, ApplyRemoval,
              OnlyCleanupJournal
<1>6. ASSUME NEW u, NEW o, NEW left, ClearBinding(u, o, left)
      PROVE  u = t
  BY <1>6 DEF ClearBinding, TypeOK, StoreTypeOK
<1>7. ASSUME NEW v \in Workers, cReq[v].phase \in {"begin", "applyObservation"},
             BothAbsent(cReq[v].facts), TaskOf(cReq[v]) = t, ProofOf(cReq[v]) = proof[t]
      PROVE  FALSE
  BY <1>7 DEF CheckoutsInv, AbsenceKnown, DestinationFree
<1>8. ASSUME NEW c \in Clients, BeginClears(c)
      PROVE  FALSE
  <2>1. cReq[c].intent.task = t
    BY <1>6, <1>8 DEF BeginClears, CompleteCleanup, CompleteCrash
  <2>2. /\ cReq[c].phase = "begin" /\ BothAbsent(cReq[c].facts)
        /\ proof[t] = cReq[c].intent.proof
    BY <1>8, <2>1 DEF BeginClears, BeginAccepted, BeginReady, TupleCurrent
  <2> QED BY <1>7, <2>1, <2>2 DEF TaskOf, ProofOf, Workers
<1>9. ASSUME NEW v \in Workers, ApplyCompletion(v)
      PROVE  FALSE
  <2>1. cReq[v].task = t
    BY <1>6, <1>9 DEF ApplyCompletion, CompleteCleanup, CompleteCrash
  <2>2. Applying(v) /\ BothAbsent(cReq[v].facts)
    BY <1>9 DEF ApplyCompletion, ReadyToComplete, ReservedAccepted, ReadyToApply,
                PostRemovalMatches
  <2>3. cReq[v].phase = "applyObservation" /\ proof[t] = cReq[v].proof
    BY <2>1, <2>2 DEF Applying, TupleCurrent
  <2> QED BY <1>7, <2>1, <2>2, <2>3 DEF TaskOf, ProofOf
<1> QED BY <1>1, <1>2, <1>3, <1>4, <1>5, <1>8, <1>9, JournalSteps
        DEF JournalStep, CleanupStartup

\* A session comes to a path only by a launch there.
LEMMA AttachedSteps ==
  ASSUME TypeOK, Undisturbed, daemon = "up", [Next]_vars, NEW p \in Paths,
         p \in attached', p \notin attached
  PROVE  LaunchSession(p)
<1>1. ~DaemonDies /\ ~Restart /\ ~ProvisioningStartup /\ ~CleanupStartup
  BY StaysUp
<1>2. CASE ProvisioningNext
  BY <1>1, <1>2
  DEF ProvisioningNext, PlanProvisioning, PlanDismissal, ObserveProvisioning, EndRequest,
      StartProvisioning, RetryProvisioning, Attempt, ObserveDismissal, CompleteDismissal,
      LoseWorker, ExecuteStep, CreateBranch, AddWorktree, VerifyWorktree, CheckRollback,
      DeleteCreatedRef, ApplyStep, ApplyAdvance, ApplyFailure, ApplyRollback, ApplyCommit,
      ApplyRefusedCommit, CommitCrash, OnlyRequest, OnlyJournal, OnlyGit
<1>3. ASSUME NEW w, NEW t, NEW o, CompleteCleanup(w, t, o) \/ CompleteCrash(t, o)
      PROVE  FALSE
  BY <1>1, <1>3 DEF CompleteCleanup, CompleteCrash
<1>4. ASSUME NEW c \in Clients,
             \/ \E t \in Tasks, op \in OpIds, mode \in CleanupModes,
                   acks \in SUBSET ContentKinds : PlanCleanup(c, t, op, mode, acks)
             \/ \E t \in Tasks : PlanFinalize(c, t)
             \/ ObserveCleanup(c) \/ EndCleanupRequest(c) \/ Finalize(c)
             \/ BeginAttention(c) \/ BeginCleanup(c) \/ RetryCleanup(c) \/ BeginClears(c)
      PROVE  FALSE
  BY <1>3, <1>4
  DEF PlanCleanup, PlanFinalize, ObserveCleanup, EndCleanupRequest, Finalize,
      BeginAttention, BeginCleanup, RetryCleanup, BeginClears, OnlyCleanupRequest,
      OnlyCleanupJournal
<1>5. ASSUME NEW w \in Workers, CleanupStep(w) \/ VerifiedCrash(w) \/ LoseCleanupWorker(w)
      PROVE  FALSE
  BY <1>1, <1>3, <1>5
  DEF CleanupStep, Revalidate, ApplyNothing, MarkAttention, ApplyRefusal, PrepareRemoval,
      ApplyCompletion, RemoveWorkingTree, Deregister, ApplyRemoval, LoseCleanupWorker,
      VerifiedCrash, OnlyCleanupRequest, OnlyCleanupJournal, OnlyCleanupGit
<1>6. ASSUME NEW q \in Paths, LaunchSession(q) \/ SessionExits(q)
      PROVE  LaunchSession(p)
  BY <1>6 DEF LaunchSession, SessionExits
<1>7. CASE CleanupNext
  BY <1>1, <1>4, <1>5, <1>6, <1>7 DEF CleanupNext
<1>8. CASE \/ UserNext \/ Crash \/ UNCHANGED vars
           \/ \E t \in Tasks : ReleaseTaskBranch(t)
                               \/ \E b \in Branches : BindTaskBranch(t, b)
  BY <1>1, <1>8
  DEF UserNext, UserCreatesBranch, UserMovesBranch, UserDeletesBranch, UserEdits,
      UserSwitches, UserChangesDirectory, UserChangesWorktree, UserStep, vars, Crash,
      ReleaseTaskBranch, BindTaskBranch
<1> QED BY <1>1, <1>2, <1>7, <1>8 DEF Next

\* Git moves on with each step of a removal.
LEMMA RemovalMovesOn ==
  ASSUME TypeOK, NEW w \in Workers, RemoveWorkingTree(w) \/ Deregister(w)
  PROVE  cReq'[w] # cReq[w]
<1>1. ASSUME NEW d, RemovalOutcome(w, d)
      PROVE  cReq'[w].phase = "applyRemoval"
  BY <1>1, CToKeeps DEF RemovalOutcome
<1>2. CASE RemoveWorkingTree(w)
  <2>1. \/ \E d : RemovalOutcome(w, d)
        \/ \E d : CTo(w, [phase |-> "deregister", task |-> cReq[w].task,
                          operation |-> cReq[w].operation, proof |-> cReq[w].proof,
                          deleted |-> d])
    BY <1>2 DEF RemoveWorkingTree
  <2>2. cReq[w].phase = "remove"
    BY <1>2 DEF RemoveWorkingTree
  <2>3. ASSUME NEW r, CTo(w, r), r.phase = "deregister"
        PROVE  cReq'[w].phase = "deregister"
    BY <2>3, CToKeeps
  <2> QED BY <1>1, <2>1, <2>2, <2>3
<1>3. CASE Deregister(w)
  BY <1>1, <1>3 DEF Deregister
<1> QED BY <1>2, <1>3

\* A removal is prepared where the checkout stands, with nobody there.
LEMMA PreparesStanding ==
  ASSUME TypeOK, StoreInv, ReservationInv, NEW w \in Workers, PrepareRemoval(w)
  PROVE  LET t == cReq[w].task  p == cReq[w].proof.spec.path
         IN  /\ cReq[w].phase \in CleanupDriving
             /\ t \in Tasks /\ proof[t] = cReq[w].proof /\ proof[t] # None
             /\ Stands(p) /\ p \notin attached
             /\ clean[t] # None /\ clean[t].baseline.path = p
             /\ UNCHANGED <<proof, git, attached>>
<1> DEFINE t == cReq[w].task
           p == cReq[w].proof.spec.path
           f == cReq[w].facts
<1>1. /\ cReq[w].phase = "applyObservation" /\ TupleCurrent(t, cReq[w].proof)
      /\ clean[t] # None /\ clean[t].stage = "reserved"
      /\ ~NeedsAttention(f) /\ ~BothAbsent(f)
      /\ f.path # "absent" => proof[t].spec.path \notin attached
  BY DEF PrepareRemoval, ReservedAccepted, ReadyToApply, Applying, ReservedAttention,
         ReservedRefused, Refused
<1>2. cReq[w].phase \in CleanupDriving
  BY <1>1 DEF CleanupDriving
<1>3. t \in Tasks /\ proof[t] = cReq[w].proof /\ proof[t] # None /\ p \in Paths
  BY <1>1, <1>2, DrivingFacts DEF TupleCurrent
<1>4. f.path \in PathStates /\ f.registered \in BOOLEAN
  BY <1>1, CleanPhase DEF TypeOK, CleanupTypeOK, CleanRevalidated, Facts
<1>5. f.path = "present" /\ f.registered
  BY <1>1, <1>4 DEF NeedsAttention, BothAbsent, PathStates
<1>6. Seen(cReq[w]) /\ TaskOf(cReq[w]) = t /\ ProofOf(cReq[w]) = proof[t]
  BY <1>1, <1>3 DEF ReservationInv, TaskOf, ProofOf
<1>7. Stands(p)
  BY <1>1, <1>3, <1>5, <1>6 DEF Seen
<1>8. clean[t].baseline.path = p
  BY <1>1, <1>3, BoundPath DEF StoreInv, CleanupJournalSound, NamesBinding
<1>9. UNCHANGED <<proof, git, attached>>
  BY DEF PrepareRemoval, OnlyCleanupJournal
<1> QED BY <1>1, <1>2, <1>3, <1>5, <1>7, <1>8, <1>9

LEMMA OwnedKept ==
  ASSUME TypeOK, StoreInv, SingleProvisioner, CheckoutsInv, Undisturbed, ReservationInv,
         [Next]_vars, NEW w \in Workers
  PROVE  Owned(w)'
<1> DEFINE t == cReq'[w].task
           p == cReq'[w].proof.spec.path
           Goal == /\ proof'[t] = cReq'[w].proof /\ cReq'[w].operation.baseline.path = p
                   /\ reg'[p] # None
                   /\ \A v \in Workers \ {w} :
                        cReq'[v].phase \in {"remove", "deregister"} => cReq'[v].task # t
                   /\ cReq'[w].phase = "remove" =>
                        /\ dir'[p] = "present" /\ p \notin attached'
                        /\ clean'[t] = cReq'[w].operation
                        /\ clean'[t].stage = "removePrepared"
<1> SUFFICES ASSUME cReq'[w].phase \in {"remove", "deregister"}
             PROVE  Goal
  BY DEF Owned
<1>1. daemon = "up" /\ ~DaemonDies
  BY StaysUp DEF ReservationInv
<1>2. CASE cReq'[w] = cReq[w]
  <2>1. /\ proof[t] = cReq[w].proof /\ cReq[w].operation.baseline.path = p
        /\ reg[p] # None
        /\ \A v \in Workers \ {w} :
             cReq[v].phase \in {"remove", "deregister"} => cReq[v].task # t
        /\ cReq[w].phase = "remove" =>
             /\ dir[p] = "present" /\ p \notin attached
             /\ clean[t] = cReq[w].operation /\ clean[t].stage = "removePrepared"
    BY <1>2 DEF ReservationInv, Owned
  <2>2. cReq[w].phase \in CleanupDriving
    BY <1>2 DEF CleanupDriving
  <2>3. t \in Tasks /\ proof[t] # None /\ p \in Paths
    BY <1>2, <2>1, <2>2, DrivingFacts
  <2>4. task[t].worktree = p
    BY <1>2, <2>1, <2>3, BoundPath
  <2>5. proof'[t] = proof[t]
    BY <1>1, <1>2, <2>1, <2>3, ProofStays
  <2>6. PICK q \in Paths : q = p
    BY <2>3
  <2>7. SamePlace(q)
    <3>1. ASSUME NEW v \in Workers, RemoveWorkingTree(v) \/ Deregister(v),
                 q = cReq[v].operation.baseline.path
          PROVE  FALSE
      <4>1. /\ cReq[v].phase \in {"remove", "deregister"} /\ cReq[v].task \in Tasks
            /\ task[cReq[v].task].worktree = q
        BY <3>1, RemovesBound
      <4>2. q \in HeldPaths(cReq[v].task)
        BY <4>1, NamesAssumption DEF HeldPaths
      <4>3. cReq[v].task = t
        BY <1>2, <2>1, <2>3, <2>6, <4>1, <4>2, BoundPath
      <4> QED BY <1>2, <2>1, <3>1, <4>1, <4>3, RemovalMovesOn
    <3> QED BY <1>1, <2>3, <2>4, <2>6, <3>1, BoundMoves
  <2>8. ASSUME NEW v \in Workers, v # w, cReq'[v].phase \in {"remove", "deregister"},
               cReq'[v].task = t
        PROVE  FALSE
    <3>1. CASE cReq'[v] = cReq[v]
      BY <2>1, <2>8, <3>1
    <3>2. CASE PrepareRemoval(v)
      <4>1. /\ cReq[v].phase \in CleanupDriving /\ proof[cReq[v].task] = cReq[v].proof
            /\ Stands(cReq[v].proof.spec.path)
        BY <3>2, PreparesStanding
      <4>2. Continues(v) \/ (v \in Clients /\ (BeginCleanup(v) \/ RetryCleanup(v)))
        BY <1>1, <2>8, DriverSteps DEF CleanupDriving
      <4>3. cReq[v].phase = "applyObservation"
        BY <3>2 DEF PrepareRemoval, ReservedAccepted, ReadyToApply, Applying
      <4>4. Continues(v)
        BY <4>2, <4>3 DEF BeginCleanup, RetryCleanup, BeginAccepted, BeginReady
      <4>5. cReq[v].task = t
        BY <2>8, <4>4 DEF Continues
      <4> QED BY <1>2, <2>1, <2>2, <2>8, <4>1, <4>5 DEF ReservationInv, Driven
    <3>3. CASE RemoveWorkingTree(v)
      <4>1. cReq[v].phase = "remove"
        BY <3>3 DEF RemoveWorkingTree
      <4>2. Continues(v) \/ (v \in Clients /\ (BeginCleanup(v) \/ RetryCleanup(v)))
        BY <1>1, <2>8, DriverSteps DEF CleanupDriving
      <4>3. Continues(v)
        BY <4>1, <4>2 DEF BeginCleanup, RetryCleanup, BeginAccepted, BeginReady
      <4> QED BY <2>1, <2>8, <4>1, <4>3 DEF Continues
    <3> QED BY <1>1, <2>8, <3>1, <3>2, <3>3, RestsOrActs, PhasesAfter
  <2>9. ASSUME cReq[w].phase = "remove"
        PROVE  /\ dir'[p] = "present" /\ p \notin attached'
               /\ clean'[t] = cReq[w].operation /\ clean'[t].stage = "removePrepared"
    <3>1. Stands(p) /\ dir'[p] = "present"
      BY <2>1, <2>6, <2>7, <2>9 DEF Stands, SamePlace
    <3>2. clean[t] # None /\ clean[t].failure = None
      BY <1>2, <2>1, <2>2, <3>1 DEF ReservationInv, Driven
    <3>3. ~PrepareRemoval(w)
      BY <2>9 DEF PrepareRemoval, ReservedAccepted, ReadyToApply, Applying
    <3>4. clean'[t] = clean[t]
      BY <1>2, <2>1, <2>2, <3>1, <3>3, JournalDriven
    <3>5. ReservedPath(p)
      BY <2>1, <2>3, <2>9, <3>2 DEF ReservedPath
    <3>6. q \notin attached'
      BY <1>1, <2>1, <2>6, <2>9, <3>5, AttachedSteps DEF LaunchSession
    <3> QED BY <2>1, <2>6, <2>9, <3>1, <3>4, <3>6
  <2> QED BY <1>2, <2>1, <2>5, <2>6, <2>7, <2>8, <2>9 DEF SamePlace
<1>3. CASE w \in Clients /\ PrepareRemoval(w)
  <2> DEFINE u == cReq[w].task
             o == [clean[u] EXCEPT !.stage = "removePrepared", !.failure = None]
  <2>1. /\ cReq[w].phase \in CleanupDriving
        /\ u \in Tasks /\ proof[u] = cReq[w].proof /\ proof[u] # None
        /\ Stands(cReq[w].proof.spec.path) /\ cReq[w].proof.spec.path \notin attached
        /\ clean[u] # None /\ clean[u].baseline.path = cReq[w].proof.spec.path
        /\ UNCHANGED <<proof, git, attached>>
    BY <1>3, PreparesStanding
  <2>2. w \notin Tasks
    BY <1>3, NamesAssumption
  <2>3. /\ CTo(w, [phase |-> "remove", task |-> u, operation |-> o,
                   proof |-> cReq[w].proof])
        /\ Journal(u, o)
    BY <1>3, <2>2 DEF PrepareRemoval
  <2>4. clean[u] \in CleanOp
    BY <2>1 DEF TypeOK, StoreTypeOK
  <2>5. o.baseline = clean[u].baseline /\ o.stage = "removePrepared"
    BY <2>4 DEF CleanOp
  <2> HIDE DEF o
  <2>6. /\ t = u /\ cReq'[w].proof = cReq[w].proof /\ cReq'[w].operation = o
        /\ \A v \in Workers : v # w => cReq'[v] = cReq[v]
    BY <2>3, CToKeeps
  <2>7. clean'[t] = o
    BY <2>1, <2>3, <2>6 DEF Journal, TypeOK, StoreTypeOK
  <2>8. dir'[p] = "present" /\ reg'[p] # None
    BY <2>1, <2>6 DEF Stands, git
  <2>9. ASSUME NEW v \in Workers, v # w, cReq'[v].phase \in {"remove", "deregister"},
               cReq'[v].task = t
        PROVE  FALSE
    <3>1. cReq[v].phase \in {"remove", "deregister"} /\ cReq[v].task = u
      BY <2>6, <2>9
    <3>2. proof[u] = cReq[v].proof /\ cReq[v].phase \in CleanupDriving
      BY <3>1 DEF ReservationInv, Owned, CleanupDriving
    <3> QED BY <2>1, <2>9, <3>1, <3>2 DEF ReservationInv, Driven
  <2> QED BY <2>1, <2>5, <2>6, <2>7, <2>8, <2>9
<1>4. CASE cReq'[w].phase = "deregister" /\ RemoveWorkingTree(w)
  <2>1. cReq[w].phase = "remove" /\ UNCHANGED <<proof, reg>>
    BY <1>4 DEF RemoveWorkingTree, OnlyCleanupGit, store
  <2>2. ASSUME NEW d, RemovalOutcome(w, d)
        PROVE  FALSE
    BY <1>4, <2>2, CToKeeps DEF RemovalOutcome
  <2>3. PICK d : CTo(w, [phase |-> "deregister", task |-> cReq[w].task,
                         operation |-> cReq[w].operation, proof |-> cReq[w].proof,
                         deleted |-> d])
    BY <1>4, <2>2 DEF RemoveWorkingTree
  <2>4. /\ t = cReq[w].task /\ cReq'[w].operation = cReq[w].operation
        /\ cReq'[w].proof = cReq[w].proof
        /\ \A v \in Workers : v # w => cReq'[v] = cReq[v]
    BY <2>3, CToKeeps
  <2>5. /\ proof[t] = cReq[w].proof /\ cReq[w].operation.baseline.path = p
        /\ reg[p] # None
        /\ \A v \in Workers \ {w} :
             cReq[v].phase \in {"remove", "deregister"} => cReq[v].task # t
    BY <2>1, <2>4 DEF ReservationInv, Owned
  <2> QED BY <1>4, <2>1, <2>4, <2>5
<1> QED BY <1>1, <1>2, <1>3, <1>4, RestsOrActs, PhasesAfter

-----------------------------------------------------------------------------
(* The ids of the operations *)

\* A request keeps its Task, its proof and its id, or takes those of a plan or of the
\* journal it tries again.
LEMMA IdSteps ==
  ASSUME TypeOK, StoreInv, Undisturbed, daemon = "up", [Next]_vars, NEW w \in Workers,
         cReq'[w].phase \in Knowing
  PROVE  LET r == cReq'[w]
         IN  \/ /\ cReq[w].phase \in Knowing /\ SameOperationRequest(r, cReq[w])
                /\ ProofOf(r) = ProofOf(cReq[w])
             \/ /\ w \in Clients /\ cReq[w] = Idle /\ r.phase = "observe"
                /\ TaskOf(r) \in Tasks /\ ProofOf(r) = proof[TaskOf(r)]
                /\ UNCHANGED <<proof, clean>>
             \/ /\ w \in Clients /\ TaskOf(r) \in Tasks
                /\ ProofOf(r) = proof[TaskOf(r)] /\ UNCHANGED proof
                /\ clean[TaskOf(r)] # None /\ OpOf(r) = clean[TaskOf(r)].op
                /\ clean[TaskOf(r)].stage # "bindingCleared"
                /\ clean'[TaskOf(r)] # None /\ clean'[TaskOf(r)].op = OpOf(r)
<1> DEFINE r == cReq'[w]
<1>1. CASE r = cReq[w]
  BY <1>1 DEF SameOperationRequest, TaskOf, OpOf, ProofOf
<1>2. CASE r.phase \in CleanupDriving /\ Continues(w)
  BY <1>2 DEF Continues, SameOperationRequest, TaskOf, OpOf, ProofOf, CleanupDriving,
              Knowing
<1>3. CASE w \in Clients /\ (BeginCleanup(w) \/ RetryCleanup(w))
  <2> DEFINE t == cReq[w].intent.task
  <2>1. /\ t \in Tasks /\ cReq[w].phase = "begin"
        /\ proof[t] = cReq[w].intent.proof /\ proof[t] # None
        /\ r.phase = "revalidate" /\ r.task = t
        /\ r.proof = proof[t] /\ r.operation = clean'[t] /\ clean'[t] # None
        /\ clean'[t].op = cReq[w].intent.op
             \/ (clean[t] # None /\ clean'[t].op = clean[t].op)
        /\ UNCHANGED proof
    BY <1>3, NewDriver
  <2>2. TaskOf(r) = t /\ OpOf(r) = clean'[t].op /\ ProofOf(r) = proof[t]
    BY <2>1 DEF TaskOf, OpOf, ProofOf
  <2>3. CASE clean'[t].op = cReq[w].intent.op
    BY <2>1, <2>2, <2>3 DEF SameOperationRequest, TaskOf, OpOf, ProofOf, Knowing
  <2>4. CASE clean[t] # None /\ clean'[t].op = clean[t].op
    <3>1. clean[t].stage # "bindingCleared"
      BY <2>1, <2>4, BoundPath, NamesAssumption DEF StoreInv, CleanupJournalSound
    <3> QED BY <1>3, <2>1, <2>2, <2>4, <3>1
  <2> QED BY <2>1, <2>3, <2>4
<1>4. CASE w \in Clients /\ ObserveCleanup(w)
  <2>1. PICK f : CTo(w, [phase |-> "begin", intent |-> cReq[w].intent, facts |-> f])
    BY <1>4 DEF ObserveCleanup
  <2>2. r.phase = "begin" /\ r.intent = cReq[w].intent
    BY <2>1, CToKeeps
  <2>3. cReq[w].phase = "observe"
    BY <1>4 DEF ObserveCleanup
  <2> QED BY <2>2, <2>3 DEF SameOperationRequest, TaskOf, OpOf, ProofOf, Knowing
<1>5. ASSUME w \in Clients, NEW t \in Tasks, NEW op \in OpIds, NEW mode \in CleanupModes,
             NEW acks \in SUBSET ContentKinds, PlanCleanup(w, t, op, mode, acks)
      PROVE  /\ cReq[w] = Idle /\ r.phase = "observe"
             /\ TaskOf(r) \in Tasks /\ ProofOf(r) = proof[TaskOf(r)]
             /\ UNCHANGED <<proof, clean>>
  <2>1. PICK s : CTo(w, [phase |-> "observe",
                         intent |-> [task |-> t, op |-> op, mode |-> mode, acks |-> acks,
                                     supersedes |-> s, proof |-> proof[t]]])
    BY <1>5 DEF PlanCleanup
  <2>2. r.phase = "observe" /\ r.intent.task = t /\ r.intent.proof = proof[t]
    BY <2>1, CToKeeps
  <2> QED BY <1>5, <2>2 DEF TaskOf, ProofOf, PlanCleanup, OnlyCleanupRequest, store
<1>6. CASE r.phase \in CleanupDriving
  BY <1>2, <1>3, <1>6, DriverSteps
<1>7. CASE r.phase \in {"observe", "begin"}
  BY <1>1, <1>4, <1>5, <1>7, StaysUp, RestsOrActs, PhasesAfter
<1> QED BY <1>6, <1>7 DEF Knowing

\* A journal that has not cleared its binding has the id it had, or that of the request
\* that begins it.
LEMMA JournalId ==
  ASSUME TypeOK, StoreInv, StoreInv', Undisturbed, daemon = "up", [Next]_vars,
         NEW t \in Tasks, clean'[t] # None, clean'[t].stage # "bindingCleared"
  PROVE  \/ /\ clean[t] # None /\ clean[t].stage # "bindingCleared"
            /\ clean'[t].op = clean[t].op /\ proof'[t] = proof[t]
         \/ \E c \in Clients :
              /\ cReq[c].phase = "begin" /\ TaskOf(cReq[c]) = t
              /\ ProofOf(cReq[c]) = proof[t] /\ OpOf(cReq[c]) = clean'[t].op
              /\ proof'[t] = proof[t]
<1>1. ~DaemonDies /\ ~CleanupStartup
  BY StaysUp
<1>2. proof'[t] # None
  BY DEF StoreInv, CleanupJournalSound, NamesBinding
<1>3. proof'[t] = proof[t]
  <2> SUFFICES ASSUME proof'[t] # proof[t]
               PROVE  FALSE
    OBVIOUS
  <2>1. CanCommit(t) /\ UNCHANGED clean
    BY <1>2, ProofSteps
  <2> QED BY <2>1 DEF CanCommit
<1>4. CASE clean'[t] = clean[t]
  BY <1>3, <1>4
<1> SUFFICES ASSUME clean'[t] # clean[t]
             PROVE  \/ /\ clean[t] # None /\ clean[t].stage # "bindingCleared"
                       /\ clean'[t].op = clean[t].op
                    \/ \E c \in Clients :
                         /\ cReq[c].phase = "begin" /\ TaskOf(cReq[c]) = t
                         /\ ProofOf(cReq[c]) = proof[t] /\ OpOf(cReq[c]) = clean'[t].op
  BY <1>3, <1>4
<1>5. clean[t] # None => clean[t] \in CleanOp /\ clean[t].stage # "bindingCleared"
  BY <1>2, <1>3, BoundPath, NamesAssumption
  DEF TypeOK, StoreTypeOK, StoreInv, CleanupJournalSound
<1>6. ASSUME NEW u, NEW o, Journal(u, o)
      PROVE  u = t /\ clean'[t] = o
  BY <1>6 DEF Journal, TypeOK, StoreTypeOK
<1>7. ASSUME NEW v \in Workers, ApplyCommit(v) \/ CommitCrash(v) \/ VerifiedCrash(v)
      PROVE  FALSE
  BY <1>1, <1>7 DEF ApplyCommit, CommitBinding, CommitCrash, VerifiedCrash
<1>8. ASSUME NEW c \in Clients, Finalize(c)
      PROVE  FALSE
  BY <1>8 DEF Finalize, TypeOK, StoreTypeOK
<1>9. ASSUME NEW u, NEW o, NEW left, ClearBinding(u, o, left)
      PROVE  FALSE
  BY <1>2, <1>3, <1>9 DEF ClearBinding, TypeOK, StoreTypeOK
<1>10. ASSUME \/ \E c \in Clients : BeginClears(c)
              \/ \E w \in Workers : ApplyCompletion(w)
       PROVE  FALSE
  BY <1>9, <1>10 DEF BeginClears, ApplyCompletion, CompleteCleanup, CompleteCrash
<1>11. ASSUME NEW c \in Clients, cReq[c].phase = "begin", cReq[c].intent.task = t,
              TupleCurrent(cReq[c].intent.task, cReq[c].intent.proof),
              clean'[t].op = cReq[c].intent.op
       PROVE  \E d \in Clients :
                /\ cReq[d].phase = "begin" /\ TaskOf(cReq[d]) = t
                /\ ProofOf(cReq[d]) = proof[t] /\ OpOf(cReq[d]) = clean'[t].op
  BY <1>11 DEF TaskOf, ProofOf, OpOf, TupleCurrent
<1>12. ASSUME NEW c \in Clients, BeginCleanup(c)
       PROVE  \E d \in Clients :
                /\ cReq[d].phase = "begin" /\ TaskOf(cReq[d]) = t
                /\ ProofOf(cReq[d]) = proof[t] /\ OpOf(cReq[d]) = clean'[t].op
  <2>1. /\ cReq[c].intent.task = t
        /\ clean'[t] = RequestedCleanup(cReq[c].intent, cReq[c].facts)
    BY <1>6, <1>12 DEF BeginCleanup
  <2>2. clean'[t].op = cReq[c].intent.op
    BY <2>1 DEF RequestedCleanup
  <2> QED BY <1>11, <1>12, <2>1, <2>2 DEF BeginCleanup, BeginAccepted, BeginReady
<1>13. ASSUME NEW c \in Clients, RetryCleanup(c)
       PROVE  clean[t] # None /\ clean'[t].op = clean[t].op
  <2>1. clean[t] # None /\ clean'[t] = RetriedCleanup(clean[t])
    BY <1>6, <1>13 DEF RetryCleanup, StoreCurrent
  <2> QED BY <1>5, <2>1 DEF RetriedCleanup, CleanOp
<1>14. ASSUME NEW c \in Clients, BeginAttention(c)
       PROVE  \/ clean[t] # None /\ clean'[t].op = clean[t].op
              \/ \E d \in Clients :
                   /\ cReq[d].phase = "begin" /\ TaskOf(cReq[d]) = t
                   /\ ProofOf(cReq[d]) = proof[t] /\ OpOf(cReq[d]) = clean'[t].op
  <2> DEFINE o == RequestedCleanup(cReq[c].intent, cReq[c].facts)
  <2>1. /\ cReq[c].intent.task = t
        /\ \/ clean[t] # None /\ clean'[t] = Attention(clean[t])
           \/ clean'[t] = Attention(o) /\ HasBaseline(cReq[c].facts)
    <3>1. \/ /\ clean[cReq[c].intent.task] # None
             /\ Journal(cReq[c].intent.task, Attention(clean[cReq[c].intent.task]))
          \/ /\ Journal(cReq[c].intent.task, Attention(o))
             /\ HasBaseline(cReq[c].facts)
      BY <1>14 DEF BeginAttention, StoreCurrent
    <3> QED BY <1>6, <3>1
  <2>2. CASE clean[t] # None /\ clean'[t] = Attention(clean[t])
    BY <1>5, <2>2 DEF Attention, CleanOp
  <2>3. CASE clean'[t] = Attention(o) /\ HasBaseline(cReq[c].facts)
    <3>1. o.op = cReq[c].intent.op
      BY DEF RequestedCleanup
    <3>2. cReq[c].phase = "begin" /\ TupleCurrent(t, cReq[c].intent.proof)
      BY <1>14, <2>1 DEF BeginAttention, BeginReady
    <3>3. o \in CleanOp
      BY <2>3, <3>2, BeginFacts, RequestedCleanupTyped
    <3>4. Attention(o).op = o.op
      BY <3>3 DEF Attention, CleanOp
    <3> QED BY <1>11, <2>1, <2>3, <3>1, <3>2, <3>4
  <2> QED BY <2>1, <2>2, <2>3
<1>15. ASSUME NEW v \in Workers,
              MarkAttention(v) \/ ApplyRefusal(v) \/ PrepareRemoval(v) \/ ApplyRemoval(v)
       PROVE  clean[t] # None /\ clean'[t].op = clean[t].op
  <2>1. \/ clean[t] # None /\ clean'[t] = Attention(clean[t])
        \/ /\ clean[t] # None
           /\ clean'[t] = [clean[t] EXCEPT !.stage = "removePrepared", !.failure = None]
        \/ clean[t] # None /\ \E f : clean'[t] = [clean[t] EXCEPT !.failure = f]
    <3> DEFINE u == cReq[v].task
               Prepared == [clean[u] EXCEPT !.stage = "removePrepared", !.failure = None]
    <3>1. CASE MarkAttention(v)
      BY <1>6, <3>1 DEF MarkAttention, ReadyToApply, Applying
    <3>2. CASE ApplyRefusal(v)
      BY <1>6, <3>2 DEF ApplyRefusal
    <3>3. CASE PrepareRemoval(v)
      <4>1. Journal(u, Prepared) /\ clean[u] # None
        BY <3>3 DEF PrepareRemoval, ReservedAccepted, ReadyToApply, Applying
      <4> QED BY <1>6, <4>1
    <3>4. CASE ApplyRemoval(v)
      <4>1. PICK f : clean[u] # None /\ Journal(u, [clean[u] EXCEPT !.failure = f])
        BY <3>4 DEF ApplyRemoval
      <4> QED BY <1>6, <4>1
    <3> QED BY <1>15, <3>1, <3>2, <3>3, <3>4
  <2> QED BY <1>5, <2>1 DEF Attention, CleanOp
<1> QED BY <1>1, <1>5, <1>7, <1>8, <1>10, <1>12, <1>13, <1>14, <1>15, JournalSteps
        DEF JournalStep, CleanupStartup

LEMMA IdsApartKept ==
  ASSUME TypeOK, StoreInv, StoreInv', Undisturbed, ReservationInv, [FreshIds]_vars,
         [Next]_vars
  PROVE  IdsApart'
<1> DEFINE Known(w) == cReq'[w].phase \in Knowing
           Keeps(w) == /\ cReq[w].phase \in Knowing
                       /\ TaskOf(cReq'[w]) = TaskOf(cReq[w])
                       /\ OpOf(cReq'[w]) = OpOf(cReq[w])
                       /\ ProofOf(cReq'[w]) = ProofOf(cReq[w])
           Learned(w) == /\ ProofOf(cReq'[w]) = proof[TaskOf(cReq'[w])]
                         /\ UNCHANGED proof
           Plans(w) == w \in Clients /\ cReq[w] = Idle /\ cReq'[w].phase = "observe"
           Retries(w) == LET o == clean[TaskOf(cReq'[w])]
                         IN  /\ TaskOf(cReq'[w]) \in Tasks
                             /\ o # None /\ o.stage # "bindingCleared"
                             /\ o.op = OpOf(cReq'[w])
<1>1. daemon = "up" /\ IdsApart
  BY DEF ReservationInv
<1>2. ASSUME NEW w \in Workers, Known(w)
      PROVE  Keeps(w) \/ (Learned(w) /\ (Plans(w) \/ Retries(w)))
  BY <1>1, <1>2, IdSteps DEF SameOperationRequest
<1>3. ASSUME NEW w \in Workers, Known(w)
      PROVE  TaskOf(cReq'[w]) \in Tasks
  BY <1>1, <1>3, IdSteps, KnowingFacts DEF SameOperationRequest
<1>4. ASSUME NEW w \in Workers, NEW v \in Workers, Known(w), Known(v), Learned(w), Keeps(v),
             TaskOf(cReq'[v]) = TaskOf(cReq'[w]), OpOf(cReq'[v]) = OpOf(cReq'[w])
      PROVE  ProofOf(cReq'[v]) = ProofOf(cReq'[w])
  <2>1. CASE Plans(w)
    <3>1. cReq' # cReq
      BY <2>1 DEF Idle
    <3>2. FreshIds
      BY <3>1 DEF vars
    <3> QED BY <1>4, <2>1, <3>2 DEF FreshIds, SameOperationRequest
  <2>2. CASE Retries(w)
    BY <1>1, <1>4, <2>2 DEF IdsApart
  <2>3. CASE Keeps(w)
    BY <1>1, <1>4, <2>3 DEF IdsApart, SameOperationRequest
  <2> QED BY <1>2, <1>4, <2>1, <2>2, <2>3
<1>5. ASSUME NEW w \in Workers, NEW v \in Workers, Known(w), Known(v),
             TaskOf(cReq'[v]) = TaskOf(cReq'[w]), OpOf(cReq'[v]) = OpOf(cReq'[w])
      PROVE  ProofOf(cReq'[v]) = ProofOf(cReq'[w])
  <2>1. CASE Keeps(w) /\ Keeps(v)
    BY <1>1, <1>5, <2>1 DEF IdsApart, SameOperationRequest
  <2>2. CASE Learned(w) /\ Learned(v)
    BY <1>5, <2>2
  <2>3. CASE Learned(w) /\ Keeps(v)
    BY <1>4, <1>5, <2>3
  <2>4. CASE Keeps(w) /\ Learned(v)
    BY <1>4, <1>5, <2>4
  <2> QED BY <1>2, <1>5, <2>1, <2>2, <2>3, <2>4
<1>6. ASSUME NEW w \in Workers, NEW t \in Tasks, Known(w), t = TaskOf(cReq'[w]),
             clean'[t] # None, clean'[t].stage # "bindingCleared",
             clean'[t].op = OpOf(cReq'[w])
      PROVE  ProofOf(cReq'[w]) = proof'[t]
  <2>1. CASE Learned(w)
    BY <1>6, <2>1
  <2>2. CASE Keeps(w)
    <3>1. CASE /\ clean[t] # None /\ clean[t].stage # "bindingCleared"
               /\ clean'[t].op = clean[t].op /\ proof'[t] = proof[t]
      BY <1>1, <1>6, <2>2, <3>1 DEF IdsApart
    <3>2. ASSUME NEW c \in Clients, cReq[c].phase = "begin", TaskOf(cReq[c]) = t,
                 ProofOf(cReq[c]) = proof[t], OpOf(cReq[c]) = clean'[t].op,
                 proof'[t] = proof[t]
          PROVE  ProofOf(cReq'[w]) = proof'[t]
      <4>1. c \in Workers /\ cReq[c].phase \in Knowing
        BY <3>2 DEF Workers, Knowing
      <4> QED BY <1>1, <1>6, <2>2, <3>2, <4>1 DEF IdsApart, SameOperationRequest
    <3> QED BY <1>1, <1>6, <3>1, <3>2, JournalId
  <2> QED BY <1>2, <1>6, <2>1, <2>2
<1> HIDE DEF Known, Keeps, Learned, Plans, Retries
<1>7. ASSUME NEW w \in Workers, cReq'[w].phase \in Knowing
      PROVE  LET t == TaskOf(cReq'[w])
             IN  /\ \A v \in Workers :
                      cReq'[v].phase \in Knowing /\ TaskOf(cReq'[v]) = t
                        /\ OpOf(cReq'[v]) = OpOf(cReq'[w]) =>
                        ProofOf(cReq'[v]) = ProofOf(cReq'[w])
                 /\ clean'[t] # None /\ clean'[t].stage # "bindingCleared"
                      /\ clean'[t].op = OpOf(cReq'[w]) => ProofOf(cReq'[w]) = proof'[t]
  BY <1>3, <1>5, <1>6, <1>7 DEF Known
<1> QED BY <1>7 DEF IdsApart, SameOperationRequest, TaskOf, OpOf, ProofOf, Knowing

LEMMA InitReservation == Init => ReservationInv
BY DEF Init, RuntimeInit, ReservationInv, BoundHeads, ReadyHeads, IdsApart, Seen, Driven,
       Owned, Knowing, CleanupDriving, Idle

\* ReservationInv holds always, for every number of clients.
THEOREM ReservationsHold ==
  ASSUME Undisturbed
  PROVE  Spec /\ [][FreshIds]_vars => []ReservationInv
<1>1. DaemonOwnsCheckouts
  BY DEF Undisturbed, DaemonOwnsCheckouts
<1>2. TypeOK /\ StoreInv /\ ProvisionersInv /\ CheckoutsInv /\ ReservationInv /\ StoreInv'
        /\ [Next]_vars /\ [FreshIds]_vars => ReservationInv'
  <2> SUFFICES ASSUME TypeOK, StoreInv, ProvisionersInv, CheckoutsInv, ReservationInv,
                      StoreInv', [Next]_vars, [FreshIds]_vars
               PROVE  ReservationInv'
    OBVIOUS
  <2>1. SingleProvisioner
    BY DEF ProvisionersInv
  <2>2. (daemon = "up")'
    BY StaysUp DEF ReservationInv
  <2>3. BoundHeads' /\ ReadyHeads' /\ IdsApart'
    BY <2>1, BoundHeadsKept, ReadyHeadsKept, IdsApartKept
  <2>4. \A w \in Workers : Seen(cReq[w])' /\ Driven(w)' /\ Owned(w)'
    BY <2>1, SeenKept, DrivenKept, OwnedKept
  <2> QED BY <2>2, <2>3, <2>4 DEF ReservationInv
<1> QED BY <1>1, <1>2, InitReservation, TypeCorrect, StoreConsistent,
           ProvisionersConsistent, CheckoutsConsistent, PTL DEF Spec

\* Whatever requests come together, no session runs in a checkout that Git is about to
\* delete: the reservation that the cleanup took when it began held until then.
THEOREM ReservationsKeepSessionsOut ==
  ASSUME Undisturbed
  PROVE  Spec /\ [][FreshIds]_vars => []NoRemovalUnderSession
<1>1. ReservationInv => NoRemovalUnderSession
  BY DEF ReservationInv, Owned, NoRemovalUnderSession
<1> QED BY <1>1, ReservationsHold, PTL

\* Nor does the daemon then delete a checkout other than under a journal that says so,
\* or, in safe mode, what Git refuses to lose.
THEOREM ReservationsKeepRecord ==
  ASSUME Undisturbed
  PROVE  Spec /\ [][FreshIds]_vars => RemovalOnRecord
<1> DEFINE Recorded(p) ==
      dir[p] = "present" /\ dir'[p] = "absent" =>
        \E t \in Tasks :
          /\ clean[t] # None /\ clean[t].stage = "removePrepared"
          /\ clean[t].baseline.path = p
          /\ clean[t].mode = "safe" => content[p] \cap GitRefusedKinds = {}
<1>1. TypeOK /\ StoreInv /\ ReservationInv /\ [Next]_vars
        => [ByDaemon => \A p \in Paths : Recorded(p)]_vars
  <2> SUFFICES ASSUME TypeOK, StoreInv, ReservationInv, [Next]_vars, NEW p \in Paths,
                      dir[p] = "present", dir'[p] = "absent"
               PROVE  \E t \in Tasks :
                        /\ clean[t] # None /\ clean[t].stage = "removePrepared"
                        /\ clean[t].baseline.path = p
                        /\ clean[t].mode = "safe" => content[p] \cap GitRefusedKinds = {}
    OBVIOUS
  <2>1. daemon = "up" /\ DaemonOwnsCheckouts
    BY StaysUp DEF ReservationInv
  <2>2. ASSUME NEW w \in Workers, AddWorktree(w)
        PROVE  FALSE
    <3>1. dir' = dir \/ \E q : dir' = [dir EXCEPT ![q] = "present"]
      BY <2>2 DEF AddWorktree
    <3> QED BY <3>1 DEF TypeOK, GitTypeOK
  <2>3. PICK w \in Workers : /\ RemoveWorkingTree(w) \/ Deregister(w)
                             /\ p = cReq[w].operation.baseline.path
    BY <2>1, <2>2, CheckoutMoves DEF SameAt
  <2>4. RemoveWorkingTree(w)
    BY <2>3 DEF Deregister
  <2>5. cReq[w].operation.mode = "safe" => content[p] \cap GitRefusedKinds = {}
    BY <2>3, <2>4 DEF RemoveWorkingTree
  <2>6. cReq[w].phase = "remove"
    BY <2>4 DEF RemoveWorkingTree
  <2>7. /\ Stands(p) /\ proof[cReq[w].task] = cReq[w].proof
        /\ clean[cReq[w].task] = cReq[w].operation
        /\ clean[cReq[w].task].stage = "removePrepared" /\ cReq[w].proof.spec.path = p
    BY <2>3, <2>6 DEF ReservationInv, Owned, Stands
  <2>8. cReq[w].phase \in CleanupDriving
    BY <2>6 DEF CleanupDriving
  <2>9. cReq[w].task \in Tasks /\ clean[cReq[w].task] # None
    BY <2>7, <2>8, DrivingFacts DEF ReservationInv, Driven
  <2> QED BY <2>3, <2>5, <2>7, <2>9
<1> QED BY <1>1, ReservationsHold, TypeCorrect, StoreConsistent, PTL
        DEF Spec, RemovalOnRecord

=============================================================================
