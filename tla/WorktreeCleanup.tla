--------------------------- MODULE WorktreeCleanup ---------------------------
(***************************************************************************)
(* Task-worktree cleanup: the plan / observe / begin / revalidate / remove *)
(* / verify saga of modules/core, the journal transactions of             *)
(* modules/store, the reconciliation at startup with the server's recovery *)
(* scheduler, and the reservation that session launches respect.           *)
(*                                                                         *)
(* Plan, begin and both applies run under the core lock and are atomic up  *)
(* to the boundaries between their store transactions; observations and    *)
(* the removal run outside it.                                             *)
(***************************************************************************)
EXTENDS TaskWorktree

\* TaskWorktreeCleanupFacts; blocked stands for a lock or a fact that could
\* not be observed, checkout and checkoutOid for the attached HEAD.
Facts ==
  {f \in [path: PathStates, registered: BOOLEAN, matches: BOOLEAN,
          alternate: BOOLEAN, oid: Oids \cup {None},
          checkout: Branches \cup {None}, checkoutOid: Oids \cup {None},
          content: SUBSET ContentKinds, blocked: BOOLEAN] :
     f.alternate => f.checkout # None /\ f.checkoutOid # None}

RemovalResults == {"ok", "contentChanged", "failed", "attention"}

Intent == [task: Tasks, op: OpIds, mode: CleanupModes,
           acks: SUBSET ContentKinds, supersedes: OpIds \cup {None},
           proof: ManagedProof]

\* The phases of a request, with what each carries to the next.
CleanPlanned == [phase: {"observe"}, intent: Intent]
CleanObserved == [phase: {"begin"}, intent: Intent, facts: Facts]
CleanJournaled == [phase: {"revalidate", "remove"}, task: Tasks,
                   operation: CleanOp, proof: ManagedProof]
CleanRemoving == [phase: {"deregister"}, task: Tasks, operation: CleanOp,
                  proof: ManagedProof, deleted: BOOLEAN]
CleanRevalidated == [phase: {"applyObservation"}, task: Tasks,
                     operation: CleanOp, proof: ManagedProof, facts: Facts]
CleanRemoved == [phase: {"applyRemoval"}, task: Tasks, operation: CleanOp,
                 proof: ManagedProof, result: RemovalResults]
CleanFinal == [phase: {"finalize"}, task: Tasks, receipt: Receipt]

CleanRequest ==
  [phase: {"idle"}] \cup CleanPlanned \cup CleanObserved \cup CleanJournaled
    \cup CleanRemoving \cup CleanRevalidated \cup CleanRemoved \cup CleanFinal

\* The phases in which a worker drives a journal.
CleanupDriving == {"revalidate", "applyObservation", "remove", "deregister",
                   "applyRemoval"}

CTo(w, r) == cReq' = [cReq EXCEPT ![w] = r]

OnlyCleanupRequest ==
  UNCHANGED <<store, git, daemon, attached, pReq, attempts, bounds>>

OnlyCleanupJournal ==
  UNCHANGED <<task, proof, prov, receipt, git, daemon, attached, pReq, attempts,
              bounds>>

-----------------------------------------------------------------------------
(* Plan *)

\* cleanup_operation_id_is_owned, the Task's own journal of that id excepted
CleanupIdOwned(op, t) ==
  \/ OwnedByProvisioning(op)
  \/ \E u \in Tasks :
       \/ clean[u] # None /\ clean[u].op = op /\ u # t
       \/ clean[u] # None /\ clean[u].managed = op
       \/ receipt[u] # None /\ op \in {receipt[u].op, receipt[u].managed}

\* What a new request makes of the Task's current journal: retry the same
\* operation, or replace a failed one by an acknowledged discard.
Supersedes(t, op, mode, acks) ==
  IF clean[t] = None THEN {None}
  ELSE IF clean[t].failure = None THEN {}
  ELSE IF clean[t].op = op
       THEN {s \in {None} : clean[t].mode = mode /\ clean[t].acks = acks}
       ELSE {s \in {clean[t].op} : mode = "discard"}

\* plan_task_worktree_cleanup; the client names the current proof.
PlanCleanup(c, t, op, mode, acks) ==
  /\ "cleanup" \in Requests /\ DaemonUp
  /\ cReq[c] = Idle
  /\ mode = "safe" <=> acks = {}
  /\ proof[t] # None /\ task[t].gen = proof[t].gen
  /\ ~CleanupIdOwned(op, t)
  /\ \E s \in Supersedes(t, op, mode, acks) :
       CTo(c, [phase |-> "observe",
               intent |-> [task |-> t, op |-> op, mode |-> mode, acks |-> acks,
                           supersedes |-> s, proof |-> proof[t]]])
  /\ OnlyCleanupRequest

\* TaskWorktreeCleanupPlanning::Finalize: the binding was cleared, the journal
\* was not.
PlanFinalize(c, t) ==
  /\ "cleanup" \in Requests /\ DaemonUp
  /\ cReq[c] = Idle
  /\ proof[t] = None /\ task[t].worktree = None
  /\ receipt[t] # None /\ receipt[t].gen = task[t].gen
  /\ clean[t] # None
  /\ clean[t].op = receipt[t].op /\ clean[t].stage = "bindingCleared"
  /\ CTo(c, [phase |-> "finalize", task |-> t, receipt |-> receipt[t]])
  /\ OnlyCleanupRequest

\* finalize_task_worktree_cleanup
Finalize(c) ==
  /\ cReq[c].phase = "finalize"
  /\ LET t == cReq[c].task  r == cReq[c].receipt
     IN  /\ clean[t] # None
         /\ clean[t].op = r.op /\ clean[t].stage = "bindingCleared"
         /\ clean[t].gen = r.gen /\ clean[t].managed = r.managed
         /\ clean' = [clean EXCEPT ![t] = None]
  /\ CTo(c, Idle)
  /\ OnlyCleanupJournal

-----------------------------------------------------------------------------
(* Observation *)

OidOf(b) == IF b \notin Branches THEN None
            ELSE IF ref[b] = None THEN None ELSE ref[b].oid

\* observe_cleanup_facts for the proof, against branch b
ObservedFacts(pf, b, blocked) ==
  LET p == pf.spec.path
      healthy == dir[p] = "present" /\ reg[p] # None
      attachedHead == reg[p] \in Branches /\ OidOf(reg[p]) # None
  IN  [path |-> dir[p],
       registered |-> reg[p] # None,
       matches |-> reg[p] = b /\ (healthy => attachedHead),
       alternate |-> healthy /\ attachedHead /\ reg[p] # pf.spec.branch,
       oid |-> OidOf(b),
       checkout |-> IF healthy /\ attachedHead THEN reg[p] ELSE None,
       checkoutOid |-> IF healthy THEN OidOf(reg[p]) ELSE None,
       content |-> IF healthy THEN content[p] ELSE {},
       blocked |-> healthy /\ blocked]

\* TaskWorktreeCleanupPlan::observe
ObserveCleanup(c) ==
  /\ cReq[c].phase = "observe"
  /\ LET i == cReq[c].intent
     IN  \E blocked \in BOOLEAN :
           CTo(c, [phase |-> "begin", intent |-> i,
                   facts |-> ObservedFacts(i.proof, i.proof.spec.branch, blocked)])
  /\ OnlyCleanupRequest

\* TaskWorktreeCleanupObservationStep::observe, TaskWorktreeCleanupRecoveryPlan::
\* observe: against the branch of the journal's baseline
Revalidate(w) ==
  /\ cReq[w].phase = "revalidate"
  /\ LET r == cReq[w]  base == r.operation.baseline
         b == IF base.checkout # None THEN base.checkout ELSE base.branch
     IN  \E blocked \in BOOLEAN :
           CTo(w, [phase |-> "applyObservation", task |-> r.task,
                   operation |-> r.operation, proof |-> r.proof,
                   facts |-> ObservedFacts(r.proof, b, blocked)])
  /\ OnlyCleanupRequest

-----------------------------------------------------------------------------
(* Policy *)

BothAbsent(f) == f.path = "absent" /\ ~f.registered

\* requires_recovery_attention of the blockers in the facts
NeedsAttention(f) ==
  \/ f.path = "replaced"
  \/ f.path = "absent" /\ f.registered
  \/ f.path = "present" /\ ~f.registered
  \/ f.registered /\ ~f.matches /\ ~f.alternate

\* Mutant of Refused: sessions in the checkout do not block
RefusedIgnoringSessions(t, op, mode, acks, f) ==
  \/ prov[t] # None
  \/ clean[t] # None /\ clean[t].failure = None /\ clean[t].op # op
  \/ f.blocked
  \/ f.content \ (IF mode = "safe" THEN {} ELSE acks) # {}

\* The other blockers of cleanup_policy that the intent does not authorize;
\* a path seen absent has no presence.
Refused(t, op, mode, acks, f) ==
  \/ prov[t] # None
  \/ clean[t] # None /\ clean[t].failure = None /\ clean[t].op # op
  \/ f.path # "absent" /\ proof[t].spec.path \in attached
  \/ f.blocked
  \/ f.content \ (IF mode = "safe" THEN {} ELSE acks) # {}

\* refresh_cleanup_presence fails when the directory is gone by now.
PresenceKnown(pf, f) == f.path = "absent" \/ dir[pf.spec.path] # "absent"

\* ensure_observed_cleanup_tuple
TupleCurrent(t, pf) == proof[t] = pf /\ task[t].gen = pf.gen

\* post_removal_matches
PostRemovalMatches(f, operation) ==
  BothAbsent(f) /\ f.oid = operation.baseline.oid

-----------------------------------------------------------------------------
(* Begin *)

\* cleanup_baseline: the alternate checkout or the proof's branch
HasBaseline(f) == f.alternate \/ f.oid # None

BaselineOf(pf, f) ==
  [path |-> pf.spec.path, branch |-> pf.spec.branch,
   checkout |-> IF f.alternate THEN f.checkout ELSE None,
   oid |-> IF f.alternate THEN f.checkoutOid ELSE f.oid]

\* requested_cleanup_operation
RequestedCleanup(i, f) ==
  [op |-> i.op, gen |-> i.proof.gen, managed |-> i.proof.op, mode |-> i.mode,
   acks |-> i.acks, baseline |-> BaselineOf(i.proof, f), stage |-> "reserved",
   failure |-> None]

\* ensure_cleanup_tuple
CleanupTuple(t, o) ==
  /\ proof[t] # None
  /\ task[t].gen = o.gen /\ proof[t].gen = o.gen
  /\ proof[t].op = o.managed
  /\ task[t].worktree = o.baseline.path /\ proof[t].spec.path = o.baseline.path
  /\ task[t].branch # None /\ proof[t].spec.branch = o.baseline.branch

SameIntent(a, b) ==
  a.gen = b.gen /\ a.managed = b.managed /\ a.mode = b.mode /\ a.acks = b.acks

\* begin_task_worktree_cleanup of the store: Started
StoreStarts(t, o) ==
  /\ ~OwnedAnywhere(o.op)
  /\ CleanupTuple(t, o)
  /\ prov[t] = None /\ clean[t] = None

\* begin_task_worktree_cleanup of the store: Current.  The same id must ask for
\* the same baseline; a new id only for the same intent.
StoreCurrent(t, o) ==
  /\ clean[t] # None /\ SameIntent(clean[t], o)
  /\ \/ clean[t].op = o.op /\ clean[t].baseline = o.baseline
     \/ clean[t].op # o.op /\ ~OwnedAnywhere(o.op) /\ CleanupTuple(t, o)
                           /\ prov[t] = None

\* supersede_failed_task_worktree_cleanup
StoreSupersedes(t, previous, o) ==
  /\ clean[t] # None /\ clean[t].op = previous /\ clean[t].failure # None
  /\ o.mode = "discard"
  /\ clean[t].gen = o.gen /\ clean[t].managed = o.managed
  /\ ~OwnedAnywhere(o.op)
  /\ CleanupTuple(t, o)

Journal(t, o) == clean' = [clean EXCEPT ![t] = o]

\* mark_cleanup_attention
Attention(o) == [o EXCEPT !.failure = "recoveryAttention"]

Revalidating(w, t, o, pf) ==
  CTo(w, [phase |-> "revalidate", task |-> t, operation |-> o, proof |-> pf])

BeginReady(c) ==
  /\ cReq[c].phase = "begin"
  /\ TupleCurrent(cReq[c].intent.task, cReq[c].intent.proof)
  /\ PresenceKnown(cReq[c].intent.proof, cReq[c].facts)

\* Facts that a retry cannot repair: the journal, a new one if there is none,
\* is marked for recovery attention.
BeginAttention(c) ==
  /\ BeginReady(c) /\ NeedsAttention(cReq[c].facts)
  /\ LET i == cReq[c].intent  t == i.task
         o == RequestedCleanup(i, cReq[c].facts)
     IN  \/ /\ i.supersedes # None
            /\ clean[t] # None /\ clean[t].op = i.supersedes
            /\ CleanupTuple(t, clean[t])
            /\ Journal(t, Attention(clean[t]))
         \/ /\ i.supersedes = None /\ HasBaseline(cReq[c].facts)
            /\ StoreStarts(t, o) /\ Journal(t, Attention(o))
         \/ /\ i.supersedes = None /\ HasBaseline(cReq[c].facts)
            /\ StoreCurrent(t, o) /\ CleanupTuple(t, clean[t])
            /\ Journal(t, Attention(clean[t]))
  /\ CTo(c, Idle)
  /\ OnlyCleanupJournal

BeginAccepted(c) ==
  LET i == cReq[c].intent
  IN  /\ BeginReady(c) /\ ~NeedsAttention(cReq[c].facts)
      /\ ~Refused(i.task, i.op, i.mode, i.acks, cReq[c].facts)
      /\ HasBaseline(cReq[c].facts)

\* The journal the store accepts: a new one, or one superseding a failed one
Starts(c) ==
  LET i == cReq[c].intent  o == RequestedCleanup(i, cReq[c].facts)
  IN  IF i.supersedes = None THEN StoreStarts(i.task, o)
      ELSE StoreSupersedes(i.task, i.supersedes, o)

BeginCleanup(c) ==
  /\ BeginAccepted(c) /\ Starts(c) /\ ~BothAbsent(cReq[c].facts)
  /\ LET i == cReq[c].intent  o == RequestedCleanup(i, cReq[c].facts)
     IN  Journal(i.task, o) /\ Revalidating(c, i.task, o, i.proof)
  /\ OnlyCleanupJournal

\* Mutant of RetriedCleanup: every retry starts over
RestartedCleanup(o) == [o EXCEPT !.failure = None, !.stage = "reserved"]

\* retry_task_worktree_cleanup: only Git's refusal of a safe removal proves
\* that nothing was removed.
RetriedCleanup(o) ==
  [o EXCEPT !.failure = None,
            !.stage = IF o.mode = "safe" /\ @ = "removePrepared"
                         /\ o.failure = "contentAppeared"
                      THEN "reserved" ELSE @]

RetryCleanup(c) ==
  /\ BeginAccepted(c) /\ cReq[c].intent.supersedes = None
  /\ LET i == cReq[c].intent  t == i.task
     IN  /\ StoreCurrent(t, RequestedCleanup(i, cReq[c].facts))
         /\ clean[t].failure # None /\ CleanupTuple(t, clean[t])
         /\ Journal(t, RetriedCleanup(clean[t]))
         /\ Revalidating(c, t, RetriedCleanup(clean[t]), i.proof)
  /\ OnlyCleanupJournal

\* The request ends without an effect: refused, superseded by the current
\* state, or Git or the store failed before anything was recorded.
EndCleanupRequest(c) ==
  /\ cReq[c].phase \in {"observe", "begin", "finalize"}
  /\ CTo(c, Idle)
  /\ OnlyCleanupRequest

-----------------------------------------------------------------------------
(* Completion *)

\* Mutant of ClearBinding: the proof outlives the binding
ClearWorktreeOnly(t, o, left) ==
  /\ task' = [task EXCEPT ![t].worktree = None]
  /\ receipt' = [receipt EXCEPT ![t] =
       [op |-> o.op, gen |-> o.gen, managed |-> o.managed, mode |-> o.mode,
        acks |-> o.acks,
        outcome |-> IF o.stage = "reserved" THEN "bindingCleared" ELSE "removed"]]
  /\ clean' = [clean EXCEPT ![t] = left]
  /\ UNCHANGED <<proof, prov, git>>

\* Mutant of ClearBinding: no receipt is written
ClearWithoutReceipt(t, o, left) ==
  /\ task' = [task EXCEPT ![t].worktree = None]
  /\ proof' = [proof EXCEPT ![t] = None]
  /\ clean' = [clean EXCEPT ![t] = left]
  /\ UNCHANGED <<receipt, prov, git>>

\* Mutant of ClearBinding: the journal is left at the stage it had
ClearKeepingStage(t, o, left) ==
  /\ task' = [task EXCEPT ![t].worktree = None]
  /\ proof' = [proof EXCEPT ![t] = None]
  /\ receipt' = [receipt EXCEPT ![t] =
       [op |-> o.op, gen |-> o.gen, managed |-> o.managed, mode |-> o.mode,
        acks |-> o.acks,
        outcome |-> IF o.stage = "reserved" THEN "bindingCleared" ELSE "removed"]]
  /\ UNCHANGED <<clean, prov, git>>

\* complete_task_worktree_cleanup of journal o as one transaction; left is what
\* becomes of the journal afterwards.
ClearBinding(t, o, left) ==
  /\ task' = [task EXCEPT ![t].worktree = None]
  /\ proof' = [proof EXCEPT ![t] = None]
  /\ receipt' = [receipt EXCEPT ![t] =
       [op |-> o.op, gen |-> o.gen, managed |-> o.managed, mode |-> o.mode,
        acks |-> o.acks,
        outcome |-> IF o.stage = "reserved" THEN "bindingCleared" ELSE "removed"]]
  /\ clean' = [clean EXCEPT ![t] = left]
  /\ UNCHANGED <<prov, git>>

Cleared(o) == [o EXCEPT !.stage = "bindingCleared"]

CanComplete(t, o) ==
  /\ o.failure = None /\ o.stage \in {"reserved", "removalVerified"}
  /\ CleanupTuple(t, o)

\* complete_cleanup_binding_clear: complete, then clear the journal, which may
\* fail on its own.
CompleteCleanup(w, t, o) ==
  /\ CanComplete(t, o)
  /\ \/ ClearBinding(t, o, None) /\ UNCHANGED bounds
     \/ ClearBinding(t, o, Cleared(o)) /\ Loss
  /\ CTo(w, Idle)
  /\ UNCHANGED <<daemon, attached, pReq, attempts>>

\* The daemon dies after the first transaction.
CompleteCrash(t, o) ==
  /\ CanComplete(t, o)
  /\ ClearBinding(t, o, Cleared(o))
  /\ DaemonDies

\* Nothing is left of the checkout when the cleanup begins.
BeginClears(c) ==
  /\ BeginAccepted(c) /\ Starts(c) /\ BothAbsent(cReq[c].facts)
  /\ LET i == cReq[c].intent  o == RequestedCleanup(i, cReq[c].facts)
     IN  CompleteCleanup(c, i.task, o) \/ CompleteCrash(i.task, o)

-----------------------------------------------------------------------------
(* Apply an observation *)

Applying(w) ==
  LET r == cReq[w]  t == cReq[w].task
  IN  /\ r.phase = "applyObservation"
      /\ TupleCurrent(t, r.proof)
      /\ clean[t] # None /\ clean[t].op = r.operation.op

ReadyToApply(w, stages) ==
  /\ Applying(w) /\ PresenceKnown(cReq[w].proof, cReq[w].facts)
  /\ clean[cReq[w].task].stage \in stages

\* The verdict on a Reserved journal
ReservedAttention(w) ==
  \/ NeedsAttention(cReq[w].facts)
  \/ cReq[w].facts.oid # clean[cReq[w].task].baseline.oid

ReservedRefused(w) ==
  LET o == clean[cReq[w].task]
  IN  Refused(cReq[w].task, o.op, o.mode, o.acks, cReq[w].facts)

MarkAttention(w) ==
  /\ \/ ReadyToApply(w, {"reserved"}) /\ ReservedAttention(w)
     \/ /\ ReadyToApply(w, {"removePrepared", "removalVerified"})
        /\ ~PostRemovalMatches(cReq[w].facts, clean[cReq[w].task])
  /\ Journal(cReq[w].task, Attention(clean[cReq[w].task]))
  /\ CTo(w, Idle)
  /\ OnlyCleanupJournal

\* A blocker appeared before anything was removed: the journal is cleared.
ApplyRefusal(w) ==
  /\ ReadyToApply(w, {"reserved"})
  /\ ~ReservedAttention(w) /\ ReservedRefused(w)
  /\ Journal(cReq[w].task, None)
  /\ CTo(w, Idle)
  /\ OnlyCleanupJournal

ReservedAccepted(w) ==
  /\ ReadyToApply(w, {"reserved"})
  /\ ~ReservedAttention(w) /\ ~ReservedRefused(w)

\* Mutant of PrepareRemoval: the removal starts before it is recorded
RemoveUnrecorded(w) ==
  /\ ReservedAccepted(w) /\ ~BothAbsent(cReq[w].facts)
  /\ CTo(w, [phase |-> "remove", task |-> cReq[w].task,
             operation |-> clean[cReq[w].task], proof |-> cReq[w].proof])
  /\ UNCHANGED clean
  /\ OnlyCleanupJournal

\* RemovePrepared is recorded before the removal.  The recovery scheduler
\* throws the resulting step away.
PrepareRemoval(w) ==
  /\ ReservedAccepted(w) /\ ~BothAbsent(cReq[w].facts)
  /\ LET t == cReq[w].task
         o == [clean[t] EXCEPT !.stage = "removePrepared", !.failure = None]
     IN  /\ Journal(t, o)
         /\ CTo(w, IF w \in Tasks THEN Idle
                   ELSE [phase |-> "remove", task |-> t, operation |-> o,
                         proof |-> cReq[w].proof])
  /\ OnlyCleanupJournal

\* The journal as complete_task_worktree_cleanup finds it: a Reserved one with
\* nothing left to remove, or one whose removal is verified.
Verified(w) ==
  LET o == clean[cReq[w].task]
  IN  IF o.stage = "removePrepared"
      THEN [o EXCEPT !.stage = "removalVerified", !.failure = None] ELSE o

ReadyToComplete(w) ==
  \/ ReservedAccepted(w) /\ BothAbsent(cReq[w].facts)
  \/ /\ ReadyToApply(w, {"removePrepared", "removalVerified"})
     /\ PostRemovalMatches(cReq[w].facts, clean[cReq[w].task])

ApplyCompletion(w) ==
  /\ ReadyToComplete(w)
  /\ \/ CompleteCleanup(w, cReq[w].task, Verified(w))
     \/ CompleteCrash(cReq[w].task, Verified(w))

\* The store refuses to complete a journal with a failure.
CompletionRefused(w) == ReadyToComplete(w) /\ ~CanComplete(cReq[w].task, Verified(w))

\* The tuple or the journal is gone, the presence cannot be captured, or the
\* completion is refused: the request ends and the journal stays as it is.
ApplyNothing(w) ==
  /\ cReq[w].phase = "applyObservation"
  /\ \/ ~Applying(w)
     \/ ~PresenceKnown(cReq[w].proof, cReq[w].facts)
     \/ CompletionRefused(w)
  /\ CTo(w, Idle)
  /\ OnlyCleanupRequest

\* RemovalVerified is recorded and the daemon dies before it completes.
VerifiedCrash(w) ==
  /\ ReadyToApply(w, {"removePrepared"})
  /\ PostRemovalMatches(cReq[w].facts, clean[cReq[w].task])
  /\ Journal(cReq[w].task, Verified(w))
  /\ DaemonDies
  /\ UNCHANGED <<task, proof, prov, receipt, git>>

-----------------------------------------------------------------------------
(* Removal: git worktree remove, outside the lock.  Git deletes the working  *)
(* tree, goes on to deregister it even if that failed, and may be cut off.   *)

RemovalOutcome(w, result) ==
  CTo(w, [phase |-> "applyRemoval", task |-> cReq[w].task,
          operation |-> cReq[w].operation, proof |-> cReq[w].proof,
          result |-> result])

OnlyCleanupGit ==
  UNCHANGED <<store, ref, daemon, attached, pReq, attempts, bounds>>

RemoveWorkingTree(w) ==
  /\ cReq[w].phase = "remove"
  /\ LET o == cReq[w].operation  p == o.baseline.path
         refuses == o.mode = "safe" /\ content[p] \cap GitRefusedKinds # {}
         deregister(deleted) ==
           CTo(w, [phase |-> "deregister", task |-> cReq[w].task,
                   operation |-> o, proof |-> cReq[w].proof,
                   deleted |-> deleted])
     IN  \/ /\ reg[p] # None /\ dir[p] # "replaced" /\ refuses
            /\ RemovalOutcome(w, "contentChanged")
            /\ UNCHANGED <<dir, content>>
         \/ /\ reg[p] # None /\ dir[p] # "replaced" /\ ~refuses
            /\ dir' = [dir EXCEPT ![p] = "absent"]
            /\ content' = [content EXCEPT ![p] = {}]
            /\ deregister(TRUE)
         \/ /\ reg[p] # None /\ dir[p] = "present" /\ ~refuses
            /\ deregister(FALSE)
            /\ UNCHANGED <<dir, content>>
         \/ RemovalOutcome(w, "failed") /\ UNCHANGED <<dir, content>>
  /\ UNCHANGED reg
  /\ OnlyCleanupGit

Deregister(w) ==
  /\ cReq[w].phase = "deregister"
  /\ LET p == cReq[w].operation.baseline.path
     IN  \/ /\ reg' = [reg EXCEPT ![p] = None]
            /\ \/ RemovalOutcome(w, IF cReq[w].deleted THEN "ok" ELSE "attention")
               \/ RemovalOutcome(w, "failed")
         \/ RemovalOutcome(w, "failed") /\ UNCHANGED reg
  /\ UNCHANGED <<dir, content>>
  /\ OnlyCleanupGit

\* Mutant of FailureOf: a failed removal is not recorded
NoFailureOf(result) == None

\* apply_task_worktree_cleanup_removal
FailureOf(result) ==
  CASE result = "contentChanged" -> "contentAppeared"
    [] result = "attention" -> "recoveryAttention"
    [] OTHER -> "operationFailed"

ApplyRemoval(w) ==
  /\ cReq[w].phase = "applyRemoval"
  /\ LET t == cReq[w].task  o == clean[t]
         current == /\ o # None /\ o.op = cReq[w].operation.op
                    /\ o.stage = "removePrepared" /\ o.failure = None
     IN  \/ /\ current /\ cReq[w].result = "ok"
            /\ Revalidating(w, t, o, cReq[w].proof)
            /\ UNCHANGED clean
         \/ /\ current /\ cReq[w].result # "ok"
            /\ Journal(t, [o EXCEPT !.failure = FailureOf(cReq[w].result)])
            /\ CTo(w, Idle)
         \/ /\ ~current
            /\ CTo(w, Idle)
            /\ UNCHANGED clean
  /\ OnlyCleanupJournal

\* An observation or removal worker fails, the observation gate refuses, or
\* the store write of an apply fails: the journal keeps its stage, without a
\* failure and without a worker.
LoseCleanupWorker(w) ==
  /\ cReq[w].phase \in CleanupDriving
  /\ CTo(w, Idle)
  /\ Loss
  /\ UNCHANGED <<store, git, daemon, attached, pReq, attempts>>

-----------------------------------------------------------------------------
(* Startup and recovery *)

\* reconcile_task_worktree_cleanup_operations
ReconciledCleanup(t) ==
  LET o == clean[t]
  IN  IF o = None THEN None
      ELSE IF o.stage = "reserved"
           THEN IF CleanupTuple(t, o) THEN [o EXCEPT !.failure = "operationFailed"]
                ELSE o
      ELSE IF o.stage = "bindingCleared" /\ receipt[t] # None
              /\ receipt[t].op = o.op
           THEN None ELSE o

ReconcileCleanup ==
  /\ daemon = "reconciled"
  /\ clean' = [t \in Tasks |-> ReconciledCleanup(t)]
  /\ daemon' = "recovering"
  /\ UNCHANGED <<task, proof, prov, receipt, git, attached, pReq, cReq, attempts,
                 bounds>>

\* plan_task_worktree_cleanup_recovery: every journal at or after its removal,
\* whether it has a failure or not.  The scheduler is spawned before the server
\* accepts requests; the model lets it have the lock first.
PlanRecovery ==
  /\ daemon = "recovering"
  /\ daemon' = "up"
  /\ cReq' = [w \in Workers |->
       IF w \in Tasks /\ clean[w] # None /\ proof[w] # None
          /\ clean[w].stage \in {"removePrepared", "removalVerified"}
       THEN [phase |-> "revalidate", task |-> w, operation |-> clean[w],
             proof |-> proof[w]]
       ELSE cReq[w]]
  /\ UNCHANGED <<store, git, attached, pReq, attempts, bounds>>

-----------------------------------------------------------------------------
(* Sessions *)

\* cleanup_reservation_for_cwd
ReservedPath(p) ==
  \E t \in Tasks :
    clean[t] # None /\ clean[t].failure = None /\ clean[t].baseline.path = p

\* launch_terminal_at, ensure_launch_not_reserved: checked and spawned under
\* the core lock
LaunchSession(p) ==
  /\ "launch" \in Requests /\ DaemonUp
  /\ p \notin attached /\ dir[p] = "present"
  /\ ~ReservedPath(p)
  /\ attached' = attached \cup {p}
  /\ UNCHANGED <<store, git, daemon, pReq, cReq, attempts, bounds>>

SessionExits(p) ==
  /\ p \in attached
  /\ attached' = attached \ {p}
  /\ UNCHANGED <<store, git, daemon, pReq, cReq, attempts, bounds>>

-----------------------------------------------------------------------------
CleanupStep(w) ==
  \/ Revalidate(w) \/ ApplyNothing(w) \/ MarkAttention(w) \/ ApplyRefusal(w)
  \/ PrepareRemoval(w) \/ ApplyCompletion(w)
  \/ RemoveWorkingTree(w) \/ Deregister(w) \/ ApplyRemoval(w)

CleanupStartup == ReconcileCleanup \/ PlanRecovery

CleanupNext ==
  \/ \E c \in Clients :
       \/ \E t \in Tasks, op \in OpIds, mode \in CleanupModes,
             acks \in SUBSET ContentKinds : PlanCleanup(c, t, op, mode, acks)
       \/ \E t \in Tasks : PlanFinalize(c, t)
       \/ ObserveCleanup(c) \/ EndCleanupRequest(c) \/ Finalize(c)
       \/ BeginAttention(c) \/ BeginCleanup(c) \/ RetryCleanup(c)
       \/ BeginClears(c)
  \/ \E w \in Workers : CleanupStep(w) \/ VerifiedCrash(w) \/ LoseCleanupWorker(w)
  \/ CleanupStartup
  \/ \E p \in Paths : LaunchSession(p) \/ SessionExits(p)

CleanupTypeOK == cReq \in [Workers -> CleanRequest]

=============================================================================
