----------------------- MODULE TaskWorktreeLifecycle -----------------------
(***************************************************************************)
(* The worktree of a Task from provisioning to cleanup: both sagas, branch *)
(* bindings, sessions, the user's own work on the repository, and crashes  *)
(* and restarts of the daemon.                                             *)
(***************************************************************************)
EXTENDS WorktreeProvisioning, WorktreeCleanup

RuntimeInit ==
  /\ daemon = "up"
  /\ attached = {}
  /\ pReq = [w \in Workers |-> Idle]
  /\ cReq = [w \in Workers |-> Idle]
  /\ crashes = 0 /\ losses = 0 /\ userSteps = 0

\* Fresh Tasks, and a repository in which any branch may exist already.
Init ==
  /\ task = [t \in Tasks |-> [branch |-> None, worktree |-> None, gen |-> 0]]
  /\ proof = [t \in Tasks |-> None]
  /\ prov = [t \in Tasks |-> None]
  /\ clean = [t \in Tasks |-> None]
  /\ receipt = [t \in Tasks |-> None]
  /\ ref \in [Branches -> {None} \cup [oid: Oids, mark: {User}]]
  /\ reg = [p \in Paths |-> None]
  /\ dir = [p \in Paths |-> "absent"]
  /\ content = [p \in Paths |-> {}]
  /\ attempts = [t \in Tasks |-> 0]
  /\ RuntimeInit

\* One Task has its worktree already: the state one undisturbed provisioning
\* leads to from Init, to look at cleanup from there.
BoundInit ==
  \E t \in Tasks, op \in OpIds, b \in Branches, p \in Paths, o \in Oids :
    LET spec == [path |-> p, branch |-> b, mode |-> "create", base |-> o]
    IN  /\ task = [u \in Tasks |->
             IF u = t THEN [branch |-> b, worktree |-> p, gen |-> 1]
             ELSE [branch |-> None, worktree |-> None, gen |-> 0]]
        /\ proof = [u \in Tasks |->
             IF u = t THEN [op |-> op, gen |-> 1, spec |-> spec] ELSE None]
        /\ prov = [u \in Tasks |-> None]
        /\ clean = [u \in Tasks |-> None]
        /\ receipt = [u \in Tasks |-> None]
        /\ ref = [c \in Branches |->
             IF c = b THEN [oid |-> o, mark |-> op] ELSE [oid |-> o, mark |-> User]]
        /\ reg = [q \in Paths |-> IF q = p THEN b ELSE None]
        /\ dir = [q \in Paths |-> IF q = p THEN "present" ELSE "absent"]
        /\ content = [q \in Paths |-> {}]
        /\ attempts = [u \in Tasks |-> IF u = t THEN 1 ELSE 0]
        /\ RuntimeInit

Next ==
  \/ ProvisioningNext
  \/ CleanupNext
  \/ \E t \in Tasks : ReleaseTaskBranch(t) \/ \E b \in Branches : BindTaskBranch(t, b)
  \/ UserNext
  \/ Crash \/ Restart

\* A request in flight, the startup reconciliation and the recovery scheduler
\* are driven by the daemon itself: their steps are taken once possible.
DaemonFairness ==
  /\ \A w \in Workers : /\ WF_vars(ExecuteStep(w) \/ ApplyStep(w))
                        /\ WF_vars(CleanupStep(w))
  /\ WF_vars(Restart)
  /\ WF_vars(ProvisioningStartup)
  /\ WF_vars(CleanupStartup)

Spec == Init /\ [][Next]_vars

FairSpec == Spec /\ DaemonFairness

BoundSpec == BoundInit /\ [][Next]_vars

FairBoundSpec == BoundSpec /\ DaemonFairness

-----------------------------------------------------------------------------
\* Every record of the store, every ref and registration, and every request in
\* flight has the shape its type gives it, and the generation never passes its
\* last value (commit_task_worktree_provisioning).
TypeOK ==
  /\ StoreTypeOK /\ GitTypeOK /\ RuntimeTypeOK
  /\ ProvisioningTypeOK /\ CleanupTypeOK

\* What a Task holds, by its binding and by its provisioning journal
HeldBranches(t) ==
  {task[t].branch, IF prov[t] = None THEN None ELSE prov[t].spec.branch} \ {None}
HeldPaths(t) ==
  {task[t].worktree, IF prov[t] = None THEN None ELSE prov[t].spec.path} \ {None}

\* No branch and no path is held by two Tasks, by binding or by journal, so a
\* reservation made in one request survives everything that other requests do
\* before its commit (validate_provisioning_reservation,
\* begin_task_worktree_provisioning, bind_task_branch).
HoldingsExclusive ==
  \A t, u \in Tasks :
    t # u => /\ HeldBranches(t) \cap HeldBranches(u) = {}
             /\ HeldPaths(t) \cap HeldPaths(u) = {}

\* The managed proof and the Task's binding agree on path, branch and
\* generation, and there is never one without the other
\* (commit_task_worktree_provisioning, complete_task_worktree_cleanup).
ProofMatchesBinding ==
  \A t \in Tasks :
    IF proof[t] = None THEN task[t].worktree = None
    ELSE /\ task[t].worktree = proof[t].spec.path
         /\ task[t].branch = proof[t].spec.branch
         /\ task[t].gen = proof[t].gen

\* A provisioning journal stands for a binding that does not exist yet, or for
\* the very binding it has committed; it never shares the Task with a cleanup.
ProvisioningJournalSound ==
  \A t \in Tasks :
    prov[t] # None =>
      /\ clean[t] = None
      /\ task[t].branch \in {None, prov[t].spec.branch}
      /\ IF prov[t].stage = "bindingCommitted"
         THEN proof[t] # None /\ proof[t].op = prov[t].op
                              /\ proof[t].spec = prov[t].spec
         ELSE task[t].worktree = None

NamesBinding(t, o) ==
  /\ proof[t] # None
  /\ proof[t].op = o.managed
  /\ proof[t].gen = o.gen /\ task[t].gen = o.gen
  /\ task[t].worktree = o.baseline.path

\* A cleanup journal names the current proof tuple until it has cleared the
\* binding, and then a receipt of the same operation is on record: "partial
\* authority is never stored".
CleanupJournalSound ==
  \A t \in Tasks :
    clean[t] # None =>
      IF clean[t].stage = "bindingCleared"
      THEN /\ task[t].worktree = None
           /\ receipt[t] # None
           /\ receipt[t].op = clean[t].op /\ receipt[t].gen = clean[t].gen
      ELSE NamesBinding(t, clean[t])

\* The generation survives cleanup: a Task without a worktree that once had
\* one has the receipt of exactly its last generation.
ReceiptCoversRelease ==
  \A t \in Tasks :
    task[t].gen > 0 /\ task[t].worktree = None =>
      receipt[t] # None /\ receipt[t].gen = task[t].gen

\* An operation id names one thing: no id of a provisioning journal or proof
\* is the id of a cleanup or belongs to another Task, so that no late or
\* repeated request is answered from another operation's record.
OperationIdsExclusive ==
  \A t, u \in Tasks :
    /\ prov[t] # None => ~(\E v \in Tasks \ {t} : proof[v] # None /\ proof[v].op = prov[t].op)
    /\ prov[t] # None /\ prov[u] # None /\ prov[t].op = prov[u].op => t = u
    /\ proof[t] # None /\ proof[u] # None /\ proof[t].op = proof[u].op => t = u
    /\ clean[t] # None /\ clean[u] # None /\ clean[t].op = clean[u].op => t = u
    /\ clean[t] # None /\ clean[t].stage # "bindingCleared" =>
         ~OwnedByProvisioning(clean[t].op)
    /\ receipt[t] # None =>
         ~OwnedByProvisioning(receipt[t].op) /\ ~OwnedByProvisioning(receipt[t].managed)

\* A journal has at most one worker, and the worker holds the journal's current
\* stage, so no result is applied twice or to another stage.
SingleProvisioner ==
  \A w \in Workers : pReq[w].phase \in Driving =>
    LET t == pReq[w].task  o == pReq[w].operation
    IN  /\ prov[t] = o /\ ~o.failed
        /\ \A v \in Workers \ {w} : pReq[v].phase \in Driving => pReq[v].task # t

\* No session runs in a checkout that is about to be deleted: the reservation
\* taken when the cleanup begins holds until the removal.
NoRemovalUnderSession ==
  \A w \in Workers :
    cReq[w].phase = "remove" => cReq[w].operation.baseline.path \notin attached

\* With one request at a time and nobody else at the checkout, a Reserved cleanup
\* journal means that nothing has been removed yet, whatever crashed or was lost
\* before, so that a retry may start over and a refusal may clear the journal
\* (retry_task_worktree_cleanup keeps the stage of a journal whose removal may
\* have begun).
ReservedMeansIntact ==
  \A t \in Tasks :
    clean[t] # None /\ clean[t].stage = "reserved" =>
      dir[clean[t].baseline.path] = "present" /\ reg[clean[t].baseline.path] # None

\* As long as only the daemon adds and removes worktrees, everything that
\* exists at a managed path belongs to a binding or to a journal: a crash, a
\* timeout or a dismissal never forgets a checkout.
NoForgottenCheckout ==
  \A p \in Paths :
    ~DestinationFree(p) => \E t \in Tasks : p \in HeldPaths(t)

ByDaemon == userSteps' = userSteps

\* The daemon deletes a branch only while it still points at the commit the
\* journal created it at: no commit is lost to a rollback.
RollbackLosesNoCommit ==
  [][ByDaemon =>
       \A b \in Branches :
         ref[b] # None /\ ref'[b] = None =>
           \E t \in Tasks : /\ prov[t] # None /\ prov[t].spec.branch = b
                            /\ prov[t].spec.base = ref[b].oid]_vars

\* The daemon deletes a checkout only when the intent to do so is on record,
\* so that a restart finds it: and never, in safe mode, content Git refuses to
\* lose.
RemovalOnRecord ==
  [][ByDaemon =>
       \A p \in Paths :
         dir[p] = "present" /\ dir'[p] = "absent" =>
           \E t \in Tasks :
             /\ clean[t] # None /\ clean[t].stage = "removePrepared"
             /\ clean[t].baseline.path = p
             /\ clean[t].mode = "safe" => content[p] \cap GitRefusedKinds = {}]_vars

\* The sagas implement the binding that the rest of the system relies on.
Binding == INSTANCE TaskBinding WITH
  branch <- [t \in Tasks |-> task[t].branch],
  worktree <- [t \in Tasks |-> task[t].worktree],
  gen <- [t \in Tasks |-> task[t].gen],
  released <- [t \in Tasks |-> IF receipt[t] = None THEN 0 ELSE receipt[t].gen]

\* Every step of the detailed system is a step of TaskBinding or leaves the
\* bindings alone.
ImplementsBinding == Binding!BindingSpec

\* A provisioning journal without a failure is being worked on: it is cleared
\* or gets a failure the user can act on.
ProvisioningSettles ==
  \A t \in Tasks :
    (prov[t] # None /\ ~prov[t].failed) ~> (prov[t] = None \/ prov[t].failed)

\* The same of a cleanup journal, and with it the launch reservation of the
\* path ends.
CleanupSettles ==
  \A t \in Tasks :
    (clean[t] # None /\ clean[t].failure = None)
      ~> (clean[t] = None \/ clean[t].failure # None)

=============================================================================
