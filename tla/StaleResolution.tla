--------------------------- MODULE StaleResolution ---------------------------
(* Resolving the stale worktree of one Task: forgetting the binding, or         *)
(* discarding the directory and then the binding.  From                         *)
(* core/task_worktree/cleanup/stale.rs, store/journal/stale_resolution.rs and   *)
(* resolve_stale_task_worktree of the server.                                   *)
(*                                                                              *)
(* The core lock is held in Plan, in Begin... and in Apply...; observations and *)
(* removals run outside it.  A call that is answered without a change of the    *)
(* store ends its request and is not a step of its own where the request has    *)
(* done nothing yet.                                                            *)
EXTENDS Naturals

CONSTANTS
  Workers,        \* requests that may be in flight together
  OpIds,
  Managed,        \* the kinds of binding to start from: with a proof, without
  MaxGeneration,  \* bound on re-provisioning
  LeafIds,        \* identities (dev and ino) of directories; they are used again
  MaxRetries,     \* attempts after the first (STALE_DISPOSAL_TRANSIENT_RETRY_DELAYS_MS)
  MaxFaults,      \* bound on crashes, lost requests and steps of other programs
  None

ASSUME StaleAssumption ==
  /\ Managed \subseteq BOOLEAN
  /\ MaxGeneration \in Nat /\ MaxRetries \in Nat /\ MaxFaults \in Nat

VARIABLES
  \* the store, as far as it concerns the Task
  binding,     \* [gen, managed], or None; managed says that there is a proof
  gen,         \* worktree_generation
  journal, receipt,
  cleanup,     \* what its cleanup journal allows
  \* the target path
  dir,         \* [id, git], or None: leaf identity, and whether .git is there
  registered,  \* Git has a worktree registered there
  \* the daemon
  req, up, attached,
  discarded,   \* history: for every removal, its request's generation and the Task's
  repeated,    \* history: two requests of one operation were in flight together
  crashes,
  losses,      \* dead workers and failed store writes
  changes      \* what other programs did at the path

store == <<binding, gen, journal, receipt, cleanup>>
path  == <<dir, registered>>
history == <<discarded, repeated>>
env   == <<crashes, losses, changes>>
FaultsLeft == crashes + losses + changes < MaxFaults
vars  == <<store, path, req, up, attached, history, env>>

Modes  == {"forgetBinding", "discardDirectory"}
Stages == {"reserved", "removalPrepared", "removalInvoked", "removalVerified"}
Kinds  == {"orphanedDirectory", "registeredCheckout"}

Journal(op, mode, stage) ==
  [op |-> op, mode |-> mode, gen |-> binding.gen, managed |-> binding.managed,
   stage |-> stage, failed |-> FALSE]

\* Failed cleanups: "blocked" and "attention" at Reserved, without and with
\* RecoveryAttention, "prepared" at RemovePrepared.
CleanupStates == {"none", "active", "blocked", "attention", "prepared"}

\* What the store, the path and a request hold.  A request carries more in every
\* phase it reaches; a disposal has a target from the moment it may begin.
Binding == [gen : Nat, managed : BOOLEAN]
StaleJournal ==
  [op : OpIds, mode : Modes, gen : Nat, managed : BOOLEAN, stage : Stages,
   failed : BOOLEAN]
Receipt == [op : OpIds, mode : Modes, gen : Nat, managed : BOOLEAN]
Leaf == [id : LeafIds, git : BOOLEAN]
TargetFacts == [kind : Kinds \cup {None}, target : Leaf \cup {None}, absent : BOOLEAN]

ASSUME NoneAssumption ==
  None \notin Binding \cup StaleJournal \cup Receipt \cup Leaf \cup Kinds

Idle == [phase |-> "idle"]
Planned ==
  [phase : {"planned"}, op : OpIds, mode : Modes, gen : Nat, managed : BOOLEAN]
ObservedForget ==
  [phase : {"observed"}, op : OpIds, mode : {"forgetBinding"}, gen : Nat,
   managed : BOOLEAN, facts : {None}]
ObservedDiscard ==
  [phase : {"observed"}, op : OpIds, mode : {"discardDirectory"}, gen : Nat,
   managed : BOOLEAN, facts : TargetFacts]
Revalidating ==
  [phase : {"revalidating"}, op : OpIds, mode : {"forgetBinding"}, gen : Nat,
   managed : BOOLEAN]
Disposing ==
  [phase : {"executing", "removing", "refused", "removed", "removalFailed"},
   op : OpIds, mode : {"discardDirectory"}, gen : Nat, managed : BOOLEAN,
   kind : Kinds, target : Leaf, git : BOOLEAN, tries : Nat]
Request ==
  {Idle} \cup Planned \cup ObservedForget \cup ObservedDiscard \cup Revalidating
    \cup Disposing

\* A managed worktree, or a binding of the time before proofs (generation 0);
\* its directory is an orphan, a whole checkout, or gone.
Init ==
  /\ \E managed \in Managed :
       /\ gen = (IF managed THEN 1 ELSE 0)
       /\ binding = [gen |-> gen, managed |-> managed]
  /\ journal = None /\ receipt = None
  /\ cleanup = "none"
  /\ dir \in {None} \cup Leaf
  /\ registered \in BOOLEAN
  /\ req = [w \in Workers |-> Idle]
  /\ up = TRUE /\ attached = FALSE /\ discarded = {} /\ repeated = FALSE
  /\ crashes = 0 /\ losses = 0 /\ changes = 0

-----------------------------------------------------------------------------
(* What is observed *)

\* stale_resolution_target_kind
Kind(managed) ==
  IF dir # None /\ ~registered THEN "orphanedDirectory"
  ELSE IF dir # None /\ ~managed THEN "registeredCheckout"
  ELSE None

BothAbsent == dir = None /\ ~registered

Facts(managed) == [kind |-> Kind(managed), target |-> dir, absent |-> BothAbsent]

SetReq(w, r) == req' = [req EXCEPT ![w] = r]

Ends(w) == SetReq(w, Idle)

SameIntent(j, r) == j.op = r.op /\ j.mode = r.mode /\ j.gen = r.gen /\ j.managed = r.managed

OwnJournal(r) == journal # None /\ journal.op = r.op

\* Mutant of TupleCurrent: the generation is not compared
TupleOfAnyGeneration(r) == binding # None /\ binding.managed = r.managed

\* ensure_current_cleanup_proof, ensure_current_unverified_binding, and
\* ensure_stale_resolution_tuple
TupleCurrent(r) == binding = [gen |-> r.gen, managed |-> r.managed]

\* plan_task_worktree_stale_resolution: an operation with a receipt is replayed or
\* refused, and a tuple that is not the current one is refused.
Plan(w, op, mode) ==
  /\ up /\ req[w] = Idle
  /\ receipt # None => receipt.op # op
  /\ binding # None
  /\ LET r == [phase |-> "planned", op |-> op, mode |-> mode,
               gen |-> binding.gen, managed |-> binding.managed]
     IN /\ journal # None => SameIntent(journal, r)
        /\ SetReq(w, r)
  /\ repeated' = (repeated \/ \E v \in Workers : req[v] # Idle /\ req[v].op = op)
  /\ UNCHANGED <<store, path, up, attached, discarded, env>>

\* TaskWorktreeStaleResolutionPlan::observe, outside the lock; the record-only mode
\* uses nothing of it.
Observe(w) ==
  /\ req[w].phase = "planned"
  /\ SetReq(w, [phase |-> "observed", op |-> req[w].op, mode |-> req[w].mode,
                gen |-> req[w].gen, managed |-> req[w].managed,
                facts |-> IF req[w].mode = "forgetBinding" THEN None
                          ELSE Facts(req[w].managed)])
  /\ UNCHANGED <<store, path, up, attached, history, env>>

\* An observation that fails ends a disposal, and so does one that shows a missing
\* branch or a protected path.
ObservationFails(w) ==
  /\ req[w].phase = "planned" /\ req[w].mode = "discardDirectory"
  /\ Ends(w)
  /\ UNCHANGED <<store, path, up, attached, history, env>>

-----------------------------------------------------------------------------
(* begin_task_worktree_stale_resolution *)

Interrupted(r) ==
  /\ OwnJournal(r) /\ journal.mode = "discardDirectory" /\ journal.failed
  /\ journal.stage \in {"removalPrepared", "removalInvoked"}

\* cleanup_allows_stale_resolution
Supersedes(r) == cleanup = "none" \/ (cleanup \in {"attention", "prepared"} /\ r.managed)

\* cleanup_allows_stale_git_metadata, or the retry of an interrupted disposal
AllowsGitMetadata(r) == Interrupted(r) \/ cleanup = "prepared"

\* Mutant of Unblocked: the sessions in the directory are not looked at
UnblockedBySessions(r) ==
  r.mode = "discardDirectory" =>
    /\ r.facts.kind # None
    /\ ~(r.facts.kind = "orphanedDirectory" /\ r.facts.target.git /\ ~AllowsGitMetadata(r))

\* stale_observation_blockers, the facts of the target and the sessions in it:
\* they gate disposal, not the record-only mode.
Unblocked(r) ==
  r.mode = "discardDirectory" =>
    /\ r.facts.kind # None
    /\ ~(r.facts.kind = "orphanedDirectory" /\ r.facts.target.git /\ ~AllowsGitMetadata(r))
    /\ ~attached

CompletesAbsent(r) == r.mode = "discardDirectory" /\ r.facts.absent /\ Interrupted(r)

\* complete_task_worktree_stale_resolution
Complete(j) ==
  /\ binding' = None
  /\ receipt' = [op |-> j.op, mode |-> j.mode, gen |-> j.gen, managed |-> j.managed]
  /\ journal' = None
  /\ UNCHANGED <<gen, cleanup>>

\* The disposal was interrupted, and its target is gone now: verified and completed.
BeginAbsent(w) ==
  /\ req[w].phase = "observed"
  /\ TupleCurrent(req[w]) /\ CompletesAbsent(req[w])
  /\ Complete(journal)
  /\ Ends(w)
  /\ UNCHANGED <<path, up, attached, history, env>>

\* The step begin returns: a second observation for the record-only mode, the removal
\* of exactly the observed target for disposal.
NextStep(w) ==
  LET r == req[w]
  IN IF r.mode = "forgetBinding"
     THEN SetReq(w, [phase |-> "revalidating", op |-> r.op, mode |-> r.mode,
                     gen |-> r.gen, managed |-> r.managed])
     ELSE SetReq(w, [phase |-> "executing", op |-> r.op, mode |-> r.mode,
                     gen |-> r.gen, managed |-> r.managed,
                     kind |-> r.facts.kind, target |-> r.facts.target,
                     git |-> AllowsGitMetadata(r) /\ r.facts.target.git, tries |-> 0])

FirstStage(mode) == IF mode = "forgetBinding" THEN "reserved" ELSE "removalPrepared"

MayBegin(w) ==
  /\ req[w].phase = "observed"
  /\ TupleCurrent(req[w]) /\ ~CompletesAbsent(req[w])
  /\ Unblocked(req[w]) /\ Supersedes(req[w])

\* Mutant of BeginStarted: the removal starts before it is journaled
BeginUnrecorded(w) ==
  /\ MayBegin(w)
  /\ journal = None
  /\ cleanup' = "none"
  /\ NextStep(w)
  /\ UNCHANGED <<binding, gen, journal, receipt, path, up, attached, history, env>>

\* Reserved, and for disposal RemovalPrepared at once; the cleanup that failed is
\* superseded in the first of the two writes.
BeginStarted(w) ==
  /\ MayBegin(w)
  /\ journal = None
  /\ receipt # None => receipt.op # req[w].op
  /\ journal' = Journal(req[w].op, req[w].mode, FirstStage(req[w].mode))
  /\ cleanup' = "none"
  /\ NextStep(w)
  /\ UNCHANGED <<binding, gen, receipt, path, up, attached, history, env>>

\* The operation is known already, and its request may still be at work: both go on.
BeginCurrent(w) ==
  /\ MayBegin(w)
  /\ journal # None /\ SameIntent(journal, req[w]) /\ ~journal.failed
  /\ journal' = IF journal.stage = "reserved"
                THEN [journal EXCEPT !.stage = FirstStage(journal.mode)] ELSE journal
  /\ NextStep(w)
  /\ UNCHANGED <<binding, gen, receipt, cleanup, path, up, attached, history, env>>

\* retry_task_worktree_stale_resolution: only from RemovalPrepared
BeginRetry(w) ==
  /\ MayBegin(w)
  /\ journal # None /\ SameIntent(journal, req[w]) /\ journal.failed
  /\ journal.stage = "removalPrepared"
  /\ journal' = [journal EXCEPT !.failed = FALSE]
  /\ NextStep(w)
  /\ UNCHANGED <<binding, gen, receipt, cleanup, path, up, attached, history, env>>

\* Changed tuple, blockers, an active cleanup, or an operation that may not go on.
BeginRefused(w) ==
  /\ req[w].phase = "observed"
  /\ ~(TupleCurrent(req[w]) /\ CompletesAbsent(req[w]))
  /\ MayBegin(w) =>
       IF journal = None THEN receipt # None /\ receipt.op = req[w].op
       ELSE \/ ~SameIntent(journal, req[w])
            \/ journal.failed /\ journal.stage # "removalPrepared"
  /\ Ends(w)
  /\ UNCHANGED <<store, path, up, attached, history, env>>

-----------------------------------------------------------------------------
(* The record-only mode *)

\* clear_task_worktree_stale_resolution_before_mutation
MayClear(r) ==
  /\ OwnJournal(r) /\ ~journal.failed
  /\ journal.stage \in {"reserved", "removalPrepared"}

MayForget(r) ==
  /\ TupleCurrent(r) /\ OwnJournal(r)
  /\ journal.mode = "forgetBinding" /\ journal.stage = "reserved" /\ ~journal.failed

\* apply_task_worktree_stale_forget: whatever its second observation found
ApplyForget(w) ==
  /\ req[w].phase = "revalidating"
  /\ \/ MayForget(req[w]) /\ Complete(journal)
     \/ ~MayForget(req[w]) /\ UNCHANGED store
  /\ Ends(w)
  /\ UNCHANGED <<path, up, attached, history, env>>

-----------------------------------------------------------------------------
(* Disposal *)

\* TaskWorktreeStaleDisposalStep::execute up to the removal: the target still is of
\* that kind and still is that very leaf.  An observation may also fail.
TargetExact(r) == Kind(r.managed) = r.kind /\ dir = r.target

CheckTarget(w) ==
  /\ req[w].phase = "executing"
  /\ \/ TargetExact(req[w]) /\ SetReq(w, [req[w] EXCEPT !.phase = "removing"])
     \/ SetReq(w, [req[w] EXCEPT !.phase = "refused"])
  /\ UNCHANGED <<store, path, up, attached, history, env>>

\* remove_stale_disposal_target_attempt: the leaf is compared once more.  Its identity
\* is dev and ino, which a directory made later may have again.
LeafExact(r) == dir # None /\ dir.id = r.target.id /\ (dir.git => r.git)

\* Git is given the path of a registered checkout, and no leaf.
MayRemove(r) ==
  \/ r.kind = "orphanedDirectory" /\ LeafExact(r)
  \/ r.kind = "registeredCheckout" /\ dir # None /\ registered

Removal(w) ==
  /\ req[w].phase = "removing" /\ MayRemove(req[w])
  /\ dir' = None
  /\ discarded' = discarded \cup {[by |-> req[w].gen, of |-> gen]} /\ UNCHANGED repeated

\* The directory goes, and with a registered checkout the registration.
Remove(w) ==
  /\ Removal(w)
  /\ registered' = (registered /\ req[w].kind = "orphanedDirectory")
  /\ SetReq(w, [req[w] EXCEPT !.phase = "removed"])
  /\ UNCHANGED <<store, up, attached, env>>

\* What a removal that does not go through leaves: nothing is removed, or part of the
\* directory is and maybe its .git.
RemovesPart(r) ==
  \/ UNCHANGED dir
  \/ MayRemove(r) /\ dir' = [dir EXCEPT !.git = FALSE]

\* The retry loop of remove_stale_disposal_target_exact: another program wrote into
\* the directory while it was removed, and after a sleep the next attempt looks at the
\* path again.
RetryRemoval(w) ==
  /\ req[w].phase = "removing" /\ req[w].kind = "orphanedDirectory"
  /\ LeafExact(req[w]) /\ req[w].tries < MaxRetries
  /\ RemovesPart(req[w])
  /\ SetReq(w, [req[w] EXCEPT !.tries = @ + 1])
  /\ UNCHANGED <<store, registered, up, attached, history, env>>

\* An attempt is refused, or fails for good; Git may also have removed all of a
\* checkout and maybe its registration before it or the verification fails.
RemoveFails(w) ==
  /\ req[w].phase = "removing"
  /\ \/ RemovesPart(req[w]) /\ UNCHANGED <<registered, history>>
     \/ /\ Removal(w) /\ req[w].kind = "registeredCheckout"
        /\ registered' \in BOOLEAN
  /\ SetReq(w, [req[w] EXCEPT !.phase = "removalFailed"])
  /\ UNCHANGED <<store, up, attached, env>>

\* Mutant of ApplyRefused: the journal stays
RefusedInPlace(w) ==
  /\ req[w].phase = "refused"
  /\ Ends(w)
  /\ UNCHANGED <<store, path, up, attached, history, env>>

\* apply_task_worktree_stale_disposal, Refused: nothing was changed, so the journal
\* is taken back.
ApplyRefused(w) ==
  /\ req[w].phase = "refused"
  /\ journal' = IF MayClear(req[w]) THEN None ELSE journal
  /\ Ends(w)
  /\ UNCHANGED <<binding, gen, receipt, cleanup, path, up, attached, history, env>>

\* Removed(Err): the journal waits for a retry.
ApplyRemovalFailed(w) ==
  /\ req[w].phase = "removalFailed"
  /\ journal' = IF OwnJournal(req[w]) THEN [journal EXCEPT !.failed = TRUE] ELSE journal
  /\ Ends(w)
  /\ UNCHANGED <<binding, gen, receipt, cleanup, path, up, attached, history, env>>

\* advance_task_worktree_stale_resolution to RemovalInvoked: from RemovalPrepared,
\* whose failure it clears, or repeated.
MayAdvance(r) ==
  /\ OwnJournal(r) /\ journal.mode = "discardDirectory"
  /\ \/ journal.stage = "removalPrepared"
     \/ journal.stage = "removalInvoked" /\ ~journal.failed

\* Removed(Ok): RemovalInvoked, RemovalVerified, and the completion
ApplyRemoved(w) ==
  /\ req[w].phase = "removed"
  /\ \/ MayAdvance(req[w]) /\ Complete(journal)
     \/ ~MayAdvance(req[w]) /\ UNCHANGED store
  /\ Ends(w)
  /\ UNCHANGED <<path, up, attached, history, env>>

-----------------------------------------------------------------------------
(* Crashes, restarts and lost requests *)

\* Between the writes of one apply or begin the journal shows how far it came.
WriteCut(w) ==
  \/ /\ req[w].phase = "removed" /\ MayAdvance(req[w])
     /\ \E s \in {"removalInvoked", "removalVerified"} :
          journal' = [journal EXCEPT !.stage = s, !.failed = FALSE]
     /\ UNCHANGED <<binding, gen, receipt, cleanup>>
  \/ /\ req[w].phase = "observed" /\ TupleCurrent(req[w]) /\ CompletesAbsent(req[w])
     /\ journal' = [journal EXCEPT !.stage = "removalVerified", !.failed = FALSE]
     /\ UNCHANGED <<binding, gen, receipt, cleanup>>
  \/ /\ MayBegin(w) /\ journal = None /\ req[w].mode = "discardDirectory"
     /\ journal' = Journal(req[w].op, req[w].mode, "reserved")
     /\ cleanup' = "none"
     /\ UNCHANGED <<binding, gen, receipt>>

Dies ==
  /\ up /\ FaultsLeft
  /\ crashes' = crashes + 1
  /\ up' = FALSE /\ attached' = FALSE
  /\ req' = [w \in Workers |-> Idle]
  /\ UNCHANGED <<path, history, losses, changes>>

Crash == Dies /\ (UNCHANGED store \/ \E w \in Workers : WriteCut(w))

\* A blocking worker panics, or the store refuses a write: the request is over.
LoseRequest(w) ==
  /\ req[w].phase \in {"observed", "executing", "removing", "removed", "removalFailed",
                       "refused", "revalidating"}
  /\ FaultsLeft /\ losses' = losses + 1
  /\ UNCHANGED store \/ WriteCut(w)
  /\ Ends(w)
  /\ UNCHANGED <<path, up, attached, history, crashes, changes>>

\* Mutant of Reconciled: a prepared removal is taken back as well
ReconciledByClearing ==
  IF journal = None THEN UNCHANGED store
  ELSE \/ /\ journal.stage \in {"reserved", "removalPrepared"}
          /\ journal' = IF journal.failed THEN journal ELSE None
          /\ UNCHANGED <<binding, gen, receipt, cleanup>>
       \/ /\ journal.stage = "removalInvoked"
          /\ journal' = [journal EXCEPT !.failed = TRUE]
          /\ UNCHANGED <<binding, gen, receipt, cleanup>>
       \/ /\ journal.stage = "removalVerified"
          /\ IF journal.failed THEN UNCHANGED store ELSE Complete(journal)

\* reconcile_task_worktree_stale_resolution_operations
Reconciled ==
  IF journal = None THEN UNCHANGED store
  ELSE \/ /\ journal.stage = "reserved"
          /\ journal' = IF journal.failed THEN journal ELSE None
          /\ UNCHANGED <<binding, gen, receipt, cleanup>>
       \/ /\ journal.stage = "removalVerified"
          /\ IF journal.failed THEN UNCHANGED store ELSE Complete(journal)
       \/ /\ journal.stage \in {"removalPrepared", "removalInvoked"}
          /\ journal' = [journal EXCEPT !.failed = TRUE]
          /\ UNCHANGED <<binding, gen, receipt, cleanup>>

Restart ==
  /\ ~up /\ up' = TRUE
  /\ Reconciled
  /\ UNCHANGED <<path, req, attached, history, env>>

-----------------------------------------------------------------------------
(* The rest of the system *)

\* cleanup_reservation_for_cwd
Reserved ==
  \/ cleanup = "active"
  \/ journal # None /\ journal.mode = "discardDirectory"

LaunchSession ==
  /\ up /\ ~attached /\ dir # None /\ ~Reserved
  /\ attached' = TRUE
  /\ UNCHANGED <<store, path, req, up, history, env>>

SessionExits ==
  /\ attached
  /\ attached' = FALSE
  /\ UNCHANGED <<store, path, req, up, history, env>>

\* The cleanup saga, which WorktreeCleanup models, as it is seen here:
\* begin_task_worktree_cleanup, and how it ends.
BeginCleanup ==
  /\ up /\ binding # None /\ binding.managed /\ cleanup # "active"
  /\ journal = None /\ ~attached
  /\ cleanup' = "active"
  /\ UNCHANGED <<binding, gen, journal, receipt, path, req, up, attached, history, env>>

EndCleanup ==
  /\ up /\ cleanup = "active"
  /\ \/ /\ cleanup' \in {"blocked", "attention"}
        /\ UNCHANGED <<binding, dir, registered>>
     \/ /\ cleanup' = "prepared"
        /\ registered' = FALSE
        /\ UNCHANGED <<binding, dir>>
     \/ /\ cleanup' = "none"
        /\ binding' = None /\ dir' = None /\ registered' = FALSE
  /\ UNCHANGED <<gen, journal, receipt, req, up, attached, history, env>>

\* The provisioning saga, which WorktreeProvisioning models, as it is seen here: the
\* Task gets a worktree of its next generation at the same path.
Provision ==
  /\ up /\ binding = None /\ gen < MaxGeneration
  /\ journal = None /\ cleanup = "none"
  /\ dir = None /\ ~registered
  /\ gen' = gen + 1
  /\ binding' = [gen |-> gen', managed |-> TRUE]
  /\ dir' \in [id : LeafIds, git : {TRUE}]
  /\ registered' = TRUE
  /\ UNCHANGED <<journal, receipt, cleanup, req, up, attached, history, env>>

\* Other programs delete, create or replace the directory, and prune or add the
\* registration.
OutsideChange ==
  /\ FaultsLeft /\ changes' = changes + 1
  /\ \/ /\ dir # None /\ dir' = None
        /\ UNCHANGED registered
     \/ /\ dir' \in Leaf
        /\ UNCHANGED registered
     \/ /\ registered' = ~registered
        /\ UNCHANGED dir
  /\ UNCHANGED <<store, req, up, attached, history, crashes, losses>>

RequestStep(w) ==
  \/ Observe(w) \/ ObservationFails(w)
  \/ BeginAbsent(w) \/ BeginStarted(w) \/ BeginCurrent(w) \/ BeginRetry(w)
  \/ BeginRefused(w)
  \/ ApplyForget(w)
  \/ CheckTarget(w) \/ Remove(w) \/ RetryRemoval(w) \/ RemoveFails(w)
  \/ ApplyRefused(w) \/ ApplyRemovalFailed(w) \/ ApplyRemoved(w)

Next ==
  \/ \E w \in Workers : \/ \E op \in OpIds, mode \in Modes : Plan(w, op, mode)
                        \/ RequestStep(w)
                        \/ LoseRequest(w)
  \/ Crash \/ Restart
  \/ LaunchSession \/ SessionExits
  \/ BeginCleanup \/ EndCleanup \/ Provision
  \/ OutsideChange

Spec == Init /\ [][Next]_vars

\* The daemon finishes what it has in flight, and is started again.
FairSpec ==
  /\ Spec
  /\ \A w \in Workers : WF_vars(RequestStep(w))
  /\ WF_vars(Restart)

-----------------------------------------------------------------------------
(* Properties *)

StoreTypeOK ==
  /\ binding \in Binding \cup {None} /\ gen \in Nat
  /\ journal \in StaleJournal \cup {None} /\ receipt \in Receipt \cup {None}
  /\ cleanup \in CleanupStates

PathTypeOK == dir \in Leaf \cup {None} /\ registered \in BOOLEAN

RequestTypeOK == req \in [Workers -> Request]

DaemonTypeOK ==
  /\ up \in BOOLEAN /\ attached \in BOOLEAN
  /\ discarded \subseteq [by : Nat, of : Nat] /\ repeated \in BOOLEAN
  /\ crashes \in Nat /\ losses \in Nat /\ changes \in Nat

\* The types of the variables: what the store, the path and a request in each phase
\* may hold.
TypeOK == StoreTypeOK /\ PathTypeOK /\ RequestTypeOK /\ DaemonTypeOK

\* No directory is being removed under a session: disposal looks for sessions when
\* it begins, and its journal keeps others out until it ends
\* (begin_task_worktree_stale_resolution, cleanup_reservation_for_cwd).  As long as
\* no request is repeated while it is in flight.
NoRemovalUnderSession ==
  ~repeated => \A w \in Workers : req[w].phase = "removing" => ~attached

\* A removal under way, and one that is not applied yet, has its journal: after a
\* crash at this point the restart knows of it, and until then the path stays
\* reserved ("journaled, explicitly acknowledged, exact-path reserved").  As long as
\* no request is repeated while it is in flight: the refusal of the second one clears
\* the journal under the first (ApplyRefused).
DisposalReserved ==
  ~repeated =>
    \A w \in Workers :
      req[w].phase \in {"removing", "removed"} =>
        OwnJournal(req[w]) /\ journal.mode = "discardDirectory"

\* The journal names the binding that the Task has, whatever cleanups, provisioning
\* and crashes do, and it never stands beside a cleanup journal; so a completion
\* never clears a binding of another generation (ensure_stale_resolution_tuple).
JournalNamesBinding ==
  journal # None =>
    /\ TupleCurrent(journal)
    /\ cleanup = "none"

\* The journal of a resolution is where a crash, a session launch or another saga
\* looks for it, and says what is true of the Task.
ResolutionJournalSound == DisposalReserved /\ JournalNamesBinding

\* A removal is of the worktree of the generation its request is for, however late the
\* request is and whatever identity the directory has: the leaf it compares may belong
\* to a later worktree by then, so the tuple that begin checks and the journal must
\* keep other generations away.  As long as no request is repeated while it is in
\* flight: the second one may end the operation, and the first then removes a later
\* worktree that was given the identity of the old one, or a registered checkout, of
\* which Git is given the path alone.
RemovesOnlyItsGeneration == ~repeated => \A d \in discarded : d.by = d.of

\* Where no other program interferes and no request is repeated: a discard is reported
\* only when the directory of that generation has been removed, however often the
\* daemon died on the way.
ReportedDiscardHappened ==
  changes = 0 /\ ~repeated /\ receipt # None /\ receipt.mode = "discardDirectory" =>
    \E d \in discarded : d.by = receipt.gen

\* Where no other program interferes and no request is repeated: once the directory
\* of a binding has been removed, the journal stays until the binding is gone too.
DiscardOnRecord ==
  changes = 0 /\ ~repeated =>
    \A d \in discarded : binding # None /\ binding.gen = d.of => journal # None

\* Every discard is accounted for, before and after each crash: reported only if it
\* happened, and on record until its binding is gone.
DiscardsAccounted == ReportedDiscardHappened /\ DiscardOnRecord

\* A resolution that is under way ends, as long as no worker is lost: it completes,
\* is taken back, or waits for a retry with its failure recorded.
EveryResolutionSettles ==
  (journal # None /\ ~journal.failed) ~> (journal = None \/ journal.failed \/ losses > 0)

=============================================================================
