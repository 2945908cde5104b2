---------------------------- MODULE WorktreeRepair ----------------------------
(* Repairing the link between Git and a managed worktree that was moved: the    *)
(* checkout is at a candidate path, and Git and the Task still name the old one. *)
(* From core/task_worktree/repair.rs, store/journal/repair.rs and the repair     *)
(* requests of the server.                                                       *)
(*                                                                               *)
(* The core lock is held in Plan..., Begin..., Apply... and Dismiss; Git runs    *)
(* outside it.  Requests of one operation id take turns (repair_request_lock).   *)
EXTENDS Naturals, FiniteSets

CONSTANTS
  Tasks, Paths, OpIds,
  Workers,      \* repair requests that may be in flight together
  MaxRepairs,   \* bound on the generation
  MaxFaults,    \* bound on crashes and lost requests
  MaxMoves,     \* bound on what the user does to the checkouts
  None

ASSUME RepairAssumption ==
  /\ IsFiniteSet(Tasks) /\ Cardinality(Tasks) <= Cardinality(Paths)
  /\ MaxRepairs \in Nat /\ MaxFaults \in Nat /\ MaxMoves \in Nat

VARIABLES
  \* the store
  binding,     \* path and generation of each Task's managed worktree, or None
  journal, receipt,
  other,       \* Tasks with a journal of another saga
  \* the repository
  location,    \* where each Task's checkout is, or None
  linked,      \* the path Git has on record for it
  \* the daemon
  req, dismissal, attached, up,
  sent,        \* what each operation id was first sent for
  disturbed,   \* history: Tasks whose checkout the user took away during a repair of it
  stray,       \* history: Tasks whose link the repair of another Task rewrote
  faults, moves

store == <<binding, journal, receipt, other>>
repo  == <<location, linked>>
env   == <<faults, moves>>
history == <<disturbed, stray>>
vars  == <<store, repo, req, dismissal, attached, up, sent, history, env>>

Stages == {"reserved", "repairPrepared", "repairInvoked", "verified"}

\* What the store holds of a Task, and what a request carries in each phase
Bound == [path : Paths, gen : Nat]
RepairJournal == [op : OpIds, gen : Nat, path : Paths, stage : Stages, failed : BOOLEAN]
Receipt == [op : OpIds, gen : Nat]

ASSUME NoneAssumption ==
  None \notin Paths \cup Bound \cup RepairJournal \cup (Tasks \X Paths)

Idle == [phase |-> "idle"]
Queued == [phase : {"queued"}, task : Tasks, op : OpIds, path : Paths]
Planned == [phase : {"planned"}, task : Tasks, op : OpIds, path : Paths, from : Bound]
Observed ==
  [phase : {"observed"}, task : Tasks, op : OpIds, path : Paths, from : Bound,
   clear : BOOLEAN]
RunningPhases ==
  {"executing", "executed", "executionFailed", "verifying", "matches", "differs"}
Running == [phase : RunningPhases, task : Tasks, op : OpIds, path : Paths, from : Bound]
RepairRequest == {Idle} \cup Queued \cup Planned \cup Observed \cup Running

Dismissal == [task : Tasks, op : OpIds, from : Bound, clear : BOOLEAN]

Init ==
  /\ \E path \in [Tasks -> Paths] :
       /\ \A t, u \in Tasks : t # u => path[t] # path[u]
       /\ binding = [t \in Tasks |-> [path |-> path[t], gen |-> 1]]
       /\ location = path /\ linked = path
  /\ journal = [t \in Tasks |-> None]
  /\ receipt = [t \in Tasks |-> None]
  /\ other = {} /\ attached = {}
  /\ req = [w \in Workers |-> Idle]
  /\ dismissal = None
  /\ up = TRUE /\ sent = [op \in OpIds |-> None]
  /\ disturbed = {} /\ stray = {}
  /\ faults = 0 /\ moves = 0

-----------------------------------------------------------------------------
(* What is observed *)

Occupied(p) == \E t \in Tasks : location[t] = p

\* Mutant of HeldByOther: only the Task's own binding counts
HeldByNobody(t, p) == FALSE

HeldByOther(t, p) == \E u \in Tasks \ {t} : binding[u] # None /\ binding[u].path = p

\* repair_class_supported of inspect_worktree_repair: Git has the old path on record
\* and the checkout was moved, or it was not moved and Git has a path on record that
\* is not there; and the record is the only one of that path.
ClassSupported(t, old, p) ==
  /\ location[t] = p
  /\ \A u \in Tasks \ {t} : linked[u] # old
  /\ \/ old # p /\ linked[t] = old
     \/ old = p /\ linked[t] # old /\ (linked[t] # None => ~Occupied(linked[t]))

\* observe_repair_facts and repair_blockers: no blocker.  The old path is free or is
\* the candidate, the candidate is nobody else's path and no session's, and it is the
\* checkout of this Task with a link to repair.
NoBlockers(t, old, p) ==
  /\ old = p \/ ~Occupied(old)
  /\ ~HeldByOther(t, p)
  /\ attached \cap {old, p} = {}
  /\ ClassSupported(t, old, p)

\* TaskWorktreeRepairVerification::observe
LinkMatches(t, p) == location[t] = p /\ linked[t] = p

SetReq(w, r) == req' = [req EXCEPT ![w] = r]

Ends(w) == SetReq(w, Idle)

\* ensure_repair_plan_current and ensure_repair_tuple
TupleCurrent(t, b) == binding[t] # None /\ binding[t] = b

OwnJournal(r) == journal[r.task] # None /\ journal[r.task].op = r.op

-----------------------------------------------------------------------------
(* Requests *)

\* The client sends a new operation, or an earlier one once more.
Request(w, t, op, p) ==
  /\ up /\ req[w] = Idle
  /\ binding[t] # None
  /\ sent[op] \in {None, <<t, p>>}
  /\ sent' = [sent EXCEPT ![op] = <<t, p>>]
  /\ SetReq(w, [phase |-> "queued", task |-> t, op |-> op, path |-> p])
  /\ UNCHANGED <<store, repo, dismissal, attached, up, history, env>>

LockHeld(op) == \E v \in Workers : req[v].phase \notin {"idle", "queued"} /\ req[v].op = op

\* The request lock of the operation, then plan_task_worktree_repair.
PlanRepair(w) ==
  /\ req[w].phase = "queued" /\ ~LockHeld(req[w].op)
  /\ LET t == req[w].task
     IN IF /\ binding[t] # None /\ t \notin other
           /\ journal[t] # None => journal[t].op = req[w].op
        THEN SetReq(w, [phase |-> "planned", task |-> t, op |-> req[w].op,
                        path |-> req[w].path, from |-> binding[t]])
        ELSE Ends(w)
  /\ UNCHANGED <<store, repo, dismissal, attached, up, sent, history, env>>

ObserveRepair(w) ==
  /\ req[w].phase = "planned"
  /\ \E clear \in {FALSE, NoBlockers(req[w].task, req[w].from.path, req[w].path)} :
       SetReq(w, [phase |-> "observed", task |-> req[w].task, op |-> req[w].op,
                  path |-> req[w].path, from |-> req[w].from, clear |-> clear])
  /\ UNCHANGED <<store, repo, dismissal, attached, up, sent, history, env>>

\* begin_task_worktree_repair: what is checked once more under the lock
MayBegin(r) ==
  /\ TupleCurrent(r.task, r.from)
  /\ ~HeldByOther(r.task, r.path)
  /\ attached \cap {r.from.path, r.path} = {}
  /\ r.task \notin other
  /\ journal[r.task] # None => journal[r.task].op = r.op
  /\ receipt[r.task] # None => receipt[r.task].op # r.op

Executing(r) == [phase |-> "executing", task |-> r.task, op |-> r.op, path |-> r.path,
                 from |-> r.from]

Verifying(r) == [Executing(r) EXCEPT !.phase = "verifying"]

SetJournal(t, j) == journal' = [journal EXCEPT ![t] = j]

\* A new operation: Reserved and RepairPrepared, two writes
BeginStarted(w) ==
  /\ req[w].phase = "observed" /\ MayBegin(req[w]) /\ req[w].clear
  /\ journal[req[w].task] = None
  /\ SetJournal(req[w].task,
                [op |-> req[w].op, gen |-> req[w].from.gen, path |-> req[w].path,
                 stage |-> "repairPrepared", failed |-> FALSE])
  /\ SetReq(w, Executing(req[w]))
  /\ UNCHANGED <<binding, receipt, other, repo, dismissal, attached, up, sent, history, env>>

\* candidate_matches: the candidate is looked up once more, under the lock.
OwnCandidate(r) == OwnJournal(r) /\ Occupied(r.path)

Resumes(r) ==
  /\ OwnCandidate(r) /\ r.clear
  /\ journal[r.task].stage \in {"reserved", "repairPrepared"}

\* resume_task_worktree_repair_before_mutation
BeginResumed(w) ==
  /\ req[w].phase = "observed" /\ MayBegin(req[w]) /\ Resumes(req[w])
  /\ SetJournal(req[w].task, [journal[req[w].task] EXCEPT !.stage = "repairPrepared",
                                                          !.failed = FALSE])
  /\ SetReq(w, Executing(req[w]))
  /\ UNCHANGED <<binding, receipt, other, repo, dismissal, attached, up, sent, history, env>>

Verifies(r) ==
  /\ OwnCandidate(r) /\ ~Resumes(r)
  /\ journal[r.task].stage # "reserved"

\* Git may have done its part already: that is looked at, and Git not called again.
BeginVerifying(w) ==
  /\ req[w].phase = "observed" /\ MayBegin(req[w]) /\ Verifies(req[w])
  /\ SetReq(w, Verifying(req[w]))
  /\ UNCHANGED <<store, repo, dismissal, attached, up, sent, history, env>>

BeginRefused(w) ==
  /\ req[w].phase = "observed"
  /\ ~(MayBegin(req[w]) /\ (Resumes(req[w]) \/ Verifies(req[w])
                            \/ (journal[req[w].task] = None /\ req[w].clear)))
  /\ Ends(w)
  /\ UNCHANGED <<store, repo, dismissal, attached, up, sent, history, env>>

\* repair_worktree_link: the record of the checkout found at the path is rewritten.
\* It may fail before or after that.
ExecuteRepair(w) ==
  /\ req[w].phase = "executing"
  /\ \/ /\ Occupied(req[w].path)
        /\ linked' = [u \in Tasks |-> IF location[u] = req[w].path THEN req[w].path
                                      ELSE linked[u]]
        /\ stray' = stray \cup {u \in Tasks \ {req[w].task} : location[u] = req[w].path}
        /\ \E p \in {"executed", "executionFailed"} :
             SetReq(w, [req[w] EXCEPT !.phase = p])
     \/ /\ SetReq(w, [req[w] EXCEPT !.phase = "executionFailed"])
        /\ UNCHANGED <<linked, stray>>
  /\ UNCHANGED <<store, location, dismissal, attached, up, sent, disturbed, env>>

\* fail_task_worktree_repair
Fail(r) ==
  IF OwnJournal(r) THEN SetJournal(r.task, [journal[r.task] EXCEPT !.failed = TRUE])
  ELSE UNCHANGED journal

\* advance_task_worktree_repair checks the tuple and the journal's stage.
MayAdvance(r, stages) ==
  /\ OwnJournal(r)
  /\ binding[r.task] # None /\ binding[r.task].gen = journal[r.task].gen
  /\ journal[r.task].stage \in stages

\* apply_task_worktree_repair_execution
ApplyExecution(w) ==
  /\ \/ /\ req[w].phase = "executionFailed"
        /\ Fail(req[w]) /\ Ends(w)
     \/ /\ req[w].phase = "executed"
        /\ MayAdvance(req[w], {"repairPrepared", "repairInvoked"})
        /\ ~journal[req[w].task].failed
        /\ SetJournal(req[w].task, [journal[req[w].task] EXCEPT !.stage = "repairInvoked"])
        /\ SetReq(w, Verifying(req[w]))
     \/ /\ req[w].phase = "executed"
        /\ ~(/\ MayAdvance(req[w], {"repairPrepared", "repairInvoked"})
             /\ ~journal[req[w].task].failed)
        /\ UNCHANGED journal /\ Ends(w)
  /\ UNCHANGED <<binding, receipt, other, repo, dismissal, attached, up, sent, history, env>>

VerifyRepair(w) ==
  /\ req[w].phase = "verifying"
  /\ \E ok \in {FALSE, LinkMatches(req[w].task, req[w].path)} :
       SetReq(w, [req[w] EXCEPT !.phase = IF ok THEN "matches" ELSE "differs"])
  /\ UNCHANGED <<store, repo, dismissal, attached, up, sent, history, env>>

Recoverable == {"repairPrepared", "repairInvoked", "verified"}

\* Mutant of Complete: the binding moves and keeps its generation
CompleteInPlace(t) ==
  /\ binding' = [binding EXCEPT ![t] = [path |-> journal[t].path, gen |-> journal[t].gen]]
  /\ receipt' = [receipt EXCEPT ![t] = [op |-> journal[t].op, gen |-> journal[t].gen]]
  /\ SetJournal(t, None)

\* complete_task_worktree_repair: binding, proof, receipt and journal in one write
Complete(t) ==
  /\ binding' = [binding EXCEPT ![t] = [path |-> journal[t].path, gen |-> journal[t].gen + 1]]
  /\ receipt' = [receipt EXCEPT ![t] = [op |-> journal[t].op, gen |-> journal[t].gen + 1]]
  /\ SetJournal(t, None)

\* apply_task_worktree_repair_verification: Verified and the completion, two writes
ApplyVerification(w) ==
  /\ \/ /\ req[w].phase = "differs"
        /\ Fail(req[w]) /\ UNCHANGED <<binding, receipt>>
     \/ /\ req[w].phase = "matches"
        /\ IF MayAdvance(req[w], Recoverable) THEN Complete(req[w].task)
           ELSE UNCHANGED <<binding, receipt, journal>>
  /\ Ends(w)
  /\ UNCHANGED <<other, repo, dismissal, attached, up, sent, history, env>>

-----------------------------------------------------------------------------
(* Dismissal, which takes no request lock *)

Dismissible(t) ==
  journal[t] # None /\ journal[t].stage = "reserved" /\ journal[t].failed

PlanDismissal(t) ==
  /\ up /\ dismissal = None
  /\ Dismissible(t) /\ binding[t] # None /\ t \notin other
  /\ dismissal' = [task |-> t, op |-> journal[t].op, from |-> binding[t],
                   clear |-> NoBlockers(t, binding[t].path, journal[t].path)]
  /\ UNCHANGED <<store, repo, req, attached, up, sent, history, env>>

\* Mutant of ApplyDismissal: the journal found when planning is gone for good
DismissesAnyStage ==
  /\ dismissal # None
  /\ LET t == dismissal.task
     IN IF /\ TupleCurrent(t, dismissal.from) /\ dismissal.clear /\ OwnJournal(dismissal)
        THEN SetJournal(t, None) ELSE UNCHANGED journal
  /\ dismissal' = None
  /\ UNCHANGED <<binding, receipt, other, repo, req, attached, up, sent, history, env>>

\* apply_task_worktree_repair_dismissal
ApplyDismissal ==
  /\ dismissal # None
  /\ LET t == dismissal.task
     IN IF /\ TupleCurrent(t, dismissal.from) /\ dismissal.clear
           /\ OwnJournal(dismissal) /\ Dismissible(t)
        THEN SetJournal(t, None) ELSE UNCHANGED journal
  /\ dismissal' = None
  /\ UNCHANGED <<binding, receipt, other, repo, req, attached, up, sent, history, env>>

-----------------------------------------------------------------------------
(* Crashes, restarts and lost requests *)

\* Between two writes of one begin or apply
WriteCut(w) ==
  \/ /\ req[w].phase = "observed" /\ MayBegin(req[w]) /\ req[w].clear
     /\ journal[req[w].task] = None
     /\ SetJournal(req[w].task,
                   [op |-> req[w].op, gen |-> req[w].from.gen, path |-> req[w].path,
                    stage |-> "reserved", failed |-> FALSE])
  \/ /\ req[w].phase = "matches" /\ MayAdvance(req[w], Recoverable)
     /\ SetJournal(req[w].task, [journal[req[w].task] EXCEPT !.stage = "verified",
                                                             !.failed = FALSE])

Crash ==
  /\ up /\ faults < MaxFaults /\ faults' = faults + 1
  /\ up' = FALSE /\ attached' = {}
  /\ UNCHANGED journal \/ \E w \in Workers : WriteCut(w)
  /\ req' = [w \in Workers |-> Idle] /\ dismissal' = None
  /\ UNCHANGED <<binding, receipt, other, repo, sent, history, moves>>

\* A worker panics, the gate times out, or the store refuses a write.
LoseRequest(w) ==
  /\ req[w].phase \notin {"idle", "queued"}
  /\ faults < MaxFaults /\ faults' = faults + 1
  /\ UNCHANGED journal \/ WriteCut(w)
  /\ Ends(w)
  /\ UNCHANGED <<binding, receipt, other, repo, dismissal, attached, up, sent, history, moves>>

\* reconcile_task_worktree_repair_operations
Reconciled(t) ==
  IF journal[t] = None THEN None ELSE [journal[t] EXCEPT !.failed = TRUE]

Restart ==
  /\ ~up /\ up' = TRUE
  /\ journal' = [t \in Tasks |-> Reconciled(t)]
  /\ UNCHANGED <<binding, receipt, other, repo, req, dismissal, attached, sent, history, env>>

-----------------------------------------------------------------------------
(* The rest of the system *)

\* ensure_launch_not_reserved: neither the candidate of a repair nor the path that
\* its Task is bound to.
LaunchReserved(p) ==
  \E t \in Tasks :
    /\ journal[t] # None
    /\ journal[t].path = p \/ (binding[t] # None /\ binding[t].path = p)

LaunchSession(p) ==
  /\ up /\ p \notin attached /\ Occupied(p) /\ ~LaunchReserved(p)
  /\ attached' = attached \cup {p}
  /\ UNCHANGED <<store, repo, req, dismissal, up, sent, history, env>>

SessionExits(p) ==
  /\ p \in attached
  /\ attached' = attached \ {p}
  /\ UNCHANGED <<store, repo, req, dismissal, up, sent, history, env>>

\* A cleanup or a stale resolution, whose journal excludes a repair's; it ends with
\* the worktree gone, or without a change.
BeginOther(t) ==
  /\ up /\ t \notin other /\ binding[t] # None
  /\ journal[t] = None
  /\ other' = other \cup {t}
  /\ UNCHANGED <<binding, journal, receipt, repo, req, dismissal, attached, up, sent, history, env>>

EndOther(t) ==
  /\ up /\ t \in other
  /\ other' = other \ {t}
  /\ \/ /\ binding' = [binding EXCEPT ![t] = None]
        /\ location' = [location EXCEPT ![t] = IF @ = binding[t].path THEN None ELSE @]
        /\ linked' = [linked EXCEPT ![t] = None]
     \/ UNCHANGED <<binding, repo>>
  /\ UNCHANGED <<journal, receipt, req, dismissal, attached, up, sent, history, env>>

\* The user moves a checkout to a free path, deletes it, or breaks its link in place.
UserStep ==
  /\ moves < MaxMoves /\ moves' = moves + 1
  /\ \E t \in Tasks :
       /\ location[t] # None
       /\ \/ /\ \E p \in Paths : ~Occupied(p) /\ location' = [location EXCEPT ![t] = p]
             /\ UNCHANGED linked
          \/ location' = [location EXCEPT ![t] = None] /\ UNCHANGED linked
          \/ linked' = [linked EXCEPT ![t] = None] /\ UNCHANGED location
       /\ disturbed' = IF location'[t] # location[t] /\ journal[t] # None
                       THEN disturbed \cup {t} ELSE disturbed
  /\ UNCHANGED <<store, req, dismissal, attached, up, sent, stray, faults>>

RepairStep(w) ==
  \/ PlanRepair(w) \/ ObserveRepair(w)
  \/ BeginStarted(w) \/ BeginResumed(w) \/ BeginVerifying(w) \/ BeginRefused(w)
  \/ ExecuteRepair(w) \/ ApplyExecution(w)
  \/ VerifyRepair(w) \/ ApplyVerification(w)

Next ==
  \/ \E w \in Workers :
       \/ \E t \in Tasks, op \in OpIds, p \in Paths :
            (binding[t] # None => binding[t].gen <= MaxRepairs) /\ Request(w, t, op, p)
       \/ RepairStep(w)
       \/ LoseRequest(w)
  \/ \E t \in Tasks : PlanDismissal(t) \/ BeginOther(t) \/ EndOther(t)
  \/ ApplyDismissal
  \/ Crash \/ Restart
  \/ \E p \in Paths : LaunchSession(p) \/ SessionExits(p)
  \/ UserStep

Spec == Init /\ [][Next]_vars

-----------------------------------------------------------------------------
(* Properties *)

StoreTypeOK ==
  /\ binding \in [Tasks -> Bound \cup {None}]
  /\ journal \in [Tasks -> RepairJournal \cup {None}]
  /\ receipt \in [Tasks -> Receipt \cup {None}]
  /\ other \subseteq Tasks

RepoTypeOK ==
  location \in [Tasks -> Paths \cup {None}] /\ linked \in [Tasks -> Paths \cup {None}]

RequestTypeOK ==
  req \in [Workers -> RepairRequest] /\ dismissal \in Dismissal \cup {None}

DaemonTypeOK ==
  /\ attached \subseteq Paths /\ up \in BOOLEAN
  /\ sent \in [OpIds -> (Tasks \X Paths) \cup {None}]
  /\ disturbed \subseteq Tasks /\ stray \subseteq Tasks
  /\ faults \in Nat /\ moves \in Nat

\* The types of the variables: what the store, the repository and a request in each
\* phase may hold.
TypeOK == StoreTypeOK /\ RepoTypeOK /\ RequestTypeOK /\ DaemonTypeOK

\* No two Tasks are bound to one path, whatever the user moves beforehand and whichever
\* repairs run side by side (begin_task_worktree_repair, CandidatePathConflict), as long
\* as the user leaves a checkout where it is while its repair is on record: the
\* completion does not look for the path of another Task again.
PathsExclusive ==
  \A t, u \in Tasks :
    /\ t # u /\ binding[t] # None /\ binding[u] # None
    /\ {t, u} \cap disturbed = {}
    => binding[t].path # binding[u].path

\* A repair journal names the Task's current generation and never stands beside
\* another saga's journal (ensure_repair_tuple, JournalConflict).
JournalNamesGeneration ==
  \A t \in Tasks :
    journal[t] # None =>
      binding[t] # None /\ binding[t].gen = journal[t].gen /\ t \notin other

\* While Git rewrites a link, and until the result is applied, the repair has its
\* journal and no session is in the old or the new path.
RepairReserved ==
  \A w \in Workers :
    req[w].phase \in {"executing", "executed"} =>
      /\ OwnJournal(req[w]) /\ journal[req[w].task].stage # "reserved"
      /\ attached \cap {req[w].path, req[w].from.path} = {}

\* A Task's worktree moves only together with its generation, one step at a time: a
\* client that holds the old tuple can tell (complete_task_worktree_repair).
MovesWithGeneration ==
  [][\A t \in Tasks :
       binding[t] # None /\ binding'[t] # None /\ binding'[t] # binding[t] =>
         binding'[t].gen = binding[t].gen + 1]_vars

\* Once Git has rewritten the link for a repair that was not applied, its journal
\* stays until the binding follows, through crashes, dismissals and lost requests: a
\* checkout whose link is whole is not bound to another path unless a journal says so.
\* (Git repairs whatever checkout it finds at the candidate path: one that the user has
\* put there in the meantime is the exception.)
NoForgottenRepair ==
  \A t \in Tasks \ stray :
    binding[t] # None /\ location[t] # None /\ linked[t] = location[t] =>
      binding[t].path = location[t] \/ journal[t] # None

\* The journal of a repair stays with its Task through crashes, dismissals, retries
\* and other sagas: it names the generation it repairs, keeps its paths reserved
\* while Git works, and is not lost before the binding follows the link.
RepairJournalSound == JournalNamesGeneration /\ RepairReserved /\ NoForgottenRepair

=============================================================================
