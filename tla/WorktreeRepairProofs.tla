------------------------ MODULE WorktreeRepairProofs ------------------------
(***************************************************************************)
(* The safety of worktree repair, proved for every set of Tasks, paths,    *)
(* operation ids and requests in flight and for every number of repairs,   *)
(* faults and moves of the user.                                           *)
(*                                                                         *)
(* RepairInv is inductive and implies the invariants:                      *)
(*   RequestsOwn     requests past the lock are of different operations;   *)
(*                   a repair under way owns the journal, the binding and  *)
(*                   both paths;                                           *)
(*   LinksOnRecord   where the link of a checkout may point to, given the  *)
(*                   binding and the journal of its Task;                  *)
(*   PathsOnRecord   who may be bound to a candidate path.                 *)
(***************************************************************************)
EXTENDS WorktreeRepair, TLAPS

-----------------------------------------------------------------------------
(* The inductive invariant *)

\* Operation ids stand for one Task and one path, in journals and in requests.
OperationsFixed ==
  /\ \A t \in Tasks :
       journal[t] # None => sent[journal[t].op] = <<t, journal[t].path>>
  /\ \A w \in Workers :
       req[w] # Idle => sent[req[w].op] = <<req[w].task, req[w].path>>

PastLock(w) == req[w].phase \notin {"idle", "queued"}

\* The request lock lets one request of an operation through.
OperationsDiffer ==
  \A v, w \in Workers :
    v # w /\ PastLock(v) /\ PastLock(w) => req[v].op # req[w].op

\* A repair under way has its journal, past the reservation, the binding it was
\* planned for, and both paths to itself.
Owns(r) ==
  r.phase \in RunningPhases =>
    /\ journal[r.task] # None /\ journal[r.task].op = r.op
    /\ journal[r.task].stage # "reserved"
    /\ binding[r.task] = r.from
    /\ attached \cap {r.path, r.from.path} = {}

DownMeansIdle == ~up => \A w \in Workers : req[w] = Idle

RequestsOwn ==
  /\ OperationsFixed /\ OperationsDiffer
  /\ \A w \in Workers : Owns(req[w])
  /\ DownMeansIdle

\* Checkouts are at different places.
PlacesDiffer ==
  \A t, u \in Tasks : t # u /\ location[t] # None => location[t] # location[u]

\* Only a journal past its reservation may have sent Git elsewhere than to the path of
\* the binding.
LinkOnRecord(t) ==
  t \notin stray /\ binding[t] # None =>
    /\ journal[t] = None \/ journal[t].stage = "reserved" =>
         linked[t] \in {binding[t].path, None}
    /\ journal[t] # None => linked[t] \in {binding[t].path, journal[t].path, None}

\* What the verification has seen is still so.
Verified(r) ==
  r.phase = "matches" =>
    /\ r.task \notin stray => linked[r.task] \in {r.path, None}
    /\ r.task \notin disturbed => location[r.task] = r.path

LinksOnRecord ==
  /\ PlacesDiffer
  /\ \A t \in Tasks : LinkOnRecord(t)
  /\ \A w \in Workers : Verified(req[w])

\* A path that another Task has come to be bound to during a repair is not where the
\* repaired checkout is.
PathsOnRecord ==
  \A t, u \in Tasks :
    /\ t # u /\ {t, u} \cap disturbed = {}
    /\ journal[t] # None /\ binding[u] # None /\ binding[u].path = journal[t].path
    => location[t] # journal[t].path

RepairInv ==
  /\ TypeOK /\ JournalNamesGeneration /\ RequestsOwn /\ LinksOnRecord
  /\ PathsOnRecord /\ PathsExclusive

-----------------------------------------------------------------------------
(* Types *)

\* A request in flight carries what its phase says it carries.
LEMMA RequestPhase ==
  ASSUME NEW r \in RepairRequest
  PROVE  /\ r.phase = "idle" <=> r = Idle
         /\ r.phase = "queued" => r \in Queued
         /\ r.phase = "planned" => r \in Planned
         /\ r.phase = "observed" => r \in Observed
         /\ r.phase \in RunningPhases => r \in Running
         /\ r # Idle => r.task \in Tasks /\ r.op \in OpIds /\ r.path \in Paths
BY DEF RepairRequest, Idle, Queued, Planned, Observed, Running, RunningPhases

\* Storing a typed request for a worker keeps the requests typed, and the others.
LEMMA SetReqTyped ==
  ASSUME TypeOK, NEW w \in Workers, NEW r \in RepairRequest, SetReq(w, r)
  PROVE  req' \in [Workers -> RepairRequest]
BY DEF TypeOK, RequestTypeOK, SetReq

LEMMA OthersKept ==
  ASSUME TypeOK, NEW w \in Workers, NEW r, SetReq(w, r)
  PROVE  req'[w] = r /\ \A v \in Workers : v # w => req'[v] = req[v]
BY DEF TypeOK, RequestTypeOK, SetReq

LEMMA EndsTyped ==
  ASSUME TypeOK, NEW w \in Workers, Ends(w)
  PROVE  /\ req' \in [Workers -> RepairRequest]
         /\ req'[w] = Idle /\ \A v \in Workers : v # w => req'[v] = req[v]
BY SetReqTyped, OthersKept DEF Ends, RepairRequest

LEMMA SetJournalTyped ==
  ASSUME TypeOK, NEW t \in Tasks, NEW j \in RepairJournal \cup {None}, SetJournal(t, j)
  PROVE  /\ journal' \in [Tasks -> RepairJournal \cup {None}]
         /\ journal'[t] = j /\ \A u \in Tasks : u # t => journal'[u] = journal[u]
BY DEF TypeOK, StoreTypeOK, SetJournal

\* The journal of a Task with another stage or failure is one.
LEMMA JournalEdits ==
  ASSUME NEW j \in RepairJournal
  PROVE  /\ \A s \in Stages : [j EXCEPT !.stage = s] \in RepairJournal
         /\ [j EXCEPT !.failed = TRUE] \in RepairJournal
         /\ \A s \in Stages : [j EXCEPT !.stage = s, !.failed = FALSE] \in RepairJournal
         /\ j # None
BY NoneAssumption DEF RepairJournal

\* The request of a worker past planning is for a Task with what it was planned for.
LEMMA BeginTyped ==
  ASSUME TypeOK, NEW w \in Workers, req[w].phase = "observed"
  PROVE  /\ req[w] \in Observed
         /\ Executing(req[w]) \in Running /\ Verifying(req[w]) \in Running
         /\ \A s \in Stages :
              [op |-> req[w].op, gen |-> req[w].from.gen, path |-> req[w].path,
               stage |-> s, failed |-> FALSE] \in RepairJournal
<1>1. req[w] \in Observed
  BY RequestPhase DEF TypeOK, RequestTypeOK
<1> QED BY <1>1
        DEF Observed, Executing, Verifying, Running, RunningPhases, RepairJournal, Bound

\* What fail_task_worktree_repair leaves
LEMMA FailTyped ==
  ASSUME TypeOK, NEW w \in Workers, req[w] # Idle, Fail(req[w])
  PROVE  journal' \in [Tasks -> RepairJournal \cup {None}]
<1>1. req[w].task \in Tasks
  BY RequestPhase DEF TypeOK, RequestTypeOK
<1>2. CASE OwnJournal(req[w])
  <2>1. journal[req[w].task] \in RepairJournal
    BY <1>1, <1>2 DEF OwnJournal, TypeOK, StoreTypeOK
  <2> QED BY <1>1, <1>2, <2>1, JournalEdits, SetJournalTyped DEF Fail
<1>3. CASE ~OwnJournal(req[w])
  BY <1>3 DEF Fail, TypeOK, StoreTypeOK
<1> QED BY <1>2, <1>3

LEMMA WriteCutTyped ==
  ASSUME TypeOK, NEW w \in Workers, WriteCut(w)
  PROVE  journal' \in [Tasks -> RepairJournal \cup {None}]
<1>1. CASE /\ req[w].phase = "observed"
           /\ SetJournal(req[w].task,
                [op |-> req[w].op, gen |-> req[w].from.gen, path |-> req[w].path,
                 stage |-> "reserved", failed |-> FALSE])
  <2>1. /\ req[w].task \in Tasks
        /\ [op |-> req[w].op, gen |-> req[w].from.gen, path |-> req[w].path,
            stage |-> "reserved", failed |-> FALSE] \in RepairJournal
    BY <1>1, BeginTyped DEF Observed, Stages
  <2> QED BY <1>1, <2>1, SetJournalTyped
<1>2. CASE /\ req[w].phase = "matches" /\ MayAdvance(req[w], Recoverable)
           /\ SetJournal(req[w].task, [journal[req[w].task] EXCEPT !.stage = "verified",
                                                                   !.failed = FALSE])
  <2>1. req[w].task \in Tasks
    BY <1>2, RequestPhase DEF TypeOK, RequestTypeOK, Idle
  <2>2. journal[req[w].task] \in RepairJournal
    BY <1>2, <2>1 DEF MayAdvance, OwnJournal, TypeOK, StoreTypeOK
  <2> QED BY <1>2, <2>1, <2>2, JournalEdits, SetJournalTyped DEF Stages
<1> QED BY <1>1, <1>2 DEF WriteCut

\* Every step keeps the types.
LEMMA TypeStep ==
  ASSUME TypeOK, [Next]_vars
  PROVE  TypeOK'
<1> USE DEF TypeOK
<1>1. ASSUME NEW w \in Workers, NEW t \in Tasks, NEW op \in OpIds, NEW p \in Paths,
             Request(w, t, op, p)
      PROVE  TypeOK'
  <2>1. [phase |-> "queued", task |-> t, op |-> op, path |-> p] \in RepairRequest
    BY DEF Queued, RepairRequest
  <2>2. req' \in [Workers -> RepairRequest]
    BY <1>1, <2>1, SetReqTyped DEF Request
  <2> QED BY <1>1, <2>2
          DEF Request, StoreTypeOK, RepoTypeOK, RequestTypeOK, DaemonTypeOK, store, repo,
              history, env
<1>2. ASSUME NEW w \in Workers, PlanRepair(w)
      PROVE  TypeOK'
  <2>1. req[w] \in Queued
    BY <1>2, RequestPhase DEF PlanRepair, RequestTypeOK
  <2>2. binding[req[w].task] # None =>
          [phase |-> "planned", task |-> req[w].task, op |-> req[w].op,
           path |-> req[w].path, from |-> binding[req[w].task]] \in RepairRequest
    BY <2>1 DEF Queued, Planned, RepairRequest, StoreTypeOK
  <2>3. req' \in [Workers -> RepairRequest]
    BY <1>2, <2>2, SetReqTyped, EndsTyped DEF PlanRepair
  <2> QED BY <1>2, <2>3
          DEF PlanRepair, StoreTypeOK, RepoTypeOK, RequestTypeOK, DaemonTypeOK, store, repo,
              history, env
<1>3. ASSUME NEW w \in Workers, ObserveRepair(w)
      PROVE  TypeOK'
  <2>1. req[w] \in Planned
    BY <1>3, RequestPhase DEF ObserveRepair, RequestTypeOK
  <2>2. NoBlockers(req[w].task, req[w].from.path, req[w].path) \in BOOLEAN
    BY DEF NoBlockers
  <2>3. PICK clear \in BOOLEAN :
          SetReq(w, [phase |-> "observed", task |-> req[w].task, op |-> req[w].op,
                     path |-> req[w].path, from |-> req[w].from, clear |-> clear])
    BY <1>3, <2>2 DEF ObserveRepair
  <2>4. [phase |-> "observed", task |-> req[w].task, op |-> req[w].op,
         path |-> req[w].path, from |-> req[w].from, clear |-> clear] \in RepairRequest
    BY <2>1 DEF Planned, Observed, RepairRequest
  <2>5. req' \in [Workers -> RepairRequest]
    BY <2>3, <2>4, SetReqTyped
  <2> QED BY <1>3, <2>5
          DEF ObserveRepair, StoreTypeOK, RepoTypeOK, RequestTypeOK, DaemonTypeOK, store,
              repo, history, env
<1>4. ASSUME NEW w \in Workers, BeginStarted(w) \/ BeginResumed(w) \/ BeginVerifying(w)
      PROVE  TypeOK'
  <2>1. req[w].phase = "observed" /\ req[w].task \in Tasks
    BY <1>4, BeginTyped DEF BeginStarted, BeginResumed, BeginVerifying, Observed
  <2>2. req' \in [Workers -> RepairRequest]
    BY <1>4, <2>1, BeginTyped, SetReqTyped
    DEF BeginStarted, BeginResumed, BeginVerifying, RepairRequest
  <2>3. journal' \in [Tasks -> RepairJournal \cup {None}]
    <3>1. CASE BeginStarted(w)
      BY <2>1, <3>1, BeginTyped, SetJournalTyped DEF BeginStarted, Stages
    <3>2. CASE BeginResumed(w)
      <4>1. journal[req[w].task] \in RepairJournal
        BY <2>1, <3>2 DEF BeginResumed, Resumes, OwnCandidate, OwnJournal, StoreTypeOK
      <4> QED BY <2>1, <3>2, <4>1, JournalEdits, SetJournalTyped DEF BeginResumed, Stages
    <3>3. CASE BeginVerifying(w)
      BY <3>3 DEF BeginVerifying, store, StoreTypeOK
    <3> QED BY <1>4, <3>1, <3>2, <3>3
  <2> QED BY <1>4, <2>2, <2>3
          DEF BeginStarted, BeginResumed, BeginVerifying, StoreTypeOK, RepoTypeOK,
              RequestTypeOK, DaemonTypeOK, store, repo, history, env
<1>5. ASSUME NEW w \in Workers, BeginRefused(w)
      PROVE  TypeOK'
  BY <1>5, EndsTyped
  DEF BeginRefused, StoreTypeOK, RepoTypeOK, RequestTypeOK, DaemonTypeOK, store, repo,
      history, env
<1>6. ASSUME NEW w \in Workers, ExecuteRepair(w) \/ VerifyRepair(w)
      PROVE  TypeOK'
  <2>1. req[w] \in Running
    BY <1>6, RequestPhase DEF ExecuteRepair, VerifyRepair, RequestTypeOK, RunningPhases
  <2>2. PICK ph \in RunningPhases : SetReq(w, [req[w] EXCEPT !.phase = ph])
    BY <1>6 DEF ExecuteRepair, VerifyRepair, RunningPhases
  <2>3. req' \in [Workers -> RepairRequest]
    BY <2>1, <2>2, SetReqTyped DEF Running, RepairRequest
  <2>4. RepoTypeOK' /\ stray' \subseteq Tasks
    BY <1>6, <2>1 DEF ExecuteRepair, VerifyRepair, RepoTypeOK, DaemonTypeOK, Running, repo,
                      history
  <2> QED BY <1>6, <2>3, <2>4
          DEF ExecuteRepair, VerifyRepair, StoreTypeOK, RequestTypeOK, DaemonTypeOK, store,
              history, env
<1>7. ASSUME NEW w \in Workers, ApplyExecution(w)
      PROVE  TypeOK'
  <2>1. req[w] \in Running /\ req[w] # Idle
    BY <1>7, RequestPhase DEF ApplyExecution, RequestTypeOK, RunningPhases, Idle
  <2>2. Verifying(req[w]) \in RepairRequest
    BY <2>1 DEF Verifying, Executing, Running, RunningPhases, RepairRequest
  <2>3. req' \in [Workers -> RepairRequest]
    BY <1>7, <2>2, SetReqTyped, EndsTyped DEF ApplyExecution
  <2>4. journal' \in [Tasks -> RepairJournal \cup {None}]
    <3>1. CASE Fail(req[w])
      BY <2>1, <3>1, FailTyped
    <3>2. CASE UNCHANGED journal
      BY <3>2 DEF StoreTypeOK
    <3>3. CASE /\ MayAdvance(req[w], {"repairPrepared", "repairInvoked"})
               /\ SetJournal(req[w].task,
                             [journal[req[w].task] EXCEPT !.stage = "repairInvoked"])
      <4>1. req[w].task \in Tasks /\ journal[req[w].task] \in RepairJournal
        BY <2>1, <3>3 DEF MayAdvance, OwnJournal, StoreTypeOK, Running
      <4> QED BY <3>3, <4>1, JournalEdits, SetJournalTyped DEF Stages
    <3> QED BY <1>7, <3>1, <3>2, <3>3 DEF ApplyExecution
  <2> QED BY <1>7, <2>3, <2>4
          DEF ApplyExecution, StoreTypeOK, RepoTypeOK, RequestTypeOK, DaemonTypeOK, repo,
              history, env
<1>8. ASSUME NEW w \in Workers, ApplyVerification(w)
      PROVE  TypeOK'
  <2>1. req[w] \in Running /\ req[w] # Idle
    BY <1>8, RequestPhase DEF ApplyVerification, RequestTypeOK, RunningPhases, Idle
  <2>2. req' \in [Workers -> RepairRequest]
    BY <1>8, EndsTyped DEF ApplyVerification
  <2>3. /\ binding' \in [Tasks -> Bound \cup {None}]
        /\ receipt' \in [Tasks -> Receipt \cup {None}]
        /\ journal' \in [Tasks -> RepairJournal \cup {None}]
    <3>1. CASE Fail(req[w]) /\ UNCHANGED <<binding, receipt>>
      BY <2>1, <3>1, FailTyped DEF StoreTypeOK
    <3>2. CASE UNCHANGED <<binding, receipt, journal>>
      BY <3>2 DEF StoreTypeOK
    <3>3. CASE MayAdvance(req[w], Recoverable) /\ Complete(req[w].task)
      <4>1. req[w].task \in Tasks /\ journal[req[w].task] \in RepairJournal
        BY <2>1, <3>3 DEF MayAdvance, OwnJournal, StoreTypeOK, Running
      <4>2. /\ [path |-> journal[req[w].task].path, gen |-> journal[req[w].task].gen + 1]
                 \in Bound
            /\ [op |-> journal[req[w].task].op, gen |-> journal[req[w].task].gen + 1]
                 \in Receipt
        BY <4>1 DEF RepairJournal, Bound, Receipt
      <4> QED BY <3>3, <4>1, <4>2, SetJournalTyped DEF Complete, StoreTypeOK
    <3> QED BY <1>8, <3>1, <3>2, <3>3 DEF ApplyVerification
  <2> QED BY <1>8, <2>2, <2>3
          DEF ApplyVerification, StoreTypeOK, RepoTypeOK, RequestTypeOK, DaemonTypeOK, repo,
              history, env
<1>9. ASSUME NEW w \in Workers, LoseRequest(w)
      PROVE  TypeOK'
  <2>1. req' \in [Workers -> RepairRequest]
    BY <1>9, EndsTyped DEF LoseRequest
  <2>2. journal' \in [Tasks -> RepairJournal \cup {None}]
    BY <1>9, WriteCutTyped DEF LoseRequest, StoreTypeOK
  <2> QED BY <1>9, <2>1, <2>2
          DEF LoseRequest, StoreTypeOK, RepoTypeOK, RequestTypeOK, DaemonTypeOK, repo,
              history
<1>10. ASSUME NEW t \in Tasks, PlanDismissal(t)
       PROVE  TypeOK'
  <2>1. NoBlockers(t, binding[t].path, journal[t].path) \in BOOLEAN
    BY DEF NoBlockers
  <2>2. binding[t] \in Bound /\ journal[t] \in RepairJournal
    BY <1>10 DEF PlanDismissal, Dismissible, StoreTypeOK
  <2>3. dismissal' \in Dismissal
    BY <1>10, <2>1, <2>2 DEF PlanDismissal, Dismissal, RepairJournal
  <2> QED BY <1>10, <2>3
          DEF PlanDismissal, StoreTypeOK, RepoTypeOK, RequestTypeOK, DaemonTypeOK, store,
              repo, history, env
<1>11. CASE ApplyDismissal
  <2>1. dismissal.task \in Tasks
    BY <1>11 DEF ApplyDismissal, RequestTypeOK, Dismissal
  <2>2. journal' \in [Tasks -> RepairJournal \cup {None}]
    BY <1>11, <2>1, SetJournalTyped DEF ApplyDismissal, StoreTypeOK
  <2> QED BY <1>11, <2>2
          DEF ApplyDismissal, StoreTypeOK, RepoTypeOK, RequestTypeOK, DaemonTypeOK, repo,
              history, env
<1>12. CASE Crash
  <2>1. req' \in [Workers -> RepairRequest]
    BY <1>12 DEF Crash, RepairRequest
  <2>2. journal' \in [Tasks -> RepairJournal \cup {None}]
    BY <1>12, WriteCutTyped DEF Crash, StoreTypeOK
  <2>3. faults' \in Nat
    BY <1>12 DEF Crash, DaemonTypeOK
  <2>4. dismissal' = None /\ attached' = {} /\ up' = FALSE
        /\ UNCHANGED <<binding, receipt, other, repo, sent, history, moves>>
    BY <1>12 DEF Crash
  <2> QED BY <2>1, <2>2, <2>3, <2>4
          DEF StoreTypeOK, RepoTypeOK, RequestTypeOK, DaemonTypeOK, repo, history
<1>13. CASE Restart
  <2>1. \A t \in Tasks : Reconciled(t) \in RepairJournal \cup {None}
    BY JournalEdits DEF Reconciled, StoreTypeOK
  <2> QED BY <1>13, <2>1
          DEF Restart, StoreTypeOK, RepoTypeOK, RequestTypeOK, DaemonTypeOK, repo, history,
              env
<1>14. ASSUME NEW p \in Paths, LaunchSession(p) \/ SessionExits(p)
       PROVE  TypeOK'
  BY <1>14
  DEF LaunchSession, SessionExits, StoreTypeOK, RepoTypeOK, RequestTypeOK, DaemonTypeOK,
      store, repo, history, env
<1>15. ASSUME NEW t \in Tasks, BeginOther(t) \/ EndOther(t)
       PROVE  TypeOK'
  BY <1>15
  DEF BeginOther, EndOther, StoreTypeOK, RepoTypeOK, RequestTypeOK, DaemonTypeOK, repo,
      history, env
<1>16. CASE UserStep
  BY <1>16
  DEF UserStep, StoreTypeOK, RepoTypeOK, RequestTypeOK, DaemonTypeOK, store
<1>17. CASE UNCHANGED vars
  BY <1>17
  DEF vars, StoreTypeOK, RepoTypeOK, RequestTypeOK, DaemonTypeOK, store, repo, history, env
<1> QED BY <1>1, <1>2, <1>3, <1>4, <1>5, <1>6, <1>7, <1>8, <1>9, <1>10, <1>11, <1>12,
           <1>13, <1>14, <1>15, <1>16, <1>17
        DEF Next, RepairStep

-----------------------------------------------------------------------------
(* What a step does to one Task, and to one request *)

\* The journal keeps its operation, its generation and its path, and no journal goes
\* back to its reservation.
JournalEdited(t) ==
  /\ journal[t] # None /\ journal'[t] # None
  /\ journal'[t].op = journal[t].op /\ journal'[t].gen = journal[t].gen
  /\ journal'[t].path = journal[t].path
  /\ journal'[t].stage = "reserved" => journal[t].stage = "reserved"
  /\ UNCHANGED <<binding, location, linked, other>>

JournalStarted(t, w) ==
  /\ req[w].phase = "observed" /\ MayBegin(req[w]) /\ req[w].task = t
  /\ journal[t] = None /\ journal'[t] # None
  /\ journal'[t].op = req[w].op /\ journal'[t].gen = req[w].from.gen
  /\ journal'[t].path = req[w].path
  /\ UNCHANGED <<binding, location, linked, other>>

Completed(t, w) ==
  /\ req[w].phase = "matches" /\ req[w].task = t /\ MayAdvance(req[w], Recoverable)
  /\ binding'[t] = [path |-> journal[t].path, gen |-> journal[t].gen + 1]
  /\ \A u \in Tasks : u # t => binding'[u] = binding[u]
  /\ journal'[t] = None
  /\ req'[w] = Idle
  /\ UNCHANGED <<location, linked, other>>

Dismissed(t) ==
  /\ Dismissible(t) /\ journal'[t] = None
  /\ UNCHANGED <<binding, location, linked, other>>

EndedElsewhere(t) == t \in other /\ journal'[t] = journal[t] /\ binding'[t] = None

TaskStep(t) ==
  \/ journal'[t] = journal[t] /\ binding'[t] = binding[t]
  \/ JournalEdited(t) \/ Dismissed(t) \/ EndedElsewhere(t)
  \/ \E w \in Workers : JournalStarted(t, w) \/ Completed(t, w)

\* A new journal is started, a journal is edited: the other Tasks keep theirs.
LEMMA StartedTask ==
  ASSUME TypeOK, NEW w \in Workers, NEW s \in Stages,
         req[w].phase = "observed", MayBegin(req[w]), journal[req[w].task] = None,
         SetJournal(req[w].task,
                    [op |-> req[w].op, gen |-> req[w].from.gen, path |-> req[w].path,
                     stage |-> s, failed |-> FALSE]),
         UNCHANGED <<binding, location, linked, other>>
  PROVE  \A t \in Tasks : TaskStep(t)
<1> DEFINE j == [op |-> req[w].op, gen |-> req[w].from.gen, path |-> req[w].path,
                 stage |-> s, failed |-> FALSE]
<1>1. req[w].task \in Tasks /\ j \in RepairJournal
  BY BeginTyped DEF Observed
<1>2. journal'[req[w].task] = j /\ \A u \in Tasks : u # req[w].task => journal'[u] = journal[u]
  BY <1>1, SetJournalTyped
<1>3. j # None
  BY <1>1, NoneAssumption
<1>4. JournalStarted(req[w].task, w)
  BY <1>2, <1>3 DEF JournalStarted
<1> QED BY <1>2, <1>4 DEF TaskStep

LEMMA EditedTask ==
  ASSUME TypeOK, NEW t \in Tasks, NEW j \in RepairJournal, SetJournal(t, j),
         journal[t] # None, j.op = journal[t].op, j.gen = journal[t].gen,
         j.path = journal[t].path,
         j.stage = "reserved" => journal[t].stage = "reserved",
         UNCHANGED <<binding, location, linked, other>>
  PROVE  \A u \in Tasks : TaskStep(u)
<1>1. journal'[t] = j /\ \A u \in Tasks : u # t => journal'[u] = journal[u]
  BY SetJournalTyped
<1>2. JournalEdited(t)
  BY <1>1, NoneAssumption DEF JournalEdited
<1> QED BY <1>1, <1>2 DEF TaskStep

LEMMA FailedTask ==
  ASSUME TypeOK, NEW w \in Workers, req[w] # Idle, Fail(req[w]),
         UNCHANGED <<binding, location, linked, other>>
  PROVE  \A t \in Tasks : TaskStep(t)
<1>1. CASE OwnJournal(req[w])
  <2>1. req[w].task \in Tasks
    BY RequestPhase DEF TypeOK, RequestTypeOK
  <2>2. journal[req[w].task] \in RepairJournal
    BY <1>1, <2>1 DEF OwnJournal, TypeOK, StoreTypeOK
  <2> DEFINE j == [journal[req[w].task] EXCEPT !.failed = TRUE]
  <2>3. j \in RepairJournal
    BY <2>2, JournalEdits
  <2>4. /\ j.op = journal[req[w].task].op /\ j.gen = journal[req[w].task].gen
        /\ j.path = journal[req[w].task].path /\ j.stage = journal[req[w].task].stage
    BY <2>2 DEF RepairJournal
  <2>5. SetJournal(req[w].task, j) /\ journal[req[w].task] # None
    BY <1>1 DEF Fail, OwnJournal
  <2> QED BY <2>1, <2>3, <2>4, <2>5, EditedTask
<1>2. CASE ~OwnJournal(req[w])
  BY <1>2 DEF Fail, TaskStep
<1> QED BY <1>1, <1>2

\* A journal that advances: stage s instead of its own
LEMMA AdvancedTask ==
  ASSUME TypeOK, NEW w \in Workers, req[w] # Idle, OwnJournal(req[w]),
         NEW s \in Stages \ {"reserved"},
         \/ SetJournal(req[w].task, [journal[req[w].task] EXCEPT !.stage = s])
         \/ SetJournal(req[w].task, [journal[req[w].task] EXCEPT !.stage = s,
                                                                 !.failed = FALSE]),
         UNCHANGED <<binding, location, linked, other>>
  PROVE  \A t \in Tasks : TaskStep(t)
<1>1. req[w].task \in Tasks
  BY RequestPhase DEF TypeOK, RequestTypeOK
<1>2. journal[req[w].task] \in RepairJournal /\ journal[req[w].task] # None
  BY <1>1 DEF OwnJournal, TypeOK, StoreTypeOK
<1>3. CASE SetJournal(req[w].task, [journal[req[w].task] EXCEPT !.stage = s])
  <2> DEFINE j == [journal[req[w].task] EXCEPT !.stage = s]
  <2>1. /\ j \in RepairJournal /\ j.stage = s
        /\ j.op = journal[req[w].task].op /\ j.gen = journal[req[w].task].gen
        /\ j.path = journal[req[w].task].path
    BY <1>2 DEF RepairJournal
  <2> QED BY <1>1, <1>2, <1>3, <2>1, EditedTask
<1>4. CASE SetJournal(req[w].task, [journal[req[w].task] EXCEPT !.stage = s,
                                                                !.failed = FALSE])
  <2> DEFINE j == [journal[req[w].task] EXCEPT !.stage = s, !.failed = FALSE]
  <2>1. /\ j \in RepairJournal /\ j.stage = s
        /\ j.op = journal[req[w].task].op /\ j.gen = journal[req[w].task].gen
        /\ j.path = journal[req[w].task].path
    BY <1>2 DEF RepairJournal
  <2> QED BY <1>1, <1>2, <1>4, <2>1, EditedTask
<1> QED BY <1>3, <1>4

LEMMA WriteCutTask ==
  ASSUME TypeOK, NEW w \in Workers, WriteCut(w),
         UNCHANGED <<binding, location, linked, other>>
  PROVE  \A t \in Tasks : TaskStep(t)
<1>1. CASE /\ req[w].phase = "observed" /\ MayBegin(req[w]) /\ req[w].clear
           /\ journal[req[w].task] = None
           /\ SetJournal(req[w].task,
                         [op |-> req[w].op, gen |-> req[w].from.gen, path |-> req[w].path,
                          stage |-> "reserved", failed |-> FALSE])
  BY <1>1, StartedTask DEF Stages
<1>2. CASE /\ req[w].phase = "matches" /\ MayAdvance(req[w], Recoverable)
           /\ SetJournal(req[w].task, [journal[req[w].task] EXCEPT !.stage = "verified",
                                                                   !.failed = FALSE])
  <2>1. req[w] # Idle /\ OwnJournal(req[w]) /\ "verified" \in Stages \ {"reserved"}
    BY <1>2 DEF Idle, MayAdvance, Stages
  <2> QED BY <1>2, <2>1, AdvancedTask
<1> QED BY <1>1, <1>2 DEF WriteCut

\* Every step does one of these to every Task.
LEMMA TaskSteps ==
  ASSUME TypeOK, [Next]_vars
  PROVE  \A t \in Tasks : TaskStep(t)
<1>1. ASSUME UNCHANGED <<binding, journal>>
      PROVE  \A t \in Tasks : TaskStep(t)
  BY <1>1 DEF TaskStep
<1>2. ASSUME NEW w \in Workers, BeginStarted(w)
      PROVE  \A t \in Tasks : TaskStep(t)
  BY <1>2, StartedTask DEF BeginStarted, Stages, repo
<1>3. ASSUME NEW w \in Workers, BeginResumed(w)
      PROVE  \A t \in Tasks : TaskStep(t)
  <2>1. req[w] # Idle /\ OwnJournal(req[w]) /\ "repairPrepared" \in Stages \ {"reserved"}
    BY <1>3 DEF BeginResumed, Resumes, OwnCandidate, Idle, Stages
  <2> QED BY <1>3, <2>1, AdvancedTask DEF BeginResumed, repo
<1>4. ASSUME NEW w \in Workers, ApplyExecution(w)
      PROVE  \A t \in Tasks : TaskStep(t)
  <2>1. req[w] # Idle /\ UNCHANGED <<binding, location, linked, other>>
    BY <1>4 DEF ApplyExecution, Idle, repo
  <2>2. CASE Fail(req[w])
    BY <2>1, <2>2, FailedTask
  <2>3. CASE UNCHANGED journal
    BY <1>1, <2>1, <2>3
  <2>4. CASE /\ MayAdvance(req[w], {"repairPrepared", "repairInvoked"})
             /\ SetJournal(req[w].task,
                           [journal[req[w].task] EXCEPT !.stage = "repairInvoked"])
    <3>1. OwnJournal(req[w]) /\ "repairInvoked" \in Stages \ {"reserved"}
      BY <2>4 DEF MayAdvance, Stages
    <3> QED BY <2>1, <2>4, <3>1, AdvancedTask
  <2> QED BY <1>4, <2>2, <2>3, <2>4 DEF ApplyExecution
<1>5. ASSUME NEW w \in Workers, ApplyVerification(w)
      PROVE  \A t \in Tasks : TaskStep(t)
  <2>1. req[w] # Idle /\ req'[w] = Idle /\ UNCHANGED <<location, linked, other>>
    BY <1>5, EndsTyped DEF ApplyVerification, Idle, repo
  <2>2. CASE Fail(req[w]) /\ UNCHANGED binding
    BY <2>1, <2>2, FailedTask
  <2>3. CASE UNCHANGED <<binding, receipt, journal>>
    BY <1>1, <2>3
  <2>4. CASE req[w].phase = "matches" /\ MayAdvance(req[w], Recoverable)
             /\ Complete(req[w].task)
    <3>1. req[w].task \in Tasks
      BY <2>1, RequestPhase DEF TypeOK, RequestTypeOK
    <3>2. /\ journal'[req[w].task] = None
          /\ \A u \in Tasks : u # req[w].task => journal'[u] = journal[u]
      BY <2>4, <3>1, SetJournalTyped DEF Complete
    <3>3. /\ binding'[req[w].task] = [path |-> journal[req[w].task].path,
                                      gen |-> journal[req[w].task].gen + 1]
          /\ \A u \in Tasks : u # req[w].task => binding'[u] = binding[u]
      BY <2>4, <3>1 DEF Complete, TypeOK, StoreTypeOK
    <3>4. Completed(req[w].task, w)
      BY <2>1, <2>4, <3>2, <3>3 DEF Completed
    <3> QED BY <3>2, <3>3, <3>4 DEF TaskStep
  <2> QED BY <1>5, <2>2, <2>3, <2>4 DEF ApplyVerification
<1>6. ASSUME NEW w \in Workers, LoseRequest(w)
      PROVE  \A t \in Tasks : TaskStep(t)
  BY <1>1, <1>6, WriteCutTask DEF LoseRequest, repo
<1>7. CASE ApplyDismissal
  <2>1. dismissal.task \in Tasks
    BY <1>7 DEF ApplyDismissal, TypeOK, RequestTypeOK, Dismissal
  <2>2. CASE UNCHANGED journal
    BY <1>1, <1>7, <2>2 DEF ApplyDismissal
  <2>3. CASE Dismissible(dismissal.task) /\ SetJournal(dismissal.task, None)
    <3>1. /\ journal'[dismissal.task] = None
          /\ \A u \in Tasks : u # dismissal.task => journal'[u] = journal[u]
      BY <2>1, <2>3, SetJournalTyped
    <3>2. UNCHANGED <<binding, location, linked, other>>
      BY <1>7 DEF ApplyDismissal, repo
    <3> QED BY <2>3, <3>1, <3>2 DEF TaskStep, Dismissed
  <2> QED BY <1>7, <2>2, <2>3 DEF ApplyDismissal
<1>8. CASE Crash
  BY <1>1, <1>8, WriteCutTask DEF Crash, repo
<1>9. CASE Restart
  <2> SUFFICES ASSUME NEW t \in Tasks PROVE TaskStep(t)
    OBVIOUS
  <2>1. journal'[t] = Reconciled(t) /\ UNCHANGED <<binding, location, linked, other>>
    BY <1>9 DEF Restart, repo
  <2>2. CASE journal[t] = None
    BY <2>1, <2>2 DEF Reconciled, TaskStep
  <2>3. CASE journal[t] # None
    <3>1. journal[t] \in RepairJournal /\ journal'[t] = [journal[t] EXCEPT !.failed = TRUE]
      BY <2>1, <2>3 DEF Reconciled, TypeOK, StoreTypeOK
    <3>2. journal'[t] # None
      BY <3>1, JournalEdits, NoneAssumption
    <3>3. JournalEdited(t)
      BY <2>1, <2>3, <3>1, <3>2 DEF JournalEdited, RepairJournal
    <3> QED BY <3>3 DEF TaskStep
  <2> QED BY <2>2, <2>3
<1>10. ASSUME NEW t \in Tasks, EndOther(t)
       PROVE  \A u \in Tasks : TaskStep(u)
  BY <1>10 DEF EndOther, TaskStep, EndedElsewhere, TypeOK, StoreTypeOK
<1>11. ASSUME NEW w \in Workers,
              \/ \E t \in Tasks, op \in OpIds, p \in Paths : Request(w, t, op, p)
              \/ PlanRepair(w) \/ ObserveRepair(w) \/ BeginVerifying(w) \/ BeginRefused(w)
              \/ ExecuteRepair(w) \/ VerifyRepair(w)
       PROVE  UNCHANGED <<binding, journal>>
  BY <1>11 DEF Request, PlanRepair, ObserveRepair, BeginVerifying, BeginRefused,
               ExecuteRepair, VerifyRepair, store
<1>12. ASSUME \/ \E t \in Tasks : PlanDismissal(t) \/ BeginOther(t)
              \/ \E p \in Paths : LaunchSession(p) \/ SessionExits(p)
              \/ UserStep \/ UNCHANGED vars
       PROVE  UNCHANGED <<binding, journal>>
  BY <1>12 DEF PlanDismissal, BeginOther, LaunchSession, SessionExits, UserStep, vars, store
<1> QED BY <1>1, <1>2, <1>3, <1>4, <1>5, <1>6, <1>7, <1>8, <1>9, <1>10, <1>11, <1>12
        DEF Next, RepairStep

\* Another saga begins only where there is no journal.
LEMMA OtherSteps ==
  ASSUME TypeOK, [Next]_vars, NEW t \in Tasks, t \in other', t \notin other
  PROVE  journal[t] = None /\ journal'[t] = None
BY DEF Next, Request, RepairStep, PlanRepair, ObserveRepair, BeginStarted, BeginResumed,
       BeginVerifying, BeginRefused, ExecuteRepair, ApplyExecution, VerifyRepair,
       ApplyVerification, LoseRequest, PlanDismissal, BeginOther, EndOther, ApplyDismissal,
       Crash, Restart, LaunchSession, SessionExits, UserStep, vars, store

\* A repair journal names the current generation, and stands beside no other journal,
\* after every step.
LEMMA GenerationsStep ==
  ASSUME TypeOK, TypeOK', JournalNamesGeneration, [Next]_vars
  PROVE  JournalNamesGeneration'
<1> SUFFICES ASSUME NEW t \in Tasks, journal'[t] # None
             PROVE  /\ binding'[t] # None /\ binding'[t].gen = journal'[t].gen
                    /\ t \notin other'
  BY DEF JournalNamesGeneration
<1>1. TaskStep(t)
  BY TaskSteps
<1>2. t \in other' => t \in other
  BY OtherSteps
<1>3. CASE journal[t] # None
  <2>1. binding[t] # None /\ binding[t].gen = journal[t].gen /\ t \notin other
    BY <1>3 DEF JournalNamesGeneration
  <2> QED BY <1>1, <1>2, <1>3, <2>1
          DEF TaskStep, JournalEdited, Dismissed, EndedElsewhere, JournalStarted, Completed
<1>4. CASE journal[t] = None
  <2>1. PICK w \in Workers : JournalStarted(t, w)
    BY <1>1, <1>4
    DEF TaskStep, JournalEdited, Dismissed, Dismissible, EndedElsewhere, Completed,
        MayAdvance, OwnJournal
  <2> QED BY <1>2, <2>1 DEF JournalStarted, MayBegin, TupleCurrent
<1> QED BY <1>3, <1>4

-----------------------------------------------------------------------------
(* Requests and what they own *)

\* A request is queued for the Task and path of its operation; it passes the lock when
\* no other request of its operation has it, and keeps its operation from then on.
Queues(w) ==
  /\ up' /\ req'[w].phase = "queued"
  /\ sent'[req'[w].op] = <<req'[w].task, req'[w].path>>

Advances(w) ==
  /\ req[w] # Idle /\ up' = up
  /\ req'[w].task = req[w].task /\ req'[w].op = req[w].op /\ req'[w].path = req[w].path
  /\ PastLock(w) \/ ~LockHeld(req[w].op)
  /\ \A v \in Workers : v # w => req'[v] = req[v]
  /\ UNCHANGED sent

\* What a step of a request may do to the request
LEMMA RepairStepMoves ==
  ASSUME TypeOK, NEW w \in Workers, RepairStep(w)
  PROVE  /\ req'[w] = Idle \/ Advances(w)
         /\ \A v \in Workers : v # w => req'[v] = req[v]
         /\ UNCHANGED <<up, sent>>
<1>1. UNCHANGED <<up, sent>>
  BY DEF RepairStep, PlanRepair, ObserveRepair, BeginStarted, BeginResumed, BeginVerifying,
         BeginRefused, ExecuteRepair, ApplyExecution, VerifyRepair, ApplyVerification
<1>2. CASE BeginRefused(w) \/ ApplyVerification(w)
  BY <1>1, <1>2, EndsTyped DEF BeginRefused, ApplyVerification
<1>3. CASE PlanRepair(w)
  <2>1. CASE Ends(w)
    BY <1>1, <2>1, EndsTyped
  <2>2. CASE SetReq(w, [phase |-> "planned", task |-> req[w].task, op |-> req[w].op,
                        path |-> req[w].path, from |-> binding[req[w].task]])
    BY <1>1, <1>3, <2>2, OthersKept DEF PlanRepair, Advances, Idle
  <2> QED BY <1>3, <2>1, <2>2 DEF PlanRepair
<1>4. CASE ObserveRepair(w)
  BY <1>1, <1>4, OthersKept DEF ObserveRepair, Advances, PastLock, Idle
<1>5. CASE BeginStarted(w) \/ BeginResumed(w) \/ BeginVerifying(w)
  <2>1. PICK r \in {Executing(req[w]), Verifying(req[w])} : SetReq(w, r)
    BY <1>5 DEF BeginStarted, BeginResumed, BeginVerifying
  <2>2. r.task = req[w].task /\ r.op = req[w].op /\ r.path = req[w].path
    BY <2>1 DEF Executing, Verifying
  <2>3. req[w].phase = "observed"
    BY <1>5 DEF BeginStarted, BeginResumed, BeginVerifying
  <2> QED BY <1>1, <2>1, <2>2, <2>3, OthersKept DEF Advances, PastLock, Idle
<1>6. CASE ExecuteRepair(w) \/ VerifyRepair(w)
  <2>1. req[w] \in Running /\ req[w].phase \in RunningPhases
    BY <1>6, RequestPhase
    DEF ExecuteRepair, VerifyRepair, TypeOK, RequestTypeOK, RunningPhases
  <2>2. PICK ph : SetReq(w, [req[w] EXCEPT !.phase = ph])
    BY <1>6 DEF ExecuteRepair, VerifyRepair
  <2>3. /\ req'[w] = [req[w] EXCEPT !.phase = ph]
        /\ \A v \in Workers : v # w => req'[v] = req[v]
    BY <2>2, OthersKept
  <2> QED BY <1>1, <2>1, <2>3 DEF Advances, PastLock, Running, RunningPhases, Idle
<1>7. CASE ApplyExecution(w)
  <2>1. CASE Ends(w)
    BY <1>1, <2>1, EndsTyped
  <2>2. CASE SetReq(w, Verifying(req[w])) /\ req[w].phase = "executed"
    BY <1>1, <2>2, OthersKept DEF Verifying, Executing, Advances, PastLock, Idle
  <2> QED BY <1>7, <2>1, <2>2 DEF ApplyExecution
<1> QED BY <1>2, <1>3, <1>4, <1>5, <1>6, <1>7 DEF RepairStep

\* Operation ids keep what they were sent for.
LEMMA SentKept ==
  ASSUME TypeOK, [Next]_vars, NEW op \in OpIds, sent[op] # None
  PROVE  sent'[op] = sent[op]
<1>1. ASSUME NEW w \in Workers, NEW t \in Tasks, NEW o \in OpIds, NEW p \in Paths,
             Request(w, t, o, p)
      PROVE  sent'[op] = sent[op]
  BY <1>1 DEF Request, TypeOK, DaemonTypeOK
<1>2. ASSUME NEW w \in Workers, RepairStep(w) \/ LoseRequest(w)
      PROVE  sent' = sent
  BY <1>2, RepairStepMoves DEF LoseRequest
<1>3. ASSUME \/ \E t \in Tasks : PlanDismissal(t) \/ BeginOther(t) \/ EndOther(t)
             \/ \E p \in Paths : LaunchSession(p) \/ SessionExits(p)
             \/ ApplyDismissal \/ Crash \/ Restart \/ UserStep \/ UNCHANGED vars
      PROVE  sent' = sent
  BY <1>3 DEF PlanDismissal, BeginOther, EndOther, LaunchSession, SessionExits,
              ApplyDismissal, Crash, Restart, UserStep, vars
<1> QED BY <1>1, <1>2, <1>3 DEF Next

\* Every step does one of these to every request.
LEMMA RequestSteps ==
  ASSUME TypeOK, DownMeansIdle, [Next]_vars
  PROVE  /\ DownMeansIdle'
         /\ \A w \in Workers : \/ req'[w] \in {req[w], Idle}
                               \/ Queues(w) /\ \A v \in Workers : v # w => req'[v] = req[v]
                               \/ Advances(w)
<1>1. ASSUME NEW w \in Workers, NEW t \in Tasks, NEW op \in OpIds, NEW p \in Paths,
             Request(w, t, op, p)
      PROVE  /\ up' /\ Queues(w) /\ \A v \in Workers : v # w => req'[v] = req[v]
  BY <1>1, OthersKept DEF Request, Queues, TypeOK, DaemonTypeOK
<1>2. ASSUME NEW w \in Workers, RepairStep(w)
      PROVE  /\ up' /\ (req'[w] = Idle \/ Advances(w))
             /\ \A v \in Workers : v # w => req'[v] = req[v]
  <2>1. req[w] # Idle
    BY <1>2 DEF RepairStep, PlanRepair, ObserveRepair, BeginStarted, BeginResumed,
                BeginVerifying, BeginRefused, ExecuteRepair, ApplyExecution, VerifyRepair,
                ApplyVerification, Idle
  <2> QED BY <1>2, <2>1, RepairStepMoves DEF DownMeansIdle
<1>3. ASSUME NEW w \in Workers, LoseRequest(w)
      PROVE  /\ up' /\ req'[w] = Idle /\ \A v \in Workers : v # w => req'[v] = req[v]
  BY <1>3, EndsTyped DEF LoseRequest, DownMeansIdle, Idle
<1>4. ASSUME \/ \E t \in Tasks : PlanDismissal(t) \/ BeginOther(t) \/ EndOther(t)
             \/ \E p \in Paths : LaunchSession(p) \/ SessionExits(p)
             \/ ApplyDismissal \/ Restart \/ UserStep \/ UNCHANGED vars
      PROVE  req' = req /\ (up' \/ up' = up)
  BY <1>4 DEF PlanDismissal, BeginOther, EndOther, LaunchSession, SessionExits,
              ApplyDismissal, Restart, UserStep, vars
<1>5. CASE Crash
  BY <1>5 DEF Crash, DownMeansIdle
<1> QED BY <1>1, <1>2, <1>3, <1>4, <1>5 DEF Next, DownMeansIdle

\* Journals and requests stay with what their operation was sent for.
LEMMA FixedStep ==
  ASSUME TypeOK, TypeOK', RequestsOwn, [Next]_vars
  PROVE  OperationsFixed'
<1>1. ASSUME NEW t \in Tasks, NEW p \in Paths
      PROVE  <<t, p>> # None
  BY NoneAssumption
<1>2. ASSUME NEW t \in Tasks, journal'[t] # None
      PROVE  sent'[journal'[t].op] = <<t, journal'[t].path>>
  <2>1. TaskStep(t)
    BY TaskSteps
  <2>2. CASE \E w \in Workers : JournalStarted(t, w)
    <3>1. PICK w \in Workers : JournalStarted(t, w)
      BY <2>2
    <3>2. req[w] # Idle /\ req[w].op \in OpIds /\ req[w].path \in Paths
      BY <3>1, RequestPhase DEF JournalStarted, TypeOK, RequestTypeOK, Idle
    <3>3. sent[req[w].op] = <<t, req[w].path>>
      BY <3>1, <3>2 DEF RequestsOwn, OperationsFixed, JournalStarted
    <3> QED BY <1>1, <3>1, <3>2, <3>3, SentKept DEF JournalStarted
  <2>3. CASE ~\E w \in Workers : JournalStarted(t, w)
    <3>1. /\ journal[t] # None
          /\ journal'[t].op = journal[t].op /\ journal'[t].path = journal[t].path
      BY <1>2, <2>1, <2>3
      DEF TaskStep, JournalEdited, Dismissed, EndedElsewhere, Completed
    <3>2. journal[t].op \in OpIds /\ journal[t].path \in Paths
      BY <3>1 DEF TypeOK, StoreTypeOK, RepairJournal
    <3>3. sent[journal[t].op] = <<t, journal[t].path>>
      BY <3>1 DEF RequestsOwn, OperationsFixed
    <3> QED BY <1>1, <3>1, <3>2, <3>3, SentKept
  <2> QED BY <2>2, <2>3
<1>3. ASSUME NEW w \in Workers, req'[w] # Idle
      PROVE  sent'[req'[w].op] = <<req'[w].task, req'[w].path>>
  <2>1. \/ req'[w] = req[w] \/ Queues(w) \/ Advances(w)
    BY <1>3, RequestSteps DEF RequestsOwn
  <2>2. CASE Queues(w)
    BY <2>2 DEF Queues
  <2>3. CASE req'[w] = req[w] \/ Advances(w)
    <3>1. /\ req[w] # Idle
          /\ req'[w].op = req[w].op /\ req'[w].task = req[w].task
          /\ req'[w].path = req[w].path
      BY <1>3, <2>3 DEF Advances
    <3>2. req[w].op \in OpIds /\ req[w].task \in Tasks /\ req[w].path \in Paths
      BY <3>1, RequestPhase DEF TypeOK, RequestTypeOK
    <3>3. sent[req[w].op] = <<req[w].task, req[w].path>>
      BY <3>1 DEF RequestsOwn, OperationsFixed
    <3> QED BY <1>1, <3>1, <3>2, <3>3, SentKept
  <2> QED BY <2>1, <2>2, <2>3
<1> QED BY <1>2, <1>3 DEF OperationsFixed

\* One request of an operation at a time is past the lock, after every step.
LEMMA DifferStep ==
  ASSUME TypeOK, RequestsOwn, [Next]_vars
  PROVE  OperationsDiffer'
<1> SUFFICES ASSUME NEW v \in Workers, NEW w \in Workers, v # w,
                    PastLock(v)', PastLock(w)'
             PROVE  req'[v].op # req'[w].op
  BY DEF OperationsDiffer
<1>1. ASSUME NEW u \in Workers, PastLock(u)'
      PROVE  req'[u] = req[u] \/ Advances(u)
  BY <1>1, RequestSteps DEF RequestsOwn, PastLock, Idle, Queues
<1>2. ASSUME NEW u \in Workers, NEW x \in Workers, u # x, Advances(u), PastLock(x)'
      PROVE  req'[u].op # req'[x].op
  <2>1. req'[x] = req[x] /\ PastLock(x)
    BY <1>2 DEF Advances, PastLock
  <2>2. CASE PastLock(u)
    BY <1>2, <2>1, <2>2 DEF RequestsOwn, OperationsDiffer, Advances
  <2>3. CASE ~LockHeld(req[u].op)
    BY <1>2, <2>1, <2>3 DEF LockHeld, PastLock, Advances
  <2> QED BY <1>2, <2>2, <2>3 DEF Advances
<1>3. CASE req'[v] = req[v] /\ req'[w] = req[w]
  BY <1>3 DEF RequestsOwn, OperationsDiffer, PastLock
<1> QED BY <1>1, <1>2, <1>3

\* A session is launched only at a path that no repair has reserved.
LEMMA Launches ==
  ASSUME [Next]_vars, NEW p, p \in attached', p \notin attached
  PROVE  ~LaunchReserved(p)
<1>1. ASSUME NEW w \in Workers, RepairStep(w)
      PROVE  attached' = attached
  BY <1>1 DEF RepairStep, PlanRepair, ObserveRepair, BeginStarted, BeginResumed,
              BeginVerifying, BeginRefused, ExecuteRepair, ApplyExecution, VerifyRepair,
              ApplyVerification
<1> QED BY <1>1 DEF Next, Request, LoseRequest, PlanDismissal, BeginOther, EndOther,
                    ApplyDismissal, Crash, Restart, LaunchSession, SessionExits, UserStep,
                    vars

\* A repair under way keeps what it owns while others act.
LEMMA OwnsKept ==
  ASSUME TypeOK, JournalNamesGeneration, RequestsOwn, [Next]_vars,
         NEW w \in Workers, req'[w] = req[w]
  PROVE  Owns(req[w])'
<1> SUFFICES ASSUME req[w].phase \in RunningPhases
             PROVE  /\ journal'[req[w].task] # None /\ journal'[req[w].task].op = req[w].op
                    /\ journal'[req[w].task].stage # "reserved"
                    /\ binding'[req[w].task] = req[w].from
                    /\ attached' \cap {req[w].path, req[w].from.path} = {}
  BY DEF Owns
<1> DEFINE t == req[w].task
<1>1. /\ req[w] # Idle /\ t \in Tasks /\ req[w].op \in OpIds /\ req[w].path \in Paths
      /\ req[w].from \in Bound
  BY RequestPhase DEF TypeOK, RequestTypeOK, Idle, RunningPhases, Running
<1>2. /\ journal[t] # None /\ journal[t].op = req[w].op /\ journal[t].stage # "reserved"
      /\ binding[t] = req[w].from /\ attached \cap {req[w].path, req[w].from.path} = {}
  BY DEF RequestsOwn, Owns
<1>3. journal[t].path = req[w].path
  BY <1>1, <1>2 DEF RequestsOwn, OperationsFixed
<1>4. TaskStep(t) /\ t \notin other
  BY <1>1, <1>2, TaskSteps DEF JournalNamesGeneration
<1>5. ASSUME NEW v \in Workers, Completed(t, v)
      PROVE  FALSE
  <2>1. v # w /\ PastLock(v) /\ PastLock(w)
    BY <1>1, <1>5 DEF Completed, PastLock, RunningPhases
  <2>2. req[v].op = req[w].op
    BY <1>2, <1>5 DEF Completed, MayAdvance, OwnJournal
  <2> QED BY <2>1, <2>2 DEF RequestsOwn, OperationsDiffer
<1>6. /\ journal'[t] # None /\ journal'[t].op = req[w].op
      /\ journal'[t].stage # "reserved" /\ binding'[t] = req[w].from
  BY <1>2, <1>4, <1>5
  DEF TaskStep, JournalEdited, Dismissed, Dismissible, EndedElsewhere, JournalStarted
<1>7. ASSUME NEW p \in {req[w].path, req[w].from.path}
      PROVE  p \notin attached'
  <2>1. LaunchReserved(p)
    BY <1>1, <1>2, <1>3, <1>7, NoneAssumption DEF LaunchReserved
  <2> QED BY <1>2, <2>1, Launches
<1> QED BY <1>6, <1>7

\* A repair takes its journal, the binding and the paths before Git is called, and keeps
\* them through its own steps.
LEMMA OwnsActs ==
  ASSUME TypeOK, RequestsOwn, NEW w \in Workers, RepairStep(w)
  PROVE  Owns(req[w])'
<1> DEFINE t == req[w].task
<1>1. CASE BeginStarted(w) \/ BeginResumed(w) \/ BeginVerifying(w)
  <2>1. /\ req[w].phase = "observed" /\ MayBegin(req[w]) /\ t \in Tasks
        /\ UNCHANGED <<binding, attached>>
    BY <1>1, BeginTyped
    DEF BeginStarted, BeginResumed, BeginVerifying, Observed, store
  <2>2. /\ req'[w].task = t /\ req'[w].op = req[w].op /\ req'[w].path = req[w].path
        /\ req'[w].from = req[w].from
    <3>1. PICK r \in {Executing(req[w]), Verifying(req[w])} : SetReq(w, r)
      BY <1>1 DEF BeginStarted, BeginResumed, BeginVerifying
    <3> QED BY <3>1, OthersKept DEF Executing, Verifying
  <2>3. journal'[t] # None /\ journal'[t].op = req[w].op /\ journal'[t].stage # "reserved"
    <3>1. CASE BeginStarted(w)
      <4> DEFINE j == [op |-> req[w].op, gen |-> req[w].from.gen, path |-> req[w].path,
                       stage |-> "repairPrepared", failed |-> FALSE]
      <4>1. j \in RepairJournal
        BY <2>1, BeginTyped DEF Stages
      <4>2. j # None
        BY <4>1, NoneAssumption
      <4>3. journal'[t] = j
        BY <2>1, <3>1, <4>1, SetJournalTyped DEF BeginStarted
      <4> QED BY <4>2, <4>3
    <3>2. CASE BeginResumed(w)
      <4>1. journal[t] \in RepairJournal /\ journal[t].op = req[w].op
        BY <2>1, <3>2 DEF BeginResumed, Resumes, OwnCandidate, OwnJournal, TypeOK,
                          StoreTypeOK
      <4> DEFINE j == [journal[t] EXCEPT !.stage = "repairPrepared", !.failed = FALSE]
      <4>2. j \in RepairJournal /\ j.op = journal[t].op /\ j.stage = "repairPrepared"
        BY <4>1 DEF RepairJournal, Stages
      <4>3. j # None
        BY <4>2, NoneAssumption
      <4>4. journal'[t] = j
        BY <2>1, <3>2, <4>2, SetJournalTyped DEF BeginResumed
      <4> QED BY <4>1, <4>2, <4>3, <4>4
    <3>3. CASE BeginVerifying(w)
      BY <3>3 DEF BeginVerifying, Verifies, OwnCandidate, OwnJournal, store
    <3> QED BY <1>1, <3>1, <3>2, <3>3
  <2> QED BY <2>1, <2>2, <2>3 DEF Owns, MayBegin, TupleCurrent
<1>2. CASE ExecuteRepair(w) \/ VerifyRepair(w)
  <2>1. req[w].phase \in RunningPhases /\ req[w] \in Running
    BY <1>2, RequestPhase
    DEF ExecuteRepair, VerifyRepair, TypeOK, RequestTypeOK, RunningPhases
  <2>2. PICK ph : SetReq(w, [req[w] EXCEPT !.phase = ph])
    BY <1>2 DEF ExecuteRepair, VerifyRepair
  <2>3. /\ req'[w].task = t /\ req'[w].op = req[w].op /\ req'[w].path = req[w].path
        /\ req'[w].from = req[w].from
    <3>1. req'[w] = [req[w] EXCEPT !.phase = ph]
      BY <2>2, OthersKept
    <3> QED BY <2>1, <3>1 DEF Running
  <2>4. UNCHANGED <<binding, journal, attached>>
    BY <1>2 DEF ExecuteRepair, VerifyRepair, store
  <2> QED BY <2>1, <2>3, <2>4 DEF RequestsOwn, Owns
<1>3. CASE ApplyExecution(w)
  <2>1. CASE Ends(w)
    BY <2>1, EndsTyped DEF Owns, Idle, RunningPhases
  <2>2. CASE /\ req[w].phase = "executed"
             /\ MayAdvance(req[w], {"repairPrepared", "repairInvoked"})
             /\ SetJournal(t, [journal[t] EXCEPT !.stage = "repairInvoked"])
             /\ SetReq(w, Verifying(req[w]))
    <3>1. t \in Tasks /\ req[w].phase \in RunningPhases
      BY <2>2, RequestPhase DEF TypeOK, RequestTypeOK, RunningPhases, Running
    <3>2. /\ req'[w].task = t /\ req'[w].op = req[w].op /\ req'[w].path = req[w].path
          /\ req'[w].from = req[w].from
      BY <2>2, OthersKept DEF Executing, Verifying
    <3>3. journal[t] \in RepairJournal /\ journal[t].op = req[w].op
      BY <2>2, <3>1 DEF MayAdvance, OwnJournal, TypeOK, StoreTypeOK
    <3> DEFINE j == [journal[t] EXCEPT !.stage = "repairInvoked"]
    <3>4. j \in RepairJournal /\ j.op = journal[t].op /\ j.stage = "repairInvoked"
      BY <3>3 DEF RepairJournal, Stages
    <3>5. j # None
      BY <3>4, NoneAssumption
    <3>6. journal'[t] = j
      BY <2>2, <3>1, <3>4, SetJournalTyped
    <3>7. UNCHANGED <<binding, attached>>
      BY <1>3 DEF ApplyExecution
    <3>8. binding[t] = req[w].from /\ attached \cap {req[w].path, req[w].from.path} = {}
      BY <3>1 DEF RequestsOwn, Owns
    <3> QED BY <3>2, <3>3, <3>4, <3>5, <3>6, <3>7, <3>8 DEF Owns
  <2> QED BY <1>3, <2>1, <2>2 DEF ApplyExecution
<1>4. CASE BeginRefused(w) \/ ApplyVerification(w)
  BY <1>4, EndsTyped DEF BeginRefused, ApplyVerification, Owns, Idle, RunningPhases
<1>5. CASE PlanRepair(w) \/ ObserveRepair(w)
  <2>1. req'[w].phase \in {"idle", "planned", "observed"}
    BY <1>5, EndsTyped, OthersKept DEF PlanRepair, ObserveRepair, Idle
  <2> QED BY <2>1 DEF Owns, RunningPhases
<1> QED BY <1>1, <1>2, <1>3, <1>4, <1>5 DEF RepairStep

\* Requests own what they work on, after every step.
LEMMA RequestsOwnStep ==
  ASSUME TypeOK, TypeOK', JournalNamesGeneration, RequestsOwn, [Next]_vars
  PROVE  RequestsOwn'
<1>1. ASSUME NEW w \in Workers
      PROVE  Owns(req[w])'
  <2>1. CASE req'[w] = req[w]
    BY <2>1, OwnsKept
  <2>2. CASE RepairStep(w)
    BY <2>2, OwnsActs DEF RequestsOwn
  <2>3. CASE req'[w] # req[w] /\ ~RepairStep(w)
    <3>1. req'[w].phase \in {"idle", "queued"}
      <4>1. ASSUME NEW v \in Workers, NEW t \in Tasks, NEW op \in OpIds, NEW p \in Paths,
                   Request(v, t, op, p)
            PROVE  req'[w].phase = "queued"
        BY <2>3, <4>1, OthersKept DEF Request
      <4>2. ASSUME NEW v \in Workers, RepairStep(v) \/ LoseRequest(v)
            PROVE  req'[w] = Idle
        BY <2>3, <4>2, RepairStepMoves, EndsTyped DEF LoseRequest
      <4> QED BY <2>3, <4>1, <4>2
              DEF Next, PlanDismissal, BeginOther, EndOther, LaunchSession, SessionExits,
                  ApplyDismissal, Crash, Restart, UserStep, vars, Idle
    <3> QED BY <3>1 DEF Owns, RunningPhases
  <2> QED BY <2>1, <2>2, <2>3
<1>2. OperationsFixed' /\ OperationsDiffer'
  BY FixedStep, DifferStep
<1>3. DownMeansIdle'
  BY RequestSteps DEF RequestsOwn
<1> QED BY <1>1, <1>2, <1>3 DEF RequestsOwn

-----------------------------------------------------------------------------
(* Links and places *)

\* What a step may do to the link of a checkout: nothing, break it, or have Git rewrite
\* it to the candidate of the repair that runs there.
Rewritten(t, w) ==
  /\ req[w].phase = "executing" /\ linked'[t] = req[w].path
  /\ req[w].task = t \/ t \in stray'
  /\ UNCHANGED <<binding, journal>>

LinkStep(t) ==
  linked'[t] \in {linked[t], None} \/ \E w \in Workers : Rewritten(t, w)

\* What a step may do to the place of a checkout: another saga removes it, or the user
\* takes it to a free path.
PlaceStep(t) ==
  \/ location'[t] = location[t]
  \/ t \in other /\ location'[t] = None
  \/ /\ location'[t] = None \/ ~Occupied(location'[t])
     /\ \A u \in Tasks \ {t} : location'[u] = location[u]
     /\ journal[t] # None => t \in disturbed'

LEMMA RepoSteps ==
  ASSUME TypeOK, [Next]_vars
  PROVE  /\ stray \subseteq stray' /\ disturbed \subseteq disturbed'
         /\ \A t \in Tasks : LinkStep(t) /\ PlaceStep(t)
<1>1. ASSUME UNCHANGED <<repo, history>>
      PROVE  /\ stray \subseteq stray' /\ disturbed \subseteq disturbed'
             /\ \A t \in Tasks : LinkStep(t) /\ PlaceStep(t)
  BY <1>1 DEF repo, history, LinkStep, PlaceStep
<1>2. ASSUME NEW w \in Workers, ExecuteRepair(w)
      PROVE  /\ stray \subseteq stray' /\ disturbed \subseteq disturbed'
             /\ \A t \in Tasks : LinkStep(t) /\ PlaceStep(t)
  <2>1. /\ stray \subseteq stray' /\ UNCHANGED <<disturbed, location, binding, journal>>
        /\ req[w].phase = "executing"
    BY <1>2 DEF ExecuteRepair, store
  <2>2. ASSUME NEW t \in Tasks
        PROVE  LinkStep(t)
    BY <1>2, <2>1 DEF ExecuteRepair, LinkStep, Rewritten
  <2> QED BY <2>1, <2>2 DEF PlaceStep
<1>3. ASSUME NEW u \in Tasks, EndOther(u)
      PROVE  /\ stray \subseteq stray' /\ disturbed \subseteq disturbed'
             /\ \A t \in Tasks : LinkStep(t) /\ PlaceStep(t)
  <2>1. UNCHANGED history /\ u \in other
    BY <1>3 DEF EndOther
  <2>2. CASE UNCHANGED repo
    BY <1>1, <2>1, <2>2
  <2>3. CASE /\ location' = [location EXCEPT ![u] = IF @ = binding[u].path THEN None ELSE @]
             /\ linked' = [linked EXCEPT ![u] = None]
    BY <2>1, <2>3 DEF history, LinkStep, PlaceStep, TypeOK, RepoTypeOK
  <2> QED BY <1>3, <2>2, <2>3 DEF EndOther
<1>4. CASE UserStep
  <2>1. PICK u \in Tasks :
          /\ \/ /\ \E p \in Paths : ~Occupied(p) /\ location' = [location EXCEPT ![u] = p]
                /\ UNCHANGED linked
             \/ location' = [location EXCEPT ![u] = None] /\ UNCHANGED linked
             \/ linked' = [linked EXCEPT ![u] = None] /\ UNCHANGED location
          /\ disturbed' = IF location'[u] # location[u] /\ journal[u] # None
                          THEN disturbed \cup {u} ELSE disturbed
    BY <1>4 DEF UserStep
  <2>2. stray' = stray /\ disturbed \subseteq disturbed'
    BY <1>4, <2>1 DEF UserStep
  <2>3. ASSUME NEW t \in Tasks
        PROVE  LinkStep(t)
    BY <2>1 DEF LinkStep, TypeOK, RepoTypeOK
  <2>4. ASSUME NEW t \in Tasks
        PROVE  PlaceStep(t)
    <3>1. CASE t # u \/ UNCHANGED location
      BY <2>1, <3>1 DEF PlaceStep, TypeOK, RepoTypeOK
    <3>2. CASE t = u /\ location' = [location EXCEPT ![u] = None]
      BY <2>1, <3>2 DEF PlaceStep, TypeOK, RepoTypeOK
    <3>3. ASSUME t = u, NEW p \in Paths, ~Occupied(p), location' = [location EXCEPT ![u] = p]
          PROVE  PlaceStep(t)
      BY <2>1, <3>3 DEF PlaceStep, TypeOK, RepoTypeOK
    <3> QED BY <2>1, <3>1, <3>2, <3>3
  <2> QED BY <2>2, <2>3, <2>4
<1>5. ASSUME NEW w \in Workers,
             \/ \E t \in Tasks, op \in OpIds, p \in Paths : Request(w, t, op, p)
             \/ PlanRepair(w) \/ ObserveRepair(w)
             \/ BeginStarted(w) \/ BeginResumed(w) \/ BeginVerifying(w) \/ BeginRefused(w)
             \/ ApplyExecution(w) \/ VerifyRepair(w) \/ ApplyVerification(w)
             \/ LoseRequest(w)
      PROVE  UNCHANGED <<repo, history>>
  BY <1>5 DEF Request, PlanRepair, ObserveRepair, BeginStarted, BeginResumed,
              BeginVerifying, BeginRefused, ApplyExecution, VerifyRepair,
              ApplyVerification, LoseRequest
<1>6. ASSUME \/ \E t \in Tasks : PlanDismissal(t) \/ BeginOther(t)
             \/ \E p \in Paths : LaunchSession(p) \/ SessionExits(p)
             \/ ApplyDismissal \/ Crash \/ Restart \/ UNCHANGED vars
      PROVE  UNCHANGED <<repo, history>>
  BY <1>6 DEF PlanDismissal, BeginOther, LaunchSession, SessionExits, ApplyDismissal,
              Crash, Restart, vars
<1> QED BY <1>1, <1>2, <1>3, <1>4, <1>5, <1>6 DEF Next, RepairStep

\* A repair under way, its Task and its journal name one path.
LEMMA RunningPath ==
  ASSUME TypeOK, JournalNamesGeneration, RequestsOwn,
         NEW w \in Workers, req[w].phase \in RunningPhases
  PROVE  /\ req[w].task \in Tasks /\ req[w].task \notin other
         /\ journal[req[w].task] # None /\ journal[req[w].task].op = req[w].op
         /\ journal[req[w].task].path = req[w].path
         /\ journal[req[w].task].stage # "reserved"
<1>1. req[w] # Idle /\ req[w].task \in Tasks /\ req[w].path \in Paths
  BY RequestPhase DEF TypeOK, RequestTypeOK, Idle, RunningPhases
<1>2. /\ journal[req[w].task] # None /\ journal[req[w].task].op = req[w].op
      /\ journal[req[w].task].stage # "reserved"
  BY DEF RequestsOwn, Owns
<1>3. journal[req[w].task].path = req[w].path
  BY <1>1, <1>2 DEF RequestsOwn, OperationsFixed
<1> QED BY <1>1, <1>2, <1>3 DEF JournalNamesGeneration

\* A completed repair was verified: the checkout is at the path that the binding gets.
LEMMA CompletedPath ==
  ASSUME TypeOK, JournalNamesGeneration, RequestsOwn, LinksOnRecord,
         NEW t \in Tasks, NEW w \in Workers, Completed(t, w)
  PROVE  /\ journal[t] # None /\ binding'[t].path = journal[t].path
         /\ t \notin stray => linked[t] \in {journal[t].path, None}
         /\ t \notin disturbed => location[t] = journal[t].path
<1>1. req[w].phase = "matches" /\ req[w].phase \in RunningPhases /\ req[w].task = t
  BY DEF Completed, RunningPhases
<1>2. journal[t] # None /\ journal[t].path = req[w].path
  BY <1>1, RunningPath
<1>3. Verified(req[w])
  BY DEF LinksOnRecord
<1> QED BY <1>1, <1>2, <1>3 DEF Verified, Completed

LEMMA PlacesStep ==
  ASSUME TypeOK, PlacesDiffer, [Next]_vars
  PROVE  PlacesDiffer'
<1> SUFFICES ASSUME NEW t \in Tasks, NEW u \in Tasks, t # u, location'[t] # None
             PROVE  location'[t] # location'[u]
  BY DEF PlacesDiffer
<1>1. PlaceStep(t) /\ PlaceStep(u)
  BY RepoSteps
<1>2. CASE location'[t] = location[t] /\ location'[u] = location[u]
  BY <1>2 DEF PlacesDiffer
<1>3. ASSUME location'[t] # location[t]
      PROVE  location'[t] # location'[u]
  <2>1. ~Occupied(location'[t]) /\ location'[u] = location[u]
    BY <1>1, <1>3 DEF PlaceStep
  <2> QED BY <2>1 DEF Occupied
<1>4. ASSUME location'[u] # location[u], location'[u] # None
      PROVE  location'[t] # location'[u]
  <2>1. ~Occupied(location'[u]) /\ location'[t] = location[t]
    BY <1>1, <1>4 DEF PlaceStep
  <2> QED BY <2>1 DEF Occupied
<1> QED BY <1>2, <1>3, <1>4

\* Git has on record what the binding and the journal say, after every step.
LEMMA LinkStepOnRecord ==
  ASSUME TypeOK, JournalNamesGeneration, RequestsOwn, LinksOnRecord, [Next]_vars,
         NEW t \in Tasks
  PROVE  LinkOnRecord(t)'
<1> SUFFICES ASSUME t \notin stray', binding'[t] # None
             PROVE  /\ journal'[t] = None \/ journal'[t].stage = "reserved" =>
                         linked'[t] \in {binding'[t].path, None}
                    /\ journal'[t] # None =>
                         linked'[t] \in {binding'[t].path, journal'[t].path, None}
  BY DEF LinkOnRecord
<1>1. t \notin stray /\ LinkStep(t) /\ TaskStep(t)
  BY RepoSteps, TaskSteps
<1>2. CASE \E w \in Workers : Rewritten(t, w)
  <2>1. PICK w \in Workers : Rewritten(t, w)
    BY <1>2
  <2>2. req[w].phase \in RunningPhases /\ req[w].task = t
    BY <2>1 DEF Rewritten, RunningPhases
  <2>3. journal[t] # None /\ journal[t].path = req[w].path /\ journal[t].stage # "reserved"
    BY <2>2, RunningPath
  <2> QED BY <2>1, <2>3 DEF Rewritten
<1>3. CASE linked'[t] \in {linked[t], None}
  <2>1. binding[t] # None
    <3>1. CASE binding'[t] = binding[t]
      BY <3>1
    <3>2. CASE \E w \in Workers : Completed(t, w)
      BY <3>2 DEF Completed, MayAdvance
    <3> QED BY <1>1, <3>1, <3>2
            DEF TaskStep, JournalEdited, Dismissed, EndedElsewhere, JournalStarted
  <2>2. /\ journal[t] = None \/ journal[t].stage = "reserved" =>
             linked[t] \in {binding[t].path, None}
        /\ journal[t] # None => linked[t] \in {binding[t].path, journal[t].path, None}
    BY <1>1, <2>1 DEF LinksOnRecord, LinkOnRecord
  <2>3. CASE journal'[t] = journal[t] /\ binding'[t] = binding[t]
    BY <1>3, <2>2, <2>3
  <2>4. CASE JournalEdited(t)
    BY <1>3, <2>2, <2>4 DEF JournalEdited
  <2>5. CASE Dismissed(t)
    BY <1>3, <2>2, <2>5 DEF Dismissed, Dismissible
  <2>6. ASSUME NEW w \in Workers, JournalStarted(t, w)
        PROVE  linked'[t] \in {binding'[t].path, None}
    BY <1>3, <2>2, <2>6 DEF JournalStarted
  <2>7. ASSUME NEW w \in Workers, Completed(t, w)
        PROVE  journal'[t] = None /\ linked'[t] \in {binding'[t].path, None}
    BY <1>1, <1>3, <2>7, CompletedPath DEF Completed
  <2> QED BY <1>1, <2>3, <2>4, <2>5, <2>6, <2>7 DEF TaskStep, EndedElsewhere
<1> QED BY <1>1, <1>2, <1>3 DEF LinkStep

\* What a verification has seen stays so until it is applied.
LEMMA VerifiedStep ==
  ASSUME TypeOK, JournalNamesGeneration, RequestsOwn, LinksOnRecord, [Next]_vars,
         NEW w \in Workers
  PROVE  Verified(req[w])'
<1> SUFFICES ASSUME req'[w].phase = "matches"
             PROVE  /\ req'[w].task \notin stray' =>
                         linked'[req'[w].task] \in {req'[w].path, None}
                    /\ req'[w].task \notin disturbed' =>
                         location'[req'[w].task] = req'[w].path
  BY DEF Verified
<1>1. CASE req'[w] = req[w]
  <2> DEFINE t == req[w].task
  <2>1. req[w].phase = "matches" /\ req[w].phase \in RunningPhases
    BY <1>1 DEF RunningPhases
  <2>2. t \in Tasks /\ t \notin other /\ journal[t] # None /\ journal[t].op = req[w].op
    BY <2>1, RunningPath
  <2>3. /\ t \notin stray => linked[t] \in {req[w].path, None}
        /\ t \notin disturbed => location[t] = req[w].path
    BY <2>1 DEF LinksOnRecord, Verified
  <2>4. LinkStep(t) /\ PlaceStep(t) /\ stray \subseteq stray' /\ disturbed \subseteq disturbed'
    BY <2>2, RepoSteps
  <2>5. ASSUME NEW v \in Workers, Rewritten(t, v), req[v].task = t
        PROVE  FALSE
    <3>1. req[v].phase \in RunningPhases /\ v # w
      BY <2>1, <2>5 DEF Rewritten, RunningPhases
    <3>2. req[v].op = req[w].op
      BY <2>2, <2>5, <3>1, RunningPath
    <3>3. PastLock(v) /\ PastLock(w)
      BY <2>1, <3>1 DEF PastLock, RunningPhases
    <3> QED BY <3>1, <3>2, <3>3 DEF RequestsOwn, OperationsDiffer
  <2>6. t \notin stray' => linked'[t] \in {req[w].path, None}
    BY <2>3, <2>4, <2>5 DEF LinkStep, Rewritten
  <2>7. t \notin disturbed' => location'[t] = req[w].path
    BY <2>2, <2>3, <2>4 DEF PlaceStep
  <2> QED BY <1>1, <2>6, <2>7
<1>2. CASE req'[w] # req[w]
  <2>1. VerifyRepair(w)
    <3>1. ASSUME NEW v \in Workers, NEW t \in Tasks, NEW op \in OpIds, NEW p \in Paths,
                 Request(v, t, op, p)
          PROVE  FALSE
      BY <1>2, <3>1, OthersKept DEF Request
    <3>2. ASSUME NEW v \in Workers, RepairStep(v) \/ LoseRequest(v)
          PROVE  v = w /\ RepairStep(w)
      BY <1>2, <3>2, RepairStepMoves, EndsTyped DEF LoseRequest, Idle
    <3>3. RepairStep(w)
      BY <1>2, <3>1, <3>2
      DEF Next, PlanDismissal, BeginOther, EndOther, LaunchSession, SessionExits,
          ApplyDismissal, Crash, Restart, UserStep, vars, Idle
    <3>4. CASE BeginRefused(w) \/ ApplyVerification(w)
      BY <3>4, EndsTyped DEF BeginRefused, ApplyVerification, Idle
    <3>5. CASE PlanRepair(w) \/ ObserveRepair(w)
      BY <3>5, EndsTyped, OthersKept DEF PlanRepair, ObserveRepair, Idle
    <3>6. CASE \/ BeginStarted(w) \/ BeginResumed(w) \/ BeginVerifying(w)
               \/ ApplyExecution(w)
      BY <3>6, EndsTyped, OthersKept
      DEF BeginStarted, BeginResumed, BeginVerifying, ApplyExecution, Idle, Executing,
          Verifying
    <3>7. CASE ExecuteRepair(w)
      <4>1. req[w] \in Running
        BY <3>7, RequestPhase DEF ExecuteRepair, TypeOK, RequestTypeOK, RunningPhases
      <4>2. PICK ph \in {"executed", "executionFailed"} :
              SetReq(w, [req[w] EXCEPT !.phase = ph])
        BY <3>7 DEF ExecuteRepair
      <4>3. req'[w] = [req[w] EXCEPT !.phase = ph]
        BY <4>2, OthersKept
      <4> QED BY <4>1, <4>2, <4>3 DEF Running
    <3> QED BY <3>3, <3>4, <3>5, <3>6, <3>7 DEF RepairStep
  <2>2. req[w] \in Running
    BY <2>1, RequestPhase DEF VerifyRepair, TypeOK, RequestTypeOK, RunningPhases
  <2>3. PICK ok \in {FALSE, LinkMatches(req[w].task, req[w].path)} :
          SetReq(w, [req[w] EXCEPT !.phase = IF ok THEN "matches" ELSE "differs"])
    BY <2>1 DEF VerifyRepair
  <2>4. req'[w] = [req[w] EXCEPT !.phase = IF ok THEN "matches" ELSE "differs"]
    BY <2>3, OthersKept
  <2>5. ok /\ req'[w].task = req[w].task /\ req'[w].path = req[w].path
    BY <2>2, <2>4 DEF Running
  <2>6. LinkMatches(req[w].task, req[w].path)
    BY <2>3, <2>5
  <2>7. UNCHANGED <<location, linked>>
    BY <2>1 DEF VerifyRepair, repo
  <2> QED BY <2>5, <2>6, <2>7 DEF LinkMatches
<1> QED BY <1>1, <1>2

LEMMA LinksStep ==
  ASSUME TypeOK, JournalNamesGeneration, RequestsOwn, LinksOnRecord, [Next]_vars
  PROVE  LinksOnRecord'
<1>1. PlacesDiffer'
  BY PlacesStep DEF LinksOnRecord
<1> QED BY <1>1, LinkStepOnRecord, VerifiedStep DEF LinksOnRecord

-----------------------------------------------------------------------------
(* Paths *)

\* What a step does to the path of a Task that the user leaves alone
LEMMA BindingMoves ==
  ASSUME TypeOK, JournalNamesGeneration, RequestsOwn, LinksOnRecord, [Next]_vars,
         NEW u \in Tasks, u \notin disturbed', binding'[u] # None
  PROVE  \/ binding'[u] = binding[u]
         \/ /\ journal[u] # None /\ binding'[u].path = journal[u].path
            /\ location[u] = journal[u].path
            /\ \A t \in Tasks : t # u => binding'[t] = binding[t]
<1>1. TaskStep(u) /\ u \notin disturbed
  BY TaskSteps, RepoSteps
<1>2. ASSUME NEW w \in Workers, Completed(u, w)
      PROVE  /\ journal[u] # None /\ binding'[u].path = journal[u].path
             /\ location[u] = journal[u].path
             /\ \A t \in Tasks : t # u => binding'[t] = binding[t]
  BY <1>1, <1>2, CompletedPath DEF Completed
<1> QED BY <1>1, <1>2
        DEF TaskStep, JournalEdited, Dismissed, EndedElsewhere, JournalStarted

\* The path of a repair that another Task came to be bound to is not where the repaired
\* checkout is, after every step.
LEMMA CandidatesStep ==
  ASSUME TypeOK, JournalNamesGeneration, RequestsOwn, LinksOnRecord, PathsOnRecord,
         [Next]_vars
  PROVE  PathsOnRecord'
<1> SUFFICES ASSUME NEW t \in Tasks, NEW u \in Tasks, t # u,
                    {t, u} \cap disturbed' = {}, journal'[t] # None, binding'[u] # None,
                    binding'[u].path = journal'[t].path
             PROVE  location'[t] # journal'[t].path
  BY DEF PathsOnRecord
<1>1. /\ TaskStep(t) /\ PlaceStep(t)
      /\ t \notin disturbed' /\ t \notin disturbed /\ u \notin disturbed' /\ u \notin disturbed
  BY TaskSteps, RepoSteps
<1>2. CASE \E w \in Workers : JournalStarted(t, w)
  <2>1. PICK w \in Workers : JournalStarted(t, w)
    BY <1>2
  <2>2. ~HeldByOther(t, journal'[t].path) /\ binding' = binding
    BY <2>1 DEF JournalStarted, MayBegin
  <2> QED BY <2>2 DEF HeldByOther
<1>3. CASE ~\E w \in Workers : JournalStarted(t, w)
  <2>1. journal[t] # None /\ journal'[t].path = journal[t].path
    BY <1>1, <1>3 DEF TaskStep, JournalEdited, Dismissed, EndedElsewhere, Completed
  <2>2. location'[t] = location[t]
    BY <1>1, <2>1 DEF PlaceStep, JournalNamesGeneration
  <2>3. CASE binding'[u] = binding[u]
    BY <1>1, <2>1, <2>2, <2>3 DEF PathsOnRecord
  <2>4. CASE binding'[u].path = journal[u].path /\ location[u] = journal[u].path
             /\ journal[u] # None
    <3>1. location[u] # None
      BY <2>4, NoneAssumption DEF TypeOK, StoreTypeOK, RepairJournal
    <3> QED BY <2>1, <2>2, <2>4, <3>1 DEF LinksOnRecord, PlacesDiffer
  <2> QED BY <1>1, <2>3, <2>4, BindingMoves
<1> QED BY <1>2, <1>3

\* No two Tasks are bound to one path, after every step.
LEMMA ExclusiveStep ==
  ASSUME TypeOK, JournalNamesGeneration, RequestsOwn, LinksOnRecord, PathsOnRecord,
         PathsExclusive, [Next]_vars
  PROVE  PathsExclusive'
<1> SUFFICES ASSUME NEW t \in Tasks, NEW u \in Tasks, t # u,
                    binding'[t] # None, binding'[u] # None, {t, u} \cap disturbed' = {}
             PROVE  binding'[t].path # binding'[u].path
  BY DEF PathsExclusive
<1>1. /\ t \notin disturbed' /\ t \notin disturbed /\ u \notin disturbed' /\ u \notin disturbed
  BY RepoSteps
<1>2. ASSUME NEW x \in Tasks, NEW y \in Tasks, x # y, {x, y} \cap disturbed = {},
             journal[x] # None, binding'[x].path = journal[x].path,
             location[x] = journal[x].path, binding'[y] = binding[y], binding'[y] # None
      PROVE  binding'[x].path # binding'[y].path
  BY <1>2 DEF PathsOnRecord
<1>3. CASE binding'[t] = binding[t] /\ binding'[u] = binding[u]
  BY <1>1, <1>3 DEF PathsExclusive
<1>4. CASE binding'[t] # binding[t]
  BY <1>1, <1>2, <1>4, BindingMoves
<1>5. CASE binding'[u] # binding[u]
  BY <1>1, <1>2, <1>5, BindingMoves
<1> QED BY <1>3, <1>4, <1>5

-----------------------------------------------------------------------------
(* The theorems *)

LEMMA RepairInit ==
  ASSUME Init
  PROVE  RepairInv
<1>1. PICK path \in [Tasks -> Paths] :
        /\ \A t, u \in Tasks : t # u => path[t] # path[u]
        /\ binding = [t \in Tasks |-> [path |-> path[t], gen |-> 1]]
        /\ location = path /\ linked = path
  BY DEF Init
<1>2. /\ \A t \in Tasks : journal[t] = None /\ receipt[t] = None
      /\ \A w \in Workers : req[w] = Idle
      /\ disturbed = {} /\ stray = {} /\ up = TRUE
  BY DEF Init
<1>3. TypeOK
  BY <1>1 DEF Init, TypeOK, StoreTypeOK, RepoTypeOK, RequestTypeOK, DaemonTypeOK, Bound,
              RepairRequest
<1>4. JournalNamesGeneration /\ PathsOnRecord
  BY <1>2 DEF JournalNamesGeneration, PathsOnRecord
<1>5. RequestsOwn
  BY <1>2 DEF RequestsOwn, OperationsFixed, OperationsDiffer, PastLock, Owns,
              DownMeansIdle, Idle, RunningPhases
<1>6. LinksOnRecord
  BY <1>1, <1>2 DEF LinksOnRecord, PlacesDiffer, LinkOnRecord, Verified, Idle
<1>7. PathsExclusive
  BY <1>1 DEF PathsExclusive
<1> QED BY <1>3, <1>4, <1>5, <1>6, <1>7 DEF RepairInv

\* The invariant of worktree repair holds in every behaviour of the saga, with crashes,
\* lost requests, retries, dismissals, other sagas and a user who moves checkouts.
THEOREM RepairInvariant == Spec => []RepairInv
<1>1. Init => RepairInv
  BY RepairInit
<1>2. RepairInv /\ [Next]_vars => RepairInv'
  <2> SUFFICES ASSUME RepairInv, [Next]_vars PROVE RepairInv'
    OBVIOUS
  <2>1. TypeOK'
    BY TypeStep DEF RepairInv
  <2>2. JournalNamesGeneration'
    BY <2>1, GenerationsStep DEF RepairInv
  <2>3. RequestsOwn' /\ LinksOnRecord'
    BY <2>1, RequestsOwnStep, LinksStep DEF RepairInv
  <2>4. PathsOnRecord' /\ PathsExclusive'
    BY CandidatesStep, ExclusiveStep DEF RepairInv
  <2> QED BY <2>1, <2>2, <2>3, <2>4 DEF RepairInv
<1> QED BY <1>1, <1>2, PTL DEF Spec

\* The store, the repository and every request in flight keep their types.
THEOREM RepairTypes == Spec => []TypeOK
<1>1. RepairInv => TypeOK
  BY DEF RepairInv
<1> QED BY <1>1, RepairInvariant, PTL

\* No two Tasks come to be bound to one path, whichever repairs run side by side, as long
\* as the user leaves a checkout where it is while its repair is on record
\* (begin_task_worktree_repair looks for the conflict, complete_task_worktree_repair does
\* not).
THEOREM RepairPaths == Spec => []PathsExclusive
<1>1. RepairInv => PathsExclusive
  BY DEF RepairInv
<1> QED BY <1>1, RepairInvariant, PTL

\* The journal of a repair names the generation it repairs and stands beside no other
\* saga's, its paths stay reserved while Git works, and a link that Git has rewritten is
\* followed by the binding or has a journal to tell.
THEOREM RepairJournals == Spec => []RepairJournalSound
<1>1. RepairInv => RepairJournalSound
  <2> SUFFICES ASSUME RepairInv PROVE RepairJournalSound
    OBVIOUS
  <2>1. RepairReserved
    BY DEF RepairInv, RequestsOwn, Owns, RepairReserved, OwnJournal, RunningPhases
  <2>2. NoForgottenRepair
    <3> SUFFICES ASSUME NEW t \in Tasks, t \notin stray, binding[t] # None,
                        location[t] # None, linked[t] = location[t], journal[t] = None
                 PROVE  binding[t].path = location[t]
      BY DEF NoForgottenRepair
    <3> QED BY DEF RepairInv, LinksOnRecord, LinkOnRecord
  <2> QED BY <2>1, <2>2 DEF RepairInv, RepairJournalSound
<1> QED BY <1>1, RepairInvariant, PTL

\* The worktree of a Task moves one generation at a time, whatever the retries and the
\* repairs beside it (complete_task_worktree_repair).
THEOREM RepairGenerations == Spec => MovesWithGeneration
<1>1. RepairInv /\ [Next]_vars =>
        [\A t \in Tasks :
           binding[t] # None /\ binding'[t] # None /\ binding'[t] # binding[t] =>
             binding'[t].gen = binding[t].gen + 1]_vars
  <2> SUFFICES ASSUME RepairInv, [Next]_vars, NEW t \in Tasks,
                      binding[t] # None, binding'[t] # None, binding'[t] # binding[t]
               PROVE  binding'[t].gen = binding[t].gen + 1
    OBVIOUS
  <2>1. TaskStep(t)
    BY TaskSteps DEF RepairInv
  <2>2. PICK w \in Workers : Completed(t, w)
    BY <2>1 DEF TaskStep, JournalEdited, Dismissed, EndedElsewhere, JournalStarted
  <2> QED BY <2>2 DEF Completed, MayAdvance
<1> QED BY <1>1, RepairInvariant, PTL DEF Spec, MovesWithGeneration

=============================================================================
