------------------------ MODULE StaleResolutionProofs ------------------------
(***************************************************************************)
(* The safety of stale-worktree resolution, proved for every number of     *)
(* requests in flight, operation ids, generations and faults.              *)
(*                                                                         *)
(* None of the four invariants is inductive.  StaleInv is, and implies     *)
(* them:                                                                   *)
(*   RecordsAgree    binding, journal, cleanup and sessions go together;   *)
(*   RequestsAgree   what a request remembers was true of its generation;  *)
(*   RequestsOwn     without repeated requests, a disposal owns its        *)
(*                   journal from its beginning to its end;                *)
(*   DiscardsAgree   without repeated requests and other programs, what    *)
(*                   was removed, what is on record and what a request     *)
(*                   observed agree.                                       *)
(***************************************************************************)
EXTENDS StaleResolution, TLAPS

-----------------------------------------------------------------------------
(* The inductive invariant *)

DisposalPhases == {"executing", "removing", "refused", "removed", "removalFailed"}

\* The generation says whether there is a proof.
GenerationAgrees ==
  binding # None => binding.gen = gen /\ (binding.managed <=> gen > 0)

\* The journal of a disposal keeps sessions out.
JournalKeepsSessionsOut ==
  journal # None /\ journal.mode = "discardDirectory" => ~attached

DownMeansIdle == ~up => \A w \in Workers : req[w] = Idle

\* Discarded generations are past ones, or the present one.
PastKnown == \A d \in discarded : d.of <= gen

RecordsAgree ==
  /\ GenerationAgrees /\ JournalNamesBinding /\ JournalKeepsSessionsOut
  /\ DownMeansIdle /\ PastKnown

\* A request is of a generation the Task has had, and has seen what it means to remove.
RequestAgrees(r) ==
  /\ r # Idle => r.gen <= gen /\ (r.managed <=> r.gen > 0)
  /\ r.phase = "observed" /\ r.mode = "discardDirectory" =>
       (r.facts.kind # None => r.facts.target # None)
  /\ r.phase = "removed" => \E d \in discarded : d.by = r.gen

RequestsAgree == \A w \in Workers : RequestAgrees(req[w])

OperationsDiffer ==
  \A v, w \in Workers :
    v # w /\ req[v] # Idle /\ req[w] # Idle => req[v].op # req[w].op

OwnsJournal(r) ==
  r.phase \in DisposalPhases =>
    journal # None /\ SameIntent(journal, r) /\ journal.stage # "reserved"

\* Requests in flight are of different operations, and a disposal under way has the
\* journal, past its reservation.
RequestsOwn ==
  ~repeated => OperationsDiffer /\ \A w \in Workers : OwnsJournal(req[w])

Discarded(g) == \E d \in discarded : d.by = g

\* The directory of the current generation has not been removed.
Intact == dir # None /\ \A d \in discarded : d.of # gen

\* The store agrees with what was removed: a removal of the current generation is on
\* record, an absent directory or a late stage of a disposal means a removal, and a
\* reservation means none.
DiscardRecords ==
  /\ \A d \in discarded : d.of = gen /\ binding # None => dir = None /\ journal # None
  /\ /\ journal # None /\ journal.mode = "discardDirectory"
     /\ dir = None \/ journal.stage \in {"removalInvoked", "removalVerified"}
     => Discarded(journal.gen)
  /\ journal # None /\ journal.stage = "reserved" =>
       \A d \in discarded : d.of # gen
  /\ receipt # None /\ receipt.mode = "discardDirectory" => Discarded(receipt.gen)

\* What a disposal has seen is still so, as long as its tuple is current and no other
\* operation has the journal.
DiscardRequest(r) ==
  /\ /\ r.phase = "observed" /\ r.mode = "discardDirectory" /\ r.facts.kind # None
     /\ TupleCurrent(r) /\ (journal # None => journal.op = r.op)
     => Intact
  /\ r.phase \in {"executing", "removing", "refused"} => Intact
  /\ /\ r.phase = "observed" /\ r.mode = "discardDirectory" /\ r.facts.absent
     /\ TupleCurrent(r)
     => dir = None

DiscardsAgree ==
  changes = 0 /\ ~repeated =>
    /\ DiscardRecords
    /\ \A w \in Workers : DiscardRequest(req[w])

StaleInv == TypeOK /\ RecordsAgree /\ RequestsAgree /\ RequestsOwn /\ DiscardsAgree

-----------------------------------------------------------------------------
(* Types *)

\* A request in flight carries what its phase says it carries.
LEMMA RequestPhase ==
  ASSUME NEW r \in Request
  PROVE  /\ r.phase = "idle" <=> r = Idle
         /\ r.phase = "planned" => r \in Planned
         /\ r.phase = "observed" => r \in ObservedForget \cup ObservedDiscard
         /\ r.phase = "observed" /\ r.mode = "discardDirectory" => r \in ObservedDiscard
         /\ r.phase = "observed" /\ r.mode # "discardDirectory" => r \in ObservedForget
         /\ r.phase = "revalidating" => r \in Revalidating
         /\ r.phase \in DisposalPhases => r \in Disposing
         /\ r # Idle => /\ r.op \in OpIds /\ r.mode \in Modes
                        /\ r.gen \in Nat /\ r.managed \in BOOLEAN
BY DEF Request, Idle, Planned, ObservedForget, ObservedDiscard, Revalidating, Disposing,
       DisposalPhases, Modes

\* Storing a typed request for a worker keeps the requests typed.
LEMMA SetReqTyped ==
  ASSUME TypeOK, NEW w \in Workers, NEW r \in Request, SetReq(w, r)
  PROVE  RequestTypeOK'
BY DEF TypeOK, RequestTypeOK, SetReq

LEMMA EndsTyped ==
  ASSUME TypeOK, NEW w \in Workers, Ends(w)
  PROVE  RequestTypeOK'
BY SetReqTyped DEF Ends, Request

LEMMA FactsTyped ==
  ASSUME TypeOK, NEW managed \in BOOLEAN
  PROVE  Facts(managed) \in TargetFacts
BY DEF TypeOK, PathTypeOK, Facts, TargetFacts, Kind, Kinds, BothAbsent

LEMMA CompleteTyped ==
  ASSUME TypeOK, journal # None, Complete(journal)
  PROVE  StoreTypeOK'
BY DEF TypeOK, StoreTypeOK, Complete, StaleJournal, Receipt

LEMMA WriteCutTyped ==
  ASSUME TypeOK, NEW w \in Workers, WriteCut(w)
  PROVE  StoreTypeOK'
<1>1. CASE /\ req[w].phase = "removed" /\ MayAdvance(req[w])
           /\ \E s \in {"removalInvoked", "removalVerified"} :
                journal' = [journal EXCEPT !.stage = s, !.failed = FALSE]
           /\ UNCHANGED <<binding, gen, receipt, cleanup>>
  BY <1>1 DEF TypeOK, StoreTypeOK, MayAdvance, OwnJournal, StaleJournal, Stages
<1>2. CASE /\ CompletesAbsent(req[w])
           /\ journal' = [journal EXCEPT !.stage = "removalVerified", !.failed = FALSE]
           /\ UNCHANGED <<binding, gen, receipt, cleanup>>
  BY <1>2 DEF TypeOK, StoreTypeOK, CompletesAbsent, Interrupted, OwnJournal,
               StaleJournal, Stages
<1>3. CASE /\ MayBegin(w) /\ journal = None /\ req[w].mode = "discardDirectory"
           /\ journal' = Journal(req[w].op, req[w].mode, "reserved")
           /\ cleanup' = "none"
           /\ UNCHANGED <<binding, gen, receipt>>
  <2>1. req[w].op \in OpIds /\ req[w].mode \in Modes
    BY <1>3, RequestPhase DEF TypeOK, RequestTypeOK, MayBegin, Idle
  <2>2. binding \in Binding
    BY <1>3, <2>1, RequestPhase, NoneAssumption
    DEF TypeOK, StoreTypeOK, RequestTypeOK, MayBegin, TupleCurrent, Binding, Idle
  <2> QED BY <1>3, <2>1, <2>2
          DEF TypeOK, StoreTypeOK, Journal, StaleJournal, Stages, Binding, CleanupStates
<1> QED BY <1>1, <1>2, <1>3 DEF WriteCut

\* The step that begin returns is a typed request.
LEMMA NextStepTyped ==
  ASSUME TypeOK, RequestsAgree, NEW w \in Workers, MayBegin(w), NextStep(w)
  PROVE  /\ RequestTypeOK'
         /\ req[w] \in ObservedForget \cup ObservedDiscard
         /\ binding \in Binding
<1>1. /\ req[w] \in ObservedForget \cup ObservedDiscard
      /\ req[w].mode = "forgetBinding" => req[w] \in ObservedForget
      /\ req[w].mode # "forgetBinding" => req[w] \in ObservedDiscard
  BY RequestPhase DEF TypeOK, RequestTypeOK, MayBegin, ObservedForget, ObservedDiscard
<1>2. binding \in Binding
  BY <1>1, NoneAssumption
  DEF TypeOK, StoreTypeOK, MayBegin, TupleCurrent, Binding, ObservedForget,
      ObservedDiscard
<1>3. CASE req[w].mode = "forgetBinding"
  BY <1>1, <1>2, <1>3, SetReqTyped
  DEF NextStep, Request, Revalidating, ObservedForget
<1>4. CASE req[w].mode # "forgetBinding"
  <2>1. req[w].facts \in TargetFacts /\ req[w].facts.kind # None
        /\ req[w].mode = "discardDirectory"
    BY <1>1, <1>4 DEF ObservedDiscard, MayBegin, Unblocked
  <2>2. req[w].facts.target \in Leaf
    BY <1>1, <1>4, <2>1
    DEF RequestsAgree, RequestAgrees, ObservedDiscard, TargetFacts, MayBegin
  <2> DEFINE r == [phase |-> "executing", op |-> req[w].op, mode |-> req[w].mode,
                   gen |-> req[w].gen, managed |-> req[w].managed,
                   kind |-> req[w].facts.kind, target |-> req[w].facts.target,
                   git |-> AllowsGitMetadata(req[w]) /\ req[w].facts.target.git,
                   tries |-> 0]
  <2>3. (AllowsGitMetadata(req[w]) /\ req[w].facts.target.git) \in BOOLEAN
    OBVIOUS
  <2>4. r \in Disposing
    BY <1>1, <1>4, <2>1, <2>2, <2>3 DEF Disposing, ObservedDiscard, TargetFacts
  <2>5. SetReq(w, r)
    BY <1>4 DEF NextStep
  <2> QED BY <1>1, <1>2, <2>4, <2>5, SetReqTyped DEF Request
<1> QED BY <1>3, <1>4

\* What is left of a directory is a directory of the same identity.
LEMMA PartTyped ==
  ASSUME TypeOK, NEW r, RemovesPart(r)
  PROVE  /\ dir' \in Leaf \cup {None} /\ (dir' = None <=> dir = None)
         /\ dir' = dir \/ (dir # None /\ dir' = [dir EXCEPT !.git = FALSE])
<1>1. CASE UNCHANGED dir
  BY <1>1 DEF TypeOK, PathTypeOK
<1>2. CASE MayRemove(r) /\ dir' = [dir EXCEPT !.git = FALSE]
  <2>1. dir \in Leaf /\ dir # None
    BY <1>2 DEF MayRemove, LeafExact, TypeOK, PathTypeOK
  <2>2. dir' \in Leaf
    BY <1>2, <2>1 DEF Leaf
  <2> QED BY <1>2, <2>1, <2>2, NoneAssumption
<1> QED BY <1>1, <1>2 DEF RemovesPart

\* Every step keeps the types.
LEMMA TypeStep ==
  ASSUME TypeOK, RequestsAgree, [Next]_vars
  PROVE  TypeOK'
<1> USE DEF TypeOK
<1>1. ASSUME NEW w \in Workers, NEW op \in OpIds, NEW mode \in Modes, Plan(w, op, mode)
      PROVE  TypeOK'
  <2> DEFINE r == [phase |-> "planned", op |-> op, mode |-> mode,
                   gen |-> binding.gen, managed |-> binding.managed]
  <2>1. r \in Planned
    BY <1>1 DEF Plan, StoreTypeOK, Binding, Planned
  <2>2. RequestTypeOK'
    BY <1>1, <2>1, SetReqTyped DEF Plan, Request
  <2> QED BY <1>1, <2>2
          DEF Plan, StoreTypeOK, PathTypeOK, DaemonTypeOK, store, path, env
<1>2. ASSUME NEW w \in Workers, Observe(w)
      PROVE  TypeOK'
  <2> DEFINE facts == IF req[w].mode = "forgetBinding" THEN None
                      ELSE Facts(req[w].managed)
             r == [phase |-> "observed", op |-> req[w].op, mode |-> req[w].mode,
                   gen |-> req[w].gen, managed |-> req[w].managed, facts |-> facts]
  <2>1. req[w] \in Planned
    BY <1>2, RequestPhase DEF Observe, RequestTypeOK
  <2>2. r \in Request
    <3>1. CASE req[w].mode = "forgetBinding"
      <4>1. r \in ObservedForget
        BY <2>1, <3>1 DEF Planned, ObservedForget
      <4> QED BY <4>1 DEF Request
    <3>2. CASE req[w].mode # "forgetBinding"
      <4>1. Facts(req[w].managed) \in TargetFacts
        BY <2>1, FactsTyped DEF Planned
      <4>2. r \in ObservedDiscard
        BY <2>1, <3>2, <4>1 DEF Planned, Modes, ObservedDiscard
      <4> QED BY <4>2 DEF Request
    <3> QED BY <3>1, <3>2
  <2>3. RequestTypeOK'
    BY <1>2, <2>2, SetReqTyped DEF Observe
  <2> QED BY <1>2, <2>3
          DEF Observe, StoreTypeOK, PathTypeOK, DaemonTypeOK, store, path, history, env
<1>3. ASSUME NEW w \in Workers, ObservationFails(w) \/ BeginRefused(w)
      PROVE  TypeOK'
  BY <1>3, EndsTyped
  DEF ObservationFails, BeginRefused, StoreTypeOK, PathTypeOK, DaemonTypeOK, store, path,
      history, env
<1>4. ASSUME NEW w \in Workers, BeginAbsent(w)
      PROVE  TypeOK'
  <2>1. journal # None
    BY <1>4 DEF BeginAbsent, CompletesAbsent, Interrupted, OwnJournal
  <2>2. StoreTypeOK' /\ RequestTypeOK'
    BY <1>4, <2>1, CompleteTyped, EndsTyped DEF BeginAbsent
  <2> QED BY <1>4, <2>2 DEF BeginAbsent, PathTypeOK, DaemonTypeOK, path, history, env
<1>5. ASSUME NEW w \in Workers, BeginStarted(w) \/ BeginCurrent(w) \/ BeginRetry(w)
      PROVE  TypeOK'
  <2>1. MayBegin(w) /\ NextStep(w)
    BY <1>5 DEF BeginStarted, BeginCurrent, BeginRetry
  <2>2. /\ RequestTypeOK' /\ binding \in Binding
        /\ req[w] \in ObservedForget \cup ObservedDiscard
    BY <2>1, NextStepTyped
  <2>3. CASE BeginStarted(w)
    BY <2>2, <2>3
    DEF BeginStarted, StoreTypeOK, PathTypeOK, DaemonTypeOK, path, history, env, Journal,
        FirstStage, StaleJournal, Stages, Binding, ObservedForget, ObservedDiscard, Modes,
        CleanupStates
  <2>4. CASE BeginCurrent(w)
    BY <2>2, <2>4
    DEF BeginCurrent, StoreTypeOK, PathTypeOK, DaemonTypeOK, path, history, env,
        FirstStage, StaleJournal, Stages
  <2>5. CASE BeginRetry(w)
    BY <2>2, <2>5
    DEF BeginRetry, StoreTypeOK, PathTypeOK, DaemonTypeOK, path, history, env,
        StaleJournal
  <2> QED BY <1>5, <2>3, <2>4, <2>5
<1>6. ASSUME NEW w \in Workers, ApplyForget(w) \/ ApplyRemoved(w)
      PROVE  TypeOK'
  <2>1. RequestTypeOK'
    BY <1>6, EndsTyped DEF ApplyForget, ApplyRemoved
  <2>2. StoreTypeOK'
    BY <1>6, CompleteTyped
    DEF ApplyForget, ApplyRemoved, MayForget, MayAdvance, OwnJournal, StoreTypeOK, store
  <2> QED BY <1>6, <2>1, <2>2
          DEF ApplyForget, ApplyRemoved, PathTypeOK, DaemonTypeOK, path, history, env
<1>7. ASSUME NEW w \in Workers, CheckTarget(w) \/ Remove(w) \/ RemoveFails(w)
      PROVE  TypeOK'
  <2>1. req[w] \in Disposing
    BY <1>7, RequestPhase
    DEF CheckTarget, Remove, Removal, RemoveFails, RequestTypeOK, DisposalPhases
  <2>2. PICK ph \in {"removing", "refused", "removed", "removalFailed"} :
          SetReq(w, [req[w] EXCEPT !.phase = ph])
    BY <1>7 DEF CheckTarget, Remove, RemoveFails
  <2>3. [req[w] EXCEPT !.phase = ph] \in Disposing
    BY <2>1, <2>2 DEF Disposing
  <2>4. RequestTypeOK'
    BY <2>2, <2>3, SetReqTyped DEF Request
  <2>5. CASE CheckTarget(w)
    BY <2>4, <2>5
    DEF CheckTarget, StoreTypeOK, PathTypeOK, DaemonTypeOK, store, path, history, env
  <2>6. ASSUME Removal(w)
        PROVE  dir' = None /\ discarded' \subseteq [by : Nat, of : Nat] /\ repeated' = repeated
    BY <2>1, <2>6 DEF Removal, StoreTypeOK, DaemonTypeOK, Disposing
  <2>7. CASE Remove(w)
    BY <2>4, <2>6, <2>7 DEF Remove, StoreTypeOK, PathTypeOK, DaemonTypeOK, store, env
  <2>8. ASSUME RemoveFails(w), RemovesPart(req[w]), UNCHANGED <<registered, history>>
        PROVE  TypeOK'
    BY <2>4, <2>8, PartTyped
    DEF RemoveFails, StoreTypeOK, PathTypeOK, DaemonTypeOK, store, history, env
  <2>9. CASE RemoveFails(w)
    BY <2>4, <2>6, <2>8, <2>9
    DEF RemoveFails, StoreTypeOK, PathTypeOK, DaemonTypeOK, store, history, env
  <2> QED BY <1>7, <2>5, <2>7, <2>9
<1>16. ASSUME NEW w \in Workers, RetryRemoval(w)
       PROVE  TypeOK'
  <2>1. req[w] \in Disposing
    BY <1>16, RequestPhase DEF RetryRemoval, RequestTypeOK, DisposalPhases
  <2>2. [req[w] EXCEPT !.tries = @ + 1] \in Disposing
    BY <2>1 DEF Disposing
  <2>3. RequestTypeOK'
    BY <1>16, <2>2, SetReqTyped DEF RetryRemoval, Request
  <2> QED BY <1>16, <2>3, PartTyped
          DEF RetryRemoval, StoreTypeOK, PathTypeOK, DaemonTypeOK, store, history, env
<1>8. ASSUME NEW w \in Workers, ApplyRefused(w) \/ ApplyRemovalFailed(w)
      PROVE  TypeOK'
  <2>1. RequestTypeOK'
    BY <1>8, EndsTyped DEF ApplyRefused, ApplyRemovalFailed
  <2> QED BY <1>8, <2>1
          DEF ApplyRefused, ApplyRemovalFailed, OwnJournal, StoreTypeOK, StaleJournal,
              PathTypeOK, DaemonTypeOK, path, history, env
<1>9. ASSUME NEW w \in Workers, LoseRequest(w)
      PROVE  TypeOK'
  <2>1. RequestTypeOK'
    BY <1>9, EndsTyped DEF LoseRequest
  <2>2. StoreTypeOK'
    BY <1>9, WriteCutTyped DEF LoseRequest, StoreTypeOK, store
  <2> QED BY <1>9, <2>1, <2>2
          DEF LoseRequest, PathTypeOK, DaemonTypeOK, path, history
<1>10. CASE Crash
  <2>1. StoreTypeOK'
    BY <1>10, WriteCutTyped DEF Crash, StoreTypeOK, store
  <2>2. RequestTypeOK'
    BY <1>10 DEF Crash, Dies, RequestTypeOK, Request
  <2>3. Dies
    BY <1>10 DEF Crash
  <2>4. crashes' \in Nat
    BY <2>3 DEF Dies, DaemonTypeOK
  <2>5. PathTypeOK' /\ DaemonTypeOK'
    BY <2>3, <2>4 DEF Dies, PathTypeOK, DaemonTypeOK, path, history
  <2> QED BY <2>1, <2>2, <2>5
<1>11. CASE Restart
  <2>1. StoreTypeOK'
    BY <1>11, CompleteTyped DEF Restart, Reconciled, StoreTypeOK, store, StaleJournal
  <2> QED BY <1>11, <2>1
          DEF Restart, RequestTypeOK, PathTypeOK, DaemonTypeOK, path, history, env
<1>12. CASE LaunchSession \/ SessionExits \/ BeginCleanup \/ EndCleanup
  BY <1>12
  DEF LaunchSession, SessionExits, BeginCleanup, EndCleanup, StoreTypeOK, RequestTypeOK,
      PathTypeOK, DaemonTypeOK, store, path, history, env, CleanupStates
<1>13. CASE Provision
  <2>1. dir' \in Leaf /\ registered' = TRUE
    BY <1>13 DEF Provision, Leaf
  <2>2. binding' \in Binding /\ gen' \in Nat
    BY <1>13 DEF Provision, StoreTypeOK, Binding
  <2> QED BY <1>13, <2>1, <2>2
          DEF Provision, StoreTypeOK, RequestTypeOK, PathTypeOK, DaemonTypeOK, history, env
<1>14. CASE OutsideChange
  <2>1. StoreTypeOK' /\ RequestTypeOK' /\ DaemonTypeOK'
    BY <1>14 DEF OutsideChange, StoreTypeOK, RequestTypeOK, DaemonTypeOK, store, history
  <2>2. registered' \in BOOLEAN
    BY <1>14 DEF OutsideChange, PathTypeOK
  <2>3. dir' \in Leaf \cup {None}
    BY <1>14 DEF OutsideChange, PathTypeOK
  <2> QED BY <2>1, <2>2, <2>3 DEF PathTypeOK
<1>15. CASE UNCHANGED vars
  BY <1>15
  DEF vars, StoreTypeOK, RequestTypeOK, PathTypeOK, DaemonTypeOK, store, path, history,
      env
<1> QED BY <1>1, <1>2, <1>3, <1>4, <1>5, <1>6, <1>7, <1>8, <1>9, <1>10, <1>11, <1>12,
           <1>13, <1>14, <1>15, <1>16
        DEF Next, RequestStep

-----------------------------------------------------------------------------
(* The records *)

\* A request in flight has a daemon.
LEMMA InFlightIsUp ==
  ASSUME TypeOK, DownMeansIdle, NEW w \in Workers, req[w].phase # "idle"
  PROVE  up
BY DEF DownMeansIdle, Idle

\* What a step does to the journal, the binding and the cleanup record
JournalEdited ==
  /\ journal # None /\ journal' # None
  /\ journal'.op = journal.op /\ journal'.mode = journal.mode
  /\ journal'.gen = journal.gen /\ journal'.managed = journal.managed
  /\ UNCHANGED <<binding, gen, receipt, cleanup>>

JournalCleared ==
  journal # None /\ journal' = None /\ UNCHANGED <<binding, gen, receipt, cleanup>>

JournalStarted(w) ==
  /\ journal = None /\ MayBegin(w) /\ binding # None
  /\ journal' # None
  /\ journal'.op = req[w].op /\ journal'.mode = req[w].mode
  /\ journal'.gen = binding.gen /\ journal'.managed = binding.managed
  /\ cleanup' = "none" /\ UNCHANGED <<binding, gen, receipt>>

Completed == journal # None /\ Complete(journal)

StoreStep ==
  \/ UNCHANGED store \/ JournalEdited \/ JournalCleared \/ Completed
  \/ \E w \in Workers : JournalStarted(w)

LEMMA WriteCutStoreStep ==
  ASSUME TypeOK, NEW w \in Workers, WriteCut(w)
  PROVE  StoreStep
<1>1. StoreTypeOK'
  BY WriteCutTyped
<1>2. CASE /\ req[w].phase = "removed" /\ MayAdvance(req[w])
           /\ \E s \in {"removalInvoked", "removalVerified"} :
                journal' = [journal EXCEPT !.stage = s, !.failed = FALSE]
           /\ UNCHANGED <<binding, gen, receipt, cleanup>>
  <2>1. journal \in StaleJournal
    BY <1>2 DEF TypeOK, StoreTypeOK, MayAdvance, OwnJournal
  <2>2. PICK s : journal' = [journal EXCEPT !.stage = s, !.failed = FALSE]
    BY <1>2
  <2>3. journal' # None
    BY <1>2, <2>1, NoneAssumption DEF StaleJournal, Stages
  <2> QED BY <1>2, <2>1, <2>2, <2>3, NoneAssumption
          DEF StaleJournal, StoreStep, JournalEdited
<1>3. CASE /\ CompletesAbsent(req[w])
           /\ journal' = [journal EXCEPT !.stage = "removalVerified", !.failed = FALSE]
           /\ UNCHANGED <<binding, gen, receipt, cleanup>>
  <2>1. journal \in StaleJournal
    BY <1>3 DEF TypeOK, StoreTypeOK, CompletesAbsent, Interrupted, OwnJournal
  <2>2. journal' # None
    BY <1>3, <2>1, NoneAssumption DEF StaleJournal, Stages
  <2> QED BY <1>3, <2>1, <2>2, NoneAssumption
          DEF StaleJournal, StoreStep, JournalEdited
<1>4. CASE /\ MayBegin(w) /\ journal = None /\ req[w].mode = "discardDirectory"
           /\ journal' = Journal(req[w].op, req[w].mode, "reserved")
           /\ cleanup' = "none"
           /\ UNCHANGED <<binding, gen, receipt>>
  <2>1. req[w].op \in OpIds /\ req[w].mode \in Modes
    BY <1>4, RequestPhase DEF TypeOK, RequestTypeOK, MayBegin, Idle
  <2>2. binding \in Binding
    BY <1>4, <2>1, RequestPhase, NoneAssumption
    DEF TypeOK, StoreTypeOK, RequestTypeOK, MayBegin, TupleCurrent, Binding, Idle
  <2>3. journal' \in StaleJournal
    BY <1>4, <2>1, <2>2 DEF Journal, StaleJournal, Stages, Binding
  <2>4. JournalStarted(w)
    BY <1>4, <2>2, <2>3, NoneAssumption DEF JournalStarted, Journal
  <2> QED BY <2>4 DEF StoreStep
<1> QED BY <1>2, <1>3, <1>4 DEF WriteCut

\* A step of a request changes the store in one of these ways, and no session.
LEMMA RequestStoreStep ==
  ASSUME TypeOK, TypeOK', RequestsAgree, NEW w \in Workers, RequestStep(w) \/ LoseRequest(w)
  PROVE  StoreStep /\ UNCHANGED <<up, attached>> /\ req[w].phase # "idle"
<1>1. ASSUME BeginStarted(w) \/ BeginCurrent(w) \/ BeginRetry(w)
      PROVE  StoreStep
  <2>1. MayBegin(w) /\ NextStep(w)
    BY <1>1 DEF BeginStarted, BeginCurrent, BeginRetry
  <2>2. /\ binding \in Binding /\ binding # None
        /\ req[w] \in ObservedForget \cup ObservedDiscard
    BY <2>1, NextStepTyped, NoneAssumption
  <2>3. CASE BeginStarted(w)
    <3>1. journal' = Journal(req[w].op, req[w].mode, FirstStage(req[w].mode))
      BY <2>3 DEF BeginStarted
    <3>2. journal' \in StaleJournal
      BY <2>2, <3>1
      DEF Journal, StaleJournal, FirstStage, Stages, Binding, ObservedForget,
          ObservedDiscard, Modes
    <3>3. /\ journal' # None
          /\ journal'.op = req[w].op /\ journal'.mode = req[w].mode
          /\ journal'.gen = binding.gen /\ journal'.managed = binding.managed
      BY <3>1, <3>2, NoneAssumption DEF Journal
    <3>4. JournalStarted(w)
      BY <2>2, <2>3, <3>3 DEF BeginStarted, JournalStarted
    <3> QED BY <3>4 DEF StoreStep
  <2>4. CASE BeginCurrent(w)
    <3>1. journal \in StaleJournal
      BY <2>4 DEF TypeOK, StoreTypeOK, BeginCurrent
    <3> QED BY <2>4, <3>1, NoneAssumption
            DEF BeginCurrent, StoreStep, JournalEdited, store, StaleJournal, FirstStage,
                Stages
  <2>5. CASE BeginRetry(w)
    <3>1. journal \in StaleJournal
      BY <2>5 DEF TypeOK, StoreTypeOK, BeginRetry
    <3> QED BY <2>5, <3>1, NoneAssumption
            DEF BeginRetry, StoreStep, JournalEdited, StaleJournal
  <2> QED BY <1>1, <2>3, <2>4, <2>5
<1>2. ASSUME ApplyRemovalFailed(w) \/ ApplyRefused(w)
      PROVE  StoreStep
  <2>1. CASE journal' = journal
    BY <1>2, <2>1 DEF ApplyRemovalFailed, ApplyRefused, StoreStep, store
  <2>2. CASE ApplyRefused(w) /\ journal' # journal
    BY <2>2 DEF ApplyRefused, MayClear, OwnJournal, StoreStep, JournalCleared
  <2>3. CASE ApplyRemovalFailed(w) /\ journal' # journal
    <3>1. journal \in StaleJournal
      BY <2>3 DEF ApplyRemovalFailed, OwnJournal, TypeOK, StoreTypeOK
    <3> QED BY <2>3, <3>1, NoneAssumption
            DEF ApplyRemovalFailed, StoreStep, JournalEdited, StaleJournal
  <2> QED BY <1>2, <2>1, <2>2, <2>3
<1>3. ASSUME BeginAbsent(w) \/ ApplyForget(w) \/ ApplyRemoved(w)
      PROVE  StoreStep
  BY <1>3
  DEF BeginAbsent, CompletesAbsent, Interrupted, OwnJournal, ApplyForget, MayForget,
      ApplyRemoved, MayAdvance, StoreStep, Completed
<1>4. ASSUME LoseRequest(w)
      PROVE  StoreStep
  BY <1>4, WriteCutStoreStep DEF LoseRequest, StoreStep
<1>5. ASSUME \/ Observe(w) \/ ObservationFails(w) \/ BeginRefused(w)
             \/ CheckTarget(w) \/ Remove(w) \/ RetryRemoval(w) \/ RemoveFails(w)
      PROVE  StoreStep
  BY <1>5 DEF Observe, ObservationFails, BeginRefused, CheckTarget, Remove, RetryRemoval,
              RemoveFails, StoreStep
<1>6. UNCHANGED <<up, attached>> /\ req[w].phase # "idle"
  BY DEF RequestStep, Observe, ObservationFails, BeginAbsent, BeginStarted, BeginCurrent,
         BeginRetry, BeginRefused, MayBegin, ApplyForget, CheckTarget, Remove, Removal,
         RetryRemoval, RemoveFails, ApplyRefused, ApplyRemovalFailed, ApplyRemoved,
         LoseRequest
<1> QED BY <1>1, <1>2, <1>3, <1>4, <1>5, <1>6 DEF RequestStep

LEMMA StoreStepRecords ==
  ASSUME TypeOK, TypeOK', RecordsAgree, StoreStep, attached' = attached \/ attached' = FALSE
  PROVE  GenerationAgrees' /\ JournalNamesBinding' /\ JournalKeepsSessionsOut' /\ gen' = gen
<1> USE DEF RecordsAgree, GenerationAgrees, JournalNamesBinding, JournalKeepsSessionsOut,
            TupleCurrent
<1>1. CASE UNCHANGED store
  BY <1>1 DEF store, TypeOK, DaemonTypeOK
<1>2. CASE JournalEdited
  BY <1>2 DEF JournalEdited, TypeOK, DaemonTypeOK
<1>3. CASE JournalCleared
  BY <1>3 DEF JournalCleared
<1>4. CASE Completed
  BY <1>4 DEF Completed, Complete
<1>5. ASSUME NEW w \in Workers, JournalStarted(w)
      PROVE  GenerationAgrees' /\ JournalNamesBinding' /\ JournalKeepsSessionsOut'
             /\ gen' = gen
  <2>1. binding \in Binding
    BY <1>5 DEF JournalStarted, TypeOK, StoreTypeOK
  <2>2. req[w].mode = "discardDirectory" => ~attached
    BY <1>5 DEF JournalStarted, MayBegin, Unblocked
  <2> QED BY <1>5, <2>1, <2>2 DEF JournalStarted, Binding, TypeOK, DaemonTypeOK
<1> QED BY <1>1, <1>2, <1>3, <1>4, <1>5 DEF StoreStep

\* What is not a step of a request adds nothing to the history.
LEMMA QuietHistory ==
  ASSUME \/ Crash \/ Restart \/ LaunchSession \/ SessionExits \/ BeginCleanup
         \/ EndCleanup \/ Provision \/ OutsideChange \/ UNCHANGED vars
  PROVE  UNCHANGED history
<1>1. CASE Crash
  BY <1>1 DEF Crash, Dies
<1>2. CASE Restart \/ LaunchSession \/ SessionExits
  BY <1>2 DEF Restart, LaunchSession, SessionExits
<1>3. CASE BeginCleanup \/ EndCleanup
  BY <1>3 DEF BeginCleanup, EndCleanup
<1>4. CASE Provision \/ OutsideChange
  BY <1>4 DEF Provision, OutsideChange
<1>5. CASE UNCHANGED vars
  BY <1>5 DEF vars
<1> QED BY <1>1, <1>2, <1>3, <1>4, <1>5

\* A step of a request removes at most the directory, or a part of it.
LEMMA RequestPathStep ==
  ASSUME TypeOK, NEW w \in Workers, RequestStep(w) \/ LoseRequest(w)
  PROVE  /\ changes' = changes /\ repeated' = repeated
         /\ \/ UNCHANGED <<dir, discarded>>
            \/ /\ dir # None /\ dir' = [dir EXCEPT !.git = FALSE] /\ UNCHANGED discarded
               /\ req[w].phase = "removing"
            \/ /\ dir' = None /\ req[w].phase = "removing" /\ MayRemove(req[w])
               /\ discarded' = discarded \cup {[by |-> req[w].gen, of |-> gen]}
<1>1. CASE Remove(w) \/ RetryRemoval(w) \/ RemoveFails(w)
  <2>1. CASE Removal(w)
    BY <1>1, <2>1 DEF RemoveFails, Remove, RetryRemoval, Removal, history, env
  <2>2. CASE RemovesPart(req[w]) /\ UNCHANGED history
    BY <1>1, <2>2, PartTyped DEF RemoveFails, Remove, Removal, RetryRemoval, history, env
  <2> QED BY <1>1, <2>1, <2>2 DEF RemoveFails, Remove, RetryRemoval
<1>2. CASE ~(Remove(w) \/ RetryRemoval(w) \/ RemoveFails(w))
  BY <1>2
  DEF RequestStep, Observe, ObservationFails, BeginAbsent, BeginStarted, BeginCurrent,
      BeginRetry, BeginRefused, ApplyForget, CheckTarget, ApplyRefused, ApplyRemovalFailed,
      ApplyRemoved, LoseRequest, path, history, env
<1> QED BY <1>1, <1>2

\* The records agree after every step.
LEMMA RecordsStep ==
  ASSUME TypeOK, TypeOK', RecordsAgree, RequestsAgree, [Next]_vars
  PROVE  RecordsAgree'
<1> USE DEF RecordsAgree
<1>1. ASSUME NEW w \in Workers, NEW op \in OpIds, NEW mode \in Modes, Plan(w, op, mode)
      PROVE  RecordsAgree'
  <2>1. StoreStep /\ UNCHANGED <<up, attached, discarded, gen>> /\ up
    BY <1>1 DEF Plan, StoreStep, store
  <2>2. DownMeansIdle' /\ PastKnown'
    BY <2>1 DEF DownMeansIdle, PastKnown
  <2> QED BY <2>1, <2>2, StoreStepRecords
<1>2. ASSUME NEW w \in Workers, RequestStep(w) \/ LoseRequest(w)
      PROVE  RecordsAgree'
  <2>1. StoreStep /\ UNCHANGED <<up, attached>> /\ up
    BY <1>2, RequestStoreStep, InFlightIsUp
  <2>2. GenerationAgrees' /\ JournalNamesBinding' /\ JournalKeepsSessionsOut' /\ gen' = gen
    BY <2>1, StoreStepRecords
  <2>3. PastKnown'
    BY <1>2, <2>2, RequestPathStep
    DEF PastKnown, TypeOK, StoreTypeOK, PathTypeOK, Leaf
  <2>4. DownMeansIdle'
    BY <2>1 DEF DownMeansIdle
  <2> QED BY <2>2, <2>3, <2>4
<1>3. CASE Crash
  <2>1. StoreStep /\ Dies
    BY <1>3, WriteCutStoreStep DEF Crash, StoreStep
  <2>2. GenerationAgrees' /\ JournalNamesBinding' /\ JournalKeepsSessionsOut' /\ gen' = gen
    BY <2>1, StoreStepRecords DEF Dies
  <2>3. DownMeansIdle'
    BY <2>1 DEF Dies, DownMeansIdle
  <2>4. PastKnown'
    BY <2>1, <2>2 DEF Dies, PastKnown, path, history
  <2> QED BY <2>2, <2>3, <2>4
<1>4. CASE Restart
  <2>1. StoreStep
    <3>1. CASE journal = None
      BY <1>4, <3>1 DEF Restart, Reconciled, StoreStep
    <3>2. CASE journal # None
      <4>1. journal \in StaleJournal
        BY <3>2 DEF TypeOK, StoreTypeOK
      <4>2. CASE Complete(journal) \/ UNCHANGED store
        BY <3>2, <4>2 DEF StoreStep, Completed
      <4>3. CASE /\ journal' = IF journal.failed THEN journal ELSE None
                 /\ UNCHANGED <<binding, gen, receipt, cleanup>>
        BY <3>2, <4>3 DEF StoreStep, JournalCleared, store
      <4>4. CASE /\ journal' = [journal EXCEPT !.failed = TRUE]
                 /\ UNCHANGED <<binding, gen, receipt, cleanup>>
        BY <3>2, <4>1, <4>4, NoneAssumption DEF StoreStep, JournalEdited, StaleJournal
      <4> QED BY <1>4, <3>2, <4>2, <4>3, <4>4 DEF Restart, Reconciled
    <3> QED BY <3>1, <3>2
  <2>2. GenerationAgrees' /\ JournalNamesBinding' /\ JournalKeepsSessionsOut' /\ gen' = gen
    BY <1>4, <2>1, StoreStepRecords DEF Restart
  <2> QED BY <1>4, <2>2 DEF Restart, DownMeansIdle, PastKnown, path, history
<1>5. CASE LaunchSession \/ SessionExits
  <2>1. UNCHANGED <<binding, gen, journal, cleanup, req, up, discarded>>
    BY <1>5 DEF LaunchSession, SessionExits, store, path, history
  <2>2. JournalKeepsSessionsOut'
    BY <1>5, <2>1
    DEF LaunchSession, Reserved, SessionExits, JournalKeepsSessionsOut, TypeOK, DaemonTypeOK
  <2> QED BY <2>1, <2>2
          DEF GenerationAgrees, JournalNamesBinding, TupleCurrent, DownMeansIdle, PastKnown
<1>6. CASE BeginCleanup \/ EndCleanup
  <2>1. journal = None /\ journal' = None
    BY <1>6 DEF BeginCleanup, EndCleanup, JournalNamesBinding
  <2> QED BY <1>6, <2>1
          DEF BeginCleanup, EndCleanup, GenerationAgrees, JournalNamesBinding,
              JournalKeepsSessionsOut, DownMeansIdle, PastKnown, path, history
<1>7. CASE Provision
  BY <1>7
  DEF Provision, GenerationAgrees, JournalNamesBinding, JournalKeepsSessionsOut,
      DownMeansIdle, PastKnown, history, TypeOK, StoreTypeOK, PathTypeOK, DaemonTypeOK
<1>8. CASE OutsideChange
  <2>1. UNCHANGED <<binding, gen, journal, cleanup, req, up, attached, discarded>>
    BY <1>8 DEF OutsideChange, store, history
  <2>2. PastKnown'
    BY <2>1 DEF PastKnown
  <2> QED BY <2>1, <2>2
          DEF GenerationAgrees, JournalNamesBinding, TupleCurrent, DownMeansIdle,
              JournalKeepsSessionsOut
<1>9. CASE UNCHANGED vars
  BY <1>9
  DEF vars, GenerationAgrees, JournalNamesBinding, TupleCurrent, DownMeansIdle,
      JournalKeepsSessionsOut, PastKnown, store, path, history
<1> QED BY <1>1, <1>2, <1>3, <1>4, <1>5, <1>6, <1>7, <1>8, <1>9 DEF Next

-----------------------------------------------------------------------------
(* What a request remembers *)

\* The Task moves forward: generations are used once, removals are remembered.
Forward == gen' >= gen /\ discarded \subseteq discarded'

\* What a request remembers of a generation stays true while the Task moves forward.
LEMMA RequestKept ==
  ASSUME TypeOK, TypeOK', NEW w \in Workers, RequestAgrees(req[w]), req'[w] = req[w],
         Forward
  PROVE  RequestAgrees(req[w])'
<1>1. req[w] \in Request /\ req'[w] \in Request
  BY DEF TypeOK, RequestTypeOK
<1>2. gen \in Nat /\ gen' \in Nat
  BY DEF TypeOK, StoreTypeOK
<1>3. CASE req[w] = Idle
  BY <1>3 DEF RequestAgrees, Idle, DisposalPhases
<1>4. CASE req[w] # Idle
  <2>1. req[w].gen \in Nat
    BY <1>1, <1>4, RequestPhase
  <2> QED BY <1>2, <1>4, <2>1 DEF RequestAgrees, Forward
<1> QED BY <1>3, <1>4

\* Every step moves forward.
LEMMA StepForward ==
  ASSUME TypeOK, TypeOK', RequestsAgree, [Next]_vars
  PROVE  Forward
<1> USE DEF TypeOK, StoreTypeOK, PathTypeOK, DaemonTypeOK
<1>1. ASSUME NEW w \in Workers, RequestStep(w) \/ LoseRequest(w)
      PROVE  Forward
  <2>1. gen' = gen
    BY <1>1, RequestStoreStep
    DEF StoreStep, JournalEdited, JournalCleared, Completed, Complete, JournalStarted, store
  <2> QED BY <1>1, <2>1, RequestPathStep DEF Forward, Leaf
<1>2. CASE Crash
  <2>1. gen' = gen
    BY <1>2, WriteCutStoreStep
    DEF Crash, StoreStep, JournalEdited, JournalCleared, Completed, Complete,
        JournalStarted, store
  <2> QED BY <1>2, <2>1 DEF Crash, Dies, Forward, path, history
<1>3. CASE Restart
  <2>1. gen' = gen
    BY <1>3 DEF Restart, Reconciled, Complete, store
  <2> QED BY <1>3, <2>1 DEF Restart, Forward, path, history
<1>4. ASSUME NEW w \in Workers, NEW op \in OpIds, NEW mode \in Modes, Plan(w, op, mode)
      PROVE  Forward
  BY <1>4 DEF Plan, Forward, store, path
<1>5. CASE LaunchSession \/ SessionExits \/ BeginCleanup \/ EndCleanup
  BY <1>5
  DEF LaunchSession, SessionExits, BeginCleanup, EndCleanup, Forward, store, path, history
<1>6. CASE Provision \/ OutsideChange
  <2>1. gen \in Nat /\ (gen' = gen \/ gen' = gen + 1) /\ discarded' = discarded
    BY <1>6 DEF Provision, OutsideChange, store, history
  <2> QED BY <2>1 DEF Forward
<1>7. CASE UNCHANGED vars
  BY <1>7 DEF vars, Forward, store, path, history
<1> QED BY <1>1, <1>2, <1>3, <1>4, <1>5, <1>6, <1>7 DEF Next

\* The requests of the other workers stay as they are.
LEMMA OthersKept ==
  ASSUME TypeOK, NEW w \in Workers, NEW r, SetReq(w, r)
  PROVE  req'[w] = r /\ \A v \in Workers : v # w => req'[v] = req[v]
BY DEF TypeOK, RequestTypeOK, SetReq

\* What a request remembers was true of its generation, after every step.
LEMMA RequestsStep ==
  ASSUME TypeOK, TypeOK', RecordsAgree, RequestsAgree, [Next]_vars
  PROVE  RequestsAgree'
<1>1. Forward
  BY StepForward
<1>2. ASSUME NEW w \in Workers, req'[w] = req[w]
      PROVE  RequestAgrees(req[w])'
  BY <1>1, <1>2, RequestKept DEF RequestsAgree
<1>3. ASSUME NEW w \in Workers, RequestAgrees(req[w])',
             \A v \in Workers : v # w => req'[v] = req[v]
      PROVE  RequestsAgree'
  BY <1>2, <1>3 DEF RequestsAgree
<1>4. ASSUME NEW w \in Workers, req'[w] = Idle
      PROVE  RequestAgrees(req[w])'
  BY <1>4 DEF RequestAgrees, Idle, DisposalPhases
<1>5. ASSUME NEW w \in Workers, NEW op \in OpIds, NEW mode \in Modes, Plan(w, op, mode)
      PROVE  RequestsAgree'
  <2>1. /\ req'[w] = [phase |-> "planned", op |-> op, mode |-> mode,
                      gen |-> binding.gen, managed |-> binding.managed]
        /\ \A v \in Workers : v # w => req'[v] = req[v]
    BY <1>5, OthersKept DEF Plan
  <2>2. RequestAgrees(req[w])'
    BY <1>5, <2>1
    DEF Plan, store, RecordsAgree, GenerationAgrees, RequestAgrees, DisposalPhases, TypeOK,
        StoreTypeOK
  <2> QED BY <1>3, <2>1, <2>2
<1>6. ASSUME NEW w \in Workers, Observe(w)
      PROVE  RequestsAgree'
  <2>1. /\ req'[w] = [phase |-> "observed", op |-> req[w].op, mode |-> req[w].mode,
                      gen |-> req[w].gen, managed |-> req[w].managed,
                      facts |-> IF req[w].mode = "forgetBinding" THEN None
                                ELSE Facts(req[w].managed)]
        /\ \A v \in Workers : v # w => req'[v] = req[v]
    BY <1>6, OthersKept DEF Observe
  <2>2. /\ req[w] # Idle /\ UNCHANGED <<gen, dir>>
        /\ RequestAgrees(req[w])
    BY <1>6 DEF Observe, Idle, store, path, RequestsAgree
  <2>3. RequestAgrees(req[w])'
    <3>1. /\ req'[w].phase = "observed" /\ req'[w].gen = req[w].gen
          /\ req'[w].managed = req[w].managed /\ req'[w].mode = req[w].mode
      BY <2>1
    <3>2. req'[w].mode = "discardDirectory" =>
            req'[w].facts.target = dir /\ req'[w].facts.kind = Kind(req[w].managed)
      BY <2>1 DEF Facts
    <3>3. Kind(req[w].managed) # None => dir # None
      BY NoneAssumption DEF Kind, Kinds
    <3> QED BY <2>2, <3>1, <3>2, <3>3
            DEF RequestAgrees
  <2> QED BY <1>3, <2>1, <2>3
<1>7. ASSUME NEW w \in Workers, MayBegin(w), NextStep(w), gen' = gen
      PROVE  RequestsAgree'
  <2>1. \A v \in Workers : v # w => req'[v] = req[v]
    BY <1>7, OthersKept DEF NextStep
  <2>2. req[w] # Idle /\ RequestAgrees(req[w]) /\ req[w].gen = gen /\ gen \in Nat
    BY <1>7, NextStepTyped, NoneAssumption
    DEF MayBegin, TupleCurrent, Idle, RequestsAgree, RecordsAgree, GenerationAgrees, TypeOK,
        StoreTypeOK
  <2>3. CASE req[w].mode = "forgetBinding"
    <3>1. req'[w] = [phase |-> "revalidating", op |-> req[w].op, mode |-> req[w].mode,
                     gen |-> req[w].gen, managed |-> req[w].managed]
      BY <1>7, <2>3, OthersKept DEF NextStep
    <3>2. RequestAgrees(req[w])'
      BY <1>7, <2>2, <3>1 DEF RequestAgrees, DisposalPhases
    <3> QED BY <1>3, <2>1, <3>2
  <2>4. CASE req[w].mode # "forgetBinding"
    <3>1. req'[w] = [phase |-> "executing", op |-> req[w].op, mode |-> req[w].mode,
                     gen |-> req[w].gen, managed |-> req[w].managed,
                     kind |-> req[w].facts.kind, target |-> req[w].facts.target,
                     git |-> AllowsGitMetadata(req[w]) /\ req[w].facts.target.git,
                     tries |-> 0]
      BY <1>7, <2>4, OthersKept DEF NextStep
    <3>2. req[w].mode = "discardDirectory" /\ req[w].phase = "observed"
          /\ req[w].facts.kind # None
      BY <1>7, <2>4, NextStepTyped DEF ObservedForget, ObservedDiscard, MayBegin, Unblocked
    <3>3. RequestAgrees(req[w])'
      BY <1>7, <2>2, <3>1, <3>2 DEF RequestAgrees, DisposalPhases
    <3> QED BY <1>3, <2>1, <3>3
  <2> QED BY <2>3, <2>4
<1>8. ASSUME NEW w \in Workers, BeginStarted(w) \/ BeginCurrent(w) \/ BeginRetry(w)
      PROVE  RequestsAgree'
  BY <1>7, <1>8 DEF BeginStarted, BeginCurrent, BeginRetry
<1>9. ASSUME NEW w \in Workers, CheckTarget(w) \/ Remove(w) \/ RemoveFails(w)
      PROVE  RequestsAgree'
  <2>1. req[w].phase \in {"executing", "removing"}
    BY <1>9 DEF CheckTarget, Remove, Removal, RemoveFails
  <2>2. req[w] \in Disposing /\ req[w] # Idle /\ RequestAgrees(req[w])
    BY <2>1, RequestPhase DEF TypeOK, RequestTypeOK, DisposalPhases, RequestsAgree, Idle
  <2>3. PICK ph \in {"removing", "refused", "removed", "removalFailed"} :
          /\ SetReq(w, [req[w] EXCEPT !.phase = ph])
          /\ ph = "removed" => Remove(w)
    BY <1>9 DEF CheckTarget, Remove, RemoveFails
  <2>4. /\ req'[w] = [req[w] EXCEPT !.phase = ph]
        /\ \A v \in Workers : v # w => req'[v] = req[v]
    BY <2>3, OthersKept
  <2>5. /\ req'[w].phase = ph /\ req'[w].gen = req[w].gen /\ req'[w].kind = req[w].kind
        /\ req'[w].managed = req[w].managed /\ req'[w].target = req[w].target
        /\ req'[w] # Idle
    BY <2>2, <2>3, <2>4 DEF Disposing, Idle
  <2>6. ph = "removed" => \E d \in discarded' : d.by = req'[w].gen
    <3>1. ph = "removed" => [by |-> req[w].gen, of |-> gen] \in discarded'
      BY <2>3 DEF Remove, Removal
    <3> QED BY <2>5, <3>1
  <2>7. gen' = gen
    BY <1>9 DEF CheckTarget, Remove, RemoveFails, store
  <2>8. RequestAgrees(req[w])'
    BY <2>1, <2>2, <2>3, <2>5, <2>6, <2>7 DEF RequestAgrees, DisposalPhases
  <2> QED BY <1>3, <2>4, <2>8
<1>14. ASSUME NEW w \in Workers, RetryRemoval(w)
       PROVE  RequestsAgree'
  <2>1. req[w] \in Disposing /\ req[w] # Idle /\ RequestAgrees(req[w]) /\ gen' = gen
    BY <1>14, RequestPhase
    DEF RetryRemoval, TypeOK, RequestTypeOK, DisposalPhases, RequestsAgree, Idle, store
  <2>2. /\ req'[w] = [req[w] EXCEPT !.tries = @ + 1]
        /\ \A v \in Workers : v # w => req'[v] = req[v]
    BY <1>14, OthersKept DEF RetryRemoval
  <2>3. /\ req'[w].phase = "removing" /\ req'[w].gen = req[w].gen
        /\ req'[w].managed = req[w].managed
    BY <1>14, <2>1, <2>2 DEF RetryRemoval, Disposing
  <2>4. RequestAgrees(req[w])'
    BY <2>1, <2>3 DEF RequestAgrees
  <2> QED BY <1>3, <2>2, <2>4
<1>10. ASSUME NEW w \in Workers, Ends(w)
       PROVE  RequestsAgree'
  BY <1>3, <1>4, <1>10, OthersKept DEF Ends
<1>11. ASSUME NEW w \in Workers,
              \/ ObservationFails(w) \/ BeginRefused(w) \/ BeginAbsent(w) \/ ApplyForget(w)
              \/ ApplyRefused(w) \/ ApplyRemovalFailed(w) \/ ApplyRemoved(w)
              \/ LoseRequest(w)
       PROVE  RequestsAgree'
  BY <1>10, <1>11
  DEF ObservationFails, BeginRefused, BeginAbsent, ApplyForget, ApplyRefused,
      ApplyRemovalFailed, ApplyRemoved, LoseRequest
<1>12. CASE Crash
  BY <1>4, <1>12 DEF Crash, Dies, RequestsAgree
<1>13. CASE \/ Restart \/ LaunchSession \/ SessionExits \/ BeginCleanup \/ EndCleanup
            \/ Provision \/ OutsideChange \/ UNCHANGED vars
  <2>1. req' = req
    BY <1>13 DEF Restart, LaunchSession, SessionExits, BeginCleanup, EndCleanup, Provision,
                 OutsideChange, vars
  <2> QED BY <1>2, <2>1 DEF RequestsAgree
<1> QED BY <1>5, <1>6, <1>8, <1>9, <1>11, <1>12, <1>13, <1>14 DEF Next, RequestStep

-----------------------------------------------------------------------------
(* Ownership of the journal *)

\* A request never changes the journal of another operation.
LEMMA ForeignJournalKept ==
  ASSUME TypeOK, NEW w \in Workers, RequestStep(w) \/ LoseRequest(w),
         journal # None, journal.op # req[w].op
  PROVE  UNCHANGED store
<1>1. ~WriteCut(w)
  BY DEF WriteCut, MayAdvance, CompletesAbsent, Interrupted, OwnJournal
<1> QED BY <1>1
  DEF RequestStep, Observe, ObservationFails, BeginAbsent, BeginStarted, BeginCurrent,
      BeginRetry, BeginRefused, ApplyForget, CheckTarget, Remove, RetryRemoval, RemoveFails,
      ApplyRefused, ApplyRemovalFailed, ApplyRemoved, LoseRequest, CompletesAbsent, Interrupted,
      OwnJournal, SameIntent, MayForget, MayClear, MayAdvance, store

\* A request keeps its operation until it ends, and other requests are left alone.
LEMMA RequestKeepsOperation ==
  ASSUME TypeOK, TypeOK', NEW w \in Workers, RequestStep(w) \/ LoseRequest(w)
  PROVE  /\ req[w] # Idle
         /\ req'[w] # Idle => req'[w].op = req[w].op /\ req'[w].mode = req[w].mode
                              /\ req'[w].gen = req[w].gen /\ req'[w].managed = req[w].managed
         /\ \A v \in Workers : v # w => req'[v] = req[v]
<1>1. ASSUME Ends(w)
      PROVE  req'[w] = Idle /\ \A v \in Workers : v # w => req'[v] = req[v]
  BY <1>1, OthersKept DEF Ends
<1>2. req[w] # Idle
  BY DEF RequestStep, Observe, ObservationFails, BeginAbsent, BeginStarted, BeginCurrent,
         BeginRetry, BeginRefused, MayBegin, ApplyForget, CheckTarget, Remove, Removal,
         RetryRemoval, RemoveFails, ApplyRefused, ApplyRemovalFailed, ApplyRemoved,
         LoseRequest, Idle
<1>3. CASE CheckTarget(w) \/ Remove(w) \/ RemoveFails(w)
  <2>1. req[w] \in Disposing
    BY <1>3, RequestPhase
    DEF CheckTarget, Remove, Removal, RemoveFails, TypeOK, RequestTypeOK, DisposalPhases
  <2>2. PICK ph : SetReq(w, [req[w] EXCEPT !.phase = ph])
    BY <1>3 DEF CheckTarget, Remove, RemoveFails
  <2>3. /\ req'[w] = [req[w] EXCEPT !.phase = ph]
        /\ \A v \in Workers : v # w => req'[v] = req[v]
    BY <2>2, OthersKept
  <2> QED BY <1>2, <2>1, <2>3 DEF Disposing
<1>7. CASE RetryRemoval(w)
  <2>1. req[w] \in Disposing
    BY <1>7, RequestPhase DEF RetryRemoval, TypeOK, RequestTypeOK, DisposalPhases
  <2>2. /\ req'[w] = [req[w] EXCEPT !.tries = @ + 1]
        /\ \A v \in Workers : v # w => req'[v] = req[v]
    BY <1>7, OthersKept DEF RetryRemoval
  <2> QED BY <1>2, <2>1, <2>2 DEF Disposing
<1>4. CASE BeginStarted(w) \/ BeginCurrent(w) \/ BeginRetry(w)
  <2>1. NextStep(w)
    BY <1>4 DEF BeginStarted, BeginCurrent, BeginRetry
  <2> QED BY <1>2, <2>1, OthersKept DEF NextStep
<1>5. CASE Observe(w)
  BY <1>2, <1>5, OthersKept DEF Observe
<1>6. CASE \/ ObservationFails(w) \/ BeginRefused(w) \/ BeginAbsent(w) \/ ApplyForget(w)
           \/ ApplyRefused(w) \/ ApplyRemovalFailed(w) \/ ApplyRemoved(w)
           \/ LoseRequest(w)
  BY <1>1, <1>2, <1>6
  DEF ObservationFails, BeginRefused, BeginAbsent, ApplyForget, ApplyRefused,
      ApplyRemovalFailed, ApplyRemoved, LoseRequest
<1> QED BY <1>3, <1>4, <1>5, <1>6, <1>7 DEF RequestStep

\* A disposal that has begun owns the journal, and so does its every later step.
LEMMA DisposalOwns ==
  ASSUME TypeOK, TypeOK', RequestsAgree, NEW w \in Workers, OwnsJournal(req[w]),
         RequestStep(w) \/ LoseRequest(w)
  PROVE  OwnsJournal(req[w])'
<1>1. CASE CheckTarget(w) \/ Remove(w) \/ RetryRemoval(w) \/ RemoveFails(w)
  <2>1. req[w].phase \in DisposalPhases /\ journal' = journal
    BY <1>1
    DEF CheckTarget, Remove, Removal, RetryRemoval, RemoveFails, TypeOK, RequestTypeOK, DisposalPhases,
        store
  <2> QED BY <1>1, <2>1, RequestKeepsOperation DEF OwnsJournal, SameIntent, DisposalPhases, Idle
<1>2. CASE BeginStarted(w) \/ BeginCurrent(w) \/ BeginRetry(w)
  <2>1. MayBegin(w) /\ NextStep(w)
    BY <1>2 DEF BeginStarted, BeginCurrent, BeginRetry
  <2>2. /\ req[w] \in ObservedForget \cup ObservedDiscard /\ TupleCurrent(req[w])
        /\ req'[w].phase \in DisposalPhases => req'[w].mode = "discardDirectory"
    <3>1. req'[w].phase \in DisposalPhases => req'[w].mode = "discardDirectory"
      BY RequestPhase DEF TypeOK, RequestTypeOK, Disposing
    <3> QED BY <2>1, <3>1, NextStepTyped DEF MayBegin
  <2>3. ASSUME req'[w].phase \in DisposalPhases
        PROVE  /\ req[w].mode = "discardDirectory"
               /\ SameIntent(journal', req[w]) => SameIntent(journal', req'[w])
    BY <2>2, <2>3, RequestKeepsOperation DEF SameIntent, DisposalPhases, Idle
  <2>4. ASSUME BeginStarted(w), req'[w].phase \in DisposalPhases
        PROVE  OwnsJournal(req[w])'
    <3>1. journal' = Journal(req[w].op, req[w].mode, "removalPrepared")
      BY <2>3, <2>4 DEF BeginStarted, FirstStage
    <3>2. SameIntent(journal', req[w]) /\ journal'.stage = "removalPrepared"
      BY <2>2, <3>1 DEF Journal, SameIntent, TupleCurrent
    <3>3. journal' # None
      <4>1. journal' \in StaleJournal
        BY <2>1, <2>3, <2>4, <3>1, NextStepTyped
        DEF Journal, StaleJournal, Stages, Binding, ObservedForget, ObservedDiscard, Modes
      <4> QED BY <4>1, NoneAssumption
    <3> QED BY <2>3, <2>4, <3>2, <3>3 DEF OwnsJournal
  <2>5. ASSUME BeginCurrent(w), req'[w].phase \in DisposalPhases
        PROVE  OwnsJournal(req[w])'
    <3>1. journal \in StaleJournal /\ SameIntent(journal, req[w])
      BY <2>5 DEF BeginCurrent, TypeOK, StoreTypeOK
    <3>2. /\ journal' \in StaleJournal /\ SameIntent(journal', req[w])
          /\ journal'.stage # "reserved"
      BY <2>3, <2>5, <3>1
      DEF BeginCurrent, FirstStage, SameIntent, StaleJournal, Stages
    <3> QED BY <2>3, <2>5, <3>2, NoneAssumption DEF OwnsJournal
  <2>6. ASSUME BeginRetry(w), req'[w].phase \in DisposalPhases
        PROVE  OwnsJournal(req[w])'
    <3>1. journal \in StaleJournal /\ SameIntent(journal, req[w])
          /\ journal.stage = "removalPrepared"
      BY <2>6 DEF BeginRetry, TypeOK, StoreTypeOK
    <3>2. /\ journal' \in StaleJournal /\ SameIntent(journal', req[w])
          /\ journal'.stage # "reserved"
      BY <2>6, <3>1 DEF BeginRetry, SameIntent, StaleJournal
    <3> QED BY <2>3, <2>6, <3>2, NoneAssumption DEF OwnsJournal
  <2> QED BY <1>2, <2>4, <2>5, <2>6 DEF OwnsJournal
<1>3. CASE Observe(w)
  BY <1>3, OthersKept DEF Observe, OwnsJournal, DisposalPhases
<1>4. CASE \/ ObservationFails(w) \/ BeginRefused(w) \/ BeginAbsent(w) \/ ApplyForget(w)
           \/ ApplyRefused(w) \/ ApplyRemovalFailed(w) \/ ApplyRemoved(w)
           \/ LoseRequest(w)
  <2>1. Ends(w)
    BY <1>4 DEF ObservationFails, BeginRefused, BeginAbsent, ApplyForget, ApplyRefused,
                ApplyRemovalFailed, ApplyRemoved, LoseRequest
  <2>2. req'[w] = Idle
    BY <2>1, OthersKept DEF Ends
  <2> QED BY <2>2 DEF OwnsJournal, Idle, DisposalPhases
<1> QED BY <1>1, <1>2, <1>3, <1>4 DEF RequestStep

\* Without repeated requests every disposal keeps its journal.
LEMMA RequestsOwnStep ==
  ASSUME TypeOK, TypeOK', RecordsAgree, RequestsAgree, RequestsOwn, [Next]_vars
  PROVE  RequestsOwn'
<1> SUFFICES ASSUME ~repeated' PROVE OperationsDiffer' /\ \A w \in Workers : OwnsJournal(req[w])'
  BY DEF RequestsOwn
<1>1. ~repeated
  <2>1. ASSUME NEW w \in Workers, RequestStep(w) \/ LoseRequest(w)
        PROVE  repeated' = repeated
    BY <2>1, RequestPathStep
  <2>2. ASSUME NEW w \in Workers, NEW op \in OpIds, NEW mode \in Modes, Plan(w, op, mode)
        PROVE  repeated => repeated'
    BY <2>2 DEF Plan
  <2> QED BY <2>1, <2>2
          DEF Next, Crash, Dies, Restart, LaunchSession, SessionExits, BeginCleanup,
              EndCleanup, Provision, OutsideChange, vars, history
<1>2. OperationsDiffer /\ \A w \in Workers : OwnsJournal(req[w])
  BY <1>1 DEF RequestsOwn
<1>3. ASSUME NEW w \in Workers, NEW op \in OpIds, NEW mode \in Modes, Plan(w, op, mode)
      PROVE  OperationsDiffer' /\ \A v \in Workers : OwnsJournal(req[v])'
  <2>1. /\ req'[w].op = op /\ req'[w].phase = "planned"
        /\ \A v \in Workers : v # w => req'[v] = req[v]
    BY <1>3, OthersKept DEF Plan
  <2>2. \A v \in Workers : req[v] # Idle => req[v].op # op
    BY <1>3 DEF Plan
  <2>3. OperationsDiffer'
    BY <1>2, <2>1, <2>2 DEF OperationsDiffer
  <2>4. journal' = journal
    BY <1>3 DEF Plan, store
  <2> QED BY <1>2, <2>1, <2>3, <2>4 DEF OwnsJournal, DisposalPhases
<1>4. ASSUME NEW w \in Workers, RequestStep(w) \/ LoseRequest(w)
      PROVE  OperationsDiffer' /\ \A v \in Workers : OwnsJournal(req[v])'
  <2>1. OperationsDiffer'
    BY <1>2, <1>4, RequestKeepsOperation DEF OperationsDiffer
  <2>2. OwnsJournal(req[w])'
    BY <1>2, <1>4, DisposalOwns
  <2>3. ASSUME NEW v \in Workers, v # w
        PROVE  OwnsJournal(req[v])'
    <3>1. req'[v] = req[v] /\ req[w] # Idle
      BY <1>4, <2>3, RequestKeepsOperation
    <3>2. CASE req[v].phase \in DisposalPhases
      <4>1. journal # None /\ journal.op = req[v].op /\ req[v] # Idle
        BY <1>2, <3>2 DEF OwnsJournal, SameIntent, DisposalPhases, Idle
      <4>2. journal.op # req[w].op
        BY <1>2, <2>3, <3>1, <4>1 DEF OperationsDiffer
      <4>3. journal' = journal
        BY <1>4, <4>1, <4>2, ForeignJournalKept DEF store
      <4> QED BY <1>2, <3>1, <4>3 DEF OwnsJournal
    <3>3. CASE req[v].phase \notin DisposalPhases
      BY <3>1, <3>3 DEF OwnsJournal
    <3> QED BY <3>2, <3>3
  <2> QED BY <2>1, <2>2, <2>3
<1>5. ASSUME \A w \in Workers : req'[w] = Idle
      PROVE  OperationsDiffer' /\ \A v \in Workers : OwnsJournal(req[v])'
  BY <1>5 DEF OperationsDiffer, OwnsJournal, Idle, DisposalPhases
<1>6. CASE Crash
  BY <1>5, <1>6 DEF Crash, Dies
<1>7. CASE Restart
  BY <1>5, <1>7 DEF Restart, RecordsAgree, DownMeansIdle
<1>8. CASE \/ LaunchSession \/ SessionExits \/ BeginCleanup \/ EndCleanup \/ Provision
           \/ OutsideChange \/ UNCHANGED vars
  <2>1. req' = req /\ journal' = journal
    BY <1>8 DEF LaunchSession, SessionExits, BeginCleanup, EndCleanup, Provision,
                OutsideChange, vars, store
  <2> QED BY <1>2, <2>1 DEF OperationsDiffer, OwnsJournal
<1> QED BY <1>3, <1>4, <1>6, <1>7, <1>8 DEF Next

-----------------------------------------------------------------------------
(* Discards *)

DiscardRequests == \A w \in Workers : DiscardRequest(req[w])

\* What the accounting of discards may use in a state where no request was repeated
Owned ==
  /\ TypeOK /\ RecordsAgree /\ RequestsAgree
  /\ OperationsDiffer /\ \A w \in Workers : OwnsJournal(req[w])
  /\ DiscardRecords /\ DiscardRequests

\* A disposal under way is of the Task's current generation.
LEMMA DisposalCurrent ==
  ASSUME Owned, NEW w \in Workers, req[w].phase \in DisposalPhases
  PROVE  /\ journal \in StaleJournal /\ journal # None
         /\ journal.op = req[w].op /\ journal.gen = req[w].gen
         /\ journal.mode = "discardDirectory" /\ journal.stage # "reserved"
         /\ TupleCurrent(req[w]) /\ binding # None /\ req[w].gen = gen /\ req[w] # Idle
<1>1. req[w] \in Disposing
  BY RequestPhase DEF Owned, TypeOK, RequestTypeOK
<1>2. /\ journal # None /\ SameIntent(journal, req[w]) /\ journal.stage # "reserved"
      /\ TupleCurrent(journal)
  BY DEF Owned, OwnsJournal, RecordsAgree, JournalNamesBinding
<1>3. binding = [gen |-> req[w].gen, managed |-> req[w].managed]
  BY <1>2 DEF SameIntent, TupleCurrent
<1>4. binding \in Binding
  BY <1>1, <1>3 DEF Binding, Disposing
<1>5. binding # None
  BY <1>4, NoneAssumption
<1>6. req[w].gen = gen
  BY <1>3, <1>5 DEF Owned, RecordsAgree, GenerationAgrees
<1>7. req[w] # Idle
  BY DEF Idle, DisposalPhases
<1> QED BY <1>1, <1>2, <1>3, <1>5, <1>6, <1>7
        DEF SameIntent, TupleCurrent, Disposing, Owned, TypeOK, StoreTypeOK

\* The tuple of an observation is of a binding.
LEMMA TupleBinding ==
  ASSUME TypeOK, NEW w \in Workers, req[w].phase = "observed"
  PROVE  /\ TupleCurrent(req[w]) => binding # None /\ binding.gen = req[w].gen
         /\ binding' = None /\ req'[w] = req[w] => ~TupleCurrent(req[w])'
<1>1. [gen |-> req[w].gen, managed |-> req[w].managed] \in Binding
  BY RequestPhase DEF TypeOK, RequestTypeOK, Idle, Binding
<1> QED BY <1>1, NoneAssumption DEF TupleCurrent

\* Where the directory, the binding and what the journal says stay, so does the rest.
LEMMA DiscardFrame ==
  ASSUME DiscardRecords, UNCHANGED <<binding, gen, receipt, dir, discarded>>,
         journal' = journal \/ (JournalEdited /\ journal'.stage = journal.stage)
  PROVE  /\ DiscardRecords'
         /\ \A w \in Workers :
              req'[w] = req[w] /\ DiscardRequest(req[w]) => DiscardRequest(req[w])'
<1>1. DiscardRecords'
  BY DEF DiscardRecords, Discarded, JournalEdited
<1>2. ASSUME NEW w \in Workers, req'[w] = req[w], DiscardRequest(req[w])
      PROVE  DiscardRequest(req[w])'
  BY <1>2 DEF DiscardRequest, TupleCurrent, Intact, JournalEdited
<1> QED BY <1>1, <1>2

LEMMA IdleDiscardRequest ==
  ASSUME NEW w \in Workers, req'[w] = Idle
  PROVE  DiscardRequest(req[w])'
BY DEF DiscardRequest, Idle

\* Beginning a disposal: nothing of this generation has been removed.
LEMMA BeginIntact ==
  ASSUME Owned, NEW w \in Workers, MayBegin(w), req[w].mode = "discardDirectory",
         journal # None => journal.op = req[w].op
  PROVE  Intact
<1>1. req[w].phase = "observed" /\ req[w].facts.kind # None /\ TupleCurrent(req[w])
  BY DEF MayBegin, Unblocked
<1> QED BY <1>1 DEF Owned, DiscardRequests, DiscardRequest

\* A journal is started, or its first stage reached, by the request that owns it.
LEMMA BeginRecords ==
  ASSUME Owned, NEW w \in Workers, MayBegin(w),
         UNCHANGED <<binding, gen, receipt, dir, discarded>>,
         \/ /\ JournalStarted(w)
            /\ journal'.mode = "discardDirectory" =>
                 journal'.stage \in {"reserved", "removalPrepared"}
         \/ /\ JournalEdited
            /\ journal'.stage \in {journal.stage, "removalPrepared"}
  PROVE  DiscardRecords'
<1>1. TupleCurrent(req[w]) /\ binding # None
  BY TupleBinding DEF MayBegin, Owned
<1>2. CASE JournalEdited /\ journal'.stage \in {journal.stage, "removalPrepared"}
  BY <1>2 DEF Owned, DiscardRecords, Discarded, JournalEdited
<1>3. CASE /\ JournalStarted(w)
           /\ journal'.mode = "discardDirectory" =>
                journal'.stage \in {"reserved", "removalPrepared"}
  <2>1. \A d \in discarded : d.of # gen
    BY <1>1, <1>3 DEF Owned, DiscardRecords, JournalStarted
  <2>2. journal'.mode = "discardDirectory" => dir # None
    BY <1>3, BeginIntact DEF JournalStarted, Intact
  <2> QED BY <1>3, <2>1, <2>2 DEF Owned, DiscardRecords, Discarded, JournalStarted
<1> QED BY <1>2, <1>3

\* A write that was cut off leaves a true record.
LEMMA WriteCutRecords ==
  ASSUME Owned, NEW w \in Workers, WriteCut(w), UNCHANGED <<dir, discarded>>
  PROVE  DiscardRecords'
<1>1. ASSUME NEW s \in {"removalInvoked", "removalVerified"}, journal # None,
             journal' = [journal EXCEPT !.stage = s, !.failed = FALSE],
             UNCHANGED <<binding, gen, receipt, cleanup>>,
             Discarded(journal.gen)
      PROVE  DiscardRecords'
  <2>1. journal \in StaleJournal
    BY <1>1 DEF Owned, TypeOK, StoreTypeOK
  <2>2. /\ journal'.stage = s /\ journal'.mode = journal.mode /\ journal'.gen = journal.gen
        /\ journal' \in StaleJournal
    BY <1>1, <2>1 DEF StaleJournal, Stages
  <2>3. journal' # None
    BY <2>2, NoneAssumption
  <2> QED BY <1>1, <2>2, <2>3 DEF Owned, DiscardRecords, Discarded
<1>2. CASE /\ req[w].phase = "removed" /\ MayAdvance(req[w])
           /\ \E s \in {"removalInvoked", "removalVerified"} :
                journal' = [journal EXCEPT !.stage = s, !.failed = FALSE]
           /\ UNCHANGED <<binding, gen, receipt, cleanup>>
  <2>1. journal # None /\ journal.gen = req[w].gen
    BY <1>2, DisposalCurrent DEF DisposalPhases
  <2>2. Discarded(journal.gen)
    BY <1>2, <2>1 DEF Owned, RequestsAgree, RequestAgrees, Discarded
  <2> QED BY <1>1, <1>2, <2>1, <2>2
<1>3. CASE /\ req[w].phase = "observed" /\ TupleCurrent(req[w]) /\ CompletesAbsent(req[w])
           /\ journal' = [journal EXCEPT !.stage = "removalVerified", !.failed = FALSE]
           /\ UNCHANGED <<binding, gen, receipt, cleanup>>
  <2>1. journal # None /\ journal.mode = "discardDirectory"
    BY <1>3 DEF CompletesAbsent, Interrupted, OwnJournal
  <2>2. dir = None
    BY <1>3 DEF CompletesAbsent, Owned, DiscardRequests, DiscardRequest
  <2>3. Discarded(journal.gen)
    BY <2>1, <2>2 DEF Owned, DiscardRecords
  <2> QED BY <1>1, <1>3, <2>1, <2>3
<1>4. CASE /\ MayBegin(w) /\ journal = None /\ req[w].mode = "discardDirectory"
           /\ journal' = Journal(req[w].op, req[w].mode, "reserved")
           /\ cleanup' = "none"
           /\ UNCHANGED <<binding, gen, receipt>>
  <2>1. binding # None
    BY <1>4, TupleBinding DEF MayBegin, Owned
  <2>2. req[w].op \in OpIds /\ binding \in Binding
    BY <1>4, <2>1, RequestPhase
    DEF Owned, TypeOK, StoreTypeOK, RequestTypeOK, MayBegin, Idle
  <2>3. journal' \in StaleJournal
    BY <1>4, <2>2 DEF Journal, StaleJournal, Stages, Modes, Binding
  <2>4. journal' # None
    BY <2>3, NoneAssumption
  <2>5. JournalStarted(w) /\ journal'.stage = "reserved"
    BY <1>4, <2>1, <2>4 DEF JournalStarted, Journal
  <2> QED BY <1>4, <2>5, BeginRecords
<1> QED BY <1>2, <1>3, <1>4 DEF WriteCut

\* Completing the journal of a disposal: its directory has been removed.
LEMMA CompleteRecords ==
  ASSUME Owned, journal # None, Complete(journal), UNCHANGED <<dir, discarded>>,
         journal.mode = "discardDirectory" => Discarded(journal.gen)
  PROVE  DiscardRecords'
BY DEF Complete, Owned, DiscardRecords, Discarded

\* ... and no request in flight relies on it but the one that completes it.
LEMMA CompleteRequests ==
  ASSUME Owned, NEW w \in Workers, journal # None, Complete(journal),
         journal.op = req[w].op, req[w] # Idle, Ends(w)
  PROVE  DiscardRequests'
<1> SUFFICES ASSUME NEW v \in Workers PROVE DiscardRequest(req[v])'
  BY DEF DiscardRequests
<1>1. CASE v = w
  BY <1>1, IdleDiscardRequest, OthersKept DEF Ends, Owned
<1>2. CASE v # w
  <2>1. req'[v] = req[v]
    BY <1>2, OthersKept DEF Ends, Owned
  <2>2. req[v].phase \notin DisposalPhases
    BY <1>2, DisposalCurrent DEF Owned, OperationsDiffer
  <2>3. req[v].phase = "observed" => ~TupleCurrent(req[v])'
    BY <2>1, TupleBinding DEF Complete, Owned
  <2> QED BY <2>1, <2>2, <2>3 DEF DiscardRequest, DisposalPhases
<1> QED BY <1>1, <1>2

\* Steps that leave the journal's tuple, the binding and the directory: the other
\* requests see no difference.
LEMMA FrameRequests ==
  ASSUME Owned, NEW w \in Workers, \A v \in Workers : v # w => req'[v] = req[v],
         UNCHANGED <<binding, gen, receipt, dir, discarded>>,
         journal' = journal \/ (JournalEdited /\ journal'.stage = journal.stage),
         DiscardRequest(req[w])'
  PROVE  DiscardRecords' /\ DiscardRequests'
BY DiscardFrame DEF Owned, DiscardRequests

\* Begin: the journal of the request, and nothing removed
LEMMA BeginDiscards ==
  ASSUME Owned, TypeOK', NEW w \in Workers,
         BeginStarted(w) \/ BeginCurrent(w) \/ BeginRetry(w)
  PROVE  DiscardRecords' /\ DiscardRequests'
<1>1. /\ MayBegin(w) /\ NextStep(w) /\ RequestStep(w)
      /\ UNCHANGED <<binding, gen, receipt, dir, discarded>>
  BY DEF BeginStarted, BeginCurrent, BeginRetry, RequestStep, path, history
<1>2. journal # None => journal.op = req[w].op /\ SameIntent(journal, req[w])
  BY DEF BeginStarted, BeginCurrent, BeginRetry, SameIntent
<1>3. req[w] \in ObservedForget \cup ObservedDiscard /\ binding \in Binding
  BY <1>1, NextStepTyped DEF Owned
<1>4. /\ journal' # None /\ journal'.op = req[w].op
      /\ \/ /\ JournalStarted(w)
            /\ journal'.mode = "discardDirectory" =>
                 journal'.stage \in {"reserved", "removalPrepared"}
         \/ /\ JournalEdited
            /\ journal'.stage \in {journal.stage, "removalPrepared"}
  <2>1. CASE BeginStarted(w)
    <3>1. journal' = Journal(req[w].op, req[w].mode, FirstStage(req[w].mode))
      BY <2>1 DEF BeginStarted
    <3>2. journal' \in StaleJournal
      BY <1>3, <3>1
      DEF Journal, StaleJournal, FirstStage, Stages, Binding, ObservedForget,
          ObservedDiscard, Modes
    <3>3. /\ journal' # None
          /\ journal'.op = req[w].op /\ journal'.mode = req[w].mode
          /\ journal'.gen = binding.gen /\ journal'.managed = binding.managed
          /\ journal'.stage = FirstStage(req[w].mode)
      BY <3>1, <3>2, NoneAssumption DEF Journal
    <3>4. binding # None
      BY <1>3, NoneAssumption
    <3>5. JournalStarted(w)
      BY <1>1, <2>1, <3>3, <3>4 DEF BeginStarted, JournalStarted
    <3> QED BY <3>3, <3>5 DEF FirstStage
  <2>2. CASE BeginCurrent(w) \/ BeginRetry(w)
    <3>1. journal \in StaleJournal /\ journal # None
      BY <2>2 DEF BeginCurrent, BeginRetry, Owned, TypeOK, StoreTypeOK
    <3>2. /\ journal' \in StaleJournal
          /\ journal'.op = journal.op /\ journal'.mode = journal.mode
          /\ journal'.gen = journal.gen /\ journal'.managed = journal.managed
          /\ journal'.stage \in {journal.stage, "removalPrepared"}
      BY <2>2, <3>1 DEF BeginCurrent, BeginRetry, FirstStage, StaleJournal, Stages
    <3>3. journal' # None
      BY <3>2, NoneAssumption
    <3>4. JournalEdited
      BY <2>2, <3>1, <3>2, <3>3 DEF JournalEdited, BeginCurrent, BeginRetry
    <3> QED BY <1>2, <3>1, <3>2, <3>3, <3>4
  <2> QED BY <2>1, <2>2
<1>5. DiscardRecords'
  BY <1>1, <1>4, BeginRecords
<1>6. ASSUME NEW v \in Workers, v # w
      PROVE  DiscardRequest(req[v])'
  <2>1. req'[v] = req[v] /\ req[w] # Idle
    BY <1>1, <1>6, RequestKeepsOperation DEF Owned
  <2>2. req[v] # Idle => journal'.op # req[v].op
    BY <1>4, <1>6, <2>1 DEF Owned, OperationsDiffer
  <2>3. req[v].phase = "observed" => req[v] # Idle
    BY DEF Idle
  <2> QED BY <1>1, <1>4, <2>1, <2>2, <2>3
          DEF Owned, DiscardRequests, DiscardRequest, TupleCurrent, Intact
<1>7. DiscardRequest(req[w])'
  <2>1. CASE req[w].mode = "forgetBinding"
    <3>1. req'[w].phase = "revalidating"
      BY <1>1, <2>1, OthersKept DEF NextStep, Owned
    <3> QED BY <3>1 DEF DiscardRequest
  <2>2. CASE req[w].mode # "forgetBinding"
    <3>1. req'[w].phase = "executing"
      BY <1>1, <2>2, OthersKept DEF NextStep, Owned
    <3>2. req[w].mode = "discardDirectory"
      BY <1>3, <2>2 DEF ObservedForget, ObservedDiscard
    <3>3. Intact
      BY <1>1, <1>2, <3>2, BeginIntact
    <3> QED BY <1>1, <3>1, <3>3 DEF DiscardRequest, Intact
  <2> QED BY <2>1, <2>2
<1> QED BY <1>5, <1>6, <1>7 DEF DiscardRequests

\* A removal is on record, and no other request relies on the directory.
LEMMA RemovalDiscards ==
  ASSUME Owned, TypeOK', NEW w \in Workers, Removal(w), UNCHANGED store,
         RequestStep(w), req'[w].phase \in {"removed", "removalFailed"}
  PROVE  DiscardRecords' /\ DiscardRequests'
<1>1. /\ req[w].phase = "removing" /\ req[w].phase \in DisposalPhases
      /\ dir' = None /\ discarded' = discarded \cup {[by |-> req[w].gen, of |-> gen]}
  BY DEF Removal, DisposalPhases
<1>2. /\ journal # None /\ journal.op = req[w].op /\ journal.gen = req[w].gen
      /\ journal.stage # "reserved" /\ req[w] # Idle
  BY <1>1, DisposalCurrent
<1>3. /\ \E d \in discarded' : d.by = journal.gen
      /\ discarded \subseteq discarded'
  <2>1. [by |-> req[w].gen, of |-> gen] \in discarded'
    BY <1>1
  <2> QED BY <1>1, <1>2, <2>1
<1>4. DiscardRecords'
  BY <1>1, <1>2, <1>3 DEF Owned, DiscardRecords, Discarded, store
<1>5. ASSUME NEW v \in Workers, v # w
      PROVE  DiscardRequest(req[v])'
  <2>1. req'[v] = req[v] /\ UNCHANGED <<binding, journal>>
    BY <1>5, RequestKeepsOperation DEF Owned, store
  <2>2. req[v] # Idle => journal.op # req[v].op
    BY <1>2, <1>5 DEF Owned, OperationsDiffer
  <2>3. req[v].phase \notin DisposalPhases
    BY <2>2, DisposalCurrent
  <2>4. req[v].phase = "observed" => req[v] # Idle
    BY DEF Idle
  <2> QED BY <1>1, <1>2, <2>1, <2>2, <2>3, <2>4
          DEF DiscardRequest, TupleCurrent, DisposalPhases
<1>6. DiscardRequest(req[w])'
  BY DEF DiscardRequest
<1> QED BY <1>4, <1>5, <1>6 DEF DiscardRequests

\* A partial removal leaves the directory in place for the others.
LEMMA PartDiscards ==
  ASSUME Owned, NEW w \in Workers, RemovesPart(req[w]), DiscardRequest(req[w])',
         UNCHANGED <<binding, gen, journal, receipt, discarded>>,
         \A v \in Workers : v # w => req'[v] = req[v]
  PROVE  DiscardRecords' /\ DiscardRequests'
<1>1. dir' = None <=> dir = None
  BY PartTyped DEF Owned
<1>2. DiscardRecords'
  BY <1>1 DEF Owned, DiscardRecords, Discarded
<1>3. ASSUME NEW v \in Workers, v # w
      PROVE  DiscardRequest(req[v])'
  BY <1>1, <1>3 DEF Owned, DiscardRequests, DiscardRequest, TupleCurrent, Intact
<1> QED BY <1>2, <1>3 DEF DiscardRequests

\* Every step of a request keeps the accounts.
LEMMA RequestDiscards ==
  ASSUME Owned, TypeOK', NEW w \in Workers, RequestStep(w) \/ LoseRequest(w)
  PROVE  DiscardRecords' /\ DiscardRequests'
<1>1. /\ req[w] # Idle
      /\ \A v \in Workers : v # w => req'[v] = req[v]
  BY RequestKeepsOperation DEF Owned
<1>2. CASE BeginStarted(w) \/ BeginCurrent(w) \/ BeginRetry(w)
  BY <1>2, BeginDiscards
<1>3. CASE Observe(w)
  <2>1. UNCHANGED <<binding, gen, journal, receipt, dir, discarded>>
    BY <1>3 DEF Observe, store, path, history
  <2>2. /\ req'[w].phase = "observed" /\ req'[w].mode = req[w].mode
        /\ req[w].mode = "discardDirectory" =>
             /\ req'[w].facts.kind = Kind(req[w].managed)
             /\ req'[w].facts.absent = BothAbsent
    BY <1>3, OthersKept DEF Observe, Facts, Owned
  <2>3. Kind(req[w].managed) # None => dir # None
    BY NoneAssumption DEF Kind
  <2>4. TupleCurrent(req[w])' => binding # None
    BY <2>1, <2>2, RequestPhase, NoneAssumption
    DEF TupleCurrent, Owned, TypeOK, RequestTypeOK, Binding, Idle
  <2>5. DiscardRequest(req[w])'
    BY <2>1, <2>2, <2>3, <2>4
    DEF DiscardRequest, Intact, BothAbsent, Owned, DiscardRecords
  <2> QED BY <1>1, <2>1, <2>5, FrameRequests
<1>4. CASE ObservationFails(w) \/ BeginRefused(w)
  <2>1. UNCHANGED <<binding, gen, journal, receipt, dir, discarded>> /\ req'[w] = Idle
    BY <1>4, OthersKept
    DEF ObservationFails, BeginRefused, Ends, store, path, history, Owned
  <2> QED BY <1>1, <2>1, FrameRequests, IdleDiscardRequest
<1>5. CASE BeginAbsent(w)
  <2>1. /\ journal # None /\ journal.op = req[w].op /\ Complete(journal) /\ Ends(w)
        /\ journal.mode = "discardDirectory" /\ UNCHANGED <<dir, discarded>>
    BY <1>5
    DEF BeginAbsent, CompletesAbsent, Interrupted, OwnJournal, path, history
  <2>2. dir = None
    BY <1>5 DEF BeginAbsent, CompletesAbsent, Owned, DiscardRequests, DiscardRequest
  <2>3. Discarded(journal.gen)
    BY <2>1, <2>2 DEF Owned, DiscardRecords
  <2> QED BY <1>1, <2>1, <2>3, CompleteRecords, CompleteRequests
<1>6. CASE ApplyForget(w)
  <2>1. CASE MayForget(req[w]) /\ Complete(journal)
    <3>1. /\ journal # None /\ journal.op = req[w].op /\ Ends(w)
          /\ journal.mode = "forgetBinding" /\ UNCHANGED <<dir, discarded>>
      BY <1>6, <2>1 DEF ApplyForget, MayForget, OwnJournal, path, history
    <3> QED BY <1>1, <2>1, <3>1, CompleteRecords, CompleteRequests
  <2>2. CASE UNCHANGED store
    <3>1. UNCHANGED <<binding, gen, journal, receipt, dir, discarded>> /\ req'[w] = Idle
      BY <1>6, <2>2, OthersKept DEF ApplyForget, Ends, store, path, history, Owned
    <3> QED BY <1>1, <3>1, FrameRequests, IdleDiscardRequest
  <2> QED BY <1>6, <2>1, <2>2 DEF ApplyForget
<1>7. CASE ApplyRemoved(w)
  <2>1. CASE MayAdvance(req[w]) /\ Complete(journal)
    <3>1. /\ journal # None /\ journal.op = req[w].op /\ Ends(w)
          /\ UNCHANGED <<dir, discarded>>
      BY <1>7, <2>1 DEF ApplyRemoved, MayAdvance, OwnJournal, path, history
    <3>2. Discarded(journal.gen)
      BY <1>7, DisposalCurrent
      DEF ApplyRemoved, DisposalPhases, Owned, RequestsAgree, RequestAgrees, Discarded
    <3> QED BY <1>1, <2>1, <3>1, <3>2, CompleteRecords, CompleteRequests
  <2>2. CASE UNCHANGED store
    <3>1. UNCHANGED <<binding, gen, journal, receipt, dir, discarded>> /\ req'[w] = Idle
      BY <1>7, <2>2, OthersKept DEF ApplyRemoved, Ends, store, path, history, Owned
    <3> QED BY <1>1, <3>1, FrameRequests, IdleDiscardRequest
  <2> QED BY <1>7, <2>1, <2>2 DEF ApplyRemoved
<1>8. CASE CheckTarget(w)
  <2>1. /\ UNCHANGED <<binding, gen, journal, receipt, dir, discarded>>
        /\ req[w].phase = "executing"
    BY <1>8 DEF CheckTarget, store, path, history
  <2>2. req'[w].phase \in {"removing", "refused"}
    <3>1. req[w] \in Disposing
      BY <2>1, RequestPhase DEF Owned, TypeOK, RequestTypeOK, DisposalPhases
    <3> QED BY <1>8, <3>1, OthersKept DEF CheckTarget, Owned, Disposing
  <2>3. DiscardRequest(req[w])'
    BY <2>1, <2>2 DEF DiscardRequest, Intact, Owned, DiscardRequests
  <2> QED BY <1>1, <2>1, <2>3, FrameRequests
<1>9. CASE Remove(w) \/ RemoveFails(w)
  <2>1. req[w].phase = "removing" /\ UNCHANGED store
    BY <1>9 DEF Remove, Removal, RemoveFails
  <2>2. req'[w].phase \in {"removed", "removalFailed"}
    <3>1. req[w] \in Disposing
      BY <2>1, RequestPhase DEF Owned, TypeOK, RequestTypeOK, DisposalPhases
    <3> QED BY <1>9, <3>1, OthersKept DEF Remove, RemoveFails, Owned, Disposing
  <2>3. DiscardRequest(req[w])'
    BY <2>2 DEF DiscardRequest
  <2>4. CASE Removal(w)
    BY <1>9, <2>1, <2>2, <2>4, RemovalDiscards DEF RequestStep
  <2>6. CASE RemovesPart(req[w]) /\ UNCHANGED discarded
    BY <1>1, <2>1, <2>3, <2>6, PartDiscards DEF store
  <2> QED BY <1>9, <2>4, <2>6 DEF Remove, RemoveFails, history
<1>13. CASE RetryRemoval(w)
  <2>1. /\ req[w].phase = "removing" /\ RemovesPart(req[w])
        /\ UNCHANGED <<binding, gen, journal, receipt, discarded>>
    BY <1>13 DEF RetryRemoval, store, history
  <2>2. req'[w].phase = "removing"
    <3>1. req[w] \in Disposing
      BY <2>1, RequestPhase DEF Owned, TypeOK, RequestTypeOK, DisposalPhases
    <3> QED BY <1>13, <2>1, <3>1, OthersKept DEF RetryRemoval, Owned, Disposing
  <2>3. DiscardRequest(req[w])'
    BY <2>1, <2>2, PartTyped DEF DiscardRequest, Intact, Owned, DiscardRequests
  <2> QED BY <1>1, <2>1, <2>3, PartDiscards
<1>10. CASE ApplyRefused(w)
  <2>1. req[w].phase = "refused" /\ UNCHANGED <<binding, gen, receipt, dir, discarded>>
        /\ req'[w] = Idle
    BY <1>10, OthersKept DEF ApplyRefused, Ends, path, history, Owned
  <2>2. CASE journal' = journal
    BY <1>1, <2>1, <2>2, FrameRequests, IdleDiscardRequest
  <2>3. CASE journal' = None
    <3>1. Intact
      BY <2>1 DEF Owned, DiscardRequests, DiscardRequest
    <3>2. DiscardRecords'
      BY <2>1, <2>3, <3>1 DEF Owned, DiscardRecords, Discarded, Intact
    <3>3. ASSUME NEW v \in Workers, v # w
          PROVE  DiscardRequest(req[v])'
      BY <1>1, <2>1, <2>3, <3>1, <3>3
      DEF Owned, DiscardRequests, DiscardRequest, TupleCurrent, Intact
    <3> QED BY <2>1, <3>2, <3>3, IdleDiscardRequest DEF DiscardRequests
  <2> QED BY <1>10, <2>2, <2>3 DEF ApplyRefused
<1>11. CASE ApplyRemovalFailed(w)
  <2>1. UNCHANGED <<binding, gen, receipt, dir, discarded, cleanup>> /\ req'[w] = Idle
    BY <1>11, OthersKept DEF ApplyRemovalFailed, Ends, path, history, Owned
  <2>2. journal' = journal \/ (JournalEdited /\ journal'.stage = journal.stage)
    <3>1. CASE OwnJournal(req[w])
      <4>1. journal \in StaleJournal /\ journal' = [journal EXCEPT !.failed = TRUE]
        BY <1>11, <3>1 DEF ApplyRemovalFailed, OwnJournal, Owned, TypeOK, StoreTypeOK
      <4>2. journal' \in StaleJournal
        BY <4>1 DEF StaleJournal
      <4> QED BY <2>1, <4>1, <4>2, NoneAssumption DEF JournalEdited, StaleJournal
    <3> QED BY <1>11, <3>1 DEF ApplyRemovalFailed
  <2> QED BY <1>1, <2>1, <2>2, FrameRequests, IdleDiscardRequest
<1>12. CASE LoseRequest(w)
  <2>1. UNCHANGED <<dir, discarded>> /\ req'[w] = Idle
    BY <1>12, OthersKept DEF LoseRequest, Ends, path, history, Owned
  <2>2. CASE UNCHANGED store
    BY <1>1, <2>1, <2>2, FrameRequests, IdleDiscardRequest DEF store
  <2>3. CASE WriteCut(w)
    <3>1. /\ DiscardRecords' /\ UNCHANGED <<binding, gen>>
          /\ journal # None => journal.op = req[w].op
      BY <2>1, <2>3, WriteCutRecords
      DEF WriteCut, MayAdvance, CompletesAbsent, Interrupted, OwnJournal
    <3>2. journal' # None /\ journal'.op = req[w].op
      <4>1. journal' \in StaleJournal /\ journal'.op = req[w].op
        <5>1. CASE journal # None
          <6>1. journal \in StaleJournal
            BY <5>1 DEF Owned, TypeOK, StoreTypeOK
          <6> QED BY <2>3, <3>1, <5>1, <6>1
                  DEF WriteCut, StaleJournal, Stages
        <5>2. CASE journal = None
          <6>1. /\ MayBegin(w) /\ req[w].mode = "discardDirectory"
                /\ journal' = Journal(req[w].op, req[w].mode, "reserved")
            BY <2>3, <5>2 DEF WriteCut, MayAdvance, CompletesAbsent, Interrupted, OwnJournal
          <6>2. req[w].op \in OpIds /\ binding \in Binding
            BY <1>1, <6>1, RequestPhase, TupleBinding
            DEF Owned, TypeOK, StoreTypeOK, RequestTypeOK, MayBegin
          <6> QED BY <6>1, <6>2 DEF Journal, StaleJournal, Stages, Modes, Binding
        <5> QED BY <5>1, <5>2
      <4> QED BY <4>1, NoneAssumption
    <3>3. ASSUME NEW v \in Workers, v # w
          PROVE  DiscardRequest(req[v])'
      <4>1. req'[v] = req[v]
        BY <1>1, <3>3
      <4>2. req[v].phase = "observed" => journal'.op # req[v].op
        BY <1>1, <3>2, <3>3 DEF Owned, OperationsDiffer, Idle
      <4> QED BY <2>1, <3>1, <3>2, <4>1, <4>2
              DEF Owned, DiscardRequests, DiscardRequest, TupleCurrent, Intact
    <3> QED BY <2>1, <3>1, <3>3, IdleDiscardRequest DEF DiscardRequests
  <2> QED BY <1>12, <2>2, <2>3 DEF LoseRequest
<1> QED BY <1>2, <1>3, <1>4, <1>5, <1>6, <1>7, <1>8, <1>9, <1>10, <1>11, <1>12, <1>13
        DEF RequestStep

\* Every step keeps the accounts.
LEMMA DiscardsStep ==
  ASSUME TypeOK, TypeOK', RecordsAgree, RequestsAgree, RequestsOwn, DiscardsAgree,
         [Next]_vars
  PROVE  DiscardsAgree'
<1> SUFFICES ASSUME changes' = 0, ~repeated' PROVE DiscardRecords' /\ DiscardRequests'
  BY DEF DiscardsAgree, DiscardRequests
<1>1. changes = 0 /\ ~repeated /\ ~OutsideChange
  <2>1. ASSUME NEW w \in Workers, RequestStep(w) \/ LoseRequest(w)
        PROVE  repeated' = repeated /\ changes' = changes
    BY <2>1, RequestPathStep
  <2>2. ASSUME NEW w \in Workers, NEW op \in OpIds, NEW mode \in Modes, Plan(w, op, mode)
        PROVE  (repeated => repeated') /\ changes' = changes
    BY <2>2 DEF Plan, env
  <2>3. ~OutsideChange
    BY DEF OutsideChange, TypeOK, DaemonTypeOK
  <2>4. CASE \/ Crash \/ Restart \/ LaunchSession \/ SessionExits \/ BeginCleanup
             \/ EndCleanup \/ Provision \/ UNCHANGED vars
    <3>1. UNCHANGED history
      BY <2>4, QuietHistory
    <3>2. CASE Crash
      BY <2>3, <3>1, <3>2 DEF Crash, Dies, history
    <3>3. CASE ~Crash
      BY <2>3, <2>4, <3>1, <3>3
      DEF Restart, LaunchSession, SessionExits, BeginCleanup, EndCleanup, Provision, vars,
          history, env
    <3> QED BY <3>2, <3>3
  <2> QED BY <2>1, <2>2, <2>3, <2>4 DEF Next
<1>2. Owned
  BY <1>1 DEF Owned, RequestsOwn, DiscardsAgree, DiscardRequests
<1>3. ASSUME NEW w \in Workers, NEW op \in OpIds, NEW mode \in Modes, Plan(w, op, mode)
      PROVE  DiscardRecords' /\ DiscardRequests'
  <2>1. /\ UNCHANGED <<binding, gen, journal, receipt, dir, discarded>>
        /\ req'[w].phase = "planned" /\ \A v \in Workers : v # w => req'[v] = req[v]
    BY <1>3, OthersKept DEF Plan, store, path
  <2>2. DiscardRequest(req[w])'
    BY <2>1 DEF DiscardRequest
  <2> QED BY <1>2, <2>1, <2>2, FrameRequests
<1>4. ASSUME NEW w \in Workers, RequestStep(w) \/ LoseRequest(w)
      PROVE  DiscardRecords' /\ DiscardRequests'
  BY <1>2, <1>4, RequestDiscards
<1>5. CASE Crash
  <2>1. UNCHANGED <<dir, discarded>> /\ \A w \in Workers : req'[w] = Idle
    BY <1>5 DEF Crash, Dies, path, history
  <2>2. CASE UNCHANGED store
    BY <1>2, <2>1, <2>2, DiscardFrame, IdleDiscardRequest
    DEF Owned, DiscardRequests, store
  <2>3. ASSUME NEW w \in Workers, WriteCut(w) PROVE DiscardRecords'
    BY <1>2, <2>1, <2>3, WriteCutRecords
  <2> QED BY <1>5, <2>1, <2>2, <2>3, IdleDiscardRequest DEF Crash, DiscardRequests
<1>6. CASE Restart
  <2>1. UNCHANGED <<dir, discarded>> /\ \A w \in Workers : req'[w] = Idle
    BY <1>6 DEF Restart, path, history, RecordsAgree, DownMeansIdle
  <2>2. CASE UNCHANGED store
    BY <1>2, <2>1, <2>2, DiscardFrame, IdleDiscardRequest
    DEF Owned, DiscardRequests, store
  <2>3. CASE journal # None /\ journal.stage = "reserved" /\ journal' = None
             /\ UNCHANGED <<binding, gen, receipt, cleanup>>
    <3>1. DiscardRecords'
      BY <1>2, <2>1, <2>3 DEF Owned, DiscardRecords, Discarded
    <3> QED BY <2>1, <3>1, IdleDiscardRequest DEF DiscardRequests
  <2>4. CASE journal # None /\ journal.stage = "removalVerified" /\ Complete(journal)
    <3>1. journal.mode = "discardDirectory" => Discarded(journal.gen)
      BY <1>2, <2>4 DEF Owned, DiscardRecords
    <3> QED BY <1>2, <2>1, <2>4, <3>1, CompleteRecords, IdleDiscardRequest
            DEF DiscardRequests
  <2>5. CASE /\ journal # None /\ journal' = [journal EXCEPT !.failed = TRUE]
             /\ UNCHANGED <<binding, gen, receipt, cleanup>>
    <3>1. journal \in StaleJournal
      BY <2>5 DEF TypeOK, StoreTypeOK
    <3>2. journal' \in StaleJournal
      BY <2>5, <3>1 DEF StaleJournal
    <3>3. JournalEdited /\ journal'.stage = journal.stage
      BY <2>5, <3>1, <3>2, NoneAssumption DEF JournalEdited, StaleJournal
    <3>4. DiscardRecords'
      BY <1>2, <2>1, <2>5, <3>3, DiscardFrame DEF Owned
    <3> QED BY <2>1, <3>4, IdleDiscardRequest DEF DiscardRequests
  <2> QED BY <1>6, <2>2, <2>3, <2>4, <2>5 DEF Restart, Reconciled, store
<1>7. CASE LaunchSession \/ SessionExits \/ BeginCleanup \/ UNCHANGED vars
  <2>1. UNCHANGED <<binding, gen, journal, receipt, dir, discarded, req>>
    BY <1>7 DEF LaunchSession, SessionExits, BeginCleanup, vars, store, path, history
  <2> QED BY <1>2, <2>1, DiscardFrame DEF Owned, DiscardRequests
<1>8. ASSUME journal = None, journal' = None, req' = req, receipt' = receipt,
             discarded' = discarded, \A d \in discarded : d.of = gen' => binding' = None,
             \A w \in Workers : req[w].phase = "observed" => ~TupleCurrent(req[w])'
      PROVE  DiscardRecords' /\ DiscardRequests'
  <2>1. DiscardRecords'
    BY <1>2, <1>8 DEF Owned, DiscardRecords, Discarded
  <2>2. \A w \in Workers : req[w].phase \notin DisposalPhases
    BY <1>2, <1>8, DisposalCurrent
  <2> QED BY <1>8, <2>1, <2>2 DEF DiscardRequests, DiscardRequest, DisposalPhases
<1>9. CASE EndCleanup
  <2>1. journal = None /\ journal' = None
    BY <1>9 DEF EndCleanup, RecordsAgree, JournalNamesBinding
  <2>2. CASE UNCHANGED <<binding, dir>>
    <3>1. UNCHANGED <<binding, gen, journal, receipt, dir, discarded, req>>
      BY <1>9, <2>2 DEF EndCleanup, history
    <3> QED BY <1>2, <3>1, DiscardFrame DEF Owned, DiscardRequests
  <2>3. CASE binding' = None
    <3>1. req' = req /\ receipt' = receipt /\ discarded' = discarded
      BY <1>9 DEF EndCleanup, history
    <3>2. \A w \in Workers : req[w].phase = "observed" => ~TupleCurrent(req[w])'
      BY <2>3, <3>1, TupleBinding
    <3> QED BY <1>8, <2>1, <2>3, <3>1, <3>2
  <2> QED BY <1>9, <2>2, <2>3 DEF EndCleanup
<1>10. CASE Provision
  <2>1. /\ journal = None /\ journal' = None /\ req' = req /\ receipt' = receipt
        /\ discarded' = discarded /\ gen' = gen + 1 /\ gen \in Nat
        /\ binding' = [gen |-> gen + 1, managed |-> TRUE]
    BY <1>10 DEF Provision, history, TypeOK, StoreTypeOK
  <2>2. \A d \in discarded : d.of # gen'
    BY <2>1 DEF RecordsAgree, PastKnown, TypeOK, DaemonTypeOK
  <2>3. ASSUME NEW w \in Workers, req[w].phase = "observed"
        PROVE  ~TupleCurrent(req[w])'
    <3>1. req[w].gen <= gen /\ req[w].gen \in Nat
      BY <2>3, RequestPhase
      DEF RequestsAgree, RequestAgrees, TypeOK, RequestTypeOK, Idle
    <3> QED BY <2>1, <3>1 DEF TupleCurrent
  <2> QED BY <1>8, <2>1, <2>2, <2>3
<1> QED BY <1>1, <1>3, <1>4, <1>5, <1>6, <1>7, <1>9, <1>10 DEF Next

-----------------------------------------------------------------------------
(* Theorems *)

\* The four parts hold at the start.
LEMMA StaleInit ==
  ASSUME Init
  PROVE  StaleInv
<1>1. PICK managed \in BOOLEAN :
        gen = (IF managed THEN 1 ELSE 0) /\ binding = [gen |-> gen, managed |-> managed]
  BY StaleAssumption DEF Init
<1>2. /\ journal = None /\ receipt = None /\ discarded = {} /\ up = TRUE
      /\ \A w \in Workers : req[w] = Idle
  BY DEF Init
<1>3. TypeOK
  <2>1. StoreTypeOK
    BY <1>1 DEF Init, StoreTypeOK, Binding, CleanupStates
  <2>2. PathTypeOK
    BY DEF Init, PathTypeOK, Leaf
  <2>3. RequestTypeOK
    BY DEF Init, RequestTypeOK, Request
  <2>4. DaemonTypeOK
    BY DEF Init, DaemonTypeOK
  <2> QED BY <2>1, <2>2, <2>3, <2>4 DEF TypeOK
<1>4. RecordsAgree
  BY <1>1, <1>2
  DEF RecordsAgree, GenerationAgrees, JournalNamesBinding, JournalKeepsSessionsOut,
      DownMeansIdle, PastKnown
<1>5. RequestsAgree /\ RequestsOwn
  BY <1>2
  DEF RequestsAgree, RequestAgrees, RequestsOwn, OperationsDiffer, OwnsJournal, Idle,
      DisposalPhases
<1>6. DiscardsAgree
  BY <1>2 DEF DiscardsAgree, DiscardRecords, DiscardRequest, Idle
<1> QED BY <1>3, <1>4, <1>5, <1>6 DEF StaleInv

\* The inductive invariant: it holds at the start, and every step of begin, apply,
\* removal, crash, restart, session, cleanup, provisioning and other programs keeps it.
THEOREM StaleInvariant == Spec => []StaleInv
<1>1. Init => StaleInv
  BY StaleInit
<1>2. StaleInv /\ [Next]_vars => StaleInv'
  BY TypeStep, RecordsStep, RequestsStep, RequestsOwnStep, DiscardsStep DEF StaleInv
<1> QED BY <1>1, <1>2, PTL DEF Spec

\* Every variable keeps its type, whatever the requests, faults and other programs do.
THEOREM StaleTypes == Spec => []TypeOK
<1>1. StaleInv => TypeOK
  BY DEF StaleInv
<1> QED BY <1>1, StaleInvariant, PTL

\* No directory is removed under a session, as long as no request is repeated while it
\* is in flight: the journal that a disposal owns keeps sessions out.
THEOREM StaleSessions == Spec => []NoRemovalUnderSession
<1>1. StaleInv => NoRemovalUnderSession
  <2> SUFFICES ASSUME StaleInv, ~repeated, NEW w \in Workers, req[w].phase = "removing"
               PROVE  ~attached
    BY DEF NoRemovalUnderSession
  <2>1. req[w] \in Disposing
    BY RequestPhase DEF StaleInv, TypeOK, RequestTypeOK, DisposalPhases
  <2>2. journal # None /\ journal.mode = "discardDirectory"
    BY <2>1
    DEF StaleInv, RequestsOwn, OwnsJournal, SameIntent, DisposalPhases, Disposing
  <2> QED BY <2>2 DEF StaleInv, RecordsAgree, JournalKeepsSessionsOut
<1> QED BY <1>1, StaleInvariant, PTL

\* The journal names the binding the Task has and stands beside no cleanup; and a
\* removal under way has it, as long as no request is repeated while it is in flight.
THEOREM StaleJournals == Spec => []ResolutionJournalSound
<1>1. StaleInv => ResolutionJournalSound
  <2> SUFFICES ASSUME StaleInv PROVE DisposalReserved
    BY DEF ResolutionJournalSound, StaleInv, RecordsAgree
  <2> SUFFICES ASSUME ~repeated, NEW w \in Workers,
                      req[w].phase \in {"removing", "removed"}
               PROVE  OwnJournal(req[w]) /\ journal.mode = "discardDirectory"
    BY DEF DisposalReserved
  <2>1. req[w] \in Disposing
    BY RequestPhase DEF StaleInv, TypeOK, RequestTypeOK, DisposalPhases
  <2> QED BY <2>1
          DEF StaleInv, RequestsOwn, OwnsJournal, SameIntent, OwnJournal, DisposalPhases,
              Disposing
<1> QED BY <1>1, StaleInvariant, PTL

\* A removal is of the generation its request is for, as long as no request is repeated
\* while it is in flight: the journal it owns names the binding the Task has.  No
\* identity of a directory is taken to be unique.
THEOREM StaleGenerations == Spec => []RemovesOnlyItsGeneration
<1>1. Init => RemovesOnlyItsGeneration
  BY DEF Init, RemovesOnlyItsGeneration
<1>2. StaleInv /\ RemovesOnlyItsGeneration /\ [Next]_vars => RemovesOnlyItsGeneration'
  <2> SUFFICES ASSUME StaleInv, RemovesOnlyItsGeneration, [Next]_vars
               PROVE  RemovesOnlyItsGeneration'
    OBVIOUS
  <2> USE DEF StaleInv
  <2>1. ASSUME NEW w \in Workers, RequestStep(w) \/ LoseRequest(w)
        PROVE  RemovesOnlyItsGeneration'
    <3>1. repeated' = repeated
      BY <2>1, RequestPathStep
    <3>2. CASE discarded' = discarded
      BY <3>1, <3>2 DEF RemovesOnlyItsGeneration
    <3>3. ASSUME ~repeated, req[w].phase = "removing"
          PROVE  req[w].gen = gen
      <4>1. req[w] \in Disposing /\ OwnsJournal(req[w])
        BY <3>3, RequestPhase DEF TypeOK, RequestTypeOK, DisposalPhases, RequestsOwn
      <4>2. journal # None /\ SameIntent(journal, req[w])
        BY <3>3, <4>1 DEF OwnsJournal, DisposalPhases
      <4>3. binding = [gen |-> req[w].gen, managed |-> req[w].managed]
        BY <4>2 DEF RecordsAgree, JournalNamesBinding, TupleCurrent, SameIntent
      <4>4. binding # None
        BY <4>1, <4>3, NoneAssumption DEF Binding, Disposing
      <4> QED BY <4>3, <4>4 DEF RecordsAgree, GenerationAgrees
    <3>4. CASE /\ req[w].phase = "removing"
               /\ discarded' = discarded \cup {[by |-> req[w].gen, of |-> gen]}
      BY <3>1, <3>3, <3>4 DEF RemovesOnlyItsGeneration
    <3> QED BY <2>1, <3>2, <3>4, RequestPathStep
  <2>2. CASE discarded' = discarded /\ (repeated => repeated')
    BY <2>2 DEF RemovesOnlyItsGeneration
  <2>3. ASSUME NEW w \in Workers, NEW op \in OpIds, NEW mode \in Modes, Plan(w, op, mode)
        PROVE  discarded' = discarded /\ (repeated => repeated')
    BY <2>3 DEF Plan
  <2>4. CASE \/ Crash \/ Restart \/ LaunchSession \/ SessionExits \/ BeginCleanup
             \/ EndCleanup \/ Provision \/ OutsideChange \/ UNCHANGED vars
    <3>1. UNCHANGED history
      BY <2>4, QuietHistory
    <3> QED BY <2>2, <3>1 DEF history
  <2> QED BY <2>1, <2>2, <2>3, <2>4 DEF Next
<1> QED BY <1>1, <1>2, StaleInvariant, PTL DEF Spec

\* Without repeated requests and other programs: a discard is reported only when the
\* directory was removed, and stays on record until the binding is gone, however often
\* the daemon dies on the way.
THEOREM StaleDiscards == Spec => []DiscardsAccounted
<1>1. StaleInv => DiscardsAccounted
  <2> SUFFICES ASSUME StaleInv, changes = 0, ~repeated
               PROVE  /\ receipt # None /\ receipt.mode = "discardDirectory" =>
                           \E d \in discarded : d.by = receipt.gen
                      /\ \A d \in discarded :
                           binding # None /\ binding.gen = d.of => journal # None
    BY DEF DiscardsAccounted, ReportedDiscardHappened, DiscardOnRecord
  <2>1. DiscardRecords
    BY DEF StaleInv, DiscardsAgree
  <2> QED BY <2>1
          DEF DiscardRecords, Discarded, StaleInv, RecordsAgree, GenerationAgrees
<1> QED BY <1>1, StaleInvariant, PTL

=============================================================================
