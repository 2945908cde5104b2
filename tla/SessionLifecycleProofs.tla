----------------------- MODULE SessionLifecycleProofs -----------------------
(***************************************************************************)
(* The safety of one agent session's lifecycle, proved for any number of   *)
(* attempts in flight, epochs, generations and faults, and for every order *)
(* of requests the code allows.                                            *)
(***************************************************************************)
EXTENDS SessionLifecycle, TLAPS

-----------------------------------------------------------------------------
(* The inductive invariant *)

Early == {"planned", "spawned", "polling", "stable"}
Provisional == {"spawned", "polling", "stable"}
Finishing == {"reaping", "reaped"}
Planning == Early \cup {"abandoned", "failing", "dropping"} \cup Finishing

\* An epoch is handed out once.
EpochsBounded ==
  /\ 1 <= sess.epoch /\ sess.epoch <= epochs /\ mem.obs <= epochs
  /\ term # None => term.epoch <= epochs
  /\ reaped # None => reaped <= epochs
  /\ reloc # None => 1 <= reloc.op /\ reloc.op <= epochs

PlanBounded(r) ==
  r.phase \in Planning =>
    /\ 1 <= r.epoch /\ r.epoch <= epochs /\ r.old <= epochs
    /\ r.phase \in Finishing => r.snap.epoch <= epochs

\* The epoch of a plan is not that of the session, of another plan, or one that was
\* the session's when a plan was made or given up.
PlansApart(r, q) ==
  r.phase \in Planning /\ q.phase \in Planning =>
    /\ r.old # q.epoch
    /\ r.phase \in Finishing => r.snap.epoch # q.epoch

PlanApart(r) == r.phase \in Planning => r.epoch # sess.epoch

EpochsApart ==
  /\ \A a, b \in Attempts : PlansApart(att[a], att[b])
  /\ \A a, b \in Attempts :
       /\ a # b /\ att[a].phase \in Planning /\ att[b].phase \in Planning
       => att[a].epoch # att[b].epoch

EpochsInv ==
  /\ EpochsBounded
  /\ \A a \in Attempts : PlanBounded(att[a]) /\ PlanApart(att[a])
  /\ EpochsApart

\* What has been spawned.
Spawns(r) ==
  /\ r.phase \in Provisional => r.old = 0 /\ r.spawned
  /\ r.phase = "planned" => ~r.spawned
  /\ r.phase \in Planning /\ ~r.spawned =>
       (term # None => term.epoch # r.epoch) /\ reaped # r.epoch

\* The process that replaced a session's is not taken for the exited one.
ExitsApart == term # None /\ term.agent /\ reaped # None => term.epoch # reaped

\* The session has stopped running in the epoch a plan replaces or gives up.
SourceStopped(r) ==
  /\ sess.state = "running" /\ r.phase \in Planning
  => r.old # sess.epoch /\ (r.phase \in Finishing => r.snap.epoch # sess.epoch)

ProcessInv ==
  /\ mem.reserved => sess.state # "running"
  /\ sess.why # None => sess.state = "resumeFailed"
  /\ ExitsApart
  /\ \A a \in Attempts : Spawns(att[a]) /\ SourceStopped(att[a])

\* A plan is for the session as it is.
PlanMatches(r) ==
  /\ r.phase \in Early /\ r.kind # "relocation"
  /\ mem.reserved /\ mem.obs = r.epoch /\ sess.state = "resuming"
  => r.cwd = sess.cwd /\ r.guard = sess.guard /\ (r.cwd # "tree" => r.guard = 0)

RelocationMatches(r) ==
  /\ r.phase \in Early /\ reloc # None /\ reloc.op = r.epoch
  => /\ r.kind = "relocation" /\ r.cwd = reloc.to
     /\ r.guard = IF reloc.to = "tree" THEN reloc.gen ELSE 0

PlansInv == \A a \in Attempts : PlanMatches(att[a]) /\ RelocationMatches(att[a])

\* An archive that is under way has its operation.
ArchiverInv == archiver # "idle" => arch # None

\* A reservation without an observation is that of a close, any other that of a resume.
ReservationInv ==
  "orphaned" \notin slips /\ mem.reserved =>
    IF mem.obs = 0 THEN closer # "idle" /\ sess.state # "resuming" /\ ~Archiving
    ELSE sess.state = "resuming"

\* A close has the session to itself until its reservation is released.
CloseInv ==
  "yielded" \notin slips /\ closer # "idle" =>
    mem.reserved /\ mem.obs = 0 /\ Stopped(sess)

\* A relocation operation is that of the plan that is reserved.
RelocationInv ==
  "orphaned" \notin slips /\ reloc # None =>
    mem.reserved /\ mem.obs = reloc.op /\ RelocationLoads

ReceiptInv == "moved" \notin slips => ReceiptLoads

ArchiveLoadsInv == "overtaken" \notin slips => ArchiveLoads

\* What a failing attempt has seen is still so while it holds the reservation.
SnapshotsCurrent ==
  "orphaned" \notin slips =>
    \A a \in Attempts :
      att[a].phase \in Finishing /\ mem.reserved /\ mem.obs = att[a].epoch
      => SnapshotCurrent(a)

\* An attempt that drives the session, and a call of a start that is about to
Drives(a) ==
  /\ att[a].phase \in Planning /\ att[a].phase # "dropping"
  /\ mem.reserved /\ att[a].epoch = mem.obs

Waits(a) == att[a] \in {Queued, [kind |-> "startup", phase |-> "asked"]}

Driven ==
  /\ sess.state = "resuming" => \E a \in Attempts : Drives(a) \/ Waits(a)
  /\ mem.reserved /\ mem.obs # 0 => \E a \in Attempts : Drives(a)

DrivenInv == "orphaned" \notin slips => Driven

\* A continuation shell is there while the session resumes only for a relocation.
HoldInv ==
  "orphaned" \notin slips /\ mem.hold /\ sess.state = "resuming" => mem.reserved

\* A call that a start of the daemon made, or its one retry
Started(r) ==
  \/ r \in {Queued, Again}
  \/ r.phase \in Early \cup Unplanned \cup {"asked"} /\ r.kind \in {"startup", "retry"}
  \/ r.phase \in {"failing", "dropping"} \cup Finishing /\ r.again

\* Without faults nobody resumes an archived session: only a start of the daemon could.
RestingInv ==
  faults = 0 =>
    /\ \A a \in Attempts : ~Started(att[a])
    /\ sess.archived => Stopped(sess)

\* Without faults, an attempt that has reaped has left no process of its own.
OwnedInv ==
  /\ faults = 0 => \A a \in Attempts :
       /\ att[a].phase \notin {"unrecovered", "abandoned"}
       /\ att[a].phase = "reaped" /\ term # None /\ term.agent
          => term.epoch \notin OwnEpochs(a)
  /\ AgentOwned

\* An epoch whose process is owed, and what accounts for it
Live(e) ==
  \/ sess.state = "running" /\ arch = None /\ e = sess.epoch
  \/ /\ sess.state = "resuming" /\ arch = None
     /\ \E a \in Attempts : att[a].phase \in Provisional /\ Drives(a) /\ e = att[a].epoch

HasRuntime(e) == (term # None /\ term.agent /\ term.epoch = e) \/ reaped = e \/ e \in lost

RuntimeInv == \A e \in Nat : Live(e) => HasRuntime(e)

CoreInv ==
  EpochsInv /\ ProcessInv /\ PlansInv /\ NoRunInHeldTree /\ RestingInv /\ OwnedInv /\ RuntimeInv
\* The parts that hold until something slips
StoreInv == ReservationInv /\ CloseInv /\ RelocationInv /\ ReceiptInv /\ ArchiveLoadsInv
DriverInv == SnapshotsCurrent /\ DrivenInv /\ HoldInv

SessionInv == TypeOK /\ ArchiverInv /\ CoreInv /\ StoreInv /\ DriverInv

-----------------------------------------------------------------------------
(* Types *)

\* None is no record.
LEMMA NoneApart ==
  /\ None \notin Nat /\ None \notin Reasons /\ None \notin Relocation
  /\ None \notin RelocationReceipt /\ None \notin ArchiveOperation
  /\ None \notin Runtime
BY NoneAssumption DEF NoneAssumption

\* What the phase of an attempt says about its record.
LEMMA AttemptPhase ==
  ASSUME NEW r \in Attempt
  PROVE  /\ r.phase \in Unplanned \cup {"asked"} => r \in Calling
         /\ r.phase \in Early \cup {"abandoned"} => r \in PlannedAttempt
         /\ r.phase \in {"failing", "dropping"} => r \in FailingAttempt
         /\ r.phase \in Finishing => r \in ReapingAttempt
BY DEF Attempt, Calling, PlannedAttempt, FailingAttempt, ReapingAttempt, Idle, Queued,
       Again, Unplanned, Early, Finishing

LEMMA AttemptKinds ==
  /\ Idle \in Attempt /\ Queued \in Attempt /\ Again \in Attempt
  /\ Calling \subseteq Attempt /\ PlannedAttempt \subseteq Attempt
  /\ FailingAttempt \subseteq Attempt /\ ReapingAttempt \subseteq Attempt
BY DEF Attempt

LEMMA SetAttTyped ==
  ASSUME ServerTypeOK, NEW a \in Attempts, NEW r \in Attempt, SetAtt(a, r),
         UNCHANGED <<closer, archiver>>, epochs' \in Nat, faults' \in Nat
  PROVE  ServerTypeOK'
BY DEF ServerTypeOK, SetAtt

LEMMA SetAttOthers ==
  ASSUME ServerTypeOK, NEW a \in Attempts, NEW r, SetAtt(a, r)
  PROVE  /\ att'[a] = r
         /\ \A b \in Attempts : b # a => att'[b] = att[b]
BY DEF ServerTypeOK, SetAtt

\* A failing attempt keeps the epochs of its plan.
LEMMA FailingTyped ==
  ASSUME NEW r \in PlannedAttempt, NEW why \in Reasons \cup {"timeout"}
  PROVE  /\ Failing(r, why) \in FailingAttempt
         /\ Failing(r, why).phase = "failing"
         /\ Failing(r, why).epoch = r.epoch /\ Failing(r, why).old = r.old
         /\ Failing(r, why).spawned = r.spawned
         /\ why \in Reasons => Failing(r, why).why = why
         /\ why = "timeout" => Failing(r, why).why = "retry"
BY DEF Failing, PlannedAttempt, FailingAttempt, Reasons

\* What a failure that is applied leaves.
LEMMA AppliedFailure ==
  ASSUME TypeOK, NEW why \in Reasons, ApplyFailure(why)
  PROVE  /\ sess' \in {sess, ResumeFailed(sess, why)} /\ sess' \in Session
         /\ Stopped(sess')
         /\ sess' # sess => reloc # None \/ ~Stopped(sess) \/ why = "uncertain"
         /\ sess'.epoch = sess.epoch /\ sess'.cwd = sess.cwd /\ sess'.guard = sess.guard
         /\ sess'.archived = sess.archived
         /\ sess'.why # None => sess'.state = "resumeFailed" \/ sess' = sess
         /\ reloc' = None /\ receipt' = receipt /\ arch' = arch
         /\ mem' \in Maps /\ ~mem'.reserved /\ ~mem'.ready /\ mem'.obs = 0
         /\ ~mem'.reaping
         /\ term' = term \/ (term = None /\ term' = Shell(sess.epoch))
<1> DEFINE s == IF reloc # None \/ ~Stopped(sess) \/ why = "uncertain"
                THEN ResumeFailed(sess, why) ELSE sess
           h == IF reloc = None /\ why # "uncertain" THEN SpawnHold(s, mem.hold, term)
                ELSE [hold |-> mem.hold, term |-> term]
<1>1. /\ s \in {sess, ResumeFailed(sess, why)} /\ s \in Session /\ Stopped(s)
      /\ s # sess => reloc # None \/ ~Stopped(sess) \/ why = "uncertain"
      /\ s.epoch = sess.epoch /\ s.cwd = sess.cwd /\ s.guard = sess.guard
      /\ s.archived = sess.archived
      /\ s.why # None => s.state = "resumeFailed" \/ s = sess
  BY DEF TypeOK, StoreTypeOK, Session, ResumeFailed, Stopped
<1>2. /\ sess' = s /\ reloc' = None /\ mem' = [NoMaps EXCEPT !.hold = h.hold]
      /\ term' = h.term /\ receipt' = receipt /\ arch' = arch
  BY DEF ApplyFailure
<1>3. /\ h.hold \in BOOLEAN
      /\ h.term = term \/ (term = None /\ h.term = Shell(sess.epoch))
  <2> HIDE DEF s
  <2> QED BY <1>1 DEF SpawnHold, TypeOK, RuntimeTypeOK, Maps
<1> HIDE DEF s, h
<1>4. /\ mem' \in Maps /\ ~mem'.reserved /\ ~mem'.ready /\ mem'.obs = 0 /\ ~mem'.reaping
  BY <1>2, <1>3 DEF NoMaps, Maps
<1> QED BY <1>1, <1>2, <1>3, <1>4

\* What an exit that is applied leaves.
LEMMA AppliedExit ==
  ASSUME TypeOK, ApplyExit
  PROVE  /\ sess' \in {sess, ResumeFailed(sess, "retry"), Exited(sess)}
         /\ sess' \in Session
         /\ sess'.epoch = sess.epoch /\ sess'.cwd = sess.cwd /\ sess'.guard = sess.guard
         /\ sess'.archived = sess.archived
         /\ mem.hold => sess' = sess
         /\ ~mem.hold => Stopped(sess')
         /\ reloc' = IF sess' = sess THEN reloc ELSE None
         /\ mem' \in Maps
         /\ mem.hold => /\ mem'.reserved = mem.reserved /\ mem'.ready = mem.ready
                        /\ mem'.obs = mem.obs
         /\ ~mem.hold => ~mem'.reserved /\ mem'.obs = 0
         /\ mem'.reaping = mem.reaping
         /\ mem'.hold => term' # None \/ Stopped(sess')
         /\ term' = term \/ (term = None /\ term' = Shell(sess.epoch))
<1> DEFINE s == IF mem.hold THEN sess
                ELSE IF mem.reserved THEN ResumeFailed(sess, "retry")
                ELSE IF sess.state = "resumeFailed" THEN sess
                ELSE Exited(sess)
           h == SpawnHold(s, FALSE, term)
<1>1. /\ s \in {sess, ResumeFailed(sess, "retry"), Exited(sess)} /\ s \in Session
      /\ s.epoch = sess.epoch /\ s.cwd = sess.cwd /\ s.guard = sess.guard
      /\ s.archived = sess.archived
      /\ mem.hold => s = sess
      /\ ~mem.hold => Stopped(s)
  BY DEF TypeOK, StoreTypeOK, Session, ResumeFailed, Exited, Stopped, Reasons
<1>2. /\ sess' = s /\ reloc' = (IF s = sess THEN reloc ELSE None) /\ term' = h.term
      /\ mem' = IF mem.hold THEN [mem EXCEPT !.hold = h.hold]
                ELSE [mem EXCEPT !.reserved = FALSE, !.ready = @ /\ ~mem.reserved,
                                 !.obs = 0, !.hold = h.hold]
  BY DEF ApplyExit
<1>3. /\ h.hold \in BOOLEAN
      /\ h.hold => h.term # None \/ Stopped(s)
      /\ h.term = term \/ (term = None /\ h.term = Shell(sess.epoch))
  <2> HIDE DEF s
  <2> QED BY <1>1 DEF SpawnHold
<1> HIDE DEF s, h
<1>4. /\ mem' \in Maps
      /\ mem.hold => /\ mem'.reserved = mem.reserved /\ mem'.ready = mem.ready
                     /\ mem'.obs = mem.obs
      /\ ~mem.hold => ~mem'.reserved /\ mem'.obs = 0
      /\ mem'.reaping = mem.reaping
      /\ mem'.hold = h.hold
  BY <1>2, <1>3 DEF TypeOK, RuntimeTypeOK, Maps
<1> QED BY <1>1, <1>2, <1>3, <1>4

\* What a start of the daemon leaves.
LEMMA Restarted ==
  ASSUME TypeOK, Crash
  PROVE  /\ sess' \in Session
         /\ sess'.epoch = sess.epoch /\ sess'.cwd = sess.cwd /\ sess'.guard = sess.guard
         /\ Stopped(sess') \/ sess'.state = "resuming"
         /\ sess.archived => sess'.archived
         /\ sess'.archived => (sess.archived /\ arch = None) \/ sess'.state = "exited"
         /\ arch = None /\ Stopped(sess) => Stopped(sess')
         /\ sess'.state = "resuming" =>
              sess'.why = sess.why /\ ~Stopped(sess)
         /\ Stopped(sess') => \/ sess'.state = "resumeFailed"
                              \/ sess'.why = None
                              \/ sess'.why = sess.why /\ sess'.state = sess.state
         /\ mem' \in Maps /\ ~mem'.reserved /\ ~mem'.ready /\ mem'.obs = 0
         /\ ~mem'.reaping /\ (mem'.hold => Stopped(sess'))
         /\ term' = None \/ term' = Shell(sess.epoch)
         /\ sess'.state = "resuming" => \E a \in Attempts : att'[a] = Queued
         /\ att' \in [Attempts -> {Idle, Queued}]
         /\ reloc' = None /\ arch' = None /\ reaped' = None /\ receipt' = receipt
         /\ tree' = tree /\ epochs' = epochs /\ closer' = "idle" /\ archiver' = "idle"
         /\ faults' = faults + 1
<1>1. PICK s \in {RestartedSession(TRUE), RestartedSession(FALSE)} :
        LET shell == Stopped(s) /\ ~s.archived /\ ~Unowned(s)
        IN /\ sess' = s
           /\ term' = IF shell THEN Shell(s.epoch) ELSE None
           /\ mem' = [NoMaps EXCEPT !.hold = shell]
           /\ IF s.state = "resuming"
              THEN \E a \in Attempts :
                     att' = [b \in Attempts |-> IF b = a THEN Queued ELSE Idle]
              ELSE att' = [b \in Attempts |-> Idle]
  BY DEF Crash
<1> DEFINE r == IF reloc # None THEN ResumeFailed(sess, "retry")
                ELSE IF Stopped(sess) THEN sess
                ELSE [sess EXCEPT !.state = "resuming"]
<1>2. /\ r \in Session
      /\ r.epoch = sess.epoch /\ r.cwd = sess.cwd /\ r.guard = sess.guard
      /\ r.archived = sess.archived
      /\ Stopped(r) \/ r.state = "resuming"
      /\ Stopped(sess) => Stopped(r)
      /\ r.state = "resuming" => r.why = sess.why /\ ~Stopped(sess)
      /\ Stopped(r) => \/ r.state = "resumeFailed"
                       \/ r.why = sess.why /\ r.state = sess.state
  BY DEF TypeOK, StoreTypeOK, Session, ResumeFailed, Stopped, Reasons
<1>3. s \in {IF arch # None THEN Archived(r) ELSE r,
             IF arch # None THEN Archived(r)
             ELSE IF ~Stopped(r) THEN ResumeFailed(r, "uncertain") ELSE r}
  BY DEF RestartedSession
<1> HIDE DEF r
<1>4. /\ s \in Session
      /\ s.epoch = sess.epoch /\ s.cwd = sess.cwd /\ s.guard = sess.guard
      /\ Stopped(s) \/ s.state = "resuming"
      /\ sess.archived => s.archived
      /\ s.archived => (sess.archived /\ arch = None) \/ s.state = "exited"
      /\ arch = None /\ Stopped(sess) => Stopped(s)
      /\ s.state = "resuming" => s.why = sess.why /\ ~Stopped(sess)
      /\ Stopped(s) => \/ s.state = "resumeFailed"
                       \/ s.why = None
                       \/ s.why = sess.why /\ s.state = sess.state
  <2>1. CASE s = r /\ arch = None
    BY <2>1, <1>2
  <2>2. CASE s = ResumeFailed(r, "uncertain") /\ arch = None /\ ~Stopped(r)
    BY <2>2, <1>2 DEF ResumeFailed, Session, Stopped, Reasons
  <2>3. CASE s = Archived(r)
    BY <2>3, <1>2 DEF Archived, Exited, Session, Stopped
  <2> QED BY <2>1, <2>2, <2>3, <1>3
<1>5. (Stopped(s) /\ ~s.archived /\ ~Unowned(s)) \in BOOLEAN
  BY <1>4 DEF Session, Stopped, Unowned
<1>6. /\ mem' \in Maps /\ ~mem'.reserved /\ ~mem'.ready /\ mem'.obs = 0
      /\ ~mem'.reaping /\ (mem'.hold => Stopped(sess'))
  BY <1>1, <1>5 DEF NoMaps, Maps
<1>7. /\ sess'.state = "resuming" => \E a \in Attempts : att'[a] = Queued
      /\ att' \in [Attempts -> {Idle, Queued}]
  BY <1>1
<1>8. term' = None \/ term' = Shell(sess.epoch)
  BY <1>1, <1>4
<1>9. /\ reloc' = None /\ arch' = None /\ reaped' = None /\ receipt' = receipt
      /\ tree' = tree /\ epochs' = epochs /\ closer' = "idle" /\ archiver' = "idle"
      /\ faults' = faults + 1
  BY DEF Crash
<1>10. sess' = s
  BY <1>1
<1> QED BY <1>4, <1>6, <1>7, <1>8, <1>9, <1>10

LEMMA ShellTyped ==
  ASSUME NEW e \in Nat
  PROVE  Shell(e) \in Runtime /\ Agent(e) \in Runtime /\ ~Shell(e).agent
         /\ Agent(e).agent /\ Shell(e).epoch = e /\ Agent(e).epoch = e
         /\ Shell(e) # None /\ Agent(e) # None
<1>1. /\ Shell(e) \in Runtime /\ Agent(e) \in Runtime /\ ~Shell(e).agent
      /\ Agent(e).agent /\ Shell(e).epoch = e /\ Agent(e).epoch = e
  BY DEF Shell, Agent, Runtime
<1> QED BY <1>1, NoneApart


LEMMA GuardedTyped ==
  ASSUME TypeOK
  PROVE  /\ Guarded \in Session
         /\ Guarded.state = sess.state /\ Guarded.why = sess.why
         /\ Guarded.epoch = sess.epoch /\ Guarded.cwd = sess.cwd
         /\ Guarded.archived = sess.archived
         /\ Guarded.guard \in Nat
         /\ Guarded.guard = IF sess.cwd = "tree" THEN sess.guard ELSE 0
BY DEF Guarded, TypeOK, StoreTypeOK, Session

LEMMA OtherFolderTyped == OtherFolder \in Folders /\ OtherFolder # sess.cwd
<1>1. \E f \in Folders : f # sess.cwd
  BY DEF Folders
<1> QED BY <1>1 DEF OtherFolder

LEMMA WithoutTyped ==
  ASSUME TypeOK, NEW es
  PROVE  Without(es) \in {term, None} /\ Without(es) \in Runtime \cup {None}
BY DEF Without, TypeOK, RuntimeTypeOK

-----------------------------------------------------------------------------
(* What a step of an attempt does, field by field *)

Others(a) == \A b \in Attempts : b # a => att'[b] = att[b]

StateTypeOK == StoreTypeOK /\ RuntimeTypeOK /\ ServerTypeOK

OnlyAttempt(a) ==
  Others(a) /\ UNCHANGED <<store, tree, mem, proc, closer, archiver, epochs, faults>>

\* The session but for a guard that names another folder
SameSession ==
  /\ sess'.state = sess.state /\ sess'.why = sess.why /\ sess'.epoch = sess.epoch
  /\ sess'.cwd = sess.cwd /\ sess'.archived = sess.archived
  /\ sess'.guard = IF sess.cwd = "tree" THEN sess.guard ELSE 0

SamePlan(r, q) ==
  /\ r.epoch = q.epoch /\ r.old = q.old /\ r.kind = q.kind /\ r.cwd = q.cwd
  /\ r.guard = q.guard /\ r.spawned = q.spawned

\* A call looks at the session; that of a start goes on where the session resumes.
LooksUp(a) ==
  /\ att[a].phase \notin Planning \cup Unplanned /\ att'[a].phase \in {"looked", "asked"}
  /\ Waits(a) => att'[a] = [kind |-> "startup", phase |-> "asked"] \/ Unowned(sess)
  /\ OnlyAttempt(a)

\* A call ends without effect; one that a start made only where another drives the
\* session, or where a continuation shell resists.
Withdraws(a) ==
  /\ att[a].phase \notin Planning /\ att'[a] = Idle
  /\ att[a].phase \notin Unplanned
  /\ Waits(a) => mem.reserved \/ mem.hold \/ sess.state # "resuming"
  /\ sess' = sess \/ SameSession
  /\ Others(a) /\ faults' \in {faults, faults + 1}
  /\ UNCHANGED <<reloc, receipt, arch, tree, mem, proc, closer, archiver, epochs>>

\* A call fails the session at once.
FailsAtOnce(a) ==
  /\ att[a].phase \notin Planning /\ att'[a] = Idle
  /\ ~mem.reserved /\ tree.held /\ sess.cwd = "tree"
  /\ sess'.state = "resumeFailed" /\ sess'.why = "retry" /\ sess'.epoch = sess.epoch
  /\ sess'.cwd = sess.cwd /\ sess'.archived = sess.archived /\ sess'.guard = sess.guard
  /\ reloc' = None
  /\ Others(a)
  /\ UNCHANGED <<receipt, arch, tree, mem, proc, closer, archiver, epochs, faults>>

\* A plan takes the reservation.
Takes(a) ==
  /\ att[a].phase \notin Planning \cup Unplanned
  /\ ~mem.reserved
  /\ epochs' = epochs + 1
  /\ sess'.state = "resuming" /\ sess'.why = None /\ sess'.epoch = sess.epoch
  /\ sess'.cwd = sess.cwd /\ sess'.archived = sess.archived
  /\ mem'.reserved /\ mem'.obs = epochs + 1
  /\ Others(a)
  /\ UNCHANGED <<arch, tree, reaped, closer, archiver>>

Reserves(a) ==
  /\ Takes(a)
  /\ att'[a].phase = "planned" /\ att'[a].epoch = epochs + 1 /\ ~att'[a].spawned
  /\ att'[a].old = IF sess.state = "running" THEN sess.epoch ELSE 0
  /\ UNCHANGED faults

Prepares(a) ==
  /\ Reserves(a) /\ ~mem'.hold
  /\ sess.archived => sess.state = "running" \/ Started(att[a])
  /\ att'[a].kind # "relocation"
  /\ att'[a].cwd = sess.cwd /\ att'[a].guard = sess'.guard
  /\ sess'.guard = IF sess.cwd = "tree" THEN sess.guard ELSE 0
  /\ term' = term \/ term' = None
  /\ UNCHANGED <<reloc, receipt>>

Relocates(a) ==
  /\ Reserves(a)
  /\ reloc = None /\ reloc' # None /\ ~tree.held /\ ~Archiving
  /\ reloc'.op = epochs + 1 /\ reloc'.epoch = sess.epoch /\ reloc'.from = sess.cwd
  /\ reloc'.gen = tree.gen
  /\ att'[a].kind = "relocation" /\ att'[a].cwd = reloc'.to
  /\ att'[a].guard = IF reloc'.to = "tree" THEN tree.gen ELSE 0
  /\ sess'.guard = sess.guard /\ receipt' = None
  /\ term' = term

\* The reservation is taken and the plan is not made.
LeavesReservation(a) ==
  /\ Takes(a) /\ att'[a] = Idle /\ faults' = faults + 1
  /\ "orphaned" \in slips'
  /\ term' = term \/ term' = None
  /\ \/ /\ sess'.guard = IF sess.cwd = "tree" THEN sess.guard ELSE 0
        /\ UNCHANGED <<reloc, receipt>>
     \/ /\ reloc = None /\ reloc' # None /\ reloc'.op = epochs + 1
        /\ sess'.guard = sess.guard /\ receipt' = None

Detaches(a) ==
  /\ att[a].phase = "looked" /\ att'[a].phase = "detached"
  /\ mem.reserved /\ mem.obs # 0 => "orphaned" \in slips'
  /\ mem'.obs = 0 /\ mem'.reserved = mem.reserved /\ mem'.hold = mem.hold
  /\ Others(a) /\ UNCHANGED <<store, tree, proc, closer, archiver, epochs, faults>>

\* The registered runtime stays, or an agent is lost.
StaysOrLost ==
  term' = term \/ (term' = None /\ (term # None /\ term.agent => term.epoch \in lost'))

Recovers(a) ==
  /\ att[a].phase = "detached"
  /\ \/ att'[a].phase = "asked" /\ term' = None /\ UNCHANGED faults
     \/ (att'[a].phase = "unrecovered" \/ att'[a] = Idle) /\ faults' = faults + 1
  /\ StaysOrLost
  /\ Others(a) /\ UNCHANGED <<store, tree, mem, reaped, closer, archiver, epochs>>

\* A plan has failed.
GivesUp(a) ==
  /\ att[a].phase \in Early /\ att'[a].phase = "failing"
  /\ att'[a].epoch = att[a].epoch /\ att'[a].spawned = att[a].spawned
  /\ \/ att'[a].old = att[a].old /\ UNCHANGED faults
     \/ att'[a].old \in {att[a].old, 0} /\ faults' = faults + 1
  /\ Others(a) /\ UNCHANGED <<store, tree, mem, proc, closer, archiver, epochs>>

\* Its worker is lost.
Panics(a) ==
  /\ att[a].phase = "planned" /\ att'[a].phase = "abandoned"
  /\ SamePlan(att'[a], att[a])
  /\ \/ term' = term
     \/ term' = IF term # None /\ term.epoch = att[a].old THEN None ELSE term
  /\ faults' = faults + 1
  /\ Others(a) /\ UNCHANGED <<store, tree, mem, reaped, closer, archiver, epochs>>

\* A plan goes on; its relocation may be marked as starting.
GoesOn(a) ==
  /\ att[a].phase \in {"spawned", "polling"} /\ att'[a].phase \in {"polling", "stable"}
  /\ SamePlan(att'[a], att[a])
  /\ \/ reloc' = reloc
     \/ /\ reloc # None /\ reloc' # None /\ reloc'.op = reloc.op
        /\ reloc'.epoch = reloc.epoch /\ reloc'.from = reloc.from
        /\ reloc'.to = reloc.to /\ reloc'.gen = reloc.gen
  /\ Others(a)
  /\ UNCHANGED <<sess, receipt, arch, tree, mem, proc, closer, archiver, epochs, faults>>

RetiresSource(a) ==
  /\ att[a].phase = "planned" /\ att'[a].phase = "planned" /\ att'[a].old = 0
  /\ att'[a].epoch = att[a].epoch /\ att'[a].kind = att[a].kind
  /\ att'[a].cwd = att[a].cwd /\ att'[a].guard = att[a].guard
  /\ att'[a].spawned = att[a].spawned
  /\ term' = IF term # None /\ term.epoch = att[a].old THEN None ELSE term
  /\ Others(a)
  /\ UNCHANGED <<store, tree, mem, reaped, closer, archiver, epochs, faults>>

SpawnsAgent(a) ==
  /\ att[a].phase = "planned" /\ att[a].old = 0 /\ term = None
  /\ term' = Agent(att[a].epoch)
  /\ att'[a].phase \in {"spawned", "polling"} /\ att'[a].spawned /\ att'[a].old = 0
  /\ att'[a].epoch = att[a].epoch /\ att'[a].kind = att[a].kind
  /\ att'[a].cwd = att[a].cwd /\ att'[a].guard = att[a].guard
  /\ Others(a)
  /\ UNCHANGED <<store, tree, mem, reaped, closer, archiver, epochs, faults>>

Commits(a) ==
  /\ att[a].phase = "stable" /\ att'[a] = Idle
  /\ mem.reserved /\ mem.obs = att[a].epoch /\ sess.state = "resuming"
  /\ ~LaunchReserved(att[a].cwd) /\ (att[a].guard # 0 => att[a].guard = tree.gen)
  /\ sess'.state = "running" /\ sess'.why = None /\ sess'.epoch = att[a].epoch
  /\ sess'.archived = sess.archived
  /\ mem'.obs = mem.obs /\ ~mem'.reserved /\ mem'.hold = mem.hold
  /\ arch # None => "overtaken" \in slips'
  /\ \/ /\ att[a].kind # "relocation" /\ sess'.cwd = sess.cwd /\ sess'.guard = sess.guard
        /\ receipt' = None /\ reloc' = reloc
     \/ /\ att[a].kind = "relocation" /\ reloc # None /\ reloc.op = att[a].epoch
        /\ tree.gen = reloc.gen
        /\ sess'.cwd = reloc.to /\ sess'.guard = att[a].guard
        /\ receipt' # None /\ receipt'.epoch = att[a].epoch /\ receipt'.cwd = reloc.to
        /\ receipt'.gen = reloc.gen /\ reloc' = None
  /\ Others(a) /\ UNCHANGED <<arch, tree, proc, closer, archiver, epochs, faults>>

SameEpochs(r, q) == r.epoch = q.epoch /\ r.old = q.old /\ r.spawned = q.spawned

\* A failure is begun, where the session is still what failed.
BeginsFailure(a) ==
  /\ att[a].phase = "failing" /\ att'[a].phase = "reaping"
  /\ SameEpochs(att'[a], att[a]) /\ att'[a].snap = Snapshot
  /\ MayBeginFailure(a)
  /\ mem'.reserved = mem.reserved /\ mem'.obs = mem.obs /\ mem'.hold = mem.hold
  /\ Others(a) /\ UNCHANGED <<store, tree, proc, closer, archiver, epochs, faults>>

DropsPlan(a) ==
  /\ att[a].phase = "failing" /\ att'[a].phase = "dropping"
  /\ SameEpochs(att'[a], att[a]) /\ ~MayBeginFailure(a)
  /\ OnlyAttempt(a)

Reaps(a) ==
  /\ \/ att[a].phase = "reaping" /\ att'[a].phase = "reaped"
        /\ SameEpochs(att'[a], att[a]) /\ att'[a].snap = att[a].snap
     \/ att[a].phase = "dropping" /\ att'[a] = Idle
  /\ \/ term' = Without(OwnEpochs(a)) /\ UNCHANGED faults
     \/ term' = term /\ faults' = faults + 1 /\ att[a].phase = "reaping"
  /\ Others(a) /\ UNCHANGED <<store, tree, mem, reaped, closer, archiver, epochs>>

\* A failure is applied, or was overtaken.
AppliesFailure(a) ==
  /\ \/ att[a].phase \in {"unrecovered", "abandoned"}
     \/ att[a].phase = "reaped" /\ SnapshotCurrent(a)
  /\ closer # "idle" /\ mem.reserved => "yielded" \in slips'
  /\ att'[a] \in {Idle, Again}
  /\ Stopped(sess')
  /\ sess'.why # None => sess'.state = "resumeFailed" \/ sess' = sess
  /\ sess'.epoch = sess.epoch /\ sess'.cwd = sess.cwd /\ sess'.guard = sess.guard
  /\ sess'.archived = sess.archived
  /\ reloc' = None
  /\ ~mem'.reserved /\ mem'.obs = 0
  /\ term' = term \/ (term = None /\ term' = Shell(sess.epoch))
  /\ Others(a)
  /\ UNCHANGED <<receipt, arch, tree, reaped, closer, archiver, epochs, faults>>

ForgetsFailure(a) ==
  /\ att[a].phase = "reaped" /\ ~SnapshotCurrent(a) /\ att'[a] = Idle
  /\ OnlyAttempt(a)

Moves(a) ==
  \/ LooksUp(a) \/ Withdraws(a) \/ FailsAtOnce(a) \/ Prepares(a) \/ Relocates(a)
  \/ LeavesReservation(a) \/ Detaches(a) \/ Recovers(a) \/ GivesUp(a) \/ Panics(a)
  \/ GoesOn(a) \/ RetiresSource(a) \/ SpawnsAgent(a) \/ Commits(a) \/ BeginsFailure(a) \/ DropsPlan(a) \/ Reaps(a)
  \/ AppliesFailure(a) \/ ForgetsFailure(a)

-----------------------------------------------------------------------------
(* Every step of an attempt keeps the types and is one of these moves *)

LEMMA StoreKept ==
  ASSUME TypeOK, UNCHANGED <<store, tree>>
  PROVE  StoreTypeOK'
BY DEF TypeOK, StateTypeOK, StoreTypeOK, store

LEMMA RuntimeKept ==
  ASSUME TypeOK, mem' \in Maps, term' \in Runtime \cup {None}, reaped' \in Nat \cup {None}
  PROVE  RuntimeTypeOK'
BY DEF RuntimeTypeOK

LEMMA MapsKept ==
  ASSUME TypeOK, UNCHANGED <<mem, proc>>
  PROVE  RuntimeTypeOK'
BY DEF TypeOK, StateTypeOK, RuntimeTypeOK, proc

LEMMA TypesOf ==
  ASSUME TypeOK, NEW a \in Attempts
  PROVE  /\ att[a] \in Attempt /\ ServerTypeOK
         /\ epochs \in Nat /\ faults \in Nat /\ epochs + 1 \in Nat /\ faults + 1 \in Nat
         /\ mem \in Maps /\ term \in Runtime \cup {None} /\ reaped \in Nat \cup {None}
BY DEF TypeOK, StateTypeOK, ServerTypeOK, RuntimeTypeOK

LEMMA PhaseOfCall ==
  ASSUME NEW a \in Attempts, NEW kind \in Kinds
  PROVE  /\ Calls(a, kind) \/ Asks(a, kind) => att[a].phase \notin Planning \cup Unplanned
         /\ Asks(a, kind) /\ Waits(a) => kind = "startup"
         /\ Calls(a, kind) /\ Waits(a) => kind = "startup"
BY DEF Calls, Asks, Waits, Idle, Queued, Again, Planning, Early, Finishing, Unplanned

LEMMA PhaseTyped ==
  ASSUME NEW r \in Calling, NEW p \in Unplanned \cup {"asked"}
  PROVE  [r EXCEPT !.phase = p] \in Attempt /\ [r EXCEPT !.phase = p].phase = p
BY AttemptKinds DEF Calling

LEMMA LookMoves ==
  ASSUME TypeOK, NEW a \in Attempts, NEW kind \in Kinds, Look(a, kind)
  PROVE  StateTypeOK' /\ LooksUp(a)
<1>1. PICK p \in {"looked", "asked"} : p = IF Unowned(sess) THEN "looked" ELSE "asked"
  OBVIOUS
<1>2. PICK r : r = [kind |-> kind, phase |-> p]
  OBVIOUS
<1>3. r \in Attempt /\ r.phase = p
  BY <1>2, AttemptKinds DEF Calling, Unplanned
<1>4. /\ SetAtt(a, r) /\ Calls(a, kind)
      /\ UNCHANGED <<store, tree, mem, proc, closer, archiver, epochs, faults>>
  BY <1>1, <1>2 DEF Look
<1>5. StateTypeOK'
  BY <1>3, <1>4, StoreKept, MapsKept, SetAttTyped, TypesOf DEF StateTypeOK
<1>6. att'[a] = r /\ Others(a)
  BY <1>4, SetAttOthers, TypesOf DEF Others
<1>7. att[a].phase \notin Planning \cup Unplanned
  BY <1>4, PhaseOfCall
<1>8. Waits(a) => r = [kind |-> "startup", phase |-> "asked"] \/ Unowned(sess)
  BY <1>1, <1>2, <1>4, PhaseOfCall
<1> QED BY <1>1, <1>3, <1>4, <1>5, <1>6, <1>7, <1>8 DEF LooksUp, OnlyAttempt

LEMMA DetachMoves ==
  ASSUME TypeOK, NEW a \in Attempts, Detach(a)
  PROVE  StateTypeOK' /\ Detaches(a)
<1>1. att[a] \in Calling /\ att[a].phase = "looked"
  BY AttemptPhase, TypesOf DEF Detach, Unplanned
<1>2. PICK r : r = [att[a] EXCEPT !.phase = "detached"]
  OBVIOUS
<1>3. r \in Attempt /\ r.phase = "detached"
  BY <1>1, <1>2, PhaseTyped DEF Unplanned
<1>4. /\ SetAtt(a, r) /\ mem' = [mem EXCEPT !.obs = 0]
      /\ UNCHANGED <<store, tree, proc, closer, archiver, epochs, faults>>
      /\ mem.reserved /\ mem.obs # 0 => "orphaned" \in slips'
  BY <1>2 DEF Detach, Phase, Slip
<1>5. /\ mem' \in Maps /\ mem'.obs = 0 /\ mem'.reserved = mem.reserved /\ mem'.hold = mem.hold
  BY <1>4 DEF TypeOK, RuntimeTypeOK, Maps
<1>6. StateTypeOK'
  BY <1>3, <1>4, <1>5, StoreKept, RuntimeKept, SetAttTyped, TypesOf DEF proc, StateTypeOK
<1>7. att'[a] = r /\ Others(a)
  BY <1>4, SetAttOthers, TypesOf DEF Others
<1> QED BY <1>1, <1>3, <1>4, <1>5, <1>6, <1>7 DEF Detaches

LEMMA RecoverMoves ==
  ASSUME TypeOK, NEW a \in Attempts, Recover(a)
  PROVE  StateTypeOK' /\ Recovers(a)
<1>1. att[a] \in Calling /\ att[a].phase = "detached"
  BY AttemptPhase, TypesOf DEF Recover, Unplanned
<1>2. PICK r \in Attempt :
        /\ SetAtt(a, r)
        /\ \/ r.phase = "asked" /\ term' = None /\ UNCHANGED faults
           \/ (r.phase = "unrecovered" \/ r = Idle) /\ faults' = faults + 1
  <2>1. CASE Phase(a, "asked") /\ term' = None /\ UNCHANGED faults
    BY <1>1, <2>1, PhaseTyped DEF Phase
  <2>2. CASE Phase(a, "unrecovered") /\ faults' = faults + 1
    BY <1>1, <2>2, PhaseTyped DEF Phase, Unplanned
  <2>3. CASE SetAtt(a, Idle) /\ faults' = faults + 1
    BY <2>3, AttemptKinds
  <2> QED BY <2>1, <2>2, <2>3 DEF Recover, Ends
<1>3. /\ StaysOrLost /\ term' \in {term, None}
      /\ UNCHANGED <<store, tree, mem, reaped, closer, archiver, epochs>>
  BY DEF Recover, StaysOrLost, LosesAgent
<1>4. StoreTypeOK' /\ RuntimeTypeOK' /\ ServerTypeOK'
  <2>1. faults' \in Nat /\ term' \in Runtime \cup {None}
    BY <1>2, <1>3, TypesOf
  <2> QED BY <2>1, <1>2, <1>3, StoreKept, RuntimeKept, SetAttTyped, TypesOf
<1>5. att'[a] = r /\ Others(a)
  BY <1>2, SetAttOthers, TypesOf DEF Others
<1> QED BY <1>1, <1>2, <1>3, <1>4, <1>5 DEF StateTypeOK, Recovers

\* The types after a failure that is applied
LEMMA FailureTyped ==
  ASSUME TypeOK, NEW why \in Reasons, ApplyFailure(why), NEW a \in Attempts,
         NEW r \in Attempt, SetAtt(a, r),
         UNCHANGED <<tree, reaped, closer, archiver, epochs, faults>>
  PROVE  StateTypeOK'
<1>1. term' \in Runtime \cup {None}
  <2>1. sess.epoch \in Nat
    BY DEF TypeOK, StateTypeOK, StoreTypeOK, Session
  <2> QED BY <2>1, AppliedFailure, ShellTyped, TypesOf
<1>2. StoreTypeOK'
  BY AppliedFailure DEF TypeOK, StateTypeOK, StoreTypeOK
<1>3. RuntimeTypeOK'
  BY <1>1, AppliedFailure, RuntimeKept, TypesOf
<1>4. ServerTypeOK'
  BY SetAttTyped, TypesOf
<1> QED BY <1>2, <1>3, <1>4 DEF TypeOK, StateTypeOK

LEMMA MarkUncertainMoves ==
  ASSUME TypeOK, NEW a \in Attempts, MarkUncertain(a)
  PROVE  StateTypeOK' /\ AppliesFailure(a)
<1>1. /\ ApplyFailure("uncertain") /\ SetAtt(a, Idle) /\ "uncertain" \in Reasons
      /\ att[a].phase \in {"unrecovered", "abandoned"} /\ YieldsClose
      /\ UNCHANGED <<tree, reaped, closer, archiver, epochs, faults>>
  BY DEF MarkUncertain, Ends, Reasons
<1>2. StateTypeOK'
  BY <1>1, FailureTyped, AttemptKinds
<1>3. att'[a] = Idle /\ Others(a)
  BY <1>1, SetAttOthers, TypesOf DEF Others
<1>4. closer # "idle" /\ mem.reserved => "yielded" \in slips'
  BY <1>1, AppliedFailure DEF YieldsClose, Yields, Slip
<1> QED BY <1>1, <1>2, <1>3, <1>4, AppliedFailure DEF AppliesFailure

LEMMA CompleteFailureMoves ==
  ASSUME TypeOK, NEW a \in Attempts, CompleteFailure(a)
  PROVE  StateTypeOK' /\ (AppliesFailure(a) \/ ForgetsFailure(a))
<1>1. att[a] \in ReapingAttempt /\ att[a].phase = "reaped"
  BY AttemptPhase, TypesOf DEF CompleteFailure, Finishing
<1>2. CASE SnapshotCurrent(a)
  <2>1. ApplyFailure(att[a].why) /\ SetAtt(a, AfterFailure(a)) /\ YieldsClose
        /\ UNCHANGED <<tree, reaped, closer, archiver, epochs, faults>>
    BY <1>2 DEF CompleteFailure
  <2>2. PICK why \in Reasons : why = att[a].why
    BY <1>1 DEF ReapingAttempt
  <2>3. AfterFailure(a) \in {Idle, Again} /\ AfterFailure(a) \in Attempt
    BY AttemptKinds DEF AfterFailure
  <2>4. PICK r \in {Idle, Again} : r = AfterFailure(a) /\ r \in Attempt
    BY <2>3
  <2>5. ApplyFailure(why) /\ SetAtt(a, r)
    BY <2>1, <2>2, <2>4
  <2>6. StateTypeOK'
    BY <2>1, <2>4, <2>5, FailureTyped
  <2>7. att'[a] = r /\ Others(a)
    BY <2>5, SetAttOthers, TypesOf DEF Others
  <2>8. closer # "idle" /\ mem.reserved => "yielded" \in slips'
    BY <2>1, <2>5, AppliedFailure DEF YieldsClose, Yields, Slip
  <2> QED BY <1>1, <1>2, <2>1, <2>4, <2>5, <2>6, <2>7, <2>8, AppliedFailure DEF AppliesFailure
<1>3. CASE ~SnapshotCurrent(a)
  <2>1. /\ SetAtt(a, Idle)
        /\ UNCHANGED <<store, tree, mem, proc, closer, archiver, epochs, faults>>
    BY <1>3 DEF CompleteFailure, Ends, proc
  <2>2. StateTypeOK'
    BY <2>1, StoreKept, MapsKept, SetAttTyped, TypesOf, AttemptKinds DEF TypeOK, StateTypeOK
  <2>3. att'[a] = Idle /\ Others(a)
    BY <2>1, SetAttOthers, TypesOf DEF Others
  <2> QED BY <1>1, <1>3, <2>1, <2>2, <2>3 DEF ForgetsFailure, OnlyAttempt
<1> QED BY <1>2, <1>3

LEMMA RefusedMoves ==
  ASSUME TypeOK, NEW a \in Attempts, NEW kind \in Kinds, Refused(a, kind)
  PROVE  StateTypeOK' /\ Withdraws(a)
<1>1. /\ SetAtt(a, Idle) /\ Asks(a, kind) /\ kind \in {"explicit", "relocation"}
      /\ UNCHANGED <<store, tree, mem, proc, closer, archiver, epochs, faults>>
  BY DEF Refused, Ends
<1>2. StateTypeOK'
  BY <1>1, StoreKept, MapsKept, SetAttTyped, TypesOf, AttemptKinds DEF TypeOK, StateTypeOK
<1>3. att'[a] = Idle /\ Others(a)
  BY <1>1, SetAttOthers, TypesOf DEF Others
<1>4. att[a].phase \notin Planning /\ att[a].phase \notin Unplanned /\ ~Waits(a)
  BY <1>1, PhaseOfCall
<1> QED BY <1>1, <1>2, <1>3, <1>4 DEF Withdraws, store

LEMMA PlanCurrentMoves ==
  ASSUME TypeOK, NEW a \in Attempts, NEW kind \in Kinds, PlanCurrent(a, kind)
  PROVE  StateTypeOK' /\ Withdraws(a)
<1>1. /\ SetAtt(a, Idle) /\ Asks(a, kind) /\ AnsweredByCurrent(kind) /\ sess' = Guarded
      /\ UNCHANGED <<reloc, receipt, arch, tree, mem, proc, closer, archiver, epochs, faults>>
  BY DEF PlanCurrent, AsksResume, Ends
<1>2. SameSession /\ sess' \in Session
  BY <1>1, GuardedTyped DEF SameSession
<1>3. StoreTypeOK'
  BY <1>1, <1>2 DEF TypeOK, StateTypeOK, StoreTypeOK
<1>4. StateTypeOK'
  BY <1>1, <1>3, MapsKept, SetAttTyped, TypesOf, AttemptKinds DEF TypeOK, StateTypeOK
<1>5. att'[a] = Idle /\ Others(a)
  BY <1>1, SetAttOthers, TypesOf DEF Others
<1>6. att[a].phase \notin Planning /\ att[a].phase \notin Unplanned
  BY <1>1, PhaseOfCall
<1>7. Waits(a) => mem.reserved \/ sess.state # "resuming"
  <2>1. Waits(a) => kind = "startup"
    BY <1>1, PhaseOfCall
  <2> QED BY <1>1, <2>1 DEF AnsweredByCurrent, Stopped, TypeOK, StateTypeOK, StoreTypeOK, Session
<1> QED BY <1>1, <1>2, <1>4, <1>5, <1>6, <1>7 DEF Withdraws

LEMMA HoldResistsMoves ==
  ASSUME TypeOK, NEW a \in Attempts, NEW kind \in Kinds, HoldResists(a, kind)
  PROVE  StateTypeOK' /\ Withdraws(a)
<1>1. /\ SetAtt(a, Idle) /\ Asks(a, kind) /\ mem.hold /\ sess' = Guarded
      /\ faults' = faults + 1
      /\ UNCHANGED <<reloc, receipt, arch, tree, mem, proc, closer, archiver, epochs>>
  BY DEF HoldResists, AsksResume, Ends
<1>2. SameSession /\ sess' \in Session
  BY <1>1, GuardedTyped DEF SameSession
<1>3. StoreTypeOK'
  BY <1>1, <1>2 DEF TypeOK, StoreTypeOK
<1>4. StateTypeOK'
  BY <1>1, <1>3, MapsKept, SetAttTyped, TypesOf, AttemptKinds DEF StateTypeOK
<1>5. att'[a] = Idle /\ Others(a)
  BY <1>1, SetAttOthers, TypesOf DEF Others
<1>6. att[a].phase \notin Planning /\ att[a].phase \notin Unplanned
  BY <1>1, PhaseOfCall
<1> QED BY <1>1, <1>2, <1>4, <1>5, <1>6 DEF Withdraws

LEMMA PlanLaunchReservedMoves ==
  ASSUME TypeOK, NEW a \in Attempts, NEW kind \in Kinds, PlanLaunchReserved(a, kind)
  PROVE  StateTypeOK' /\ FailsAtOnce(a)
<1>1. /\ SetAtt(a, Idle) /\ Asks(a, kind) /\ ~mem.reserved /\ tree.held /\ sess.cwd = "tree"
      /\ sess' = ResumeFailed(Guarded, "retry") /\ reloc' = None
      /\ UNCHANGED <<receipt, arch, tree, mem, proc, closer, archiver, epochs, faults>>
  BY DEF PlanLaunchReserved, AsksResume, Ends, AnsweredByCurrent, LaunchReserved
<1>2. PICK g \in Session : g = Guarded
  BY GuardedTyped
<1>3. /\ g.epoch = sess.epoch /\ g.cwd = sess.cwd /\ g.archived = sess.archived
      /\ g.guard = sess.guard
  BY <1>1, <1>2, GuardedTyped
<1>4. /\ sess' \in Session
      /\ sess'.state = "resumeFailed" /\ sess'.why = "retry" /\ sess'.epoch = sess.epoch
      /\ sess'.cwd = sess.cwd /\ sess'.archived = sess.archived /\ sess'.guard = sess.guard
  BY <1>1, <1>2, <1>3 DEF ResumeFailed, Session, Reasons
<1>5. StoreTypeOK'
  BY <1>1, <1>4 DEF TypeOK, StateTypeOK, StoreTypeOK
<1>6. StateTypeOK'
  BY <1>1, <1>5, MapsKept, SetAttTyped, TypesOf, AttemptKinds DEF TypeOK, StateTypeOK
<1>7. att'[a] = Idle /\ Others(a)
  BY <1>1, SetAttOthers, TypesOf DEF Others
<1>8. att[a].phase \notin Planning
  BY <1>1, PhaseOfCall
<1> QED BY <1>1, <1>4, <1>6, <1>7, <1>8 DEF FailsAtOnce

\* The record of a plan
LEMMA PlannedTyped ==
  ASSUME TypeOK, NEW kind \in Kinds, NEW old \in Nat, NEW cwd \in Folders, NEW guard \in Nat
  PROVE  /\ Planned(kind, old, cwd, guard) \in Attempt
         /\ Planned(kind, old, cwd, guard).phase = "planned"
         /\ Planned(kind, old, cwd, guard).kind = kind
         /\ Planned(kind, old, cwd, guard).epoch = epochs + 1
         /\ Planned(kind, old, cwd, guard).old = old
         /\ Planned(kind, old, cwd, guard).cwd = cwd
         /\ Planned(kind, old, cwd, guard).guard = guard
         /\ ~Planned(kind, old, cwd, guard).spawned
<1>1. Directory(cwd) \in Nat /\ epochs + 1 \in Nat
  BY DEF Directory, TypeOK, StateTypeOK, StoreTypeOK, ServerTypeOK
<1>2. Planned(kind, old, cwd, guard) \in PlannedAttempt
  BY <1>1 DEF Planned, PlannedAttempt
<1> QED BY <1>2, AttemptKinds DEF Planned

LEMMA PlanPreparesMoves ==
  ASSUME TypeOK, NEW a \in Attempts, NEW kind \in Kinds, PlanPrepares(a, kind)
  PROVE  StateTypeOK' /\ (Prepares(a) \/ LeavesReservation(a))
<1> DEFINE e == epochs + 1
           o == IF kind = "restart" THEN sess.epoch ELSE 0
<1>1. PICK old \in Nat : old = o
  BY DEF TypeOK, StateTypeOK, StoreTypeOK, Session
<1>2. PICK g \in Session : g = Guarded
  BY GuardedTyped
<1>3. /\ g.epoch = sess.epoch /\ g.cwd = sess.cwd /\ g.archived = sess.archived
      /\ g.guard = (IF sess.cwd = "tree" THEN sess.guard ELSE 0)
      /\ g.cwd \in Folders /\ g.guard \in Nat
  BY <1>2, GuardedTyped DEF Session
<1>4. PICK r : r = Planned(kind, old, g.cwd, g.guard)
  OBVIOUS
<1>5. r \in Attempt /\ r.phase = "planned" /\ r.kind = kind /\ r.epoch = e
      /\ r.old = old /\ r.cwd = g.cwd /\ r.guard = g.guard /\ ~r.spawned
  BY <1>3, <1>4, PlannedTyped
<1>6. \/ SetAtt(a, r) /\ UNCHANGED faults
      \/ SetAtt(a, Idle) /\ faults' = faults + 1 /\ "orphaned" \in slips'
  BY <1>1, <1>2, <1>3, <1>4 DEF PlanPrepares, MakesPlan, Ends, Slip
<1>7. /\ AsksResume(a, kind) /\ ~AnsweredByCurrent(kind)
      /\ epochs' = e
      /\ sess' = [g EXCEPT !.state = "resuming", !.why = None]
      /\ term' \in {term, None}
      /\ mem' = [mem EXCEPT !.reserved = TRUE, !.ready = FALSE, !.obs = e, !.hold = FALSE]
      /\ UNCHANGED <<reloc, receipt, arch, tree, reaped, closer, archiver>>
  BY <1>2 DEF PlanPrepares
<1>8. e \in Nat
  BY TypesOf
<1> HIDE DEF e
<1>9. /\ mem' \in Maps /\ mem'.reserved /\ mem'.obs = e /\ ~mem'.hold
  BY <1>7, <1>8 DEF TypeOK, RuntimeTypeOK, Maps
<1>10. /\ sess' \in Session /\ sess'.state = "resuming" /\ sess'.why = None
       /\ sess'.epoch = sess.epoch /\ sess'.cwd = sess.cwd
       /\ sess'.archived = sess.archived /\ sess'.guard = g.guard
  BY <1>3, <1>7 DEF Session
<1>11. StoreTypeOK'
  BY <1>7, <1>10 DEF TypeOK, StoreTypeOK
<1>12. RuntimeTypeOK' /\ ServerTypeOK'
  <2>1. PICK q \in Attempt : SetAtt(a, q) /\ faults' \in Nat
    BY <1>5, <1>6, TypesOf, AttemptKinds
  <2> QED BY <1>7, <1>8, <1>9, <2>1, RuntimeKept, SetAttTyped, TypesOf
<1>13. /\ Others(a)
       /\ \/ att'[a] = r /\ UNCHANGED faults
          \/ att'[a] = Idle /\ faults' = faults + 1 /\ "orphaned" \in slips'
  BY <1>6, SetAttOthers, TypesOf DEF Others
<1>14. att[a].phase \notin Planning \cup Unplanned
  BY <1>7, PhaseOfCall DEF AsksResume
<1>15. /\ ~mem.reserved /\ kind # "relocation"
       /\ o = IF sess.state = "running" THEN sess.epoch ELSE 0
  BY <1>7 DEF AnsweredByCurrent, AsksResume
<1> HIDE DEF o
<1>16. Takes(a)
  BY <1>7, <1>9, <1>10, <1>13, <1>14, <1>15 DEF Takes, e
<1>17. sess.archived => sess.state = "running" \/ Started(att[a])
  <2>1. CASE kind = "explicit"
    BY <1>7, <2>1 DEF AsksResume, Archiving
  <2>2. CASE kind = "restart"
    BY <1>7, <2>2 DEF AnsweredByCurrent
  <2>3. CASE kind \in {"startup", "retry"}
    <3>1. att[a] = [kind |-> kind, phase |-> "asked"]
      BY <1>7, <2>3 DEF AsksResume, Asks
    <3> QED BY <2>3, <3>1 DEF Started
  <2> QED BY <1>15, <2>1, <2>2, <2>3 DEF Kinds
<1>18. CASE att'[a] = r /\ UNCHANGED faults
  <2>1. Reserves(a)
    BY <1>1, <1>5, <1>15, <1>16, <1>18 DEF Reserves, e
  <2> QED
    BY <1>3, <1>5, <1>7, <1>9, <1>10, <1>11, <1>12, <1>15, <1>17, <1>18, <2>1
    DEF Prepares, StateTypeOK
<1>19. CASE att'[a] = Idle /\ faults' = faults + 1 /\ "orphaned" \in slips'
  BY <1>3, <1>7, <1>10, <1>11, <1>12, <1>16, <1>19 DEF LeavesReservation, StateTypeOK
<1> QED BY <1>13, <1>18, <1>19

LEMMA PlanRelocationMoves ==
  ASSUME TypeOK, NEW a \in Attempts, PlanRelocation(a)
  PROVE  StateTypeOK' /\ (Relocates(a) \/ LeavesReservation(a))
<1> DEFINE e == epochs + 1
           o == IF sess.state = "running" THEN sess.epoch ELSE 0
<1>1. PICK old \in Nat : old = o
  BY DEF TypeOK, StateTypeOK, StoreTypeOK, Session
<1>2. PICK f \in Folders : f = OtherFolder
  BY OtherFolderTyped
<1>3. PICK g \in Nat : g = IF f = "tree" THEN tree.gen ELSE 0
  BY DEF TypeOK, StateTypeOK, StoreTypeOK
<1>4. PICK r : r = Planned("relocation", old, f, g)
  OBVIOUS
<1>5. r \in Attempt /\ r.phase = "planned" /\ r.kind = "relocation" /\ r.epoch = e
      /\ r.old = old /\ r.cwd = f /\ r.guard = g /\ ~r.spawned
  BY <1>4, PlannedTyped DEF Kinds
<1>6. \/ SetAtt(a, r) /\ UNCHANGED faults
      \/ SetAtt(a, Idle) /\ faults' = faults + 1 /\ "orphaned" \in slips'
  BY <1>1, <1>2, <1>3, <1>4 DEF PlanRelocation, MakesPlan, Ends, Slip
<1>7. /\ Asks(a, "relocation") /\ MayRelocate
      /\ epochs' = e
      /\ sess' = [sess EXCEPT !.state = "resuming", !.why = None]
      /\ reloc' = [op |-> e, stage |-> "sourceRetiring", epoch |-> sess.epoch,
                   from |-> sess.cwd, to |-> f, gen |-> tree.gen]
      /\ receipt' = None
      /\ mem' = [mem EXCEPT !.reserved = TRUE, !.ready = FALSE, !.obs = e]
      /\ UNCHANGED <<arch, tree, proc, closer, archiver>>
  BY <1>2 DEF PlanRelocation
<1>8. e \in Nat
  BY TypesOf
<1> HIDE DEF e, o
<1>9. /\ mem' \in Maps /\ mem'.reserved /\ mem'.obs = e /\ mem'.hold = mem.hold
  BY <1>7, <1>8 DEF TypeOK, StateTypeOK, RuntimeTypeOK, Maps
<1>10. /\ sess' \in Session /\ sess'.state = "resuming" /\ sess'.why = None
       /\ sess'.epoch = sess.epoch /\ sess'.cwd = sess.cwd
       /\ sess'.archived = sess.archived /\ sess'.guard = sess.guard
  BY <1>7 DEF TypeOK, StateTypeOK, StoreTypeOK, Session
<1>11. /\ reloc' \in Relocation /\ reloc'.op = e /\ reloc'.epoch = sess.epoch
       /\ reloc'.from = sess.cwd /\ reloc'.to = f /\ reloc'.gen = tree.gen
  BY <1>7, <1>8 DEF Relocation, TypeOK, StateTypeOK, StoreTypeOK, Session
<1>12. reloc' # None
  BY <1>11, NoneApart
<1>13. StoreTypeOK'
  BY <1>7, <1>10, <1>11 DEF TypeOK, StateTypeOK, StoreTypeOK
<1>14. RuntimeTypeOK' /\ ServerTypeOK'
  <2>1. PICK q \in Attempt : SetAtt(a, q) /\ faults' \in Nat
    BY <1>5, <1>6, TypesOf, AttemptKinds
  <2> QED BY <1>7, <1>8, <1>9, <2>1, RuntimeKept, SetAttTyped, TypesOf DEF proc
<1>15. /\ Others(a)
       /\ \/ att'[a] = r /\ UNCHANGED faults
          \/ att'[a] = Idle /\ faults' = faults + 1 /\ "orphaned" \in slips'
  BY <1>6, SetAttOthers, TypesOf DEF Others
<1>16. att[a].phase \notin Planning \cup Unplanned
  BY <1>7, PhaseOfCall DEF Kinds
<1>17. ~mem.reserved /\ reloc = None /\ ~tree.held /\ ~Archiving
  BY <1>7 DEF MayRelocate
<1>18. Takes(a)
  BY <1>7, <1>9, <1>10, <1>15, <1>16, <1>17 DEF Takes, e, proc
<1>19. CASE att'[a] = r /\ UNCHANGED faults
  <2>1. Reserves(a)
    BY <1>1, <1>5, <1>18, <1>19 DEF Reserves, e, o
  <2> QED
    BY <1>3, <1>5, <1>7, <1>10, <1>11, <1>12, <1>13, <1>14, <1>17, <1>19, <2>1
    DEF Relocates, StateTypeOK, proc, e
<1>20. CASE att'[a] = Idle /\ faults' = faults + 1 /\ "orphaned" \in slips'
  BY <1>7, <1>10, <1>11, <1>12, <1>13, <1>14, <1>17, <1>18, <1>20
  DEF LeavesReservation, StateTypeOK, proc, e
<1> QED BY <1>15, <1>19, <1>20

\* A plan that fails
LEMMA FailsMoves ==
  ASSUME TypeOK, NEW a \in Attempts, att[a].phase \in Early,
         NEW why \in Reasons \cup {"timeout"}, Fails(a, why),
         UNCHANGED <<store, tree, mem, proc, closer, archiver, epochs>>,
         faults' \in {faults, faults + 1}
  PROVE  StateTypeOK' /\ GivesUp(a)
<1>1. att[a] \in PlannedAttempt
  BY AttemptPhase, TypesOf
<1>2. PICK r : r = Failing(att[a], why)
  OBVIOUS
<1>3. /\ r \in Attempt /\ r.phase = "failing" /\ r.epoch = att[a].epoch
      /\ r.old = att[a].old /\ r.spawned = att[a].spawned
  BY <1>1, <1>2, FailingTyped, AttemptKinds
<1>4. SetAtt(a, r)
  BY <1>2 DEF Fails
<1>5. StateTypeOK'
  BY <1>3, <1>4, StoreKept, MapsKept, SetAttTyped, TypesOf DEF TypeOK, StateTypeOK
<1>6. att'[a] = r /\ Others(a)
  BY <1>4, SetAttOthers, TypesOf DEF Others
<1> QED BY <1>3, <1>5, <1>6 DEF GivesUp

LEMMA PreparationFailsMoves ==
  ASSUME TypeOK, NEW a \in Attempts, PreparationFails(a)
  PROVE  StateTypeOK' /\ GivesUp(a)
<1>1. PICK why \in Reasons \cup {"timeout"} :
        Fails(a, why) /\ faults' \in {faults, faults + 1}
  BY DEF PreparationFails, Reasons
<1> QED BY <1>1, FailsMoves DEF PreparationFails, Early

LEMMA PreparationLostMoves ==
  ASSUME TypeOK, NEW a \in Attempts, PreparationLost(a)
  PROVE  StateTypeOK' /\ Panics(a)
<1>1. /\ att[a] \in PlannedAttempt /\ att[a].phase = "planned"
      /\ term' \in {term, Without({att[a].old})} /\ faults' = faults + 1
      /\ UNCHANGED <<store, tree, mem, reaped, closer, archiver, epochs>>
  BY AttemptPhase, TypesOf DEF PreparationLost, Early
<1>2. PICK r : r = [att[a] EXCEPT !.phase = "abandoned"]
  OBVIOUS
<1>3. r \in Attempt /\ r.phase = "abandoned" /\ SamePlan(r, att[a])
  BY <1>1, <1>2, AttemptKinds DEF PlannedAttempt, SamePlan
<1>4. SetAtt(a, r)
  BY <1>2 DEF PreparationLost, Phase
<1>5. StateTypeOK'
  BY <1>1, <1>3, <1>4, StoreKept, RuntimeKept, SetAttTyped, TypesOf, WithoutTyped
  DEF StateTypeOK
<1>6. att'[a] = r /\ Others(a)
  BY <1>4, SetAttOthers, TypesOf DEF Others
<1>7. \/ term' = term
      \/ term' = IF term # None /\ term.epoch = att[a].old THEN None ELSE term
  BY <1>1 DEF Without
<1> QED BY <1>1, <1>3, <1>5, <1>6, <1>7 DEF Panics

LEMMA CompletionRejectedMoves ==
  ASSUME TypeOK, NEW a \in Attempts, CompletionRejected(a)
  PROVE  StateTypeOK' /\ GivesUp(a)
BY FailsMoves DEF CompletionRejected, Early, Reasons

LEMMA RetireSourceMoves ==
  ASSUME TypeOK, NEW a \in Attempts, RetireSource(a)
  PROVE  StateTypeOK' /\ (RetiresSource(a) \/ GivesUp(a))
<1>1. /\ att[a] \in PlannedAttempt /\ att[a].phase = "planned"
      /\ UNCHANGED <<store, tree, mem, reaped, closer, archiver, epochs>>
  BY AttemptPhase, TypesOf DEF RetireSource, Early
<1>2. PICK q : q = [att[a] EXCEPT !.old = 0]
  OBVIOUS
<1>3. /\ q \in PlannedAttempt /\ q.phase = "planned" /\ q.old = 0 /\ q.epoch = att[a].epoch
      /\ q.kind = att[a].kind /\ q.cwd = att[a].cwd /\ q.guard = att[a].guard
      /\ q.spawned = att[a].spawned
  BY <1>1, <1>2 DEF PlannedAttempt
<1>4. CASE term' = Without({att[a].old}) /\ SetAtt(a, q) /\ UNCHANGED faults
  <2>1. StateTypeOK'
    BY <1>1, <1>3, <1>4, StoreKept, RuntimeKept, SetAttTyped, TypesOf, AttemptKinds,
       WithoutTyped DEF TypeOK, StateTypeOK
  <2>2. att'[a] = q /\ Others(a)
    BY <1>4, SetAttOthers, TypesOf DEF Others
  <2>3. term' = IF term # None /\ term.epoch = att[a].old THEN None ELSE term
    BY <1>4 DEF Without
  <2> QED BY <1>1, <1>3, <1>4, <2>1, <2>2, <2>3 DEF RetiresSource
<1>5. CASE SetAtt(a, Failing(q, "conflict")) /\ faults' = faults + 1 /\ UNCHANGED term
  <2>1. PICK r : r = Failing(q, "conflict")
    OBVIOUS
  <2>2. /\ r \in Attempt /\ r.phase = "failing" /\ r.epoch = att[a].epoch
        /\ r.old = 0 /\ r.spawned = att[a].spawned
    BY <1>3, <2>1, FailingTyped, AttemptKinds DEF Reasons
  <2>3. StateTypeOK'
    BY <1>1, <1>5, <2>1, <2>2, StoreKept, RuntimeKept, SetAttTyped, TypesOf DEF TypeOK, StateTypeOK
  <2>4. att'[a] = r /\ Others(a)
    BY <1>5, <2>1, SetAttOthers, TypesOf DEF Others
  <2> QED BY <1>1, <1>5, <2>2, <2>3, <2>4 DEF GivesUp, Early, proc
<1> QED BY <1>2, <1>4, <1>5 DEF RetireSource

LEMMA SpawnMoves ==
  ASSUME TypeOK, NEW a \in Attempts, Spawn(a)
  PROVE  StateTypeOK' /\ (SpawnsAgent(a) \/ GivesUp(a))
<1>1. /\ att[a] \in PlannedAttempt /\ att[a].phase = "planned" /\ att[a].old = 0
      /\ UNCHANGED <<store, tree, mem, reaped, closer, archiver, epochs, faults>>
  BY AttemptPhase, TypesOf DEF Spawn, Early
<1>2. CASE /\ Fails(a, "retry") \/ Fails(a, "conflict")
           /\ UNCHANGED term
  BY <1>1, <1>2, FailsMoves DEF Early, Reasons, proc
<1>3. CASE /\ term = None /\ term' = Agent(att[a].epoch)
           /\ SetAtt(a, [att[a] EXCEPT !.spawned = TRUE,
                           !.phase = IF att[a].kind = "relocation" THEN "spawned"
                                     ELSE "polling"])
  <2>1. PICK p \in {"spawned", "polling"} :
          p = IF att[a].kind = "relocation" THEN "spawned" ELSE "polling"
    OBVIOUS
  <2>2. PICK r : r = [att[a] EXCEPT !.spawned = TRUE, !.phase = p]
    OBVIOUS
  <2>3. /\ r \in PlannedAttempt /\ r.phase = p /\ r.spawned /\ r.old = 0
        /\ r.epoch = att[a].epoch /\ r.kind = att[a].kind
        /\ r.cwd = att[a].cwd /\ r.guard = att[a].guard
    BY <1>1, <2>2 DEF PlannedAttempt
  <2>4. SetAtt(a, r)
    BY <1>3, <2>1, <2>2
  <2>5. term' \in Runtime
    <3>1. att[a].epoch \in Nat
      BY <1>1 DEF PlannedAttempt
    <3> QED BY <3>1, <1>3, ShellTyped
  <2>6. StateTypeOK'
    BY <1>1, <2>3, <2>4, <2>5, StoreKept, RuntimeKept, SetAttTyped, TypesOf, AttemptKinds
    DEF TypeOK, StateTypeOK
  <2>7. att'[a] = r /\ Others(a)
    BY <2>4, SetAttOthers, TypesOf DEF Others
  <2> QED BY <1>1, <1>3, <2>3, <2>6, <2>7 DEF SpawnsAgent
<1> QED BY <1>2, <1>3 DEF Spawn

\* A plan whose phase only moves on
LEMMA PhaseMoves ==
  ASSUME TypeOK, NEW a \in Attempts, att[a].phase \in {"spawned", "polling"},
         NEW p \in {"polling", "stable"}, Phase(a, p)
  PROVE  /\ att'[a] \in Attempt /\ att'[a].phase = p /\ SamePlan(att'[a], att[a])
         /\ SetAtt(a, att'[a]) /\ Others(a)
<1>1. att[a] \in PlannedAttempt
  BY AttemptPhase, TypesOf DEF Early
<1>2. PICK r : r = [att[a] EXCEPT !.phase = p]
  OBVIOUS
<1>3. r \in PlannedAttempt /\ r.phase = p /\ SamePlan(r, att[a])
  BY <1>1, <1>2 DEF PlannedAttempt, SamePlan
<1>4. SetAtt(a, r)
  BY <1>2 DEF Phase
<1>5. att'[a] = r /\ Others(a)
  BY <1>4, SetAttOthers, TypesOf DEF Others
<1> QED BY <1>3, <1>4, <1>5, AttemptKinds

LEMMA MarkTargetStartingMoves ==
  ASSUME TypeOK, NEW a \in Attempts, MarkTargetStarting(a)
  PROVE  StateTypeOK' /\ (GoesOn(a) \/ GivesUp(a))
<1>1. /\ att[a].phase = "spawned"
      /\ UNCHANGED <<sess, receipt, arch, tree, mem, proc, closer, archiver, epochs, faults>>
  BY DEF MarkTargetStarting
<1>2. CASE ~OwnRelocation(a)
  <2>1. UNCHANGED reloc /\ Fails(a, "retry")
    BY <1>2 DEF MarkTargetStarting
  <2> QED BY <1>1, <2>1, FailsMoves DEF Early, Reasons, store
<1>3. CASE OwnRelocation(a)
  <2>1. reloc' = [reloc EXCEPT !.stage = "targetStarting"] /\ Phase(a, "polling")
    BY <1>3 DEF MarkTargetStarting
  <2>2. reloc # None /\ reloc \in Relocation
    BY <1>3 DEF OwnRelocation, TypeOK, StateTypeOK, StoreTypeOK
  <2>3. /\ reloc' \in Relocation /\ reloc'.op = reloc.op /\ reloc'.epoch = reloc.epoch
        /\ reloc'.from = reloc.from /\ reloc'.to = reloc.to /\ reloc'.gen = reloc.gen
    BY <2>1, <2>2 DEF Relocation
  <2>4. reloc' # None
    BY <2>3, NoneApart
  <2>5. /\ att'[a] \in Attempt /\ att'[a].phase = "polling" /\ SamePlan(att'[a], att[a])
        /\ SetAtt(a, att'[a]) /\ Others(a)
    BY <1>1, <2>1, PhaseMoves
  <2>6. PICK r : r = att'[a]
    OBVIOUS
  <2>7. StoreTypeOK'
    BY <1>1, <2>3 DEF TypeOK, StateTypeOK, StoreTypeOK
  <2>8. ServerTypeOK'
    BY <1>1, <2>5, <2>6, SetAttTyped, TypesOf
  <2>9. StateTypeOK'
    BY <1>1, <2>7, <2>8, MapsKept DEF TypeOK, StateTypeOK
  <2> QED BY <1>1, <2>2, <2>3, <2>4, <2>5, <2>9 DEF GoesOn
<1> QED BY <1>2, <1>3

LEMMA PollMoves ==
  ASSUME TypeOK, NEW a \in Attempts, Poll(a)
  PROVE  StateTypeOK' /\ (GoesOn(a) \/ GivesUp(a))
<1>1. /\ att[a].phase = "polling"
      /\ UNCHANGED <<store, tree, mem, proc, closer, archiver, epochs, faults>>
      /\ \/ Phase(a, "stable") \/ Fails(a, "retry") \/ Fails(a, "timeout")
         \/ Fails(a, "uncertain")
  BY DEF Poll
<1>2. CASE Fails(a, "retry") \/ Fails(a, "timeout") \/ Fails(a, "uncertain")
  BY <1>1, <1>2, FailsMoves DEF Early, Reasons
<1>3. CASE Phase(a, "stable")
  <2>1. /\ att'[a] \in Attempt /\ att'[a].phase = "stable" /\ SamePlan(att'[a], att[a])
        /\ SetAtt(a, att'[a]) /\ Others(a)
    BY <1>1, <1>3, PhaseMoves
  <2>2. PICK r : r = att'[a]
    OBVIOUS
  <2>3. ServerTypeOK'
    BY <1>1, <2>1, <2>2, SetAttTyped, TypesOf
  <2>4. StateTypeOK'
    BY <1>1, <2>3, StoreKept, MapsKept DEF TypeOK, StateTypeOK
  <2> QED BY <1>1, <2>1, <2>4 DEF GoesOn, store
<1> QED BY <1>1, <1>2, <1>3

LEMMA CompleteMoves ==
  ASSUME TypeOK, NEW a \in Attempts, Complete(a)
  PROVE  StateTypeOK' /\ Commits(a)
<1>1. /\ att[a] \in PlannedAttempt /\ att[a].phase = "stable" /\ MayComplete(a)
      /\ SetAtt(a, Idle) /\ (arch # None => "overtaken" \in slips')
      /\ UNCHANGED <<arch, tree, proc, closer, archiver, epochs, faults>>
  BY AttemptPhase, TypesOf DEF Complete, Early, Ends, Slip
<1>2. /\ mem' \in Maps /\ mem'.obs = mem.obs /\ ~mem'.reserved
      /\ mem'.hold = mem.hold
  BY DEF Complete, TypeOK, StateTypeOK, RuntimeTypeOK, Maps
<1>3. att[a].epoch \in Nat /\ att[a].guard \in Nat
  BY <1>1 DEF PlannedAttempt
<1>4. RuntimeTypeOK' /\ ServerTypeOK'
  BY <1>1, <1>2, RuntimeKept, SetAttTyped, TypesOf, AttemptKinds DEF proc
<1>5. att'[a] = Idle /\ Others(a)
  BY <1>1, SetAttOthers, TypesOf DEF Others
<1>6. CASE att[a].kind = "relocation"
  <2>1. CommitRelocation(a) /\ MayCommitRelocation(a)
    BY <1>1, <1>6 DEF Complete, MayComplete
  <2>2. reloc # None /\ reloc \in Relocation
    BY <2>1 DEF MayCommitRelocation, OwnRelocation, TypeOK, StateTypeOK, StoreTypeOK
  <2>3. reloc.to \in Folders /\ reloc.gen \in Nat
    BY <2>2 DEF Relocation
  <2>4. /\ sess' \in Session /\ sess'.state = "running" /\ sess'.why = None
        /\ sess'.epoch = att[a].epoch /\ sess'.archived = sess.archived
        /\ sess'.cwd = reloc.to /\ sess'.guard = att[a].guard
    BY <1>3, <2>1, <2>3 DEF CommitRelocation, TypeOK, StateTypeOK, StoreTypeOK, Session
  <2>5. /\ receipt' \in RelocationReceipt /\ receipt'.epoch = att[a].epoch
        /\ receipt'.cwd = reloc.to /\ receipt'.gen = reloc.gen /\ reloc' = None
    BY <1>3, <2>1, <2>3 DEF CommitRelocation, RelocationReceipt
  <2>6. receipt' # None
    BY <2>5, NoneApart
  <2>7. StoreTypeOK'
    BY <1>1, <2>4, <2>5 DEF TypeOK, StateTypeOK, StoreTypeOK
  <2> QED
    BY <1>1, <1>2, <1>4, <1>5, <1>6, <2>1, <2>2, <2>4, <2>5, <2>6, <2>7
    DEF Commits, TypeOK, StateTypeOK, MayComplete, MayCommitRelocation, OwnRelocation
<1>7. CASE att[a].kind # "relocation"
  <2>1. CommitResume(a) /\ sess.state = "resuming"
    BY <1>1, <1>7 DEF Complete, MayComplete
  <2>2. /\ sess' \in Session /\ sess'.state = "running" /\ sess'.why = None
        /\ sess'.epoch = att[a].epoch /\ sess'.archived = sess.archived
        /\ sess'.cwd = sess.cwd /\ sess'.guard = sess.guard
    BY <1>3, <2>1 DEF CommitResume, TypeOK, StateTypeOK, StoreTypeOK, Session
  <2>3. receipt' = None /\ reloc' = reloc
    BY <2>1 DEF CommitResume
  <2>4. StoreTypeOK'
    BY <1>1, <2>2, <2>3 DEF TypeOK, StateTypeOK, StoreTypeOK
  <2> QED
    BY <1>1, <1>2, <1>4, <1>5, <1>7, <2>1, <2>2, <2>3, <2>4 DEF Commits, TypeOK, StateTypeOK, MayComplete
<1> QED BY <1>6, <1>7

LEMMA SnapshotTyped ==
  ASSUME TypeOK
  PROVE  Snapshot \in Looked
<1>1. PICK o \in Nat : o = IF reloc = None THEN 0 ELSE reloc.op
  BY DEF TypeOK, StateTypeOK, StoreTypeOK, Relocation
<1> QED BY <1>1 DEF Snapshot, Looked, TypeOK, StateTypeOK, StoreTypeOK, Session, RuntimeTypeOK, Maps

LEMMA BeginFailureMoves ==
  ASSUME TypeOK, NEW a \in Attempts, BeginFailure(a)
  PROVE  StateTypeOK' /\ (BeginsFailure(a) \/ DropsPlan(a))
<1>1. /\ att[a] \in FailingAttempt /\ att[a].phase = "failing"
      /\ UNCHANGED <<store, tree, proc, closer, archiver, epochs, faults>>
  BY AttemptPhase, TypesOf DEF BeginFailure
<1>2. CASE MayBeginFailure(a)
  <2>1. PICK k \in Looked : k = Snapshot
    BY SnapshotTyped
  <2>2. PICK r : r = [att[a] EXCEPT !.phase = "reaping", !.snap = k]
    OBVIOUS
  <2>3. r \in ReapingAttempt /\ r.phase = "reaping" /\ r.snap = k /\ SameEpochs(r, att[a])
    BY <1>1, <2>2 DEF FailingAttempt, ReapingAttempt, SameEpochs
  <2>4. /\ SetAtt(a, r)
        /\ mem' = IF mem.reserved THEN [mem EXCEPT !.ready = FALSE, !.reaping = TRUE]
                  ELSE mem
    BY <1>2, <2>1, <2>2 DEF BeginFailure
  <2>5. /\ mem' \in Maps /\ mem'.reserved = mem.reserved /\ mem'.obs = mem.obs
        /\ mem'.hold = mem.hold
    BY <2>4 DEF TypeOK, StateTypeOK, RuntimeTypeOK, Maps
  <2>6. StateTypeOK'
    BY <1>1, <2>3, <2>4, <2>5, StoreKept, RuntimeKept, SetAttTyped, TypesOf, AttemptKinds
    DEF TypeOK, StateTypeOK, proc
  <2>7. att'[a] = r /\ Others(a)
    BY <2>4, SetAttOthers, TypesOf DEF Others
  <2> QED BY <1>1, <1>2, <2>1, <2>3, <2>5, <2>6, <2>7 DEF BeginsFailure
<1>3. CASE ~MayBeginFailure(a)
  <2>1. PICK r : r = [att[a] EXCEPT !.phase = "dropping"]
    OBVIOUS
  <2>2. r \in FailingAttempt /\ r.phase = "dropping" /\ SameEpochs(r, att[a])
    BY <1>1, <2>1 DEF FailingAttempt, SameEpochs
  <2>3. SetAtt(a, r) /\ UNCHANGED mem
    BY <1>3, <2>1 DEF BeginFailure, Phase
  <2>4. StateTypeOK'
    BY <1>1, <2>2, <2>3, StoreKept, MapsKept, SetAttTyped, TypesOf, AttemptKinds
    DEF TypeOK, StateTypeOK
  <2>5. att'[a] = r /\ Others(a)
    BY <2>3, SetAttOthers, TypesOf DEF Others
  <2> QED BY <1>1, <1>3, <2>2, <2>3, <2>4, <2>5 DEF DropsPlan, OnlyAttempt
<1> QED BY <1>2, <1>3

LEMMA ReapMoves ==
  ASSUME TypeOK, NEW a \in Attempts, Reap(a)
  PROVE  StateTypeOK' /\ Reaps(a)
<1>1. UNCHANGED <<store, tree, mem, reaped, closer, archiver, epochs>>
  BY DEF Reap
<1>2. PICK t : t = Without(OwnEpochs(a)) /\ t \in Runtime \cup {None}
  BY WithoutTyped
<1>3. CASE att[a].phase = "reaping"
  <2>1. att[a] \in ReapingAttempt
    BY <1>3, AttemptPhase, TypesOf DEF Finishing
  <2>2. PICK r : /\ r \in ReapingAttempt /\ r.phase = "reaped" /\ SameEpochs(r, att[a])
                 /\ r.snap = att[a].snap /\ SetAtt(a, r)
                 /\ \/ term' = t /\ UNCHANGED faults
                    \/ term' = term /\ faults' = faults + 1
    <3>1. CASE term' = t /\ UNCHANGED faults /\ Phase(a, "reaped")
      <4>1. PICK r : r = [att[a] EXCEPT !.phase = "reaped"]
        OBVIOUS
      <4>2. r \in ReapingAttempt /\ r.phase = "reaped" /\ SameEpochs(r, att[a])
            /\ r.snap = att[a].snap
        BY <2>1, <4>1 DEF ReapingAttempt, SameEpochs
      <4>3. SetAtt(a, r)
        BY <3>1, <4>1 DEF Phase
      <4> QED BY <3>1, <4>2, <4>3
    <3>2. CASE /\ SetAtt(a, [att[a] EXCEPT !.phase = "reaped", !.why = "uncertain"])
               /\ term' = term /\ faults' = faults + 1
      <4>1. PICK r : r = [att[a] EXCEPT !.phase = "reaped", !.why = "uncertain"]
        OBVIOUS
      <4>2. r \in ReapingAttempt /\ r.phase = "reaped" /\ SameEpochs(r, att[a])
            /\ r.snap = att[a].snap
        BY <2>1, <4>1 DEF ReapingAttempt, SameEpochs, Reasons
      <4> QED BY <3>2, <4>1, <4>2
    <3> QED BY <1>2, <1>3, <3>1, <3>2 DEF Reap
  <2>3. faults' \in Nat /\ term' \in Runtime \cup {None}
    BY <1>2, <2>2, TypesOf
  <2>4. StateTypeOK'
    BY <1>1, <2>2, <2>3, StoreKept, RuntimeKept, SetAttTyped, TypesOf, AttemptKinds
    DEF TypeOK, StateTypeOK
  <2>5. att'[a] = r /\ Others(a)
    BY <2>2, SetAttOthers, TypesOf DEF Others
  <2> QED BY <1>1, <1>2, <1>3, <2>2, <2>4, <2>5 DEF Reaps
<1>4. CASE att[a].phase # "reaping"
  <2>1. term' = t /\ UNCHANGED faults /\ SetAtt(a, Idle) /\ att[a].phase = "dropping"
    BY <1>2, <1>4 DEF Reap, Ends
  <2>2. StateTypeOK'
    BY <1>1, <1>2, <2>1, StoreKept, RuntimeKept, SetAttTyped, TypesOf, AttemptKinds
    DEF TypeOK, StateTypeOK
  <2>3. att'[a] = Idle /\ Others(a)
    BY <2>1, SetAttOthers, TypesOf DEF Others
  <2> QED BY <1>1, <1>2, <2>1, <2>2, <2>3 DEF Reaps
<1> QED BY <1>3, <1>4

\* Every step of an attempt is one of the moves.
LEMMA AttemptMoves ==
  ASSUME TypeOK, NEW a \in Attempts, AttemptStep(a)
  PROVE  StateTypeOK' /\ Moves(a)
<1>1. CASE (\E kind \in Kinds : Look(a, kind)) \/ Detach(a)
  BY <1>1, LookMoves, DetachMoves DEF Moves
<1>2. CASE Recover(a)
  BY <1>2, RecoverMoves DEF Moves
<1>3. CASE MarkUncertain(a)
  BY <1>3, MarkUncertainMoves DEF Moves
<1>4. CASE \E kind \in Kinds : Refused(a, kind) \/ PlanCurrent(a, kind) \/ HoldResists(a, kind)
  BY <1>4, RefusedMoves, PlanCurrentMoves, HoldResistsMoves DEF Moves
<1>5. CASE \E kind \in Kinds : PlanLaunchReserved(a, kind) \/ PlanPrepares(a, kind)
  BY <1>5, PlanLaunchReservedMoves, PlanPreparesMoves DEF Moves
<1>6. CASE PlanRelocation(a)
  BY <1>6, PlanRelocationMoves DEF Moves
<1>7. CASE PreparationFails(a) \/ PreparationLost(a) \/ CompletionRejected(a)
  BY <1>7, PreparationFailsMoves, PreparationLostMoves, CompletionRejectedMoves DEF Moves
<1>8. CASE RetireSource(a) \/ Spawn(a)
  BY <1>8, RetireSourceMoves, SpawnMoves DEF Moves
<1>9. CASE MarkTargetStarting(a) \/ Poll(a)
  BY <1>9, MarkTargetStartingMoves, PollMoves DEF Moves
<1>10. CASE Complete(a)
  BY <1>10, CompleteMoves DEF Moves
<1>11. CASE BeginFailure(a) \/ Reap(a)
  BY <1>11, BeginFailureMoves, ReapMoves DEF Moves
<1>12. CASE CompleteFailure(a)
  BY <1>12, CompleteFailureMoves DEF Moves
<1> QED
  BY <1>1, <1>2, <1>3, <1>4, <1>5, <1>6, <1>7, <1>8, <1>9, <1>10, <1>11, <1>12
  DEF AttemptStep, Plans

-----------------------------------------------------------------------------
(* What the other steps do, field by field *)

KeepsMaps == mem'.reserved = mem.reserved /\ mem'.obs = mem.obs /\ mem'.hold = mem.hold

\* The session but for how it stopped
StopsSession ==
  /\ sess'.state = "exited" /\ sess'.why = None /\ sess'.epoch = sess.epoch
  /\ sess'.guard = sess.guard

CloseReserves ==
  /\ closer = "idle" /\ closer' = "reserved"
  /\ ~Archiving /\ Unowned(sess) /\ ~mem.reserved
  /\ mem'.reserved /\ mem'.obs = 0 /\ mem'.hold = mem.hold
  /\ UNCHANGED <<store, tree, proc, att, archiver, epochs, faults>>

CloseRecovers ==
  /\ closer = "reserved" /\ closer' \in {"recovered", "unrecovered"}
  /\ StaysOrLost /\ faults' \in {faults, faults + 1}
  /\ UNCHANGED <<store, tree, mem, reaped, att, archiver, epochs>>

CloseCancels ==
  /\ closer = "unrecovered" /\ closer' = "idle"
  /\ ~mem'.reserved /\ mem'.obs = mem.obs /\ mem'.hold = mem.hold
  /\ FreesResume => "orphaned" \in slips'
  /\ UNCHANGED <<store, tree, proc, att, archiver, epochs, faults>>

\* A close ends, perhaps beside another: of a session that runs or is reserved, of
\* any other, or of one whose process it cannot terminate.
EndsClose == closer' = closer \/ (closer = "recovered" /\ closer' = "idle")

Terminates ==
  /\ EndsClose /\ ~Archiving
  /\ closer' # "idle" /\ mem.reserved => "yielded" \in slips'
  /\ StopsSession /\ sess'.cwd = sess.cwd /\ sess'.archived = sess.archived
  /\ reloc' = None /\ term' = None
  /\ ~mem'.reserved /\ mem'.obs = 0 /\ ~mem'.hold
  /\ UNCHANGED <<receipt, arch, tree, reaped, att, archiver, epochs, faults>>

ClosesNothing ==
  /\ EndsClose
  /\ Archiving \/ (term = None /\ ~mem.reserved)
  /\ UNCHANGED <<store, mem, proc, tree, att, archiver, epochs, faults>>

TerminateFails ==
  /\ EndsClose /\ ~Archiving
  /\ closer' # "idle" /\ mem.reserved => "yielded" \in slips'
  /\ FreesResume => "orphaned" \in slips'
  /\ ~mem'.reserved /\ mem'.obs = mem.obs /\ mem'.hold = mem.hold
  /\ \/ UNCHANGED proc /\ faults' = faults + 1
     \/ /\ reaped = None /\ term # None /\ reaped' = term.epoch /\ term' = None
        /\ UNCHANGED faults
  /\ UNCHANGED <<store, tree, att, archiver, epochs>>

ArchiveBegins ==
  /\ archiver = "idle" /\ archiver' = "retiring"
  /\ sess.state = "running" /\ ~Archiving /\ ~mem.reserved
  /\ arch' # None /\ arch'.epoch = sess.epoch
  /\ mem'.obs = 0 /\ mem'.reserved = mem.reserved /\ mem'.hold = mem.hold
  /\ UNCHANGED <<sess, reloc, receipt, tree, proc, att, closer, epochs, faults>>

\* The operation goes on, or waits for a start.
ArchiveRetires ==
  /\ archiver # "idle"
  /\ arch # None => arch' # None /\ arch'.epoch = arch.epoch
  /\ StaysOrLost /\ faults' \in {faults, faults + 1}
  /\ UNCHANGED <<sess, reloc, receipt, tree, mem, reaped, att, closer, epochs>>

ArchiveCommits ==
  /\ archiver # "idle" /\ archiver' = "idle" /\ term = None
  /\ sess.epoch = arch.epoch /\ arch' = None
  /\ StopsSession /\ sess'.cwd = sess.cwd /\ sess'.archived
  /\ mem'.obs = 0 /\ mem'.reserved = mem.reserved /\ mem'.hold = mem.hold
  /\ mem.reserved => "orphaned" \in slips'
  /\ UNCHANGED <<reloc, receipt, tree, proc, att, closer, epochs, faults>>

Restores ==
  /\ sess.archived /\ arch = None
  /\ sess'.cwd # sess.cwd /\ receipt # None => "moved" \in slips'
  /\ mem.reserved => "orphaned" \in slips'
  /\ StopsSession /\ ~sess'.archived
  /\ UNCHANGED <<reloc, receipt, arch, tree, mem, proc, server, epochs, faults>>

\* A process ends; the exit is collected.
Dies ==
  /\ term # None /\ term' # None
  /\ term'.epoch = term.epoch /\ term'.agent = term.agent
  /\ UNCHANGED <<store, tree, mem, reaped, server, epochs, faults>>

Readies ==
  KeepsMaps /\ UNCHANGED <<store, tree, proc, server, epochs, faults>>

Collects ==
  /\ reaped = None /\ term # None /\ reaped' = term.epoch /\ term' = None
  /\ UNCHANGED <<store, tree, mem, server, epochs, faults>>

\* An exit counts, or does not.
ExitApplies ==
  /\ reaped # None /\ reaped' = None
  /\ ExitIsCurrent(reaped)
  /\ sess'.epoch = sess.epoch /\ sess'.cwd = sess.cwd /\ sess'.guard = sess.guard
  /\ sess'.archived = sess.archived
  /\ \/ /\ mem.hold /\ sess' = sess /\ reloc' = reloc /\ reaped \in lost'
        /\ mem'.reserved = mem.reserved /\ mem'.obs = mem.obs
     \/ /\ ~mem.hold /\ Stopped(sess') /\ (sess' = sess \/ reloc' = None)
        /\ reloc' \in {reloc, None}
        /\ mem.reserved => reloc' = None \/ sess' = sess
        /\ sess'.why # None => sess'.state = "resumeFailed" \/ sess' = sess
        /\ ~mem'.reserved /\ mem'.obs = 0
        /\ closer # "idle" /\ mem.reserved => "yielded" \in slips'
  /\ mem'.hold => mem.hold \/ Stopped(sess')
  /\ term' = term \/ (term = None /\ term' = Shell(sess.epoch))
  /\ UNCHANGED <<receipt, arch, tree, server, epochs, faults>>

ExitIgnored ==
  /\ reaped # None /\ reaped' = None
  /\ ExitIsCurrent(reaped) => reaped \in lost'
  /\ UNCHANGED <<store, tree, mem, term, server, epochs, faults>>

Event ==
  \/ CloseReserves \/ CloseRecovers \/ CloseCancels \/ Terminates \/ ClosesNothing
  \/ TerminateFails \/ ArchiveBegins \/ ArchiveRetires \/ ArchiveCommits \/ Restores
  \/ Dies \/ Readies \/ Collects \/ ExitApplies \/ ExitIgnored
  \/ HoldTree \/ FreeTree \/ Crash

LEMMA AttKept ==
  ASSUME TypeOK, UNCHANGED <<att, epochs>>, faults' \in Nat,
         closer' \in {"idle", "reserved", "recovered", "unrecovered"},
         archiver' \in {"idle", "retiring", "retired"}
  PROVE  ServerTypeOK'
BY DEF TypeOK, StateTypeOK, ServerTypeOK

LEMMA ServerTypes ==
  ASSUME TypeOK
  PROVE  /\ closer \in {"idle", "reserved", "recovered", "unrecovered"}
         /\ archiver \in {"idle", "retiring", "retired"}
         /\ faults \in Nat /\ faults + 1 \in Nat
BY DEF TypeOK, StateTypeOK, ServerTypeOK

LEMMA ReserveTerminationEvent ==
  ASSUME TypeOK, ReserveTermination
  PROVE  StateTypeOK' /\ CloseReserves
<1>1. /\ UNCHANGED <<store, tree, proc, att, archiver, epochs, faults>>
      /\ closer' = "reserved"
      /\ mem' = [mem EXCEPT !.reserved = TRUE, !.ready = FALSE, !.obs = 0]
  BY DEF ReserveTermination
<1>2. /\ mem' \in Maps /\ mem'.reserved /\ mem'.obs = 0 /\ mem'.hold = mem.hold
  BY <1>1 DEF TypeOK, StateTypeOK, RuntimeTypeOK, Maps
<1>3. RuntimeTypeOK'
  BY <1>1, <1>2 DEF TypeOK, StateTypeOK, RuntimeTypeOK, proc
<1>4. ServerTypeOK'
  BY <1>1, AttKept, ServerTypes
<1> QED BY <1>1, <1>2, <1>3, <1>4, StoreKept DEF TypeOK, StateTypeOK, CloseReserves, ReserveTermination

LEMMA RecoverForTerminationEvent ==
  ASSUME TypeOK, RecoverForTermination
  PROVE  StateTypeOK' /\ CloseRecovers
<1>1. CloseRecovers
  BY DEF RecoverForTermination, CloseRecovers, StaysOrLost, LosesAgent
<1>2. RuntimeTypeOK'
  BY <1>1 DEF CloseRecovers, StaysOrLost, TypeOK, RuntimeTypeOK
<1>3. ServerTypeOK'
  BY <1>1, AttKept, ServerTypes DEF CloseRecovers
<1>4. StoreTypeOK'
  BY <1>1, StoreKept DEF CloseRecovers
<1> QED BY <1>1, <1>2, <1>3, <1>4 DEF TypeOK, StateTypeOK

LEMMA CancelTerminationEvent ==
  ASSUME TypeOK, CancelTermination
  PROVE  StateTypeOK' /\ CloseCancels
<1>1. /\ UNCHANGED <<store, tree, proc, att, archiver, epochs, faults>>
      /\ closer = "unrecovered" /\ closer' = "idle"
      /\ mem' = [mem EXCEPT !.reserved = FALSE, !.ready = FALSE]
      /\ FreesResume => "orphaned" \in slips'
  BY DEF CancelTermination, Orphans
<1>2. /\ mem' \in Maps /\ ~mem'.reserved /\ mem'.obs = mem.obs /\ mem'.hold = mem.hold
  BY <1>1 DEF TypeOK, StateTypeOK, RuntimeTypeOK, Maps
<1>3. RuntimeTypeOK'
  BY <1>1, <1>2 DEF TypeOK, StateTypeOK, RuntimeTypeOK, proc
<1>4. ServerTypeOK'
  BY <1>1, AttKept, ServerTypes
<1> QED BY <1>1, <1>2, <1>3, <1>4, StoreKept DEF TypeOK, StateTypeOK, CloseCancels

LEMMA TerminateSessionEvent ==
  ASSUME TypeOK, TerminateSession
  PROVE  StateTypeOK' /\ (Terminates \/ ClosesNothing)
<1>1. /\ UNCHANGED <<receipt, arch, tree, reaped, att, archiver, epochs, faults>>
      /\ EndsClose
      /\ closer' # "idle" /\ mem.reserved /\ ~mem'.reserved => "yielded" \in slips'
  BY DEF TerminateSession, TerminatedBy, EndsClose, Yields
<1>2. ServerTypeOK'
  BY <1>1, AttKept, ServerTypes DEF EndsClose
<1>3. CASE ~Archiving /\ (term # None \/ mem.reserved)
  <2>1. sess' = Exited(sess) /\ reloc' = None /\ mem' = NoMaps /\ term' = None
    BY <1>3 DEF TerminateSession
  <2>2. /\ sess' \in Session /\ StopsSession /\ sess'.cwd = sess.cwd
        /\ sess'.archived = sess.archived
    BY <2>1 DEF Exited, TypeOK, StateTypeOK, StoreTypeOK, Session, StopsSession
  <2>3. /\ mem' \in Maps /\ ~mem'.reserved /\ mem'.obs = 0 /\ ~mem'.hold
    BY <2>1 DEF NoMaps, Maps
  <2>4. StoreTypeOK'
    BY <1>1, <2>1, <2>2 DEF TypeOK, StateTypeOK, StoreTypeOK
  <2>5. RuntimeTypeOK'
    BY <1>1, <2>1, <2>3 DEF TypeOK, StateTypeOK, RuntimeTypeOK
  <2> QED BY <1>1, <1>2, <1>3, <2>1, <2>2, <2>3, <2>4, <2>5 DEF TypeOK, StateTypeOK, Terminates
<1>4. CASE ~(~Archiving /\ (term # None \/ mem.reserved))
  <2>1. UNCHANGED <<sess, reloc, mem, term>>
    BY <1>4 DEF TerminateSession
  <2>2. ClosesNothing
    BY <1>1, <1>4, <2>1 DEF ClosesNothing, store, proc
  <2>3. StateTypeOK'
    BY <1>2, <2>2, StoreKept, MapsKept DEF ClosesNothing, TypeOK, StateTypeOK
  <2> QED BY <2>2, <2>3
<1> QED BY <1>3, <1>4

LEMMA TerminationFailsEvent ==
  ASSUME TypeOK, TerminationFails
  PROVE  StateTypeOK' /\ TerminateFails
<1>1. /\ UNCHANGED <<store, tree, att, archiver, epochs>> /\ ~Archiving
      /\ mem' = [mem EXCEPT !.reserved = FALSE]
      /\ \/ UNCHANGED proc /\ faults' = faults + 1
         \/ /\ reaped = None /\ term # None /\ reaped' = term.epoch /\ term' = None
            /\ UNCHANGED faults
  BY DEF TerminationFails
<1>2. /\ mem' \in Maps /\ ~mem'.reserved /\ mem'.obs = mem.obs /\ mem'.hold = mem.hold
  BY <1>1 DEF TypeOK, RuntimeTypeOK, Maps
<1>3. /\ EndsClose
      /\ closer' # "idle" /\ mem.reserved => "yielded" \in slips'
      /\ FreesResume => "orphaned" \in slips'
  BY <1>2 DEF TerminationFails, TerminatedBy, EndsClose, Yields, Orphans
<1>4. ServerTypeOK'
  <2>1. faults' \in Nat
    BY <1>1, ServerTypes
  <2> QED BY <1>1, <1>3, <2>1, AttKept, ServerTypes DEF EndsClose
<1>5. RuntimeTypeOK'
  <2>1. term # None => term.epoch \in Nat
    BY DEF TypeOK, RuntimeTypeOK, Runtime
  <2> QED BY <1>1, <1>2, <2>1 DEF TypeOK, RuntimeTypeOK, proc
<1> QED BY <1>1, <1>2, <1>3, <1>4, <1>5, StoreKept DEF StateTypeOK, TerminateFails

LEMMA ArchiveSessionEvent ==
  ASSUME TypeOK, ArchiveSession
  PROVE  StateTypeOK' /\ ArchiverInv' /\ ArchiveBegins
<1>1. /\ UNCHANGED <<sess, reloc, receipt, tree, proc, att, closer, epochs, faults>>
      /\ archiver' = "retiring"
      /\ arch' = [epoch |-> sess.epoch, attention |-> FALSE]
      /\ mem' = [mem EXCEPT !.obs = 0, !.ready = FALSE]
  BY DEF ArchiveSession
<1>2. arch' \in ArchiveOperation /\ arch'.epoch = sess.epoch
  BY <1>1 DEF ArchiveOperation, TypeOK, StateTypeOK, StoreTypeOK, Session
<1>3. arch' # None
  BY <1>2, NoneApart
<1>4. /\ mem' \in Maps /\ mem'.obs = 0 /\ mem'.reserved = mem.reserved /\ mem'.hold = mem.hold
  BY <1>1 DEF TypeOK, StateTypeOK, RuntimeTypeOK, Maps
<1>5. StoreTypeOK'
  BY <1>1, <1>2 DEF TypeOK, StateTypeOK, StoreTypeOK
<1>6. RuntimeTypeOK'
  BY <1>1, <1>4 DEF TypeOK, StateTypeOK, RuntimeTypeOK, proc
<1>7. ServerTypeOK'
  BY <1>1, AttKept, ServerTypes
<1> QED
  BY <1>1, <1>2, <1>3, <1>4, <1>5, <1>6, <1>7
  DEF TypeOK, StateTypeOK, ArchiverInv, ArchiveBegins, ArchiveSession

\* An operation that needs attention is still the operation.
LEMMA AttentionTyped ==
  ASSUME TypeOK, arch # None, NEW o, o = [arch EXCEPT !.attention = TRUE]
  PROVE  o \in ArchiveOperation /\ o # None /\ o.epoch = arch.epoch
<1>1. o \in ArchiveOperation /\ o.epoch = arch.epoch
  BY DEF TypeOK, StateTypeOK, StoreTypeOK, ArchiveOperation
<1> QED BY <1>1, NoneApart

LEMMA RetireForArchiveEvent ==
  ASSUME TypeOK, ArchiverInv, RetireForArchive
  PROVE  StateTypeOK' /\ ArchiverInv' /\ ArchiveRetires
<1>1. /\ UNCHANGED <<sess, reloc, receipt, tree, mem, reaped, att, closer, epochs>>
      /\ archiver = "retiring" /\ arch # None /\ archiver' \in {"idle", "retired"}
      /\ StaysOrLost /\ term' \in {term, None} /\ faults' \in {faults, faults + 1}
      /\ arch' = arch \/ arch' = [arch EXCEPT !.attention = TRUE]
  BY DEF RetireForArchive, ArchiverInv, StaysOrLost, LosesAgent
<1>2. arch' \in ArchiveOperation /\ arch' # None /\ arch'.epoch = arch.epoch
  <2>1. arch \in ArchiveOperation
    BY <1>1 DEF TypeOK, StateTypeOK, StoreTypeOK
  <2> QED BY <1>1, <2>1, AttentionTyped
<1>3. StoreTypeOK'
  BY <1>1, <1>2 DEF TypeOK, StateTypeOK, StoreTypeOK
<1>4. RuntimeTypeOK'
  BY <1>1 DEF TypeOK, StateTypeOK, RuntimeTypeOK
<1>5. ServerTypeOK'
  BY <1>1, AttKept, ServerTypes
<1> QED
  BY <1>1, <1>2, <1>3, <1>4, <1>5 DEF TypeOK, StateTypeOK, ArchiverInv, ArchiveRetires

LEMMA CompleteArchiveEvent ==
  ASSUME TypeOK, ArchiverInv, CompleteArchive
  PROVE  StateTypeOK' /\ ArchiverInv' /\ (ArchiveRetires \/ ArchiveCommits)
<1>1. /\ UNCHANGED <<reloc, receipt, tree, proc, att, closer, epochs, faults>>
      /\ archiver = "retired" /\ arch # None /\ archiver' = "idle"
  BY DEF CompleteArchive, ArchiverInv
<1>2. ServerTypeOK' /\ ArchiverInv'
  BY <1>1, AttKept, ServerTypes DEF ArchiverInv
<1>3. CASE UNCHANGED <<sess, mem>> /\ arch' \in {arch, [arch EXCEPT !.attention = TRUE]}
  <2>1. arch' \in ArchiveOperation /\ arch' # None /\ arch'.epoch = arch.epoch
    <3>1. arch \in ArchiveOperation
      BY <1>1 DEF TypeOK, StateTypeOK, StoreTypeOK
    <3> QED BY <1>1, <1>3, <3>1, AttentionTyped
  <2>2. StoreTypeOK'
    BY <1>1, <1>3, <2>1 DEF TypeOK, StateTypeOK, StoreTypeOK
  <2>3. RuntimeTypeOK'
    BY <1>1, <1>3, MapsKept
  <2> QED BY <1>1, <1>2, <1>3, <2>1, <2>2, <2>3 DEF TypeOK, StateTypeOK, ArchiveRetires, StaysOrLost, proc
<1>4. CASE /\ term = None /\ MayCommitArchive(sess) /\ sess' = Archived(sess)
           /\ arch' = None /\ mem' = [mem EXCEPT !.obs = 0, !.ready = FALSE]
           /\ mem.reserved => "orphaned" \in slips'
  <2>1. /\ sess' \in Session /\ StopsSession /\ sess'.cwd = sess.cwd /\ sess'.archived
    BY <1>4 DEF Archived, Exited, StopsSession, TypeOK, StateTypeOK, StoreTypeOK, Session
  <2>2. /\ mem' \in Maps /\ mem'.obs = 0 /\ mem'.reserved = mem.reserved /\ mem'.hold = mem.hold
    BY <1>4 DEF TypeOK, StateTypeOK, RuntimeTypeOK, Maps
  <2>3. StoreTypeOK'
    BY <1>1, <1>4, <2>1 DEF TypeOK, StateTypeOK, StoreTypeOK
  <2>4. RuntimeTypeOK'
    BY <1>1, <2>2 DEF TypeOK, StateTypeOK, RuntimeTypeOK, proc
  <2> QED
    BY <1>1, <1>2, <1>4, <2>1, <2>2, <2>3, <2>4 DEF TypeOK, StateTypeOK, ArchiveCommits, MayCommitArchive
<1> QED BY <1>3, <1>4 DEF CompleteArchive, Slip

LEMMA RestoreArchivedEvent ==
  ASSUME TypeOK, NEW cwd \in Folders, RestoreArchived(cwd)
  PROVE  StateTypeOK' /\ Restores
<1>1. /\ UNCHANGED <<reloc, receipt, arch, tree, mem, proc, server, epochs, faults>>
      /\ sess' = [Exited(sess) EXCEPT !.archived = FALSE, !.cwd = cwd]
  BY DEF RestoreArchived
<1>2. /\ sess' \in Session /\ StopsSession /\ ~sess'.archived /\ sess'.cwd = cwd
  BY <1>1 DEF Exited, StopsSession, TypeOK, StateTypeOK, StoreTypeOK, Session
<1>3. StoreTypeOK'
  BY <1>1, <1>2 DEF TypeOK, StateTypeOK, StoreTypeOK
<1>4. RuntimeTypeOK'
  BY <1>1, MapsKept
<1>5. ServerTypeOK'
  BY <1>1, AttKept, ServerTypes DEF server
<1> QED BY <1>1, <1>2, <1>3, <1>4, <1>5 DEF TypeOK, StateTypeOK, Restores, RestoreArchived, Orphans

LEMMA ProcessExitsEvent ==
  ASSUME TypeOK, ProcessExits
  PROVE  StateTypeOK' /\ Dies
<1>1. /\ UNCHANGED <<store, tree, mem, reaped, server, epochs, faults>>
      /\ term # None /\ term' = [term EXCEPT !.alive = FALSE]
  BY DEF ProcessExits
<1>2. term' \in Runtime /\ term'.epoch = term.epoch /\ term'.agent = term.agent
  BY <1>1 DEF TypeOK, StateTypeOK, RuntimeTypeOK, Runtime
<1>3. term' # None
  BY <1>2, NoneApart
<1>4. RuntimeTypeOK'
  BY <1>1, <1>2 DEF TypeOK, StateTypeOK, RuntimeTypeOK
<1>5. ServerTypeOK'
  BY <1>1, AttKept, ServerTypes DEF server
<1> QED BY <1>1, <1>2, <1>3, <1>4, <1>5, StoreKept DEF TypeOK, StateTypeOK, Dies

LEMMA AgentReadyEvent ==
  ASSUME TypeOK, AgentReady
  PROVE  StateTypeOK' /\ Readies
<1>1. /\ UNCHANGED <<store, tree, proc, server, epochs, faults>>
      /\ mem' = [mem EXCEPT !.ready = TRUE]
  BY DEF AgentReady
<1>2. mem' \in Maps /\ KeepsMaps
  BY <1>1 DEF TypeOK, StateTypeOK, RuntimeTypeOK, Maps, KeepsMaps
<1>3. RuntimeTypeOK'
  BY <1>1, <1>2 DEF TypeOK, StateTypeOK, RuntimeTypeOK, proc
<1>4. ServerTypeOK'
  BY <1>1, AttKept, ServerTypes DEF server
<1> QED BY <1>1, <1>2, <1>3, <1>4, StoreKept DEF TypeOK, StateTypeOK, Readies

LEMMA ReapExitedEvent ==
  ASSUME TypeOK, ReapExited
  PROVE  StateTypeOK' /\ Collects
<1>1. Collects
  BY DEF ReapExited, Collects
<1>2. RuntimeTypeOK'
  BY <1>1 DEF Collects, TypeOK, StateTypeOK, RuntimeTypeOK, Runtime
<1>3. ServerTypeOK'
  BY <1>1, AttKept, ServerTypes DEF Collects, server
<1>4. StoreTypeOK'
  BY <1>1, StoreKept DEF Collects
<1> QED BY <1>1, <1>2, <1>3, <1>4 DEF TypeOK, StateTypeOK

LEMMA ReconcileExitEvent ==
  ASSUME TypeOK, ReconcileExit
  PROVE  StateTypeOK' /\ (ExitApplies \/ ExitIgnored)
<1>1. /\ UNCHANGED <<receipt, arch, tree, server, epochs, faults>>
      /\ reaped # None /\ reaped' = None
  BY DEF ReconcileExit
<1>2. ServerTypeOK'
  BY <1>1, AttKept, ServerTypes DEF server
<1>3. CASE ExitIsCurrent(reaped) /\ ~mem.reaping
  <2>1. /\ ApplyExit
        /\ closer # "idle" /\ mem.reserved /\ ~mem'.reserved => "yielded" \in slips'
        /\ mem.hold => reaped \in lost'
    BY <1>3 DEF ReconcileExit, YieldsClose, Yields, Slip
  <2>2. sess.epoch \in Nat /\ sess.state \in {"running", "resuming", "exited", "resumeFailed"}
    BY DEF TypeOK, StateTypeOK, StoreTypeOK, Session
  <2>3. StoreTypeOK'
    BY <1>1, <2>1, AppliedExit DEF TypeOK, StateTypeOK, StoreTypeOK
  <2>4. RuntimeTypeOK'
    BY <1>1, <2>1, <2>2, AppliedExit, ShellTyped DEF TypeOK, StateTypeOK, RuntimeTypeOK
  <2>5. sess'.why # None => sess'.state = "resumeFailed" \/ sess' = sess
    BY <2>1, AppliedExit DEF TypeOK, StateTypeOK, StoreTypeOK, Session, ResumeFailed, Exited
  <2>6. reloc' \in {reloc, None} /\ (sess' = sess \/ reloc' = None)
        /\ (sess' = sess => reloc' = reloc)
    BY <2>1, AppliedExit
  <2>7. ExitApplies
    <3>1. CASE mem.hold
      <4>1. sess' = sess /\ mem'.reserved = mem.reserved /\ mem'.obs = mem.obs
        BY <2>1, <3>1, AppliedExit
      <4> QED BY <1>1, <1>3, <2>1, <2>6, <3>1, <4>1, AppliedExit DEF ExitApplies
    <3>2. CASE ~mem.hold
      <4>1. Stopped(sess') /\ ~mem'.reserved /\ mem'.obs = 0
        BY <2>1, <3>2, AppliedExit
      <4> QED BY <1>1, <1>3, <2>1, <2>5, <2>6, <3>2, <4>1, AppliedExit DEF ExitApplies
    <3> QED BY <3>1, <3>2
  <2> QED BY <1>2, <2>3, <2>4, <2>7 DEF TypeOK, StateTypeOK
<1>4. CASE ~(ExitIsCurrent(reaped) /\ ~mem.reaping)
  <2>1. /\ UNCHANGED <<sess, reloc, mem, term>>
        /\ ExitIsCurrent(reaped) => reaped \in lost'
    BY <1>4 DEF ReconcileExit
  <2>2. ExitIgnored
    BY <1>1, <2>1 DEF ExitIgnored, store
  <2>3. RuntimeTypeOK'
    BY <1>1, <2>1 DEF TypeOK, StateTypeOK, RuntimeTypeOK
  <2>4. StoreTypeOK'
    BY <2>2, StoreKept DEF ExitIgnored
  <2> QED BY <1>2, <2>2, <2>3, <2>4 DEF TypeOK, StateTypeOK
<1> QED BY <1>3, <1>4

LEMMA TreeTyped ==
  ASSUME TypeOK, HoldTree \/ FreeTree
  PROVE  StateTypeOK'
<1>1. UNCHANGED <<store, mem, proc, server, epochs, faults>>
  BY DEF HoldTree, FreeTree
<1>2. tree' \in [gen : Nat, held : BOOLEAN]
  <2>1. tree \in [gen : Nat, held : BOOLEAN]
    BY DEF TypeOK, StateTypeOK, StoreTypeOK
  <2>2. CASE HoldTree
    BY <2>1, <2>2 DEF HoldTree
  <2>3. CASE FreeTree
    <3>1. PICK g \in {tree.gen, tree.gen + 1} : tree' = [gen |-> g, held |-> FALSE]
      BY <2>3 DEF FreeTree
    <3>2. g \in Nat
      BY <2>1
    <3> QED BY <3>1, <3>2
  <2> QED BY <2>2, <2>3
<1>3. StoreTypeOK'
  BY <1>1, <1>2 DEF TypeOK, StateTypeOK, StoreTypeOK, store
<1>4. ServerTypeOK'
  BY <1>1, AttKept, ServerTypes DEF server
<1> QED BY <1>1, <1>3, <1>4, MapsKept DEF TypeOK, StateTypeOK

LEMMA CrashTyped ==
  ASSUME TypeOK, Crash
  PROVE  StateTypeOK'
<1>1. sess.epoch \in Nat
  BY DEF TypeOK, StateTypeOK, StoreTypeOK, Session
<1>2. StoreTypeOK'
  BY Restarted DEF TypeOK, StateTypeOK, StoreTypeOK
<1>3. RuntimeTypeOK'
  BY <1>1, Restarted, ShellTyped DEF TypeOK, StateTypeOK, RuntimeTypeOK
<1>4. att' \in [Attempts -> Attempt]
  BY Restarted, AttemptKinds
<1>5. ServerTypeOK'
  BY <1>4, Restarted DEF TypeOK, StateTypeOK, ServerTypeOK
<1> QED BY <1>2, <1>3, <1>5 DEF TypeOK, StateTypeOK

\* No action forgets a lost agent, or a slip but that of the close which ends.
Adds ==
  /\ lost \subseteq lost' /\ lost' \subseteq Nat
  /\ slips \subseteq slips' /\ slips' \subseteq Slips

Remembers ==
  /\ lost \subseteq lost' /\ slips \ {"yielded"} \subseteq slips'
  /\ closer' # "idle" => slips \subseteq slips'

LEMMA HistoryParts ==
  ASSUME TypeOK
  PROVE  /\ lost \subseteq Nat /\ slips \subseteq Slips
         /\ LosesAgent => lost \subseteq lost' /\ lost' \subseteq Nat
         /\ \A tag \in Slips, w \in BOOLEAN :
              Slip(tag, w) => slips \subseteq slips' /\ slips' \subseteq Slips
         /\ YieldsClose => slips \subseteq slips' /\ slips' \subseteq Slips
         /\ UNCHANGED history => Adds
<1>1. term # None => term.epoch \in Nat
  BY DEF TypeOK, RuntimeTypeOK, Runtime
<1>2. lost \subseteq Nat /\ slips \subseteq Slips
  BY DEF TypeOK, HistoryTypeOK
<1>3. LosesAgent => lost \subseteq lost' /\ lost' \subseteq Nat
  BY <1>1, <1>2 DEF LosesAgent
<1>4. \A tag \in Slips, w \in BOOLEAN :
        Slip(tag, w) => slips \subseteq slips' /\ slips' \subseteq Slips
  BY <1>2 DEF Slip
<1>5. YieldsClose => slips \subseteq slips' /\ slips' \subseteq Slips
  BY <1>2 DEF YieldsClose, Slip, Slips
<1> QED BY <1>2, <1>3, <1>4, <1>5 DEF Adds, history

LEMMA AttemptHistory ==
  ASSUME TypeOK, NEW a \in Attempts, AttemptStep(a)
  PROVE  Adds
<1> USE HistoryParts
<1>1. CASE Detach(a)
  BY <1>1 DEF Detach, Slip, Slips, Adds
<1>2. CASE Recover(a)
  BY <1>2 DEF Recover, Adds
<1>3. CASE MarkUncertain(a)
  BY <1>3 DEF MarkUncertain, Adds
<1>4. CASE \E kind \in Kinds : PlanPrepares(a, kind)
  BY <1>4 DEF PlanPrepares, MakesPlan, Slip, Slips, Adds
<1>5. CASE PlanRelocation(a)
  BY <1>5 DEF PlanRelocation, MakesPlan, Slip, Slips, Adds
<1>6. CASE Complete(a)
  BY <1>6 DEF Complete, Slip, Slips, Adds
<1>7. CASE CompleteFailure(a)
  BY <1>7 DEF CompleteFailure, Adds
<1>8. CASE UNCHANGED history
  BY <1>8
<1> QED
  BY <1>1, <1>2, <1>3, <1>4, <1>5, <1>6, <1>7, <1>8
  DEF AttemptStep, Plans, Look, Refused, PlanCurrent, PlanLaunchReserved, HoldResists,
      PreparationFails, PreparationLost, RetireSource, Spawn, MarkTargetStarting, Poll,
      CompletionRejected, BeginFailure, Reap

LEMMA HistoryStep ==
  ASSUME TypeOK, Next
  PROVE  HistoryTypeOK' /\ Remembers
<1> USE HistoryParts
<1>1. CASE Adds
  BY <1>1 DEF Adds, HistoryTypeOK, Remembers
<1>2. CASE \E a \in Attempts : AttemptStep(a)
  BY <1>1, <1>2, AttemptHistory
<1>3. CASE RecoverForTermination \/ RetireForArchive
  BY <1>1, <1>3 DEF RecoverForTermination, RetireForArchive, Adds
<1>4. CASE CancelTermination
  BY <1>4 DEF CancelTermination, Orphans, Slips, HistoryTypeOK, Remembers
<1>5. CASE TerminateSession \/ TerminationFails
  <2>1. UNCHANGED lost /\ \E o \in {{}, {"orphaned"}} : TerminatedBy(o)
    BY <1>5 DEF TerminateSession, TerminationFails, Orphans
  <2>2. PICK o \in {{}, {"orphaned"}} : TerminatedBy(o)
    BY <2>1
  <2> QED BY <2>1, <2>2 DEF TerminatedBy, Slips, HistoryTypeOK, Remembers
<1>6. CASE CompleteArchive
  BY <1>1, <1>6 DEF CompleteArchive, Slip, Slips, Adds
<1>7. CASE \E cwd \in Folders : RestoreArchived(cwd)
  BY <1>1, <1>7 DEF RestoreArchived, Orphans, Slips, Adds
<1>8. CASE ReconcileExit
  <2>1. reaped \in Nat
    BY <1>8 DEF ReconcileExit, TypeOK, RuntimeTypeOK
  <2> QED BY <1>1, <1>8, <2>1 DEF ReconcileExit, Adds
<1>9. CASE Crash
  BY <1>9 DEF Crash, HistoryTypeOK, Remembers
<1>10. CASE UNCHANGED history
  BY <1>1, <1>10
<1> QED
  BY <1>2, <1>3, <1>4, <1>5, <1>6, <1>7, <1>8, <1>9, <1>10
  DEF Next, ReserveTermination, ArchiveSession, ProcessExits, AgentReady, ReapExited,
      HoldTree, FreeTree

\* Every step is a move of an attempt or one of the other events.
LEMMA Steps ==
  ASSUME TypeOK, ArchiverInv, Next
  PROVE  /\ TypeOK' /\ ArchiverInv' /\ Remembers
         /\ Event \/ \E a \in Attempts : Moves(a)
         /\ Event \/ \E a \in Attempts : AttemptStep(a)
<1> SUFFICES /\ StateTypeOK' /\ ArchiverInv'
             /\ Event \/ \E a \in Attempts : Moves(a)
             /\ Event \/ \E a \in Attempts : AttemptStep(a)
  BY HistoryStep DEF TypeOK, StateTypeOK
<1>1. CASE \E a \in Attempts : AttemptStep(a)
  <2>1. PICK a \in Attempts : AttemptStep(a)
    BY <1>1
  <2>2. StateTypeOK' /\ Moves(a)
    BY <2>1, AttemptMoves
  <2>3. arch' = arch /\ archiver' = archiver
    BY <2>2 DEF Moves, LooksUp, Withdraws, FailsAtOnce, Prepares, Relocates, Reserves, Takes,
       LeavesReservation, Detaches, Recovers, GivesUp, Panics, GoesOn, RetiresSource, SpawnsAgent, Commits, BeginsFailure,
       DropsPlan, Reaps, AppliesFailure, ForgetsFailure, OnlyAttempt, store
  <2> QED BY <2>1, <2>2, <2>3 DEF ArchiverInv
<1>2. CASE ReserveTermination
  <2>1. StateTypeOK' /\ CloseReserves
    BY <1>2, ReserveTerminationEvent
  <2> QED BY <2>1 DEF CloseReserves, ArchiverInv, store, Event
<1>3. CASE RecoverForTermination
  <2>1. StateTypeOK' /\ CloseRecovers
    BY <1>3, RecoverForTerminationEvent
  <2> QED BY <2>1 DEF CloseRecovers, ArchiverInv, store, Event
<1>4. CASE CancelTermination
  <2>1. StateTypeOK' /\ CloseCancels
    BY <1>4, CancelTerminationEvent
  <2> QED BY <2>1 DEF CloseCancels, ArchiverInv, store, Event
<1>5. CASE TerminateSession \/ TerminationFails
  <2>1. StateTypeOK' /\ (Terminates \/ ClosesNothing \/ TerminateFails)
    BY <1>5, TerminateSessionEvent, TerminationFailsEvent
  <2> QED BY <2>1 DEF Terminates, ClosesNothing, TerminateFails, ArchiverInv, store, Event
<1>6. CASE ArchiveSession \/ RetireForArchive \/ CompleteArchive
  BY <1>6, ArchiveSessionEvent, RetireForArchiveEvent, CompleteArchiveEvent DEF Event
<1>7. CASE \E cwd \in Folders : RestoreArchived(cwd)
  <2>1. StateTypeOK' /\ Restores
    BY <1>7, RestoreArchivedEvent
  <2> QED BY <2>1 DEF Restores, ArchiverInv, server, Event
<1>8. CASE ProcessExits \/ AgentReady \/ ReapExited
  <2>1. StateTypeOK' /\ (Dies \/ Readies \/ Collects)
    BY <1>8, ProcessExitsEvent, AgentReadyEvent, ReapExitedEvent
  <2> QED BY <2>1 DEF Dies, Readies, Collects, ArchiverInv, store, server, Event
<1>9. CASE ReconcileExit
  <2>1. StateTypeOK' /\ (ExitApplies \/ ExitIgnored)
    BY <1>9, ReconcileExitEvent
  <2> QED BY <2>1 DEF ExitApplies, ExitIgnored, ArchiverInv, store, server, Event
<1>10. CASE HoldTree \/ FreeTree
  <2>1. StateTypeOK' /\ arch' = arch /\ archiver' = archiver
    BY <1>10, TreeTyped DEF HoldTree, FreeTree, store, server
  <2> QED BY <1>10, <2>1 DEF ArchiverInv, Event
<1>11. CASE Crash
  BY <1>11, CrashTyped, Restarted DEF ArchiverInv, Event
<1> QED
  BY <1>1, <1>2, <1>3, <1>4, <1>5, <1>6, <1>7, <1>8, <1>9, <1>10, <1>11 DEF Next

LEMMA InitTyped ==
  ASSUME Init
  PROVE  TypeOK /\ ArchiverInv
<1>1. sess \in Session
  BY DEF Init, Session, Folders
<1>2. StoreTypeOK
  <2>1. sess.cwd \in Folders
    BY <1>1 DEF Session
  <2>2. receipt \in RelocationReceipt \cup {None}
    BY <2>1 DEF Init, RelocationReceipt
  <2> QED BY <1>1, <2>2 DEF Init, StoreTypeOK
<1>3. RuntimeTypeOK
  <2>1. mem \in Maps
    BY DEF Init, NoMaps, Maps
  <2> QED BY <2>1, ShellTyped DEF Init, RuntimeTypeOK
<1>4. ServerTypeOK
  BY AttemptKinds DEF Init, ServerTypeOK
<1> QED BY <1>2, <1>3, <1>4 DEF Init, TypeOK, HistoryTypeOK, ArchiverInv

\* The records, journals, maps and requests keep their shape: among others, an archive
\* operation is there whenever its second half updates it.
THEOREM SessionTypes == Spec => [](TypeOK /\ ArchiverInv)
<1>1. Init => TypeOK /\ ArchiverInv
  BY InitTyped
<1>2. TypeOK /\ ArchiverInv /\ [Next]_vars => (TypeOK /\ ArchiverInv)'
  <2>1. TypeOK /\ ArchiverInv /\ Next => (TypeOK /\ ArchiverInv)'
    BY Steps
  <2>2. TypeOK /\ ArchiverInv /\ UNCHANGED vars => (TypeOK /\ ArchiverInv)'
    <3> SUFFICES ASSUME TypeOK, ArchiverInv, UNCHANGED vars
                 PROVE  (TypeOK /\ ArchiverInv)'
      OBVIOUS
    <3>1. UNCHANGED <<store, tree, mem, proc, server, epochs, faults, history>>
      BY DEF vars
    <3>2. ServerTypeOK'
      BY <3>1, AttKept, ServerTypes DEF server
    <3> QED
      BY <3>1, <3>2, StoreKept, MapsKept
      DEF TypeOK, HistoryTypeOK, ArchiverInv, store, server, history
  <2> QED BY <2>1, <2>2
<1> QED BY <1>1, <1>2, PTL DEF Spec

-----------------------------------------------------------------------------
(* Epochs *)

\* What a record with a plan holds
LEMMA PlanTyped ==
  ASSUME NEW r \in Attempt
  PROVE  /\ r.phase \in Planning => r.epoch \in Nat /\ r.old \in Nat /\ r.spawned \in BOOLEAN
         /\ r.phase \in Finishing =>
              /\ r.snap \in Looked /\ r.snap.epoch \in Nat /\ r.phase \in Planning
         /\ r.phase \in Early =>
              r.kind \in Kinds /\ r.cwd \in Folders /\ r.guard \in Nat /\ r.phase \in Planning
<1>1. CASE r.phase \in Early \cup {"abandoned"}
  BY <1>1, AttemptPhase DEF PlannedAttempt, Planning, Early, Finishing
<1>2. CASE r.phase \in {"failing", "dropping"}
  BY <1>2, AttemptPhase DEF FailingAttempt, Planning, Early, Finishing
<1>3. CASE r.phase \in Finishing
  BY <1>3, AttemptPhase DEF ReapingAttempt, Looked, Planning, Early, Finishing
<1> QED BY <1>1, <1>2, <1>3 DEF Planning

LEMMA IdlePhases ==
  /\ Idle.phase = "idle" /\ Queued.phase = "queued" /\ Again.phase = "again"
  /\ Idle.phase \notin Planning /\ Queued.phase \notin Planning /\ Again.phase \notin Planning
BY DEF Idle, Queued, Again, Planning, Early, Finishing

LEMMA PhaseSets ==
  /\ Early \subseteq Planning /\ Provisional \subseteq Early /\ Finishing \subseteq Planning
  /\ Early \cap Finishing = {}
  /\ \A p \in Unplanned \cup {"asked", "idle", "queued", "again"} : p \notin Planning
  /\ {"failing", "dropping"} \subseteq Planning
  /\ {"failing", "dropping"} \cap (Early \cup Finishing) = {}
  /\ "planned" \in Early /\ "planned" \notin Provisional
  /\ Provisional = {"spawned", "polling", "stable"} /\ Finishing = {"reaping", "reaped"}
  /\ Unplanned = {"looked", "detached", "unrecovered"}
  /\ "abandoned" \in Planning /\ "abandoned" \notin Early \cup Finishing
BY DEF Planning, Early, Finishing, Provisional, Unplanned

\* What every other step leaves, and what it can do to the registered runtime
LEMMA EventFrame ==
  ASSUME TypeOK, Event
  PROVE  /\ epochs' = epochs /\ receipt' = receipt /\ sess'.epoch = sess.epoch
         /\ ~Crash => att' = att
         /\ reloc' \in {reloc, None}
         /\ mem'.obs \in {mem.obs, 0}
         /\ \/ term' = None
            \/ term # None /\ term'.epoch = term.epoch /\ term'.agent = term.agent
            \/ term' = Shell(sess.epoch)
         /\ \/ reaped' \in {reaped, None}
            \/ reaped = None /\ term # None /\ reaped' = term.epoch /\ term' = None
<1>1. CASE CloseReserves \/ CloseRecovers \/ CloseCancels \/ Terminates \/ ClosesNothing
           \/ TerminateFails
  BY <1>1 DEF CloseReserves, CloseRecovers, CloseCancels, Terminates, ClosesNothing,
     TerminateFails, StaysOrLost, StopsSession, Crash, store, proc, Faulty
<1>2. CASE ArchiveBegins \/ ArchiveRetires \/ ArchiveCommits \/ Restores
  BY <1>2 DEF ArchiveBegins, ArchiveRetires, ArchiveCommits, Restores, StaysOrLost, StopsSession,
     store, proc, server
<1>3. CASE Dies \/ Readies \/ Collects
  BY <1>3 DEF Dies, Readies, Collects, KeepsMaps, store, proc, server
<1>4. CASE ExitApplies \/ ExitIgnored
  BY <1>4 DEF ExitApplies, ExitIgnored, store, server
<1>5. CASE HoldTree \/ FreeTree
  BY <1>5 DEF HoldTree, FreeTree, store, proc, server
<1>6. CASE Crash
  BY <1>6, Restarted
<1> QED BY <1>1, <1>2, <1>3, <1>4, <1>5, <1>6 DEF Event

LEMMA SessionEpochTyped ==
  ASSUME TypeOK
  PROVE  sess.epoch \in Nat /\ mem.obs \in Nat /\ epochs \in Nat
         /\ (term # None => term \in Runtime /\ term.epoch \in Nat)
         /\ (reaped # None => reaped \in Nat)
         /\ (reloc # None => reloc \in Relocation /\ reloc.op \in Nat)
BY DEF TypeOK, StoreTypeOK, RuntimeTypeOK, ServerTypeOK, Session, Maps, Runtime, Relocation

\* A step that makes no plan and commits none
LEMMA EpochsOfPlans ==
  ASSUME TypeOK, TypeOK', EpochsInv, EpochsBounded', epochs' = epochs,
         sess'.epoch = sess.epoch,
         \A b \in Attempts : att'[b].phase \in Planning =>
           /\ att[b].phase \in Planning /\ att'[b].epoch = att[b].epoch
           /\ att'[b].old \in {att[b].old, 0}
           /\ att'[b].phase \in Finishing =>
                \/ att'[b].snap.epoch = sess.epoch
                \/ att[b].phase \in Finishing /\ att'[b].snap.epoch = att[b].snap.epoch
  PROVE  EpochsInv'
<1>1. \A b \in Attempts : att[b] \in Attempt /\ att'[b] \in Attempt
  BY DEF TypeOK, ServerTypeOK
<1>2. \A b \in Attempts : att[b].phase \in Planning => 1 <= att[b].epoch /\ att[b].epoch # 0
  BY <1>1, PlanTyped DEF EpochsInv, PlanBounded
<1>3. \A b \in Attempts : PlanBounded(att[b])' /\ PlanApart(att[b])'
  BY <1>1, SessionEpochTyped DEF EpochsInv, PlanBounded, PlanApart, EpochsBounded
<1>4. \A b, c \in Attempts : PlansApart(att'[b], att'[c])
  BY <1>1, <1>2 DEF EpochsInv, EpochsApart, PlansApart, PlanApart
<1>5. EpochsApart'
  BY <1>4 DEF EpochsInv, EpochsApart
<1> QED BY <1>3, <1>5 DEF EpochsInv

LEMMA EventEpochs ==
  ASSUME TypeOK, TypeOK', EpochsInv, Event
  PROVE  EpochsInv'
<1>1. EpochsBounded'
  <2>1. term' = Shell(sess.epoch) => term'.epoch = sess.epoch
    BY SessionEpochTyped, ShellTyped
  <2> QED BY <2>1, EventFrame, SessionEpochTyped DEF EpochsInv, EpochsBounded
<1>2. CASE ~Crash
  BY <1>1, <1>2, EventFrame, EpochsOfPlans
<1>3. CASE Crash
  <2>1. \A b \in Attempts : att'[b].phase \notin Planning
    BY <1>3, Restarted, IdlePhases
  <2> QED BY <1>1, <2>1, EventFrame, EpochsOfPlans
<1> QED BY <1>2, <1>3

LEMMA MoveEpochs ==
  ASSUME TypeOK, TypeOK', EpochsInv, NEW a \in Attempts, Moves(a)
  PROVE  EpochsInv'
<1>1. \A b \in Attempts : att[b] \in Attempt /\ att'[b] \in Attempt
  BY DEF TypeOK, ServerTypeOK
<1>2. CASE \/ LooksUp(a) \/ Withdraws(a) \/ FailsAtOnce(a) \/ Detaches(a) \/ Recovers(a)
           \/ ForgetsFailure(a)
  <2>1. EpochsBounded' /\ epochs' = epochs /\ sess'.epoch = sess.epoch
    BY <1>2, SessionEpochTyped DEF EpochsInv, EpochsBounded, LooksUp, Withdraws, FailsAtOnce,
       Detaches, Recovers, StaysOrLost, ForgetsFailure, SameSession, OnlyAttempt, store, proc
  <2>2. att'[a].phase \notin Planning /\ Others(a)
    BY <1>2, IdlePhases, PhaseSets DEF LooksUp, Withdraws, FailsAtOnce, Detaches, Recovers,
       ForgetsFailure, OnlyAttempt
  <2> QED BY <2>1, <2>2, EpochsOfPlans DEF Others
<1>3. CASE AppliesFailure(a)
  <2>1. term' # None => term'.epoch <= epochs
    BY <1>3, SessionEpochTyped, ShellTyped DEF AppliesFailure, EpochsInv, EpochsBounded
  <2>2. EpochsBounded' /\ epochs' = epochs /\ sess'.epoch = sess.epoch
    BY <1>3, <2>1, SessionEpochTyped DEF EpochsInv, EpochsBounded, AppliesFailure
  <2>3. att'[a].phase \notin Planning /\ Others(a)
    BY <1>3, IdlePhases DEF AppliesFailure
  <2> QED BY <2>2, <2>3, EpochsOfPlans DEF Others
<1>4. CASE GivesUp(a) \/ Panics(a) \/ GoesOn(a) \/ RetiresSource(a) \/ DropsPlan(a) \/ Reaps(a)
  <2>1. EpochsBounded' /\ epochs' = epochs /\ sess'.epoch = sess.epoch
    <3>1. term' \in {term, None}
      BY <1>4, WithoutTyped DEF GivesUp, Panics, GoesOn, RetiresSource, DropsPlan, Reaps,
         OnlyAttempt, proc
    <3> QED
      BY <1>4, <3>1, SessionEpochTyped DEF EpochsInv, EpochsBounded, GivesUp, Panics, GoesOn,
         RetiresSource, DropsPlan, Reaps, OnlyAttempt, store, proc
  <2>2. /\ Others(a)
        /\ att'[a].phase \in Planning =>
             /\ att[a].phase \in Planning /\ att'[a].epoch = att[a].epoch
             /\ att'[a].old \in {att[a].old, 0}
             /\ att'[a].phase \in Finishing =>
                  att[a].phase \in Finishing /\ att'[a].snap.epoch = att[a].snap.epoch
    BY <1>4, IdlePhases DEF GivesUp, Panics, GoesOn, RetiresSource, DropsPlan, Reaps,
       OnlyAttempt, SamePlan, SameEpochs, Planning, Early, Finishing
  <2> QED BY <2>1, <2>2, EpochsOfPlans DEF Others
<1>5. CASE SpawnsAgent(a)
  <2>1. term'.epoch = att[a].epoch /\ att[a].phase \in Planning
    BY <1>1, <1>5, PlanTyped, ShellTyped, PhaseSets DEF SpawnsAgent
  <2>2. EpochsBounded' /\ epochs' = epochs /\ sess'.epoch = sess.epoch
    BY <1>5, <2>1 DEF EpochsInv, EpochsBounded, PlanBounded, SpawnsAgent, store
  <2>3. /\ Others(a) /\ att'[a].epoch = att[a].epoch /\ att'[a].old = 0
        /\ att'[a].phase \notin Finishing
    BY <1>5, PhaseSets DEF SpawnsAgent
  <2> QED BY <2>1, <2>2, <2>3, EpochsOfPlans DEF Others
<1>6. CASE BeginsFailure(a)
  <2>1. EpochsBounded' /\ epochs' = epochs /\ sess'.epoch = sess.epoch
    BY <1>6 DEF EpochsInv, EpochsBounded, BeginsFailure, store, proc
  <2>2. /\ Others(a) /\ att[a].phase \in Planning /\ att'[a].epoch = att[a].epoch
        /\ att'[a].old = att[a].old /\ att'[a].snap.epoch = sess.epoch
    BY <1>6, PhaseSets DEF BeginsFailure, SameEpochs, Snapshot
  <2> QED BY <2>1, <2>2, EpochsOfPlans DEF Others
<1>7. CASE Prepares(a) \/ Relocates(a) \/ LeavesReservation(a)
  <2>1. /\ Takes(a) /\ term' \in {term, None}
        /\ reloc' # None => reloc' = reloc \/ reloc'.op = epochs + 1
    BY <1>7 DEF Prepares, Relocates, LeavesReservation, Reserves
  <2>2. /\ epochs' = epochs + 1 /\ sess'.epoch = sess.epoch
        /\ Others(a) /\ mem'.obs = epochs + 1 /\ reaped' = reaped
        /\ att'[a].phase \in Planning =>
             /\ att'[a].epoch = epochs + 1 /\ att'[a].phase = "planned"
             /\ att'[a].old \in {0, sess.epoch}
    BY <1>7, <2>1, IdlePhases DEF Takes, Prepares, Relocates, LeavesReservation, Reserves
  <2>3. EpochsBounded'
    <3>1. reloc' # None => 1 <= reloc'.op /\ reloc'.op <= epochs + 1
      BY <2>1, SessionEpochTyped DEF EpochsInv, EpochsBounded
    <3> QED BY <2>1, <2>2, <3>1, SessionEpochTyped DEF EpochsInv, EpochsBounded
  <2>4. \A b \in Attempts : att[b].phase \in Planning =>
          /\ att[b].epoch # epochs + 1 /\ att[b].old # epochs + 1
          /\ att[b].phase \in Finishing => att[b].snap.epoch # epochs + 1
    BY <1>1, PlanTyped, SessionEpochTyped DEF EpochsInv, PlanBounded
  <2>5. sess.epoch # epochs + 1 /\ 0 # epochs + 1
    BY SessionEpochTyped DEF EpochsInv, EpochsBounded
  <2>6. \A b \in Attempts : PlanBounded(att[b])' /\ PlanApart(att[b])'
    <3> TAKE b \in Attempts
    <3>1. CASE b # a
      <4>1. att'[b] = att[b]
        BY <2>2, <3>1 DEF Others
      <4> QED
        BY <1>1, <2>2, <4>1, PlanTyped, SessionEpochTyped
        DEF EpochsInv, PlanBounded, PlanApart
    <3>2. CASE b = a
      BY <2>2, <2>5, <3>2, PhaseSets, SessionEpochTyped
      DEF EpochsInv, PlanBounded, PlanApart, EpochsBounded
    <3> QED BY <3>1, <3>2
  <2>7. \A b, c \in Attempts : PlansApart(att'[b], att'[c])
    <3> TAKE b, c \in Attempts
    <3>1. \A d \in Attempts : att[d].phase \in Planning => att[d].epoch # sess.epoch
                                                        /\ att[d].epoch # 0
      BY <1>1, PlanTyped DEF EpochsInv, PlanApart, PlanBounded
    <3> QED
      BY <2>2, <2>4, <2>5, <3>1, PhaseSets DEF Others, PlansApart, EpochsInv, EpochsApart
  <2>8. EpochsApart'
    BY <2>2, <2>4, <2>7 DEF EpochsInv, EpochsApart, Others
  <2> QED BY <2>3, <2>6, <2>8 DEF EpochsInv
<1>8. CASE Commits(a)
  <2>1. /\ epochs' = epochs /\ sess'.epoch = att[a].epoch /\ att[a].phase \in Planning
        /\ mem'.obs = mem.obs /\ term' = term /\ reaped' = reaped /\ reloc' \in {reloc, None}
        /\ att'[a].phase \notin Planning /\ Others(a)
    BY <1>8, IdlePhases, PhaseSets DEF Commits, proc
  <2>2. EpochsBounded'
    BY <2>1 DEF EpochsInv, EpochsBounded, PlanBounded
  <2>3. \A b \in Attempts : PlanBounded(att[b])' /\ PlanApart(att[b])'
    BY <2>1 DEF EpochsInv, PlanBounded, PlanApart, EpochsApart, Others
  <2>4. EpochsApart'
    BY <2>1 DEF EpochsInv, EpochsApart, PlansApart, Others
  <2> QED BY <2>2, <2>3, <2>4 DEF EpochsInv
<1> QED BY <1>2, <1>3, <1>4, <1>5, <1>6, <1>7, <1>8 DEF Moves

\* No two plans share an epoch, and none has the session's.
LEMMA EpochsStep ==
  ASSUME TypeOK, ArchiverInv, EpochsInv, Next
  PROVE  EpochsInv'
BY Steps, MoveEpochs, EventEpochs

-----------------------------------------------------------------------------
(* Processes *)

\* A record without a plan has spawned nothing.
LEMMA NoSpawns ==
  ASSUME NEW a \in Attempts, att'[a].phase \notin Planning
  PROVE  Spawns(att[a])' /\ SourceStopped(att[a])'
BY DEF Spawns, SourceStopped, Planning, Early, Provisional, Finishing

\* The registered runtime goes, stays or becomes the session's shell.
LEMMA SpawnsKept ==
  ASSUME TypeOK, TypeOK', EpochsInv, ProcessInv, NEW a \in Attempts,
         att'[a] = att[a],
         \/ term' = None
         \/ term # None /\ term'.epoch = term.epoch
         \/ term' = Shell(sess.epoch),
         \/ reaped' \in {reaped, None}
         \/ term # None /\ reaped' = term.epoch
  PROVE  Spawns(att[a])'
<1>1. att[a] \in Attempt
  BY TypesOf
<1>2. att[a].phase \in Planning => att[a].epoch # sess.epoch /\ att[a].epoch # None
  BY <1>1, PlanTyped, NoneApart DEF EpochsInv, PlanApart
<1>3. Shell(sess.epoch).epoch = sess.epoch
  BY SessionEpochTyped, ShellTyped
<1> QED BY <1>1, <1>2, <1>3 DEF ProcessInv, Spawns

LEMMA ExitsApartKept ==
  ASSUME TypeOK, ProcessInv,
         \/ term' = None
         \/ term # None /\ term'.epoch = term.epoch /\ term'.agent = term.agent
         \/ term' = Shell(sess.epoch),
         \/ reaped' \in {reaped, None}
         \/ reaped' # None /\ term' = None
  PROVE  ExitsApart'
<1>1. ~Shell(sess.epoch).agent
  BY SessionEpochTyped, ShellTyped
<1> QED BY <1>1 DEF ProcessInv, ExitsApart

LEMMA EventProcess ==
  ASSUME TypeOK, TypeOK', EpochsInv, ProcessInv, Event
  PROVE  ProcessInv'
<1>1. ExitsApart'
  <2>1. term # None => term.epoch # None
    BY SessionEpochTyped, NoneApart
  <2> QED BY <2>1, EventFrame, ExitsApartKept
<1>3. ASSUME sess'.state # "running" PROVE \A a \in Attempts : SourceStopped(att[a])'
  BY <1>3 DEF SourceStopped
<1>5. CASE CloseReserves \/ CloseRecovers \/ CloseCancels \/ ClosesNothing \/ TerminateFails
  <2>1. /\ sess' = sess /\ att' = att
        /\ mem'.reserved => mem.reserved \/ Unowned(sess)
    BY <1>5 DEF CloseReserves, CloseRecovers, CloseCancels, ClosesNothing, TerminateFails, store
  <2>2. Unowned(sess) => sess.state = "resumeFailed"
    BY NoneApart DEF ProcessInv, Unowned, Reasons
  <2>3. \A a \in Attempts : Spawns(att[a])' /\ SourceStopped(att[a])'
    BY <2>1, EventFrame, SpawnsKept DEF SourceStopped, ProcessInv
  <2> QED BY <1>1, <2>1, <2>2, <2>3 DEF ProcessInv
<1>6. CASE Terminates \/ ArchiveCommits \/ Restores
  <2>1. sess'.state = "exited" /\ sess'.why = None /\ att' = att
    BY <1>6 DEF Terminates, ArchiveCommits, Restores, StopsSession, server
  <2>2. \A a \in Attempts : Spawns(att[a])'
    BY <2>1, EventFrame, SpawnsKept
  <2> QED BY <1>1, <1>3, <2>1, <2>2 DEF ProcessInv
<1>7. CASE \/ ArchiveBegins \/ ArchiveRetires \/ Dies \/ Readies \/ Collects \/ ExitIgnored
           \/ HoldTree \/ FreeTree
  <2>1. sess' = sess /\ mem'.reserved = mem.reserved /\ att' = att
    BY <1>7 DEF ArchiveBegins, ArchiveRetires, Dies, Readies, Collects, ExitIgnored,
       HoldTree, FreeTree, KeepsMaps, store, server
  <2>2. \A a \in Attempts : Spawns(att[a])'
    BY <2>1, EventFrame, SpawnsKept
  <2>3. \A a \in Attempts : SourceStopped(att[a])'
    BY <2>1 DEF SourceStopped, ProcessInv
  <2> QED BY <1>1, <2>1, <2>2, <2>3 DEF ProcessInv
<1>8. CASE ExitApplies
  <2>1. att' = att
    BY <1>8 DEF ExitApplies, server
  <2>2. \A a \in Attempts : Spawns(att[a])'
    BY <2>1, EventFrame, SpawnsKept
  <2>3. CASE sess' = sess /\ (mem'.reserved => mem.reserved)
    <3>1. \A a \in Attempts : SourceStopped(att[a])'
      BY <2>1, <2>3 DEF SourceStopped, ProcessInv
    <3> QED BY <1>1, <2>2, <2>3, <3>1 DEF ProcessInv
  <2>4. CASE Stopped(sess') /\ ~mem'.reserved /\ sess' # sess
    <3>1. sess'.state # "running" /\ (sess'.why # None => sess'.state = "resumeFailed")
      BY <1>8, <2>4 DEF ExitApplies, Stopped
    <3> QED BY <1>1, <1>3, <2>2, <2>4, <3>1 DEF ProcessInv
  <2> QED BY <1>8, <2>3, <2>4 DEF ExitApplies
<1>9. CASE Crash
  <2>1. \A a \in Attempts : Spawns(att[a])'
    BY <1>9, Restarted, IdlePhases, NoSpawns
  <2>2. sess'.state # "running"
    BY <1>9, Restarted DEF Stopped
  <2>3. sess'.why # None => sess'.state = "resumeFailed"
    BY <1>9, Restarted DEF ProcessInv, Stopped
  <2> QED BY <1>1, <1>3, <2>1, <2>2, <2>3 DEF ProcessInv
<1> QED BY <1>5, <1>6, <1>7, <1>8, <1>9 DEF Event

\* The other attempts of a move
LEMMA OthersProcess ==
  ASSUME TypeOK, TypeOK', EpochsInv, ProcessInv, NEW a \in Attempts, Others(a),
         \/ term' \in {term, None}
         \/ term' = Shell(sess.epoch),
         reaped' = reaped,
         sess'.state = "running" => sess'.state = sess.state /\ sess'.epoch = sess.epoch
  PROVE  /\ \A b \in Attempts : b # a => Spawns(att[b])' /\ SourceStopped(att[b])'
         /\ ExitsApart'
<1>1. ExitsApart'
  BY ExitsApartKept
<1>2. ASSUME NEW b \in Attempts, b # a
      PROVE  Spawns(att[b])' /\ SourceStopped(att[b])'
  <2>1. att'[b] = att[b]
    BY <1>2 DEF Others
  <2>2. Spawns(att[b])'
    BY <2>1, SpawnsKept
  <2> QED BY <2>1, <2>2 DEF SourceStopped, ProcessInv
<1> QED BY <1>1, <1>2

LEMMA MoveProcess ==
  ASSUME TypeOK, TypeOK', EpochsInv, ProcessInv, NEW a \in Attempts, Moves(a)
  PROVE  ProcessInv'
<1>1. att[a] \in Attempt /\ att'[a] \in Attempt
  BY DEF TypeOK, ServerTypeOK
<1>2. CASE \/ LooksUp(a) \/ Withdraws(a) \/ FailsAtOnce(a) \/ Detaches(a) \/ Recovers(a)
           \/ ForgetsFailure(a)
  <2>1. /\ Others(a) /\ term' \in {term, None} /\ reaped' = reaped
        /\ att'[a].phase \notin Planning
        /\ mem'.reserved = mem.reserved
        /\ sess'.state \in {sess.state, "resumeFailed"}
        /\ sess'.epoch = sess.epoch
        /\ sess'.why = sess.why \/ sess'.state = "resumeFailed"
    BY <1>2, IdlePhases, PhaseSets DEF LooksUp, Withdraws, FailsAtOnce, Detaches, Recovers,
       StaysOrLost,
       ForgetsFailure, OnlyAttempt, SameSession, store, proc
  <2>2. Spawns(att[a])' /\ SourceStopped(att[a])'
    BY <2>1, NoSpawns
  <2>3. sess'.state = "running" => sess.state = "running"
    BY <2>1
  <2>4. /\ \A b \in Attempts : b # a => Spawns(att[b])' /\ SourceStopped(att[b])'
        /\ ExitsApart'
    BY <2>1, <2>3, OthersProcess
  <2>5. \A b \in Attempts : Spawns(att[b])' /\ SourceStopped(att[b])'
    BY <2>2, <2>4
  <2> QED BY <2>1, <2>3, <2>4, <2>5 DEF ProcessInv
<1>3. CASE AppliesFailure(a)
  <2>1. /\ Others(a) /\ (term' \in {term, None} \/ term' = Shell(sess.epoch))
        /\ reaped' = reaped
        /\ att'[a].phase \notin Planning
        /\ ~mem'.reserved
        /\ sess'.state # "running"
        /\ sess'.why # None => sess'.state = "resumeFailed" \/ sess' = sess
    BY <1>3, IdlePhases DEF AppliesFailure, Stopped
  <2>2. Spawns(att[a])' /\ SourceStopped(att[a])'
    BY <2>1, NoSpawns
  <2>3. /\ \A b \in Attempts : b # a => Spawns(att[b])' /\ SourceStopped(att[b])'
        /\ ExitsApart'
    BY <2>1, OthersProcess
  <2>4. \A b \in Attempts : Spawns(att[b])' /\ SourceStopped(att[b])'
    BY <2>2, <2>3
  <2> QED BY <2>1, <2>3, <2>4 DEF ProcessInv
<1>4. CASE \/ GivesUp(a) \/ GoesOn(a) \/ RetiresSource(a) \/ DropsPlan(a) \/ Reaps(a)
           \/ BeginsFailure(a) \/ Panics(a)
  <2>1. /\ Others(a) /\ term' \in {term, None} /\ reaped' = reaped
        /\ sess' = sess /\ mem'.reserved = mem.reserved
    BY <1>4, WithoutTyped DEF GivesUp, Panics, GoesOn, RetiresSource, DropsPlan, Reaps,
       BeginsFailure, OnlyAttempt, store, proc
  <2>2. att'[a].phase \in Planning =>
             /\ att[a].phase \in Planning /\ att'[a].epoch = att[a].epoch
             /\ att'[a].old \in {att[a].old, 0} /\ att'[a].spawned = att[a].spawned
             /\ att'[a].phase \in Provisional => att[a].phase \in Provisional
             /\ att'[a].phase = "planned" => att[a].phase = "planned"
             /\ att'[a].phase \in Finishing =>
                  \/ sess.state # "running"
                  \/ att[a].phase \in Finishing /\ att'[a].snap.epoch = att[a].snap.epoch
    <3>1. BeginsFailure(a) => sess.state # "running"
      BY DEF BeginsFailure, MayBeginFailure, ProcessInv, Stopped
    <3>2. BeginsFailure(a) => SameEpochs(att'[a], att[a]) /\ att[a].phase = "failing"
                              /\ att'[a].phase = "reaping"
      BY DEF BeginsFailure
    <3> QED
      BY <1>4, <3>1, <3>2, IdlePhases, PhaseSets DEF GivesUp, Panics, GoesOn, RetiresSource,
         DropsPlan, Reaps, OnlyAttempt, SamePlan, SameEpochs
  <2>3. Spawns(att[a])'
    <3>1. Spawns(att[a])
      BY DEF ProcessInv
    <3>2. CASE att'[a].phase \notin Planning
      BY <3>2, NoSpawns
    <3>3. CASE att'[a].phase \in Planning
      BY <2>1, <2>2, <3>1, <3>3 DEF Spawns
    <3> QED BY <3>2, <3>3
  <2>4. SourceStopped(att[a])'
    <3>1. SourceStopped(att[a]) /\ sess.epoch # 0
      BY SessionEpochTyped DEF ProcessInv, EpochsInv, EpochsBounded
    <3> QED BY <2>1, <2>2, <3>1 DEF SourceStopped
  <2>5. /\ \A b \in Attempts : b # a => Spawns(att[b])' /\ SourceStopped(att[b])'
        /\ ExitsApart'
    BY <2>1, OthersProcess
  <2>6. \A b \in Attempts : Spawns(att[b])' /\ SourceStopped(att[b])'
    BY <2>3, <2>4, <2>5
  <2> QED BY <2>1, <2>5, <2>6 DEF ProcessInv
<1>5. CASE Prepares(a) \/ Relocates(a) \/ LeavesReservation(a)
  <2>1. Takes(a) /\ term' \in {term, None}
    BY <1>5 DEF Prepares, Relocates, LeavesReservation, Reserves
  <2>2. /\ Others(a) /\ reaped' = reaped /\ sess'.state = "resuming" /\ sess'.why = None
        /\ att'[a].phase \in Planning =>
             att'[a].phase = "planned" /\ ~att'[a].spawned /\ att'[a].epoch = epochs + 1
    BY <1>5, <2>1, IdlePhases DEF Takes, Prepares, Relocates, LeavesReservation, Reserves
  <2>3. /\ term # None => term.epoch # epochs + 1
        /\ reaped # epochs + 1
    BY SessionEpochTyped, NoneApart DEF EpochsInv, EpochsBounded
  <2>4. Spawns(att[a])' /\ SourceStopped(att[a])'
    BY <2>1, <2>2, <2>3, PhaseSets DEF Spawns, SourceStopped
  <2>5. /\ \A b \in Attempts : b # a => Spawns(att[b])' /\ SourceStopped(att[b])'
        /\ ExitsApart'
    BY <2>1, <2>2, OthersProcess
  <2>6. \A b \in Attempts : Spawns(att[b])' /\ SourceStopped(att[b])'
    BY <2>4, <2>5
  <2> QED BY <2>2, <2>5, <2>6 DEF ProcessInv
<1>6. CASE SpawnsAgent(a)
  <2>1. /\ att[a].phase = "planned" /\ att[a].phase \in Planning /\ att[a].epoch \in Nat
        /\ Others(a) /\ reaped' = reaped /\ UNCHANGED <<sess, mem>>
        /\ att'[a].phase \in Provisional /\ att'[a].spawned /\ att'[a].old = 0
        /\ att'[a].epoch = att[a].epoch /\ term' = Agent(att[a].epoch)
    BY <1>1, <1>6, PhaseSets, PlanTyped DEF SpawnsAgent, store
  <2>2. term' # None /\ term'.agent /\ term'.epoch = att[a].epoch
    BY <2>1, ShellTyped
  <2>3. reaped # att[a].epoch
    BY <2>1 DEF ProcessInv, Spawns
  <2>4. ExitsApart'
    BY <2>1, <2>2, <2>3 DEF ExitsApart
  <2>5. sess.epoch # 0
    BY SessionEpochTyped DEF EpochsInv, EpochsBounded
  <2>6. Spawns(att[a])' /\ SourceStopped(att[a])'
    BY <2>1, <2>5, PhaseSets DEF Spawns, SourceStopped
  <2>7. ASSUME NEW b \in Attempts, b # a
        PROVE  Spawns(att[b])' /\ SourceStopped(att[b])'
    <3>1. att'[b] = att[b]
      BY <2>1, <2>7 DEF Others
    <3>2. att[b].phase \in Planning => att[b].epoch # att[a].epoch
      BY <2>1, <2>7 DEF EpochsInv, EpochsApart
    <3> QED BY <2>1, <2>2, <3>1, <3>2 DEF Spawns, SourceStopped, ProcessInv
  <2>8. \A b \in Attempts : Spawns(att[b])' /\ SourceStopped(att[b])'
    BY <2>6, <2>7
  <2> QED BY <2>1, <2>4, <2>8 DEF ProcessInv
<1>7. CASE Commits(a)
  <2>1. /\ Others(a) /\ term' = term /\ reaped' = reaped /\ ~mem'.reserved
        /\ sess'.why = None /\ sess'.epoch = att[a].epoch /\ att[a].phase \in Planning
        /\ att'[a].phase \notin Planning
    BY <1>7, IdlePhases, PhaseSets DEF Commits, proc
  <2>2. ExitsApart'
    BY <2>1 DEF ExitsApart, ProcessInv
  <2>3. ASSUME NEW b \in Attempts, b # a
        PROVE  Spawns(att[b])' /\ SourceStopped(att[b])'
    <3>1. att'[b] = att[b]
      BY <2>1, <2>3 DEF Others
    <3>2. Spawns(att[b])'
      BY <2>1, <3>1, SpawnsKept
    <3>3. PlansApart(att[b], att[a])
      BY DEF EpochsInv, EpochsApart
    <3> QED BY <2>1, <3>1, <3>2, <3>3 DEF SourceStopped, PlansApart
  <2>4. \A b \in Attempts : Spawns(att[b])' /\ SourceStopped(att[b])'
    BY <2>1, <2>3, NoSpawns
  <2> QED BY <2>1, <2>2, <2>4 DEF ProcessInv
<1> QED BY <1>2, <1>3, <1>4, <1>5, <1>6, <1>7 DEF Moves

-----------------------------------------------------------------------------
(* Plans, and the worktree they run in *)

\* No other step starts a resume or an agent.
LEMMA EventSession ==
  ASSUME TypeOK, Event
  PROVE  /\ sess'.state = "running" => sess' = sess
         /\ sess'.state = "resuming" => Crash \/ sess' = sess
         /\ mem'.reserved /\ mem'.obs # 0 =>
              /\ mem.reserved /\ mem'.obs = mem.obs
              /\ sess' # sess => sess'.state = "exited"
         /\ sess' = sess \/ Stopped(sess') \/ Crash
<1>1. CASE CloseReserves \/ CloseRecovers \/ CloseCancels \/ Terminates \/ ClosesNothing
           \/ TerminateFails
  BY <1>1 DEF CloseReserves, CloseRecovers, CloseCancels, Terminates, ClosesNothing,
     TerminateFails, StopsSession, Stopped, store
<1>2. CASE ArchiveBegins \/ ArchiveRetires \/ ArchiveCommits \/ Restores
  BY <1>2 DEF ArchiveBegins, ArchiveRetires, ArchiveCommits, Restores, StopsSession, Stopped
<1>3. CASE \/ Dies \/ Readies \/ Collects \/ ExitApplies \/ ExitIgnored
           \/ HoldTree \/ FreeTree
  BY <1>3 DEF Dies, Readies, Collects, ExitApplies, ExitIgnored, HoldTree, FreeTree,
     KeepsMaps, Stopped, store
<1>4. CASE Crash
  BY <1>4, Restarted DEF Stopped
<1> QED BY <1>1, <1>2, <1>3, <1>4 DEF Event

LEMMA EventPlans ==
  ASSUME TypeOK, TypeOK', EpochsInv, PlansInv, Event
  PROVE  PlansInv'
<1> SUFFICES ASSUME NEW a \in Attempts
             PROVE  PlanMatches(att[a])' /\ RelocationMatches(att[a])'
  BY DEF PlansInv
<1>1. PlanMatches(att[a]) /\ RelocationMatches(att[a])
  BY DEF PlansInv
<1>2. CASE Crash
  BY <1>2, Restarted DEF PlanMatches, RelocationMatches
<1>3. CASE ~Crash
  <2>1. att' = att /\ reloc' \in {reloc, None}
    BY <1>3, EventFrame
  <2>2. RelocationMatches(att[a])'
    BY <1>1, <2>1 DEF RelocationMatches
  <2>3. att[a].phase \in Early => att[a].epoch # 0
    BY TypesOf, PlanTyped, PhaseSets DEF EpochsInv, PlanBounded
  <2>4. PlanMatches(att[a])'
    BY <1>1, <1>3, <2>1, <2>3, EventSession DEF PlanMatches
  <2> QED BY <2>2, <2>4
<1> QED BY <1>2, <1>3

LEMMA MovePlans ==
  ASSUME TypeOK, TypeOK', EpochsInv, PlansInv, NEW a \in Attempts, Moves(a)
  PROVE  PlansInv'
<1>1. \A b \in Attempts : att[b] \in Attempt
  BY DEF TypeOK, ServerTypeOK
<1>2. \A b \in Attempts : PlanMatches(att[b]) /\ RelocationMatches(att[b])
  BY DEF PlansInv
<1>3. \A b \in Attempts : att[b].phase \in Early =>
        att[b].epoch \in Nat /\ 1 <= att[b].epoch /\ att[b].epoch <= epochs
  BY <1>1, PlanTyped, PhaseSets DEF EpochsInv, PlanBounded
<1>4. \A b \in Attempts : att[b].phase \in Early => att[b].epoch # 0
                                                  /\ att[b].epoch # epochs + 1
  BY <1>3, SessionEpochTyped
<1>5. reloc # None => reloc.op # epochs + 1
  BY SessionEpochTyped DEF EpochsInv, EpochsBounded
<1>6. CASE Withdraws(a)
  <2>1. /\ Others(a) /\ att'[a].phase \notin Early /\ UNCHANGED <<reloc, mem>>
        /\ sess' = sess \/ SameSession
    BY <1>6, IdlePhases, PhaseSets DEF Withdraws
  <2> QED BY <1>2, <2>1 DEF PlansInv, PlanMatches, RelocationMatches, Others, SameSession
<1>7. CASE \/ FailsAtOnce(a) \/ AppliesFailure(a)
  <2>1. /\ Others(a) /\ att'[a].phase \notin Early /\ reloc' = None
        /\ sess'.state # "resuming"
    BY <1>7, IdlePhases, PhaseSets DEF FailsAtOnce, AppliesFailure, Stopped
  <2> QED BY <2>1 DEF PlansInv, PlanMatches, RelocationMatches
<1>8. CASE Prepares(a)
  <2>1. /\ Others(a) /\ reloc' = reloc /\ mem'.obs = epochs + 1
        /\ att'[a].epoch = epochs + 1 /\ att'[a].kind # "relocation"
        /\ att'[a].cwd = sess'.cwd /\ att'[a].guard = sess'.guard
        /\ sess'.cwd # "tree" => sess'.guard = 0
    BY <1>8 DEF Prepares, Reserves, Takes
  <2> QED BY <1>2, <1>4, <1>5, <2>1 DEF PlansInv, PlanMatches, RelocationMatches, Others
<1>9. CASE LeavesReservation(a)
  <2>1. /\ Others(a) /\ mem'.obs = epochs + 1 /\ att'[a].phase \notin Early
        /\ reloc' = reloc \/ reloc'.op = epochs + 1
    BY <1>9, IdlePhases, PhaseSets DEF LeavesReservation, Takes
  <2> QED BY <1>2, <1>4, <2>1 DEF PlansInv, PlanMatches, RelocationMatches, Others
<1>10. CASE Relocates(a)
  <2>1. /\ Others(a) /\ reloc' # None /\ reloc'.op = epochs + 1 /\ mem'.obs = epochs + 1
        /\ att'[a].epoch = epochs + 1 /\ att'[a].kind = "relocation"
        /\ att'[a].cwd = reloc'.to
        /\ att'[a].guard = IF reloc'.to = "tree" THEN reloc'.gen ELSE 0
    BY <1>10 DEF Relocates, Reserves, Takes
  <2> QED BY <1>2, <1>4, <2>1 DEF PlansInv, PlanMatches, RelocationMatches, Others
<1>11. CASE Detaches(a)
  <2>1. /\ Others(a) /\ att'[a].phase \notin Early /\ reloc' = reloc /\ mem'.obs = 0
    BY <1>11, PhaseSets DEF Detaches, store
  <2> QED BY <1>2, <1>4, <2>1 DEF PlansInv, PlanMatches, RelocationMatches, Others
<1>12. CASE \/ LooksUp(a) \/ Recovers(a) \/ GivesUp(a) \/ Panics(a) \/ BeginsFailure(a) \/ DropsPlan(a) \/ Reaps(a)
            \/ ForgetsFailure(a)
  <2>1. /\ Others(a) /\ att'[a].phase \notin Early /\ UNCHANGED <<sess, reloc>>
        /\ mem'.reserved = mem.reserved /\ mem'.obs = mem.obs
    BY <1>12, IdlePhases, PhaseSets DEF LooksUp, Recovers, GivesUp, Panics, BeginsFailure, DropsPlan, Reaps,
       ForgetsFailure, OnlyAttempt, store
  <2> QED BY <1>2, <2>1 DEF PlansInv, PlanMatches, RelocationMatches, Others
<1>13. CASE GoesOn(a) \/ RetiresSource(a) \/ SpawnsAgent(a)
  <2>1. /\ Others(a) /\ att[a].phase \in Early /\ UNCHANGED <<sess, mem>>
        /\ att'[a].epoch = att[a].epoch /\ att'[a].kind = att[a].kind
        /\ att'[a].cwd = att[a].cwd /\ att'[a].guard = att[a].guard
        /\ reloc' # None => /\ reloc # None /\ reloc'.op = reloc.op
                            /\ reloc'.to = reloc.to /\ reloc'.gen = reloc.gen
    BY <1>13, PhaseSets DEF GoesOn, RetiresSource, SpawnsAgent, SamePlan, store
  <2> QED BY <1>2, <2>1 DEF PlansInv, PlanMatches, RelocationMatches, Others
<1>14. CASE Commits(a)
  <2>1. /\ Others(a) /\ att'[a].phase \notin Early /\ reloc' \in {reloc, None}
        /\ ~mem'.reserved
    BY <1>14, IdlePhases, PhaseSets DEF Commits
  <2> QED BY <1>2, <2>1 DEF PlansInv, PlanMatches, RelocationMatches, Others
<1> QED
  BY <1>6, <1>7, <1>8, <1>9, <1>10, <1>11, <1>12, <1>13, <1>14 DEF Moves

\* Only a commit makes the session run.
LEMMA MoveRunning ==
  ASSUME TypeOK, NEW a \in Attempts, Moves(a), ~Commits(a), sess'.state = "running"
  PROVE  sess.state = "running" /\ (sess' = sess \/ SameSession)
<1>1. CASE Withdraws(a) \/ FailsAtOnce(a) \/ AppliesFailure(a)
  BY <1>1 DEF Withdraws, FailsAtOnce, AppliesFailure, Stopped, SameSession
<1>2. CASE Prepares(a) \/ Relocates(a) \/ LeavesReservation(a)
  BY <1>2 DEF Prepares, Relocates, LeavesReservation, Reserves, Takes
<1>3. CASE \/ Detaches(a) \/ Recovers(a) \/ GivesUp(a) \/ GoesOn(a) \/ RetiresSource(a)
           \/ SpawnsAgent(a) \/ LooksUp(a) \/ Panics(a)
  BY <1>3 DEF LooksUp, Panics, OnlyAttempt, Detaches, Recovers, GivesUp, GoesOn, RetiresSource, SpawnsAgent, store
<1>4. CASE BeginsFailure(a) \/ DropsPlan(a) \/ Reaps(a) \/ ForgetsFailure(a)
  BY <1>4 DEF BeginsFailure, DropsPlan, Reaps, ForgetsFailure, OnlyAttempt, store
<1> QED BY <1>1, <1>2, <1>3, <1>4 DEF Moves

LEMMA MoveTree ==
  ASSUME TypeOK, NEW a \in Attempts, Moves(a)
  PROVE  tree' = tree
BY DEF Moves, LooksUp, Withdraws, FailsAtOnce, Prepares, Relocates, LeavesReservation,
   Reserves, Takes, Panics, Detaches, Recovers,
   GivesUp, GoesOn, RetiresSource, SpawnsAgent, Commits, BeginsFailure, DropsPlan, Reaps,
   AppliesFailure, ForgetsFailure, OnlyAttempt

LEMMA EventTree ==
  ASSUME TypeOK, Event
  PROVE  HoldTree \/ FreeTree \/ tree' = tree
BY Restarted DEF Event, CloseReserves, CloseRecovers, CloseCancels, Terminates,
   ClosesNothing, TerminateFails, ArchiveBegins, ArchiveRetires, ArchiveCommits, Restores, Dies, Readies,
   Collects, ExitApplies, ExitIgnored

LEMMA HeldTreeStep ==
  ASSUME TypeOK, TypeOK', ArchiverInv, PlansInv, NoRunInHeldTree, Next
  PROVE  NoRunInHeldTree'
<1>1. CASE \E a \in Attempts : Moves(a)
  <2>1. PICK a \in Attempts : Moves(a)
    BY <1>1
  <2>2. tree' = tree
    BY <2>1, MoveTree
  <2>3. CASE ~Commits(a)
    BY <2>1, <2>2, <2>3, MoveRunning DEF NoRunInHeldTree, SameSession
  <2>4. CASE Commits(a)
    <3>1. /\ att[a].phase \in Early
          /\ PlanMatches(att[a]) /\ RelocationMatches(att[a])
      BY <2>4 DEF Commits, Early, PlansInv
    <3>2. sess'.cwd = att[a].cwd /\ sess'.guard = att[a].guard
      BY <2>4, <3>1 DEF Commits, PlanMatches, RelocationMatches
    <3>3. att[a].cwd = "tree" => ~tree.held /\ att[a].guard \in {0, tree.gen}
      BY <2>4 DEF Commits, LaunchReserved
    <3> QED BY <2>2, <3>2, <3>3 DEF NoRunInHeldTree
  <2> QED BY <2>3, <2>4
<1>2. CASE Event
  <2>1. sess'.state = "running" => sess' = sess
    BY <1>2, EventSession
  <2>2. CASE tree' = tree
    BY <2>1, <2>2 DEF NoRunInHeldTree
  <2>3. CASE HoldTree \/ FreeTree
    BY <2>1, <2>3 DEF NoRunInHeldTree, HoldTree, FreeTree, Attached
  <2> QED BY <1>2, <2>2, <2>3, EventTree
<1> QED BY <1>1, <1>2, Steps

-----------------------------------------------------------------------------
(* Archives, closes and the journals *)

\* The moves that leave the session and its reservation alone
Internal(a) ==
  \/ LooksUp(a) \/ Recovers(a) \/ GivesUp(a) \/ Panics(a) \/ GoesOn(a) \/ RetiresSource(a)
  \/ SpawnsAgent(a) \/ BeginsFailure(a) \/ DropsPlan(a) \/ Reaps(a) \/ ForgetsFailure(a)

LEMMA InternalFrame ==
  ASSUME TypeOK, NEW a \in Attempts, Internal(a)
  PROVE  /\ sess' = sess /\ mem'.reserved = mem.reserved /\ mem'.obs = mem.obs
         /\ mem'.hold = mem.hold /\ receipt' = receipt /\ epochs' = epochs
         /\ \/ reloc' = reloc
            \/ /\ reloc # None /\ reloc' # None /\ reloc'.op = reloc.op
               /\ reloc'.epoch = reloc.epoch /\ reloc'.from = reloc.from
               /\ reloc'.to = reloc.to /\ reloc'.gen = reloc.gen
<1>1. CASE \/ LooksUp(a) \/ Recovers(a) \/ GivesUp(a) \/ Panics(a) \/ GoesOn(a)
           \/ RetiresSource(a) \/ SpawnsAgent(a)
  BY <1>1, PhaseSets DEF LooksUp, Panics, OnlyAttempt, Recovers, GivesUp, GoesOn, RetiresSource, SpawnsAgent, store
<1>2. CASE BeginsFailure(a) \/ DropsPlan(a) \/ Reaps(a) \/ ForgetsFailure(a)
  BY <1>2, PhaseSets DEF BeginsFailure, DropsPlan, Reaps, ForgetsFailure, OnlyAttempt, store
<1> QED BY <1>1, <1>2 DEF Internal

LEMMA MoveFrame ==
  ASSUME TypeOK, NEW a \in Attempts, Moves(a)
  PROVE  /\ Others(a) /\ arch' = arch /\ closer' = closer /\ archiver' = archiver
         /\ reaped' = reaped
         /\ \/ Internal(a) \/ Withdraws(a) \/ FailsAtOnce(a) \/ Prepares(a) \/ Relocates(a)
            \/ LeavesReservation(a) \/ Detaches(a) \/ Commits(a) \/ AppliesFailure(a)
<1>1. \/ Internal(a) \/ Withdraws(a) \/ FailsAtOnce(a) \/ Prepares(a) \/ Relocates(a)
      \/ LeavesReservation(a) \/ Detaches(a) \/ Commits(a) \/ AppliesFailure(a)
  BY DEF Moves, Internal
<1>2. CASE \/ Withdraws(a) \/ FailsAtOnce(a) \/ Prepares(a) \/ Relocates(a)
           \/ LeavesReservation(a)
  BY <1>1, <1>2 DEF Withdraws, FailsAtOnce, Prepares, Relocates, LeavesReservation,
     Reserves, Takes, proc
<1>3. CASE Detaches(a) \/ Commits(a) \/ AppliesFailure(a)
  BY <1>1, <1>3 DEF Detaches, Commits, AppliesFailure, store, proc
<1>4. CASE \/ LooksUp(a) \/ Recovers(a) \/ GivesUp(a) \/ Panics(a) \/ GoesOn(a)
           \/ RetiresSource(a) \/ SpawnsAgent(a)
  BY <1>1, <1>4 DEF LooksUp, Panics, OnlyAttempt, Recovers, GivesUp, GoesOn, RetiresSource, SpawnsAgent, store, proc
<1>5. CASE BeginsFailure(a) \/ DropsPlan(a) \/ Reaps(a) \/ ForgetsFailure(a)
  BY <1>1, <1>5 DEF BeginsFailure, DropsPlan, Reaps, ForgetsFailure, OnlyAttempt, store, proc
<1> QED BY <1>2, <1>3, <1>4, <1>5 DEF Moves

LEMMA UnownedFailed ==
  ASSUME ProcessInv, Unowned(sess)
  PROVE  sess.state = "resumeFailed" /\ Stopped(sess)
BY NoneApart DEF ProcessInv, Unowned, Reasons, Stopped

LEMMA ReservationStep ==
  ASSUME TypeOK, TypeOK', ArchiverInv, EpochsInv, ProcessInv, ReservationInv, Next
  PROVE  ReservationInv'
<1> SUFFICES ASSUME "orphaned" \notin slips', mem'.reserved
             PROVE  IF mem'.obs = 0
                    THEN closer' # "idle" /\ sess'.state # "resuming" /\ ~Archiving'
                    ELSE sess'.state = "resuming"
  BY DEF ReservationInv
<1>1. mem.reserved =>
        IF mem.obs = 0 THEN closer # "idle" /\ sess.state # "resuming" /\ ~Archiving
        ELSE sess.state = "resuming"
  BY Steps DEF Remembers, ReservationInv
<1>2. CASE \E a \in Attempts : Moves(a)
  <2>1. PICK a \in Attempts : Moves(a)
    BY <1>2
  <2>2. arch' = arch /\ closer' = closer
    BY <2>1, MoveFrame
  <2>3. CASE Internal(a)
    BY <1>1, <2>2, <2>3, InternalFrame DEF Archiving
  <2>4. CASE Withdraws(a) \/ FailsAtOnce(a)
    BY <1>1, <2>2, <2>4 DEF Withdraws, FailsAtOnce, SameSession, Archiving
  <2>5. CASE Prepares(a) \/ Relocates(a)
    BY <2>5, SessionEpochTyped DEF Prepares, Relocates, Reserves, Takes
  <2>6. CASE LeavesReservation(a) \/ Commits(a) \/ AppliesFailure(a)
    BY <2>6 DEF LeavesReservation, Commits, AppliesFailure
  <2>7. CASE Detaches(a)
    BY <1>1, <2>2, <2>7 DEF Detaches, Archiving, store
  <2> QED BY <2>1, <2>3, <2>4, <2>5, <2>6, <2>7, MoveFrame
<1>3. CASE CloseReserves
  BY <1>3, UnownedFailed DEF CloseReserves, Archiving, store
<1>4. CASE CloseRecovers \/ CloseCancels \/ Terminates \/ ClosesNothing \/ TerminateFails
  BY <1>1, <1>4 DEF CloseRecovers, CloseCancels, Terminates, ClosesNothing, TerminateFails,
     Archiving, store
<1>5. CASE ArchiveBegins \/ ArchiveRetires \/ ArchiveCommits \/ Restores
  BY <1>1, <1>5 DEF ArchiveBegins, ArchiveRetires, ArchiveCommits, Restores, ArchiverInv,
     Archiving
<1>6. CASE \/ Dies \/ Readies \/ Collects \/ ExitApplies \/ ExitIgnored
           \/ HoldTree \/ FreeTree
  BY <1>1, <1>6 DEF Dies, Readies, Collects, ExitApplies, ExitIgnored, HoldTree, FreeTree,
     KeepsMaps, Archiving, store, server
<1>7. CASE Crash
  BY <1>7, Restarted
<1> QED BY <1>2, <1>3, <1>4, <1>5, <1>6, <1>7, Steps DEF Event

LEMMA CloseStep ==
  ASSUME TypeOK, TypeOK', ArchiverInv, ProcessInv, CloseInv, Next
  PROVE  CloseInv'
<1> SUFFICES ASSUME "yielded" \notin slips', closer' # "idle"
             PROVE  mem'.reserved /\ mem'.obs = 0 /\ Stopped(sess')
  BY DEF CloseInv
<1>1. closer # "idle" => mem.reserved /\ mem.obs = 0 /\ Stopped(sess)
  BY Steps DEF Remembers, CloseInv
<1>2. CASE \E a \in Attempts : Moves(a)
  <2>1. PICK a \in Attempts : Moves(a)
    BY <1>2
  <2>2. closer' = closer /\ mem.reserved /\ mem.obs = 0 /\ Stopped(sess)
    BY <1>1, <2>1, MoveFrame
  <2>3. CASE Internal(a)
    BY <2>2, <2>3, InternalFrame
  <2>4. CASE Withdraws(a) \/ Detaches(a)
    BY <2>2, <2>4 DEF Withdraws, Detaches, SameSession, Stopped, store
  <2>5. CASE FailsAtOnce(a) \/ Prepares(a) \/ Relocates(a) \/ LeavesReservation(a)
    BY <2>2, <2>5 DEF FailsAtOnce, Prepares, Relocates, LeavesReservation, Reserves, Takes
  <2>6. CASE Commits(a) \/ AppliesFailure(a)
    BY <2>2, <2>6 DEF Commits, AppliesFailure, Stopped
  <2> QED BY <2>1, <2>3, <2>4, <2>5, <2>6, MoveFrame
<1>3. CASE CloseReserves
  BY <1>3, UnownedFailed DEF CloseReserves, store
<1>4. CASE CloseRecovers \/ CloseCancels \/ Terminates \/ ClosesNothing \/ TerminateFails
  BY <1>1, <1>4 DEF CloseRecovers, CloseCancels, Terminates, ClosesNothing, TerminateFails,
     EndsClose, store
<1>5. CASE ArchiveBegins \/ ArchiveRetires \/ ArchiveCommits \/ Restores
  BY <1>1, <1>5 DEF ArchiveBegins, ArchiveRetires, ArchiveCommits, Restores,
     StopsSession, Stopped, server
<1>6. CASE \/ Dies \/ Readies \/ Collects \/ ExitApplies \/ ExitIgnored
           \/ HoldTree \/ FreeTree
  BY <1>1, <1>6 DEF Dies, Readies, Collects, ExitApplies, ExitIgnored, HoldTree,
     FreeTree, KeepsMaps, store, server
<1>7. CASE Crash
  BY <1>7, Restarted
<1> QED BY <1>2, <1>3, <1>4, <1>5, <1>6, <1>7, Steps DEF Event

LEMMA RelocationStep ==
  ASSUME TypeOK, TypeOK', ArchiverInv, EpochsInv, PlansInv, RelocationInv, Next
  PROVE  RelocationInv'
<1> SUFFICES ASSUME "orphaned" \notin slips', reloc' # None
             PROVE  mem'.reserved /\ mem'.obs = reloc'.op /\ RelocationLoads'
  BY DEF RelocationInv
<1>1. reloc # None =>
        /\ mem.reserved /\ mem.obs = reloc.op /\ mem.obs # 0
        /\ sess.state = "resuming" /\ sess.epoch = reloc.epoch /\ sess.cwd = reloc.from
        /\ ~sess.archived /\ arch = None /\ tree.gen = reloc.gen /\ ~tree.held
  <2>1. reloc # None => reloc.op # 0
    BY SessionEpochTyped DEF EpochsInv, EpochsBounded
  <2> QED BY <2>1, Steps DEF Remembers, RelocationInv, RelocationLoads, Archiving
<1>2. CASE \E a \in Attempts : Moves(a)
  <2>1. PICK a \in Attempts : Moves(a)
    BY <1>2
  <2>2. arch' = arch /\ tree' = tree
    BY <2>1, MoveFrame, MoveTree
  <2>3. CASE Internal(a)
    BY <1>1, <2>2, <2>3, InternalFrame DEF RelocationLoads, Archiving
  <2>4. CASE Withdraws(a) \/ FailsAtOnce(a) \/ Detaches(a) \/ AppliesFailure(a)
    BY <1>1, <2>2, <2>4 DEF Withdraws, FailsAtOnce, Detaches, AppliesFailure,
       SameSession, RelocationLoads, Archiving, store
  <2>5. CASE Prepares(a) \/ LeavesReservation(a)
    BY <1>1, <2>5 DEF Prepares, LeavesReservation, Reserves, Takes
  <2>6. CASE Relocates(a)
    BY <2>2, <2>6 DEF Relocates, Reserves, Takes, RelocationLoads, Archiving
  <2>7. CASE Commits(a)
    <3>1. RelocationMatches(att[a]) /\ att[a].phase \in Early
      BY <2>7 DEF PlansInv, Commits, Early
    <3> QED BY <1>1, <2>7, <3>1 DEF Commits, RelocationMatches
  <2> QED BY <2>1, <2>3, <2>4, <2>5, <2>6, <2>7, MoveFrame
<1>3. CASE CloseReserves \/ CloseRecovers \/ Terminates \/ ClosesNothing
  BY <1>1, <1>3 DEF CloseReserves, CloseRecovers, Terminates, ClosesNothing,
     RelocationLoads, Archiving, store
<1>4. CASE CloseCancels \/ TerminateFails
  BY <1>1, <1>4 DEF CloseCancels, TerminateFails, FreesResume, store
<1>5. CASE ArchiveBegins \/ ArchiveRetires \/ ArchiveCommits \/ Restores
  BY <1>1, <1>5 DEF ArchiveBegins, ArchiveRetires, ArchiveCommits, Restores, ArchiverInv
<1>6. CASE Dies \/ Readies \/ Collects \/ ExitIgnored
  BY <1>1, <1>6 DEF Dies, Readies, Collects, ExitIgnored, KeepsMaps, RelocationLoads,
     Archiving, store
<1>7. CASE ExitApplies
  BY <1>1, <1>7 DEF ExitApplies, Stopped, RelocationLoads, Archiving
<1>8. CASE HoldTree \/ FreeTree
  BY <1>1, <1>8 DEF HoldTree, FreeTree, store
<1>9. CASE Crash
  BY <1>9, Restarted
<1> QED
  BY <1>2, <1>3, <1>4, <1>5, <1>6, <1>7, <1>8, <1>9, Steps DEF Event

LEMMA ReceiptStep ==
  ASSUME TypeOK, TypeOK', ArchiverInv, PlansInv, ReceiptInv, Next
  PROVE  ReceiptInv'
<1> SUFFICES ASSUME "moved" \notin slips', receipt' # None
             PROVE  /\ reloc' = None
                    /\ sess'.epoch = receipt'.epoch /\ sess'.cwd = receipt'.cwd
                    /\ sess'.guard = IF receipt'.cwd = "tree" THEN receipt'.gen ELSE 0
  BY DEF ReceiptInv, ReceiptLoads
<1>1. receipt # None =>
        /\ reloc = None
        /\ sess.epoch = receipt.epoch /\ sess.cwd = receipt.cwd
        /\ sess.guard = IF receipt.cwd = "tree" THEN receipt.gen ELSE 0
  BY Steps DEF Remembers, ReceiptInv, ReceiptLoads
<1>2. CASE \E a \in Attempts : Moves(a)
  <2>1. PICK a \in Attempts : Moves(a)
    BY <1>2
  <2>2. CASE Internal(a)
    BY <1>1, <2>2, InternalFrame
  <2>3. CASE Withdraws(a) \/ FailsAtOnce(a) \/ Detaches(a) \/ AppliesFailure(a)
    BY <1>1, <2>3 DEF Withdraws, FailsAtOnce, Detaches, AppliesFailure, SameSession, store
  <2>4. CASE Prepares(a) \/ Relocates(a) \/ LeavesReservation(a)
    BY <1>1, <2>4 DEF Prepares, Relocates, LeavesReservation, Reserves, Takes
  <2>5. CASE Commits(a)
    <3>1. RelocationMatches(att[a]) /\ att[a].phase \in Early
      BY <2>5 DEF PlansInv, Commits, Early
    <3> QED BY <2>5, <3>1 DEF Commits, RelocationMatches
  <2> QED BY <2>1, <2>2, <2>3, <2>4, <2>5, MoveFrame
<1>3. CASE Event
  <2>1. receipt' = receipt /\ reloc' \in {reloc, None} /\ sess'.epoch = sess.epoch
    BY <1>3, EventFrame
  <2>2. sess'.guard = sess.guard /\ (sess'.cwd = sess.cwd \/ Restores)
    <3>1. CASE CloseReserves \/ CloseRecovers \/ CloseCancels \/ Terminates \/ ClosesNothing
               \/ TerminateFails
      BY <3>1 DEF CloseReserves, CloseRecovers, CloseCancels, Terminates, ClosesNothing,
         TerminateFails, StopsSession, store
    <3>2. CASE ArchiveBegins \/ ArchiveRetires \/ ArchiveCommits \/ Restores
      BY <3>2 DEF ArchiveBegins, ArchiveRetires, ArchiveCommits, Restores, StopsSession
    <3>3. CASE \/ Dies \/ Readies \/ Collects \/ ExitApplies \/ ExitIgnored
               \/ HoldTree \/ FreeTree
      BY <3>3 DEF Dies, Readies, Collects, ExitApplies, ExitIgnored, HoldTree, FreeTree, store
    <3>4. CASE Crash
      BY <3>4, Restarted
    <3> QED BY <1>3, <3>1, <3>2, <3>3, <3>4 DEF Event
  <2>3. Restores => sess'.cwd = sess.cwd
    BY <2>1 DEF Restores
  <2> QED BY <1>1, <2>1, <2>2, <2>3
<1> QED BY <1>2, <1>3, Steps

LEMMA ArchiveLoadsStep ==
  ASSUME TypeOK, TypeOK', ArchiverInv, ArchiveLoadsInv, Next
  PROVE  ArchiveLoadsInv'
<1> SUFFICES ASSUME "overtaken" \notin slips', arch' # None
             PROVE  sess'.epoch = arch'.epoch /\ ~sess'.archived
  BY DEF ArchiveLoadsInv, ArchiveLoads, MayCommitArchive
<1>1. arch # None => sess.epoch = arch.epoch /\ ~sess.archived
  BY Steps DEF Remembers, ArchiveLoadsInv, ArchiveLoads, MayCommitArchive
<1>2. CASE \E a \in Attempts : Moves(a)
  <2>1. PICK a \in Attempts : Moves(a)
    BY <1>2
  <2>2. arch' = arch
    BY <2>1, MoveFrame
  <2>3. CASE Internal(a)
    BY <1>1, <2>2, <2>3, InternalFrame
  <2>4. CASE Withdraws(a) \/ FailsAtOnce(a) \/ Detaches(a) \/ AppliesFailure(a)
    BY <1>1, <2>2, <2>4 DEF Withdraws, FailsAtOnce, Detaches, AppliesFailure, SameSession,
       store
  <2>5. CASE Prepares(a) \/ Relocates(a) \/ LeavesReservation(a)
    BY <1>1, <2>2, <2>5 DEF Prepares, Relocates, LeavesReservation, Reserves, Takes
  <2>6. CASE Commits(a)
    BY <1>1, <2>2, <2>6 DEF Commits
  <2> QED BY <2>1, <2>3, <2>4, <2>5, <2>6, MoveFrame
<1>3. CASE CloseReserves \/ CloseRecovers \/ CloseCancels \/ Terminates \/ ClosesNothing
           \/ TerminateFails
  BY <1>1, <1>3 DEF CloseReserves, CloseRecovers, CloseCancels, Terminates,
     ClosesNothing, TerminateFails, StopsSession, store
<1>4. CASE ArchiveBegins \/ ArchiveRetires \/ ArchiveCommits \/ Restores
  BY <1>1, <1>4 DEF ArchiveBegins, ArchiveRetires, ArchiveCommits, Restores, ArchiverInv,
     Archiving
<1>5. CASE \/ Dies \/ Readies \/ Collects \/ ExitApplies \/ ExitIgnored
           \/ HoldTree \/ FreeTree
  BY <1>1, <1>5 DEF Dies, Readies, Collects, ExitApplies, ExitIgnored, HoldTree, FreeTree,
     store
<1>6. CASE Crash
  BY <1>6, Restarted
<1> QED BY <1>2, <1>3, <1>4, <1>5, <1>6, Steps DEF Event

-----------------------------------------------------------------------------
(* Who drives a resume *)

\* The snapshot of a failure depends on this part of the state only.
LEMMA SameSnapshot ==
  ASSUME mem'.obs = mem.obs, sess'.epoch = sess.epoch, sess'.cwd = sess.cwd,
         \/ reloc' = reloc
         \/ reloc # None /\ reloc' # None /\ reloc'.op = reloc.op
  PROVE  Snapshot' = Snapshot
BY DEF Snapshot

\* While a plan is reserved, no other step touches the session.
LEMMA EventReserved ==
  ASSUME TypeOK, ReservationInv, Event, mem'.reserved, mem'.obs # 0,
         "orphaned" \notin slips, "orphaned" \notin slips'
  PROVE  /\ sess' = sess /\ reloc' = reloc /\ att' = att
         /\ mem'.obs = mem.obs /\ mem.reserved
<1>1. mem.reserved /\ mem'.obs = mem.obs /\ sess.state = "resuming"
  BY EventSession DEF ReservationInv
<1>2. CASE CloseReserves \/ CloseRecovers \/ CloseCancels \/ Terminates \/ ClosesNothing
           \/ TerminateFails
  BY <1>1, <1>2 DEF CloseReserves, CloseRecovers, CloseCancels, Terminates, ClosesNothing,
     TerminateFails, store
<1>3. CASE ArchiveBegins \/ ArchiveRetires \/ ArchiveCommits \/ Restores
  BY <1>1, <1>3 DEF ArchiveBegins, ArchiveRetires, ArchiveCommits, Restores
<1>4. CASE \/ Dies \/ Readies \/ Collects \/ ExitApplies \/ ExitIgnored
           \/ HoldTree \/ FreeTree
  BY <1>1, <1>4 DEF Dies, Readies, Collects, ExitApplies, ExitIgnored, HoldTree, FreeTree,
     KeepsMaps, store, server
<1>5. CASE Crash
  BY <1>5, Restarted
<1> QED BY <1>1, <1>2, <1>3, <1>4, <1>5 DEF Event

LEMMA SnapshotsStep ==
  ASSUME TypeOK, TypeOK', ArchiverInv, EpochsInv, ReservationInv, SnapshotsCurrent, Next
  PROVE  SnapshotsCurrent'
<1> SUFFICES ASSUME "orphaned" \notin slips', NEW b \in Attempts,
                    att'[b].phase \in Finishing, mem'.reserved, mem'.obs = att'[b].epoch
             PROVE  att'[b].snap = Snapshot'
  BY DEF SnapshotsCurrent, SnapshotCurrent
<1>1. att[b] \in Attempt /\ att'[b] \in Attempt /\ "orphaned" \notin slips
  BY Steps DEF Remembers, TypeOK, ServerTypeOK
<1>2. att[b].phase \in Finishing /\ mem.reserved /\ mem.obs = att[b].epoch
        => att[b].snap = Snapshot
  BY <1>1 DEF SnapshotsCurrent, SnapshotCurrent
<1>3. att[b].phase \in Planning => att[b].epoch # 0 /\ att[b].epoch # epochs + 1
  BY <1>1, PlanTyped, SessionEpochTyped DEF EpochsInv, PlanBounded
<1>4. CASE \E a \in Attempts : Moves(a)
  <2>1. PICK a \in Attempts : Moves(a)
    BY <1>4
  <2>2. Others(a)
    BY <2>1, MoveFrame
  <2>3. CASE Internal(a) /\ ~BeginsFailure(a)
    <3>1. Snapshot' = Snapshot /\ mem'.reserved = mem.reserved /\ mem'.obs = mem.obs
      BY <2>3, InternalFrame, SameSnapshot
    <3>2. /\ att[b].phase \in Finishing /\ att'[b].snap = att[b].snap
          /\ att'[b].epoch = att[b].epoch
      <4>1. CASE b # a
        BY <2>2, <4>1 DEF Others
      <4>2. CASE b = a
        BY <2>3, <4>2, IdlePhases, PhaseSets DEF Internal, LooksUp, Recovers, GivesUp, Panics,
           GoesOn, RetiresSource, SpawnsAgent, DropsPlan, Reaps, ForgetsFailure, SameEpochs
      <4> QED BY <4>1, <4>2
    <3> QED BY <1>2, <3>1, <3>2
  <2>4. CASE BeginsFailure(a)
    <3>1. /\ Snapshot' = Snapshot /\ mem'.reserved = mem.reserved /\ mem'.obs = mem.obs
          /\ att'[a].snap = Snapshot
      BY <2>4, SameSnapshot DEF BeginsFailure, store
    <3> QED BY <1>2, <2>2, <3>1 DEF Others
  <2>5. CASE Withdraws(a)
    <3>1. /\ Snapshot' = Snapshot /\ mem' = mem
          /\ att'[a].phase \notin Planning
      BY <2>5, SameSnapshot, IdlePhases DEF Withdraws, SameSession
    <3> QED BY <1>2, <2>2, <3>1, PhaseSets DEF Others
  <2>6. CASE Prepares(a) \/ Relocates(a) \/ LeavesReservation(a)
    <3>1. mem'.obs = epochs + 1 /\ att'[a].phase \in {"planned", "idle"}
      BY <2>6, IdlePhases DEF Prepares, Relocates, LeavesReservation, Reserves, Takes
    <3> QED BY <1>3, <2>2, <3>1, PhaseSets DEF Others
  <2>7. CASE Detaches(a)
    <3>1. mem'.obs = 0 /\ att'[a].phase = "detached"
      BY <2>7 DEF Detaches
    <3> QED BY <1>3, <2>2, <3>1, PhaseSets DEF Others
  <2>8. CASE FailsAtOnce(a) \/ Commits(a) \/ AppliesFailure(a)
    BY <2>8 DEF FailsAtOnce, Commits, AppliesFailure
  <2> QED BY <2>1, <2>3, <2>4, <2>5, <2>6, <2>7, <2>8, MoveFrame
<1>5. CASE Event
  <2>1. mem'.obs # 0
    <3>1. EpochsInv'
      BY EpochsStep
    <3> QED BY <1>1, <3>1, PlanTyped, PhaseSets DEF EpochsInv, PlanBounded
  <2>2. sess' = sess /\ reloc' = reloc /\ att' = att /\ mem'.obs = mem.obs /\ mem.reserved
    BY <1>1, <1>5, <2>1, EventReserved
  <2> QED BY <1>2, <2>2, SameSnapshot
<1> QED BY <1>4, <1>5, Steps

LEMMA PlanPhases ==
  ASSUME TypeOK, NEW a \in Attempts
  PROVE  /\ HasPlan(a) <=> att[a].phase \in Planning
         /\ InProgress(a) <=> att[a].phase \in Planning /\ att[a].phase # "dropping"
<1>1. att[a] \in Attempt
  BY TypesOf
<1>2. CASE att[a] \in {Idle, Queued, Again} \cup Calling
  BY <1>2, IdlePhases, PhaseSets DEF HasPlan, InProgress, Calling
<1>3. CASE att[a] \in PlannedAttempt \cup FailingAttempt \cup ReapingAttempt
  <2>1. att[a].phase \in Planning
    BY <1>3 DEF PlannedAttempt, FailingAttempt, ReapingAttempt, Planning, Early, Finishing
  <2>2. att[a].phase \notin {"idle", "queued", "again", "asked"} \cup Unplanned
    BY <2>1, PhaseSets
  <2> QED BY <2>1, <2>2 DEF HasPlan, InProgress
<1> QED BY <1>1, <1>2, <1>3 DEF Attempt

LEMMA DriverFacts ==
  ASSUME TypeOK, EpochsInv, ReservationInv, SnapshotsCurrent, "orphaned" \notin slips,
         NEW a \in Attempts, Drives(a)
  PROVE  /\ mem.reserved /\ mem.obs # 0 /\ sess.state = "resuming"
         /\ att[a].phase \in Finishing => SnapshotCurrent(a)
         /\ att[a].phase = "failing" => MayBeginFailure(a)
<1>1. mem.obs # 0
  BY TypesOf, PlanTyped DEF Drives, EpochsInv, PlanBounded
<1>2. sess.state = "resuming"
  BY <1>1 DEF ReservationInv, Drives
<1>3. att[a].phase \in Finishing => SnapshotCurrent(a)
  BY DEF SnapshotsCurrent, Drives
<1>4. att[a].phase = "failing" => MayBeginFailure(a)
  BY <1>2 DEF MayBeginFailure, Drives
<1> QED BY <1>1, <1>2, <1>3, <1>4 DEF Drives

LEMMA WaitsPhase ==
  ASSUME NEW a, Waits(a)
  PROVE  att[a].phase \in {"queued", "asked"}
BY IdlePhases DEF Waits

LEMMA MoveDriven ==
  ASSUME TypeOK, TypeOK', EpochsInv, ProcessInv, ReservationInv, SnapshotsCurrent, HoldInv,
         "orphaned" \notin slips, "orphaned" \notin slips', Driven,
         NEW a \in Attempts, Moves(a)
  PROVE  Driven'
<1>1. Others(a)
  BY MoveFrame
<1>2. \A b \in Attempts : Drives(b) =>
        /\ mem.obs # 0 /\ sess.state = "resuming"
        /\ att[b].phase \in Finishing => SnapshotCurrent(b)
        /\ att[b].phase = "failing" => MayBeginFailure(b)
  BY DriverFacts
<1>3. \A b \in Attempts : b # a /\ Waits(b) => Waits(b)'
  BY <1>1 DEF Waits, Others
<1>4. CASE Internal(a)
  <2>1. sess' = sess /\ mem'.reserved = mem.reserved /\ mem'.obs = mem.obs
    BY <1>4, InternalFrame
  <2>2. Drives(a) => Drives(a)'
    <3>1. CASE LooksUp(a) \/ Recovers(a) \/ DropsPlan(a) \/ ForgetsFailure(a)
      BY <1>2, <3>1, PhaseSets DEF Drives, LooksUp, Recovers, DropsPlan, ForgetsFailure
    <3>2. CASE \/ GivesUp(a) \/ Panics(a) \/ GoesOn(a) \/ RetiresSource(a)
               \/ SpawnsAgent(a) \/ BeginsFailure(a) \/ Reaps(a)
      BY <2>1, <3>2 DEF Drives, GivesUp, Panics, GoesOn, RetiresSource, SpawnsAgent,
         BeginsFailure, Reaps, SamePlan, SameEpochs, Planning, Early, Finishing
    <3> QED BY <1>4, <3>1, <3>2 DEF Internal
  <2>3. \A b \in Attempts : Drives(b) => Drives(b)'
    BY <1>1, <2>1, <2>2 DEF Drives, Others
  <2>4. sess.state = "resuming" /\ Waits(a) => Waits(a)'
    <3>1. CASE LooksUp(a)
      BY <3>1, UnownedFailed DEF LooksUp, Waits
    <3>2. CASE ~LooksUp(a)
      <4>1. att[a].phase \in Planning \cup {"detached"}
        BY <1>4, <3>2, PhaseSets DEF Internal, Recovers, GivesUp, Panics, GoesOn,
           RetiresSource, SpawnsAgent, BeginsFailure, DropsPlan, Reaps, ForgetsFailure
      <4> QED BY <4>1, WaitsPhase, PhaseSets
    <3> QED BY <3>1, <3>2
  <2> QED BY <1>3, <2>1, <2>3, <2>4 DEF Driven
<1>5. CASE Withdraws(a)
  <2>1. /\ mem' = mem /\ sess'.state = sess.state /\ att[a].phase \notin Planning
        /\ Waits(a) => mem.reserved \/ mem.hold \/ sess.state # "resuming"
    BY <1>5 DEF Withdraws, SameSession
  <2>2. \A b \in Attempts : Drives(b) => Drives(b)'
    BY <1>1, <2>1 DEF Drives, Others
  <2>3. sess.state = "resuming" /\ Waits(a) => \E b \in Attempts : Drives(b)
    BY <2>1 DEF HoldInv, ReservationInv, Driven
  <2> QED BY <1>3, <2>1, <2>2, <2>3 DEF Driven
<1>6. CASE FailsAtOnce(a) \/ Commits(a) \/ AppliesFailure(a)
  BY <1>6 DEF FailsAtOnce, Commits, AppliesFailure, Stopped, Driven
<1>7. CASE Prepares(a) \/ Relocates(a)
  <2>1. Drives(a)'
    BY <1>7, PhaseSets DEF Prepares, Relocates, Reserves, Takes, Drives
  <2> QED BY <2>1 DEF Driven
<1>8. CASE LeavesReservation(a)
  BY <1>8 DEF LeavesReservation
<1>9. CASE Detaches(a)
  <2>1. sess' = sess /\ mem'.obs = 0 /\ (mem.reserved => mem.obs = 0) /\ ~Waits(a)
    BY <1>9, WaitsPhase DEF Detaches, store
  <2>2. \A b \in Attempts : ~Drives(b)
    BY <1>2, <2>1 DEF Drives
  <2> QED BY <1>3, <2>1, <2>2 DEF Driven
<1> QED BY <1>4, <1>5, <1>6, <1>7, <1>8, <1>9, MoveFrame

\* A reservation stays where an attempt drives the session.
LEMMA EventDrives ==
  ASSUME TypeOK, EpochsInv, ReservationInv, SnapshotsCurrent,
         "orphaned" \notin slips, "orphaned" \notin slips',
         NEW a \in Attempts, Drives(a), Event, ~Crash
  PROVE  Drives(a)' \/ Terminates \/ (ExitApplies /\ ~mem.hold)
<1>1. mem.reserved /\ mem.obs # 0 /\ sess.state = "resuming"
  BY DriverFacts
<1>2. att' = att
  BY EventFrame
<1>3. CASE CloseReserves \/ CloseRecovers \/ CloseCancels \/ ClosesNothing \/ TerminateFails
  BY <1>1, <1>2, <1>3 DEF CloseReserves, CloseRecovers, CloseCancels, ClosesNothing,
     TerminateFails, FreesResume, Drives
<1>4. CASE ArchiveBegins \/ ArchiveRetires \/ ArchiveCommits \/ Restores
  BY <1>1, <1>2, <1>4 DEF ArchiveBegins, ArchiveRetires, ArchiveCommits, Restores, Drives
<1>5. CASE \/ Dies \/ Readies \/ Collects \/ ExitApplies \/ ExitIgnored
           \/ HoldTree \/ FreeTree
  BY <1>1, <1>2, <1>5 DEF Dies, Readies, Collects, ExitApplies, ExitIgnored, HoldTree,
     FreeTree, KeepsMaps, Drives
<1> QED BY <1>3, <1>4, <1>5 DEF Event

LEMMA EventDriven ==
  ASSUME TypeOK, TypeOK', EpochsInv, ReservationInv, SnapshotsCurrent,
         "orphaned" \notin slips, "orphaned" \notin slips', Driven, Event
  PROVE  Driven'
<1>1. CASE Crash
  BY <1>1, Restarted DEF Driven, Waits
<1>2. CASE Terminates \/ (ExitApplies /\ ~mem.hold)
  BY <1>2 DEF Terminates, ExitApplies, StopsSession, Stopped, Driven
<1>3. CASE ~Crash /\ ~Terminates /\ ~(ExitApplies /\ ~mem.hold)
  <2>1. \A a \in Attempts : (Drives(a) => Drives(a)') /\ (Waits(a) => Waits(a)')
    BY <1>3, EventDrives, EventFrame DEF Waits
  <2>2. /\ sess'.state = "resuming" => sess.state = "resuming"
        /\ mem'.reserved /\ mem'.obs # 0 => mem.reserved /\ mem.obs # 0
    BY <1>3, EventSession
  <2> QED BY <2>1, <2>2 DEF Driven
<1> QED BY <1>1, <1>2, <1>3

LEMMA DrivenStep ==
  ASSUME TypeOK, TypeOK', ArchiverInv, EpochsInv, ProcessInv, ReservationInv,
         SnapshotsCurrent, HoldInv, DrivenInv, Next
  PROVE  DrivenInv'
<1> SUFFICES ASSUME "orphaned" \notin slips'
             PROVE  Driven'
  BY DEF DrivenInv
<1>1. Driven /\ "orphaned" \notin slips
  BY Steps DEF Remembers, DrivenInv
<1> QED BY <1>1, Steps, MoveDriven, EventDriven

LEMMA HoldStep ==
  ASSUME TypeOK, TypeOK', ArchiverInv, HoldInv, Next
  PROVE  HoldInv'
<1> SUFFICES ASSUME "orphaned" \notin slips', mem'.hold, sess'.state = "resuming"
             PROVE  mem'.reserved
  BY DEF HoldInv
<1>1. mem.hold /\ sess.state = "resuming" => mem.reserved
  BY Steps DEF Remembers, HoldInv
<1>2. CASE \E a \in Attempts : Moves(a)
  <2>1. PICK a \in Attempts : Moves(a)
    BY <1>2
  <2>2. CASE Internal(a)
    BY <1>1, <2>2, InternalFrame
  <2>3. CASE Withdraws(a) \/ FailsAtOnce(a) \/ Detaches(a)
    BY <1>1, <2>3 DEF Withdraws, FailsAtOnce, Detaches, SameSession, store
  <2>4. CASE Prepares(a) \/ Relocates(a) \/ LeavesReservation(a)
    BY <2>4 DEF Prepares, Relocates, LeavesReservation, Reserves, Takes
  <2>5. CASE Commits(a) \/ AppliesFailure(a)
    BY <2>5 DEF Commits, AppliesFailure, Stopped
  <2> QED BY <2>1, <2>2, <2>3, <2>4, <2>5, MoveFrame
<1>3. CASE CloseReserves \/ CloseRecovers \/ CloseCancels \/ Terminates \/ ClosesNothing
           \/ TerminateFails
  BY <1>1, <1>3 DEF CloseReserves, CloseRecovers, CloseCancels, Terminates, ClosesNothing,
     TerminateFails, FreesResume, StopsSession, store
<1>4. CASE ArchiveBegins \/ ArchiveRetires \/ ArchiveCommits \/ Restores
  BY <1>1, <1>4 DEF ArchiveBegins, ArchiveRetires, ArchiveCommits, Restores, StopsSession
<1>5. CASE \/ Dies \/ Readies \/ Collects \/ ExitApplies \/ ExitIgnored
           \/ HoldTree \/ FreeTree
  BY <1>1, <1>5 DEF Dies, Readies, Collects, ExitApplies, ExitIgnored, HoldTree, FreeTree,
     KeepsMaps, Stopped, store
<1>6. CASE Crash
  BY <1>6, Restarted DEF Stopped
<1> QED BY <1>2, <1>3, <1>4, <1>5, <1>6, Steps DEF Event

-----------------------------------------------------------------------------
(* Calls that a start of the daemon makes *)

LEMMA PlainRecords ==
  ASSUME NEW r \in Attempt, ~Started(r)
  PROVE  /\ r # Queued /\ r # Again
         /\ r.phase \in Early \cup Unplanned \cup {"asked"} => r.kind \notin {"startup", "retry"}
         /\ r.phase \in {"failing", "dropping"} \cup Finishing => ~r.again
BY DEF Started

LEMMA IdleNotStarted == ~Started(Idle)
BY IdlePhases, PhaseSets DEF Started

LEMMA PlannedNotStarted ==
  ASSUME NEW r, r.phase \in Early \cup Unplanned \cup {"asked"},
         r.kind \notin {"startup", "retry"}
  PROVE  ~Started(r)
BY IdlePhases DEF Started, Early, Finishing, Unplanned

LEMMA FailingNotStarted ==
  ASSUME NEW r, r.phase \in {"failing", "dropping"} \cup Finishing, ~r.again
  PROVE  ~Started(r)
BY IdlePhases DEF Started, Early, Finishing, Unplanned

LEMMA AbandonedNotStarted ==
  ASSUME NEW r, r.phase = "abandoned"
  PROVE  ~Started(r)
BY IdlePhases DEF Started, Early, Finishing, Unplanned

\* A plan that no start has made is not retried.
LEMMA FailsNotStarted ==
  ASSUME TypeOK, NEW a \in Attempts, att[a].phase \in Early, ~Started(att[a]),
         NEW r, r.kind = att[a].kind, NEW why, SetAtt(a, Failing(r, why))
  PROVE  ~Started(att'[a])
<1>1. att'[a] = Failing(r, why)
  BY SetAttOthers, TypesOf
<1>2. att[a].kind # "startup"
  BY TypesOf, PlainRecords
<1>3. Failing(r, why).phase = "failing" /\ ~Failing(r, why).again
  BY <1>2 DEF Failing
<1> QED BY <1>1, <1>3, FailingNotStarted

LEMMA CallNotStarted ==
  ASSUME TypeOK, NEW a \in Attempts, ~Started(att[a]), NEW kind \in Kinds,
         Calls(a, kind) \/ att[a] = [kind |-> kind, phase |-> "asked"]
  PROVE  kind \notin {"startup", "retry"}
<1>1. CASE Calls(a, kind)
  BY <1>1 DEF Calls, Started
<1>2. CASE att[a] = [kind |-> kind, phase |-> "asked"]
  <2>1. att[a].kind = kind /\ att[a].phase = "asked"
    BY <1>2
  <2> QED BY <2>1 DEF Started
<1> QED BY <1>1, <1>2

LEMMA AttemptStarts ==
  ASSUME TypeOK, NEW a \in Attempts, AttemptStep(a), ~Started(att[a])
  PROVE  ~Started(att'[a])
<1>1. att[a] \in Attempt
  BY TypesOf
<1>2. ASSUME NEW r, SetAtt(a, r)
      PROVE  att'[a] = r
  BY <1>2, SetAttOthers, TypesOf
<1>3. CASE Ends(a)
  BY <1>2, <1>3, IdleNotStarted DEF Ends
<1>4. ASSUME NEW p \in Early \cup Unplanned \cup {"asked"},
             att[a].phase \in Early \cup Unplanned \cup {"asked"}, Phase(a, p)
      PROVE  ~Started(att'[a])
  <2>1. PICK r : r = [att[a] EXCEPT !.phase = p]
    OBVIOUS
  <2>2. r.phase = p /\ r.kind = att[a].kind
    BY <1>1, <1>4, <2>1, AttemptPhase DEF Calling, PlannedAttempt, Early, Unplanned
  <2>3. att'[a] = r
    BY <1>2, <1>4, <2>1 DEF Phase
  <2> QED BY <1>1, <1>4, <2>2, <2>3, PlainRecords, PlannedNotStarted
<1>5. ASSUME NEW kind \in Kinds, Look(a, kind)
      PROVE  ~Started(att'[a])
  <2>1. PICK r : r = [kind |-> kind, phase |-> IF Unowned(sess) THEN "looked" ELSE "asked"]
    OBVIOUS
  <2>2. r.kind = kind /\ r.phase \in {"looked", "asked"} /\ att'[a] = r
    BY <1>2, <1>5, <2>1 DEF Look
  <2>3. kind \notin {"startup", "retry"}
    BY <1>5, CallNotStarted DEF Look
  <2> QED BY <2>2, <2>3, PlannedNotStarted, PhaseSets
<1>6. CASE Detach(a) \/ Recover(a)
  BY <1>3, <1>4, <1>6, PhaseSets DEF Detach, Recover
<1>7. CASE MarkUncertain(a)
  BY <1>3, <1>7 DEF MarkUncertain
<1>8. ASSUME NEW kind \in Kinds,
             \/ Refused(a, kind) \/ PlanCurrent(a, kind) \/ PlanLaunchReserved(a, kind)
             \/ HoldResists(a, kind)
      PROVE  ~Started(att'[a])
  BY <1>3, <1>8 DEF Refused, PlanCurrent, PlanLaunchReserved, HoldResists
<1>9. ASSUME NEW kind \in Kinds, PlanPrepares(a, kind)
      PROVE  ~Started(att'[a])
  <2>1. PICK r : r = Planned(kind, IF kind = "restart" THEN sess.epoch ELSE 0, sess.cwd,
                             Guarded.guard)
    OBVIOUS
  <2>2. r.kind = kind /\ r.phase = "planned"
    BY <2>1 DEF Planned
  <2>3. att'[a] = r \/ Ends(a)
    BY <1>2, <1>9, <2>1 DEF PlanPrepares, MakesPlan
  <2>4. kind \notin {"startup", "retry"}
    BY <1>9, CallNotStarted DEF PlanPrepares, AsksResume, Asks
  <2> QED BY <1>3, <2>2, <2>3, <2>4, PlannedNotStarted, PhaseSets
<1>10. CASE PlanRelocation(a)
  <2>1. PICK r : r = Planned("relocation", IF sess.state = "running" THEN sess.epoch ELSE 0,
                       OtherFolder, IF OtherFolder = "tree" THEN tree.gen ELSE 0)
    OBVIOUS
  <2>2. r.kind = "relocation" /\ r.phase = "planned"
    BY <2>1 DEF Planned
  <2>3. att'[a] = r \/ Ends(a)
    BY <1>2, <1>10, <2>1 DEF PlanRelocation, MakesPlan
  <2> QED BY <1>3, <2>2, <2>3, PlannedNotStarted, PhaseSets
<1>11. ASSUME NEW why, att[a].phase \in Early, Fails(a, why)
       PROVE  ~Started(att'[a])
  BY <1>11, FailsNotStarted DEF Fails
<1>12. CASE PreparationFails(a) \/ CompletionRejected(a)
  BY <1>11, <1>12, PhaseSets DEF PreparationFails, CompletionRejected, Early
<1>13. CASE MarkTargetStarting(a) \/ Poll(a)
  BY <1>4, <1>11, <1>13 DEF MarkTargetStarting, Poll, Early
<1>14. CASE RetireSource(a)
  <2>1. PICK r : r = [att[a] EXCEPT !.old = 0]
    OBVIOUS
  <2>2. att[a].phase = "planned" /\ att[a] \in PlannedAttempt
    BY <1>1, <1>14, AttemptPhase DEF RetireSource, Early
  <2>3. r.kind = att[a].kind /\ r.phase = att[a].phase
    BY <2>1, <2>2 DEF PlannedAttempt
  <2>4. CASE SetAtt(a, r)
    <3>1. att'[a] = r
      BY <1>2, <2>4
    <3> QED BY <1>1, <2>2, <2>3, <3>1, PlainRecords, PlannedNotStarted, PhaseSets
  <2>5. CASE SetAtt(a, Failing(r, "conflict"))
    BY <2>2, <2>3, <2>5, FailsNotStarted, PhaseSets
  <2> QED BY <1>14, <2>1, <2>4, <2>5 DEF RetireSource
<1>15. CASE Spawn(a)
  <2>1. att[a].phase = "planned" /\ att[a] \in PlannedAttempt
    BY <1>1, <1>15, AttemptPhase DEF Spawn, Early
  <2>2. PICK r : r = [att[a] EXCEPT !.spawned = TRUE,
                        !.phase = IF att[a].kind = "relocation" THEN "spawned" ELSE "polling"]
    OBVIOUS
  <2>3. r.kind = att[a].kind /\ r.phase \in Early
    BY <2>1, <2>2 DEF PlannedAttempt, Early
  <2>4. CASE SetAtt(a, r)
    <3>1. att'[a] = r
      BY <1>2, <2>4
    <3> QED BY <1>1, <2>1, <2>3, <3>1, PlainRecords, PlannedNotStarted, PhaseSets
  <2> QED BY <1>11, <1>15, <2>1, <2>2, <2>4, PhaseSets DEF Spawn
<1>16. CASE Complete(a)
  BY <1>3, <1>16 DEF Complete
<1>17. CASE BeginFailure(a) \/ Reap(a)
  <2>1. /\ att[a].phase \in {"failing", "reaping", "dropping"}
        /\ att[a] \in FailingAttempt \cup ReapingAttempt
    BY <1>1, <1>17, AttemptPhase DEF BeginFailure, Reap, Finishing
  <2>2. ~att[a].again
    BY <1>1, <2>1, PlainRecords, PhaseSets
  <2>3. ASSUME NEW p \in {"reaping", "reaped", "dropping"}, Phase(a, p)
        PROVE  ~Started(att'[a])
    <3>1. PICK r : r = [att[a] EXCEPT !.phase = p]
      OBVIOUS
    <3>2. r.phase = p /\ r.again = att[a].again
      BY <2>1, <3>1 DEF FailingAttempt, ReapingAttempt
    <3>3. att'[a] = r
      BY <1>2, <2>3, <3>1 DEF Phase
    <3> QED BY <2>2, <3>2, <3>3, FailingNotStarted, PhaseSets
  <2>4. CASE SetAtt(a, [att[a] EXCEPT !.phase = "reaping", !.snap = Snapshot])
    <3>1. PICK r : r = [att[a] EXCEPT !.phase = "reaping", !.snap = Snapshot]
      OBVIOUS
    <3>2. r.phase = "reaping" /\ r.again = att[a].again
      BY <2>1, <3>1 DEF FailingAttempt, ReapingAttempt
    <3>3. att'[a] = r
      BY <1>2, <2>4, <3>1
    <3> QED BY <2>2, <3>2, <3>3, FailingNotStarted, PhaseSets
  <2>5. CASE SetAtt(a, [att[a] EXCEPT !.phase = "reaped", !.why = "uncertain"])
    <3>1. PICK r : r = [att[a] EXCEPT !.phase = "reaped", !.why = "uncertain"]
      OBVIOUS
    <3>2. r.phase = "reaped" /\ r.again = att[a].again
      BY <2>1, <3>1 DEF FailingAttempt, ReapingAttempt
    <3>3. att'[a] = r
      BY <1>2, <2>5, <3>1
    <3> QED BY <2>2, <3>2, <3>3, FailingNotStarted, PhaseSets
  <2> QED BY <1>3, <1>17, <2>3, <2>4, <2>5 DEF BeginFailure, Reap
<1>18. CASE CompleteFailure(a)
  <2>1. ~att[a].again
    BY <1>1, <1>18, PlainRecords, PhaseSets DEF CompleteFailure
  <2>2. AfterFailure(a) = Idle
    BY <2>1 DEF AfterFailure
  <2> QED BY <1>3, <1>18, <2>2 DEF CompleteFailure, Ends
<1>19. CASE PreparationLost(a)
  <2>1. PICK r : r = [att[a] EXCEPT !.phase = "abandoned"]
    OBVIOUS
  <2>2. r.phase = "abandoned"
    BY <1>1, <1>19, <2>1, AttemptPhase DEF PreparationLost, PlannedAttempt, Early
  <2>3. att'[a] = r
    BY <1>2, <1>19, <2>1 DEF PreparationLost, Phase
  <2> QED BY <2>2, <2>3, AbandonedNotStarted
<1> QED
  BY <1>5, <1>6, <1>7, <1>8, <1>9, <1>10, <1>12, <1>13, <1>14, <1>15, <1>16, <1>17, <1>18,
     <1>19
  DEF AttemptStep, Plans

LEMMA EventFaults ==
  ASSUME TypeOK, Event, faults' = 0
  PROVE  faults = 0 /\ ~Crash /\ faults' = faults
<1>1. faults \in Nat
  BY ServerTypes
<1>2. ~Crash
  BY <1>1, Restarted
<1>3. faults' \in {faults, faults + 1}
  BY <1>2 DEF Event, CloseReserves, CloseRecovers, CloseCancels, Terminates, ClosesNothing,
     TerminateFails, ArchiveBegins, ArchiveRetires, ArchiveCommits, Restores, Dies, Readies, Collects,
     ExitApplies, ExitIgnored, HoldTree, FreeTree
<1> QED BY <1>1, <1>2, <1>3

\* What a move can do to the bound on faults, and to a registered agent
LEMMA MoveFaults ==
  ASSUME TypeOK, NEW a \in Attempts, Moves(a)
  PROVE  /\ faults' \in {faults, faults + 1}
         /\ SpawnsAgent(a) \/ term' \in {term, None} \/ ~term'.agent
<1>1. ~Shell(sess.epoch).agent
  BY SessionEpochTyped, ShellTyped
<1>2. CASE \/ LooksUp(a) \/ Withdraws(a) \/ FailsAtOnce(a) \/ Prepares(a) \/ Relocates(a)
           \/ LeavesReservation(a) \/ Detaches(a)
  BY <1>2 DEF LooksUp, Withdraws, FailsAtOnce, Prepares, Relocates, LeavesReservation,
     Reserves, Detaches, OnlyAttempt, proc
<1>3. CASE Commits(a) \/ AppliesFailure(a) \/ BeginsFailure(a) \/ DropsPlan(a)
           \/ ForgetsFailure(a)
  BY <1>1, <1>3 DEF Commits, AppliesFailure, BeginsFailure, DropsPlan, ForgetsFailure,
     OnlyAttempt, proc
<1>4. CASE Recovers(a) \/ GivesUp(a) \/ Panics(a) \/ GoesOn(a) \/ RetiresSource(a) \/ Reaps(a)
  BY <1>4, WithoutTyped DEF Recovers, StaysOrLost, GivesUp, Panics, GoesOn, RetiresSource,
     Reaps, proc
<1>5. CASE SpawnsAgent(a)
  BY <1>5 DEF SpawnsAgent
<1> QED BY <1>2, <1>3, <1>4, <1>5 DEF Moves

LEMMA RestingStep ==
  ASSUME TypeOK, TypeOK', ArchiverInv, RestingInv, Next
  PROVE  RestingInv'
<1> SUFFICES ASSUME faults' = 0
             PROVE  /\ \A b \in Attempts : ~Started(att'[b])
                    /\ sess'.archived => Stopped(sess')
  BY DEF RestingInv
<1>1. faults \in Nat
  BY ServerTypes
<1>2. CASE \E a \in Attempts : AttemptStep(a)
  <2>1. PICK a \in Attempts : AttemptStep(a)
    BY <1>2
  <2>2. Moves(a)
    BY <2>1, AttemptMoves
  <2>3. Others(a)
    BY <2>2, MoveFrame
  <2>4. faults = 0
    BY <1>1, <2>2, MoveFaults
  <2>5. \A b \in Attempts : ~Started(att[b])
    BY <2>4 DEF RestingInv
  <2>6. \A b \in Attempts : ~Started(att'[b])
    BY <2>1, <2>3, <2>5, AttemptStarts DEF Others
  <2>7. sess.archived => Stopped(sess)
    BY <2>4 DEF RestingInv
  <2>8. sess'.archived => Stopped(sess')
    <3>1. CASE Internal(a)
      BY <2>7, <3>1, InternalFrame
    <3>2. CASE Withdraws(a) \/ FailsAtOnce(a) \/ Detaches(a)
      BY <2>7, <3>2 DEF Withdraws, FailsAtOnce, Detaches, SameSession, Stopped, store
    <3>3. CASE Prepares(a) \/ Relocates(a)
      BY <2>5, <2>7, <3>3 DEF Prepares, Relocates, Reserves, Takes, Archiving, Stopped
    <3>5. CASE LeavesReservation(a)
      BY <1>1, <3>5 DEF LeavesReservation
    <3>4. CASE Commits(a) \/ AppliesFailure(a)
      BY <2>7, <3>4 DEF Commits, AppliesFailure, Stopped
    <3> QED BY <2>2, <3>1, <3>2, <3>3, <3>4, <3>5, MoveFrame
  <2> QED BY <2>6, <2>8
<1>3. CASE Event
  <2>1. faults = 0 /\ ~Crash
    BY <1>3, EventFaults
  <2>2. att' = att /\ \A b \in Attempts : ~Started(att[b])
    BY <1>3, <2>1, EventFrame DEF RestingInv
  <2>3. sess.archived => Stopped(sess)
    BY <2>1 DEF RestingInv
  <2>4. sess' = sess \/ Stopped(sess')
    BY <1>3, <2>1, EventSession
  <2> QED BY <2>2, <2>3, <2>4
<1> QED BY <1>2, <1>3, Steps

-----------------------------------------------------------------------------
(* Who owns the registered agent *)

\* What an attempt may have to reap
Owns(r, e) ==
  r.phase \in Planning /\ ((e = r.old /\ e # 0) \/ (r.spawned /\ e = r.epoch))

Reaped ==
  faults = 0 => \A a \in Attempts :
    /\ att[a].phase \notin {"unrecovered", "abandoned"}
    /\ att[a].phase = "reaped" /\ term # None /\ term.agent => ~Owns(att[a], term.epoch)

Owned ==
  term # None /\ term.agent /\ faults = 0 =>
    \/ sess.state = "running" /\ sess.epoch = term.epoch
    \/ \E a \in Attempts : Owns(att[a], term.epoch)

ReapedAndOwned == Reaped /\ Owned

LEMMA OwnedMeans == TypeOK => (OwnedInv <=> ReapedAndOwned)
<1> SUFFICES ASSUME TypeOK
             PROVE  OwnedInv <=> ReapedAndOwned
  OBVIOUS
<1>1. \A e : \A a \in Attempts : HasPlan(a) /\ e \in OwnEpochs(a) <=> Owns(att[a], e)
  BY PlanPhases DEF OwnEpochs, Owns
<1>2. \A a \in Attempts : att[a].phase = "reaped" => att[a].phase \in Planning
  BY PhaseSets
<1>3. \A e : \A a \in Attempts :
        att[a].phase \in Planning => (e \in OwnEpochs(a) <=> Owns(att[a], e))
  BY DEF OwnEpochs, Owns
<1>4. AgentOwned <=> Owned
  BY <1>1 DEF AgentOwned, Owned
<1> QED BY <1>2, <1>3, <1>4 DEF OwnedInv, Reaped, ReapedAndOwned

LEMMA WithoutMeans ==
  ASSUME TypeOK, NEW a \in Attempts, att[a].phase \in Planning
  PROVE  Without(OwnEpochs(a)) =
           IF term # None /\ Owns(att[a], term.epoch) THEN None ELSE term
BY DEF Without, OwnEpochs, Owns

\* Attempts that stay as they are, or end without a process, own what they owned.
LEMMA MoveReaped ==
  ASSUME TypeOK, TypeOK', EpochsInv, ProcessInv, Reaped, NEW a \in Attempts, Moves(a)
  PROVE  Reaped'
<1> SUFFICES ASSUME faults' = 0, NEW b \in Attempts
             PROVE  /\ att'[b].phase \notin {"unrecovered", "abandoned"}
                    /\ att'[b].phase = "reaped" /\ term' # None /\ term'.agent
                         => ~Owns(att'[b], term'.epoch)
  BY DEF Reaped
<1>1. Others(a) /\ faults \in Nat
  BY MoveFrame, TypesOf
<1>2. faults = 0 =>
        /\ att[b].phase \notin {"unrecovered", "abandoned"}
        /\ att[b].phase = "reaped" /\ term # None /\ term.agent => ~Owns(att[b], term.epoch)
  BY DEF Reaped
<1>3. CASE SpawnsAgent(a)
  <2>1. /\ faults' = faults /\ att[a].phase \in Planning /\ att'[a].phase \in Provisional
        /\ term' = Agent(att[a].epoch)
    BY <1>3, PhaseSets DEF SpawnsAgent
  <2>2. term'.epoch = att[a].epoch
    BY <2>1, TypesOf, PlanTyped, ShellTyped
  <2>3. CASE b = a
    BY <2>1, <2>3, PhaseSets
  <2>4. CASE b # a
    <3>1. att'[b] = att[b]
      BY <1>1, <2>4 DEF Others
    <3>2. att[b].phase \in Planning => att[b].epoch # att[a].epoch /\ att[b].old # att[a].epoch
      BY <2>1, <2>4 DEF EpochsInv, EpochsApart, PlansApart
    <3> QED BY <1>2, <2>1, <2>2, <3>1, <3>2 DEF Owns
  <2> QED BY <2>3, <2>4
<1>4. CASE ~SpawnsAgent(a)
  <2>1. (term' \in {term, None} \/ ~term'.agent) /\ faults = 0
    BY <1>1, <1>4, MoveFaults
  <2>3. CASE b # a
    BY <1>1, <1>2, <2>1, <2>3 DEF Others
  <2>4. CASE b = a
    <3>1. CASE att'[a].phase = "reaped"
      <4>1. /\ Reaps(a) /\ att[a].phase = "reaping" /\ SameEpochs(att'[a], att[a])
            /\ \/ term' = Without(OwnEpochs(a)) /\ UNCHANGED faults
               \/ faults' = faults + 1
        BY <1>4, <3>1, IdlePhases DEF Moves, LooksUp, Withdraws, FailsAtOnce, Prepares,
           Relocates, LeavesReservation, Reserves, Detaches, Recovers, GivesUp, Panics,
           GoesOn, RetiresSource, Commits, BeginsFailure, DropsPlan, Reaps, AppliesFailure, ForgetsFailure
      <4>2. term' = Without(OwnEpochs(a))
        BY <1>1, <2>1, <4>1
      <4>3. att[a].phase \in Planning
        BY <4>1, PhaseSets
      <4>4. term' # None => term' = term /\ ~Owns(att[a], term.epoch)
        BY <4>2, <4>3, WithoutMeans
      <4> QED BY <2>4, <3>1, <4>1, <4>3, <4>4 DEF Owns, SameEpochs
    <3>2. att'[a].phase \notin {"unrecovered", "abandoned"}
      <4>1. CASE Recovers(a) \/ Panics(a)
        BY <1>1, <2>1, <4>1, IdlePhases DEF Recovers, Panics
      <4>2. CASE ~Recovers(a) /\ ~Panics(a)
        BY <1>4, <4>2, IdlePhases DEF Moves, LooksUp, Withdraws, FailsAtOnce, Prepares,
           Relocates, LeavesReservation, Reserves, Detaches, GivesUp, GoesOn, RetiresSource,
           Commits, BeginsFailure, DropsPlan, Reaps, AppliesFailure, ForgetsFailure
      <4> QED BY <4>1, <4>2
    <3> QED BY <2>4, <3>1, <3>2
  <2> QED BY <2>3, <2>4
<1> QED BY <1>3, <1>4

LEMMA MoveOwned ==
  ASSUME TypeOK, TypeOK', EpochsInv, ProcessInv, NoRunInHeldTree, Reaped, Owned,
         NEW a \in Attempts, Moves(a)
  PROVE  Owned'
<1> SUFFICES ASSUME term' # None, term'.agent, faults' = 0
             PROVE  \/ sess'.state = "running" /\ sess'.epoch = term'.epoch
                    \/ \E b \in Attempts : Owns(att'[b], term'.epoch)
  BY DEF Owned
<1>1. Others(a) /\ faults \in Nat /\ faults = 0 /\ att[a] \in Attempt
  BY MoveFrame, MoveFaults, TypesOf
<1>2. CASE SpawnsAgent(a)
  <2>1. /\ att'[a].phase \in Planning /\ att'[a].spawned /\ att'[a].epoch = att[a].epoch
        /\ term' = Agent(att[a].epoch)
    BY <1>2, PhaseSets DEF SpawnsAgent
  <2>2. term'.epoch = att[a].epoch
    BY <1>1, <1>2, <2>1, PlanTyped, ShellTyped, PhaseSets DEF SpawnsAgent
  <2> QED BY <2>1, <2>2 DEF Owns
<1>3. \A b \in Attempts : b # a /\ Owns(att[b], term.epoch) => Owns(att'[b], term.epoch)
  BY <1>1 DEF Others
<1>4. CASE LooksUp(a) \/ Withdraws(a) \/ FailsAtOnce(a) \/ Detaches(a)
  <2>1. /\ term' = term /\ att[a].phase \notin Planning
        /\ sess'.epoch = sess.epoch
        /\ sess.state = "running" => sess'.state = "running"
    BY <1>4, PhaseSets DEF LooksUp, Withdraws, FailsAtOnce, Detaches, OnlyAttempt,
       SameSession, NoRunInHeldTree, store, proc
  <2> QED BY <1>1, <1>3, <2>1 DEF Owned, Owns
<1>5. CASE Prepares(a) \/ Relocates(a)
  <2>1. /\ Reserves(a) /\ term' = term
    BY <1>5 DEF Prepares, Relocates
  <2>2. /\ faults' = faults /\ att[a].phase \notin Planning /\ att'[a].phase \in Planning
        /\ sess.state = "running" => att'[a].old = sess.epoch
    BY <2>1, PhaseSets DEF Reserves, Takes
  <2>3. sess.epoch # 0
    BY SessionEpochTyped DEF EpochsInv, EpochsBounded
  <2> QED BY <1>3, <2>1, <2>2, <2>3 DEF Owned, Owns
<1>6. CASE GivesUp(a) \/ GoesOn(a) \/ BeginsFailure(a) \/ DropsPlan(a)
  <2>1. /\ term' = term /\ sess' = sess
        /\ faults' = faults => SameEpochs(att'[a], att[a])
        /\ faults' \in {faults, faults + 1}
        /\ att'[a].phase \in Planning
    BY <1>6, PhaseSets DEF GivesUp, GoesOn, BeginsFailure, DropsPlan, SamePlan, SameEpochs,
       OnlyAttempt, store, proc
  <2>2. faults = 0 /\ SameEpochs(att'[a], att[a])
    BY <1>1, <2>1
  <2> QED BY <1>3, <2>1, <2>2 DEF Owned, Owns, SameEpochs
<1>7. CASE Recovers(a) \/ Panics(a) \/ LeavesReservation(a)
  BY <1>1, <1>7 DEF Recovers, Panics, LeavesReservation
<1>8. CASE RetiresSource(a)
  <2>1. /\ term' = term /\ sess' = sess /\ faults' = faults /\ term.epoch # att[a].old
        /\ ~att[a].spawned
    BY <1>8 DEF RetiresSource, ProcessInv, Spawns, store
  <2> QED BY <1>3, <2>1 DEF Owned, Owns
<1>9. CASE Reaps(a)
  <2>1. faults' = faults /\ term' = Without(OwnEpochs(a)) /\ sess' = sess
        /\ att[a].phase \in {"reaping", "dropping"}
    BY <1>1, <1>9 DEF Reaps, store
  <2>2. term' = term /\ ~Owns(att[a], term.epoch)
    BY <2>1, WithoutMeans, PhaseSets
  <2> QED BY <1>3, <2>1, <2>2 DEF Owned
<1>10. CASE AppliesFailure(a) \/ ForgetsFailure(a)
  <2>1. faults' = faults /\ att[a].phase \in {"unrecovered", "abandoned", "reaped"}
        /\ (term' = term \/ term' = Shell(sess.epoch))
    BY <1>10 DEF AppliesFailure, ForgetsFailure, OnlyAttempt, proc
  <2>2. term' = term
    BY <2>1, SessionEpochTyped, ShellTyped
  <2>3. att[a].phase = "reaped" /\ ~Owns(att[a], term.epoch)
    BY <1>1, <2>1, <2>2 DEF Reaped
  <2>4. sess.state = "running" => sess' = sess
    <3>1. CASE ForgetsFailure(a)
      BY <3>1 DEF ForgetsFailure, OnlyAttempt, store
    <3>2. CASE AppliesFailure(a)
      <4>1. att[a].snap.epoch = sess.epoch
        BY <2>3, <3>2 DEF AppliesFailure, SnapshotCurrent, Snapshot
      <4>2. SourceStopped(att[a])
        BY DEF ProcessInv
      <4> QED BY <2>3, <4>1, <4>2, PhaseSets DEF SourceStopped
    <3> QED BY <1>10, <3>1, <3>2
  <2> QED BY <1>3, <2>1, <2>2, <2>3, <2>4 DEF Owned
<1>11. CASE Commits(a)
  <2>1. /\ term' = term /\ faults' = faults /\ sess.state = "resuming"
        /\ sess'.state = "running" /\ sess'.epoch = att[a].epoch
        /\ att[a].phase \in Provisional
    BY <1>11, PhaseSets DEF Commits, proc
  <2>2. att[a].old = 0
    BY <2>1 DEF ProcessInv, Spawns
  <2> QED BY <1>3, <2>1, <2>2 DEF Owned, Owns
<1> QED BY <1>2, <1>4, <1>5, <1>6, <1>7, <1>8, <1>9, <1>10, <1>11 DEF Moves

LEMMA EventOwned ==
  ASSUME TypeOK, TypeOK', ArchiverInv, EpochsInv, ProcessInv, RestingInv, Reaped, Owned, Event
  PROVE  Reaped' /\ Owned'
<1> SUFFICES ASSUME faults' = 0
             PROVE  Reaped' /\ Owned'
  BY DEF Reaped, Owned
<1>1. faults = 0 /\ ~Crash /\ att' = att /\ sess'.epoch = sess.epoch
  BY EventFaults, EventFrame
<1>2. term' # None /\ term'.agent =>
        term # None /\ term.agent /\ term'.epoch = term.epoch
  BY EventFrame, SessionEpochTyped, ShellTyped
<1>3. Reaped'
  BY <1>1, <1>2 DEF Reaped
<1>4. ASSUME term' # None, term'.agent,
             sess.state = "running", sess.epoch = term.epoch
      PROVE  sess'.state = "running"
  <2>1. ~mem.reserved
    BY <1>4 DEF ProcessInv
  <2>2. CASE ExitApplies
    <3>1. reaped = sess.epoch /\ reaped # None
      BY <2>1, <2>2 DEF ExitApplies, ExitIsCurrent
    <3> QED BY <1>2, <1>4, <3>1 DEF ProcessInv, ExitsApart
  <2>3. CASE CloseReserves \/ CloseRecovers \/ CloseCancels \/ Terminates \/ ClosesNothing
             \/ TerminateFails
    BY <1>4, <2>3 DEF CloseReserves, CloseRecovers, CloseCancels, Terminates, ClosesNothing,
       TerminateFails, store
  <2>4. CASE ArchiveBegins \/ ArchiveRetires \/ ArchiveCommits \/ Restores
    BY <1>1, <1>2, <1>4, <2>4 DEF ArchiveBegins, ArchiveRetires, ArchiveCommits, Restores,
       RestingInv, Stopped, proc
  <2>5. CASE Dies \/ Readies \/ Collects \/ ExitIgnored \/ HoldTree \/ FreeTree
    BY <1>4, <2>5 DEF Dies, Readies, Collects, ExitIgnored, HoldTree, FreeTree, store
  <2> QED BY <1>1, <2>2, <2>3, <2>4, <2>5 DEF Event
<1> QED BY <1>1, <1>2, <1>3, <1>4 DEF Owned

LEMMA OwnedStep ==
  ASSUME TypeOK, TypeOK', ArchiverInv, EpochsInv, ProcessInv, NoRunInHeldTree, RestingInv,
         OwnedInv, Next
  PROVE  OwnedInv'
<1>1. Reaped /\ Owned
  BY OwnedMeans DEF ReapedAndOwned
<1>2. Reaped' /\ Owned'
  <2>1. CASE Event
    BY <1>1, <2>1, EventOwned
  <2>2. CASE \E a \in Attempts : Moves(a)
    BY <1>1, <2>2, MoveReaped, MoveOwned
  <2> QED BY <2>1, <2>2, Steps
<1>3. OwnedInv' <=> ReapedAndOwned'
  BY OwnedMeans, PTL
<1> QED BY <1>2, <1>3 DEF ReapedAndOwned

-----------------------------------------------------------------------------
(* The process of a session that runs *)

\* An attempt that plans or that reaps has no part in an epoch whose process is owed.
LEMMA LiveApart ==
  ASSUME TypeOK, EpochsInv, ProcessInv, NEW e \in Nat, Live(e), NEW a \in Attempts,
         att[a].phase \in Planning \ Provisional
  PROVE  att[a].old # e /\ att[a].epoch # e
<1>1. SourceStopped(att[a]) /\ PlanApart(att[a])
  BY DEF ProcessInv, EpochsInv
<1>2. CASE sess.state = "running" /\ e = sess.epoch
  BY <1>1, <1>2 DEF SourceStopped, PlanApart
<1>3. ASSUME NEW b \in Attempts, att[b].phase \in Provisional, e = att[b].epoch
      PROVE  att[a].old # e /\ att[a].epoch # e
  <2>1. att[b].phase \in Planning /\ b # a
    BY <1>3, PhaseSets
  <2> QED BY <1>3, <2>1 DEF EpochsInv, EpochsApart, PlansApart
<1> QED BY <1>2, <1>3 DEF Live

LEMMA NewPlanLive ==
  ASSUME TypeOK, TypeOK', EpochsInv, NEW e \in Nat, NEW a \in Attempts,
         Prepares(a) \/ Relocates(a) \/ LeavesReservation(a)
  PROVE  ~Live(e)'
<1>1. /\ mem'.obs = epochs + 1 /\ att'[a].phase \in {"planned", "idle"} /\ sess'.state = "resuming"
      /\ Others(a)
  BY IdlePhases DEF Prepares, Relocates, LeavesReservation, Reserves, Takes
<1>2. ASSUME NEW b \in Attempts, att'[b].phase \in Provisional, Drives(b)'
      PROVE  FALSE
  <2>1. b # a
    BY <1>1, <1>2, PhaseSets
  <2>2. att[b].phase \in Planning /\ att[b].epoch = epochs + 1
    BY <1>1, <1>2, <2>1, PhaseSets DEF Others, Drives
  <2>3. att[b].epoch \in Nat /\ att[b].epoch <= epochs /\ epochs \in Nat
    BY <2>2, TypesOf, PlanTyped, SessionEpochTyped DEF EpochsInv, PlanBounded
  <2> QED BY <2>2, <2>3
<1> QED BY <1>1, <1>2 DEF Live

LEMMA MoveLive ==
  ASSUME TypeOK, TypeOK', EpochsInv, NEW e \in Nat, NEW a \in Attempts, Moves(a), Live(e)'
  PROVE  Live(e) \/ (SpawnsAgent(a) /\ e = att[a].epoch)
<1>1. Others(a) /\ arch' = arch
  BY MoveFrame
<1>2. CASE Commits(a)
  <2>1. ~mem'.reserved /\ sess'.epoch = att[a].epoch
    BY <1>2 DEF Commits
  <2>2. e = att[a].epoch
    BY <2>1 DEF Live, Drives
  <2>3. att[a].phase \in Provisional /\ Drives(a) /\ sess.state = "resuming"
    BY <1>2, PhaseSets DEF Commits, Drives
  <2>4. arch = None
    BY <1>1 DEF Live
  <2> QED BY <2>2, <2>3, <2>4 DEF Live
<1>3. CASE ~Commits(a)
  <2>1. CASE sess'.state = "running" /\ arch' = None /\ e = sess'.epoch
    <3>1. sess.state = "running" /\ sess'.epoch = sess.epoch
      BY <1>3, <2>1, MoveRunning DEF SameSession
    <3> QED BY <1>1, <2>1, <3>1 DEF Live
  <2>2. ASSUME sess'.state = "resuming", arch' = None,
               NEW b \in Attempts, att'[b].phase \in Provisional, Drives(b)',
               e = att'[b].epoch
        PROVE  Live(e) \/ (SpawnsAgent(a) /\ e = att[a].epoch)
    <3>1. mem'.reserved /\ mem'.obs = e
      BY <2>2 DEF Drives
    <3>2. CASE Withdraws(a) \/ FailsAtOnce(a)
      <4>1. mem' = mem /\ att'[a] = Idle /\ sess.state = "resuming"
        BY <2>2, <3>2 DEF Withdraws, FailsAtOnce, SameSession
      <4>2. b # a
        BY <2>2, <4>1, IdlePhases, PhaseSets
      <4> QED BY <1>1, <2>2, <4>1, <4>2 DEF Live, Drives, Others
    <3>3. CASE Prepares(a) \/ Relocates(a) \/ LeavesReservation(a)
      BY <3>3, NewPlanLive
    <3>4. CASE Detaches(a)
      <4>1. att'[b].epoch # 0
        <5>1. att'[a].phase \notin Provisional
          BY <3>4, PhaseSets DEF Detaches
        <5>2. b # a
          BY <2>2, <5>1
        <5>3. att'[b] = att[b] /\ att[b].phase \in Planning
          BY <1>1, <2>2, <5>2, PhaseSets DEF Others
        <5> QED BY <5>3, TypesOf, PlanTyped DEF EpochsInv, PlanBounded
      <4> QED BY <2>2, <3>1, <3>4, <4>1 DEF Detaches
    <3>5. CASE AppliesFailure(a)
      BY <3>1, <3>5 DEF AppliesFailure
    <3>6. CASE Internal(a)
      <4>1. mem'.reserved = mem.reserved /\ mem'.obs = mem.obs /\ sess' = sess
        BY <3>6, InternalFrame
      <4>2. CASE b # a
        BY <1>1, <2>2, <4>1, <4>2 DEF Live, Drives, Others
      <4>3. CASE b = a
        <5>1. GoesOn(a) \/ SpawnsAgent(a)
          BY <2>2, <3>6, <4>3, IdlePhases, PhaseSets DEF Internal, LooksUp, Recovers, GivesUp,
             Panics, RetiresSource, BeginsFailure, DropsPlan, Reaps, ForgetsFailure
        <5>2. CASE SpawnsAgent(a)
          BY <2>2, <4>3, <5>2 DEF SpawnsAgent
        <5>3. CASE GoesOn(a)
          <6>1. att[a].phase \in Provisional /\ att'[a].epoch = att[a].epoch
            BY <5>3, PhaseSets DEF GoesOn, SamePlan
          <6> QED BY <1>1, <2>2, <4>1, <4>3, <6>1, PhaseSets DEF Live, Drives
        <5> QED BY <5>1, <5>2, <5>3
      <4> QED BY <4>2, <4>3
    <3> QED BY <1>3, <3>2, <3>3, <3>4, <3>5, <3>6, MoveFrame
  <2> QED BY <2>1, <2>2 DEF Live
<1> QED BY <1>2, <1>3

LEMMA MoveRuntime ==
  ASSUME TypeOK, TypeOK', EpochsInv, ProcessInv, lost \subseteq lost',
         NEW e \in Nat, Live(e) => HasRuntime(e), NEW a \in Attempts, Moves(a), Live(e)'
  PROVE  HasRuntime(e)'
<1>1. reaped' = reaped
  BY MoveFrame
<1>2. CASE SpawnsAgent(a) /\ e = att[a].epoch
  <2>1. term' = Agent(e)
    BY <1>2 DEF SpawnsAgent
  <2> QED BY <2>1, ShellTyped DEF HasRuntime
<1>3. CASE ~(SpawnsAgent(a) /\ e = att[a].epoch)
  <2>1. Live(e) /\ HasRuntime(e)
    BY <1>3, MoveLive
  <2>2. CASE Withdraws(a) \/ FailsAtOnce(a) \/ Detaches(a) \/ Commits(a) \/ AppliesFailure(a)
    BY <1>1, <2>1, <2>2 DEF Withdraws, FailsAtOnce, Detaches, Commits, AppliesFailure,
       HasRuntime, proc
  <2>3. CASE \/ LooksUp(a) \/ GivesUp(a) \/ GoesOn(a) \/ BeginsFailure(a) \/ DropsPlan(a)
             \/ ForgetsFailure(a)
    BY <1>1, <2>1, <2>3 DEF LooksUp, GivesUp, GoesOn, BeginsFailure, DropsPlan, ForgetsFailure,
       OnlyAttempt, HasRuntime, proc
  <2>4. CASE Prepares(a) \/ Relocates(a) \/ LeavesReservation(a)
    BY <2>4, NewPlanLive
  <2>5. CASE SpawnsAgent(a)
    BY <1>1, <2>1, <2>5 DEF SpawnsAgent, HasRuntime
  <2>6. CASE Recovers(a)
    BY <1>1, <2>1, <2>6 DEF Recovers, StaysOrLost, HasRuntime
  <2>7. CASE RetiresSource(a) \/ Panics(a)
    <3>1. att[a].phase \in Planning \ Provisional
      BY <2>7, PhaseSets DEF RetiresSource, Panics
    <3>2. att[a].old # e
      BY <2>1, <3>1, LiveApart
    <3> QED BY <1>1, <2>1, <2>7, <3>2 DEF RetiresSource, Panics, HasRuntime
  <2>8. CASE Reaps(a)
    <3>1. att[a].phase \in Planning \ Provisional
      BY <2>8, PhaseSets DEF Reaps
    <3>2. e \notin OwnEpochs(a)
      BY <2>1, <3>1, LiveApart DEF OwnEpochs
    <3> QED BY <1>1, <2>1, <2>8, <3>2 DEF Reaps, Without, HasRuntime
  <2> QED BY <2>2, <2>3, <2>4, <2>5, <2>6, <2>7, <2>8 DEF Moves
<1> QED BY <1>2, <1>3

LEMMA EventLive ==
  ASSUME TypeOK, TypeOK', ArchiverInv, EpochsInv, NEW e \in Nat, Event, Live(e)'
  PROVE  Live(e) /\ ~Crash
<1>1. ~Crash
  BY Restarted DEF Live, Drives, Stopped
<1>2. att' = att
  BY <1>1, EventFrame
<1>3. sess' = sess /\ sess.state \in {"running", "resuming"}
  BY <1>1, EventSession DEF Live
<1>4. arch = None
  <2>1. arch' = None
    BY DEF Live
  <2>2. CASE CloseReserves \/ CloseRecovers \/ CloseCancels \/ Terminates \/ ClosesNothing
             \/ TerminateFails
    BY <2>1, <2>2 DEF CloseReserves, CloseRecovers, CloseCancels, Terminates,
       ClosesNothing, TerminateFails, store
  <2>3. CASE ArchiveBegins \/ ArchiveRetires \/ ArchiveCommits \/ Restores
    BY <1>3, <2>1, <2>3 DEF ArchiveBegins, ArchiveRetires, ArchiveCommits, Restores,
       StopsSession
  <2>4. CASE \/ Dies \/ Readies \/ Collects \/ ExitApplies \/ ExitIgnored
             \/ HoldTree \/ FreeTree
    BY <2>1, <2>4 DEF Dies, Readies, Collects, ExitApplies, ExitIgnored, HoldTree,
       FreeTree, store
  <2> QED BY <1>1, <2>2, <2>3, <2>4 DEF Event
<1>5. CASE sess'.state = "running" /\ e = sess'.epoch
  BY <1>1, <1>3, <1>4, <1>5 DEF Live
<1>6. ASSUME sess'.state = "resuming",
             NEW a \in Attempts, att'[a].phase \in Provisional, Drives(a)', e = att'[a].epoch
      PROVE  Live(e)
  <2>1. mem'.reserved /\ mem'.obs # 0
    <3>1. att[a].epoch # 0
      BY <1>2, <1>6, TypesOf, PlanTyped, PhaseSets DEF EpochsInv, PlanBounded
    <3> QED BY <1>2, <1>6, <3>1 DEF Drives
  <2>2. mem.reserved /\ mem'.obs = mem.obs
    BY <2>1, EventSession
  <2> QED BY <1>2, <1>3, <1>4, <1>6, <2>2 DEF Live, Drives
<1> QED BY <1>1, <1>5, <1>6 DEF Live

\* While a process is owed, the session runs or an attempt drives it.
LEMMA LiveFacts ==
  ASSUME TypeOK, EpochsInv, ProcessInv, NEW e \in Nat, Live(e)
  PROVE  arch = None /\ ExitIsCurrent(e)
<1>1. arch = None
  BY DEF Live
<1>2. CASE sess.state = "running" /\ e = sess.epoch
  BY <1>1, <1>2 DEF ProcessInv, ExitIsCurrent
<1>3. ASSUME NEW a \in Attempts, att[a].phase \in Provisional, Drives(a), e = att[a].epoch
      PROVE  ExitIsCurrent(e)
  <2>1. mem.reserved /\ mem.obs = e
    BY <1>3 DEF Drives
  <2>2. e # 0
    BY <1>3, TypesOf, PlanTyped, PhaseSets DEF EpochsInv, PlanBounded
  <2> QED BY <2>1, <2>2 DEF ExitIsCurrent
<1> QED BY <1>1, <1>2, <1>3 DEF Live

LEMMA EventRuntime ==
  ASSUME TypeOK, TypeOK', ArchiverInv, EpochsInv, ProcessInv, lost \subseteq lost',
         NEW e \in Nat, Live(e) => HasRuntime(e), Event, Live(e)'
  PROVE  HasRuntime(e)'
<1>1. Live(e) /\ HasRuntime(e) /\ ~Crash
  BY EventLive
<1>2. arch = None /\ ExitIsCurrent(e)
  BY <1>1, LiveFacts
<1>3. (mem'.reserved \/ sess'.state = "running") /\ e # None
  BY NoneApart DEF Live, Drives
<1>4. CASE CloseReserves \/ CloseRecovers \/ CloseCancels \/ ClosesNothing
  BY <1>1, <1>4 DEF CloseReserves, CloseRecovers, CloseCancels, ClosesNothing, StaysOrLost,
     HasRuntime, proc
<1>5. CASE Terminates \/ TerminateFails
  BY <1>1, <1>3, <1>5 DEF Terminates, TerminateFails, StopsSession, HasRuntime, proc
<1>6. CASE ArchiveBegins \/ ArchiveRetires \/ ArchiveCommits \/ Restores
  BY <1>1, <1>2, <1>6 DEF ArchiveBegins, ArchiveRetires, ArchiveCommits, Restores,
     ArchiverInv, HasRuntime, proc
<1>7. CASE Dies \/ Readies \/ Collects \/ HoldTree \/ FreeTree
  BY <1>1, <1>3, <1>7 DEF Dies, Readies, Collects, HoldTree, FreeTree, HasRuntime, proc
<1>8. CASE ExitApplies
  BY <1>1, <1>3, <1>8 DEF ExitApplies, Stopped, HasRuntime
<1>9. CASE ExitIgnored
  BY <1>1, <1>2, <1>9 DEF ExitIgnored, HasRuntime
<1> QED BY <1>1, <1>4, <1>5, <1>6, <1>7, <1>8, <1>9 DEF Event

LEMMA RuntimeStep ==
  ASSUME TypeOK, TypeOK', ArchiverInv, EpochsInv, ProcessInv, RuntimeInv, Next
  PROVE  RuntimeInv'
<1> SUFFICES ASSUME NEW e \in Nat, Live(e)'
             PROVE  HasRuntime(e)'
  BY DEF RuntimeInv
<1>1. (Live(e) => HasRuntime(e)) /\ lost \subseteq lost'
  BY Steps DEF RuntimeInv, Remembers
<1> QED BY <1>1, Steps, MoveRuntime, EventRuntime

-----------------------------------------------------------------------------
(* The theorems *)

LEMMA InitInv ==
  ASSUME Init
  PROVE  SessionInv
<1>1. TypeOK /\ ArchiverInv
  BY InitTyped
<1>2. /\ \A a \in Attempts : att[a] = Idle /\ att[a].phase \notin Planning \cup Unplanned
      /\ Idle.phase \notin Early \cup Finishing \cup Provisional
      /\ closer = "idle" /\ archiver = "idle" /\ epochs = 1
      /\ reloc = None /\ arch = None /\ reaped = None
  BY IdlePhases, PhaseSets DEF Init
<1>3. /\ sess.state = "running" /\ sess.why = None /\ sess.epoch = 1 /\ ~sess.archived
      /\ sess.guard = IF sess.cwd = "tree" THEN 1 ELSE 0
      /\ tree.gen = 1 /\ ~tree.held
  BY DEF Init
<1>4. mem.obs = 1 /\ ~mem.reserved /\ ~mem.hold
  BY DEF Init, NoMaps
<1>5. term = Agent(1) /\ term.epoch = 1 /\ term.agent /\ term # None
  BY ShellTyped DEF Init
<1>6. EpochsInv
  BY <1>2, <1>3, <1>4, <1>5 DEF EpochsInv, EpochsBounded, PlanBounded, PlanApart, EpochsApart,
     PlansApart
<1>7. ProcessInv
  BY <1>2, <1>3, <1>4, PhaseSets DEF ProcessInv, ExitsApart, Spawns, SourceStopped
<1>8. PlansInv /\ NoRunInHeldTree
  BY <1>2, <1>3 DEF PlansInv, PlanMatches, RelocationMatches, NoRunInHeldTree
<1>9. ReceiptLoads
  <2>1. receipt # None => receipt = [epoch |-> 1, cwd |-> sess.cwd, gen |-> 1]
    BY DEF Init
  <2> QED BY <1>2, <1>3, <2>1 DEF ReceiptLoads
<1>10. StoreInv
  BY <1>2, <1>4, <1>9 DEF StoreInv, ReservationInv, CloseInv, RelocationInv, ReceiptInv,
     ArchiveLoadsInv, ArchiveLoads
<1>11. DriverInv
  BY <1>2, <1>3, <1>4 DEF DriverInv, SnapshotsCurrent, DrivenInv, Driven, HoldInv
<1>12. OwnedInv /\ RestingInv
  BY <1>2, <1>3, <1>5, IdlePhases, PhaseSets, IdleNotStarted DEF OwnedInv, AgentOwned,
     RestingInv
<1>13. RuntimeInv
  BY <1>3, <1>5 DEF RuntimeInv, Live, HasRuntime
<1> QED
  BY <1>1, <1>6, <1>7, <1>8, <1>10, <1>11, <1>12, <1>13 DEF SessionInv, CoreInv

LEMMA NextInv ==
  ASSUME SessionInv, Next
  PROVE  SessionInv'
<1> USE DEF SessionInv
<1>1. TypeOK' /\ ArchiverInv'
  BY Steps
<1>2. CoreInv'
  <2>1. EpochsInv'
    BY <1>1, EpochsStep DEF CoreInv
  <2>2. ProcessInv'
    BY <1>1, Steps, EventProcess, MoveProcess DEF CoreInv
  <2>3. PlansInv'
    BY <1>1, Steps, EventPlans, MovePlans DEF CoreInv
  <2>4. NoRunInHeldTree' /\ RestingInv'
    BY <1>1, HeldTreeStep, RestingStep DEF CoreInv
  <2>5. OwnedInv' /\ RuntimeInv'
    BY <1>1, OwnedStep, RuntimeStep DEF CoreInv
  <2> QED BY <2>1, <2>2, <2>3, <2>4, <2>5 DEF CoreInv
<1>3. StoreInv'
  <2>1. ReservationInv' /\ CloseInv'
    BY <1>1, ReservationStep, CloseStep DEF StoreInv, CoreInv
  <2>2. RelocationInv'
    BY <1>1, RelocationStep DEF StoreInv, CoreInv
  <2>3. ReceiptInv' /\ ArchiveLoadsInv'
    BY <1>1, ReceiptStep, ArchiveLoadsStep DEF StoreInv, CoreInv
  <2> QED BY <2>1, <2>2, <2>3 DEF StoreInv
<1>4. DriverInv'
  <2>1. SnapshotsCurrent' /\ DrivenInv'
    BY <1>1, SnapshotsStep, DrivenStep DEF DriverInv, StoreInv, CoreInv
  <2>2. HoldInv'
    BY <1>1, HoldStep DEF DriverInv
  <2> QED BY <2>1, <2>2 DEF DriverInv
<1> QED BY <1>1, <1>2, <1>3, <1>4

\* The invariant depends on the variables only.
LEMMA StutterInv ==
  ASSUME SessionInv, UNCHANGED vars
  PROVE  SessionInv'
<1>1. /\ UNCHANGED <<sess, reloc, receipt, arch, tree, mem, term, reaped>>
      /\ UNCHANGED <<att, closer, archiver, epochs, faults, lost, slips>>
  BY DEF vars, store, proc, server, history
<1>2. TypeOK' /\ ArchiverInv'
  BY <1>1 DEF SessionInv, TypeOK, StoreTypeOK, RuntimeTypeOK, ServerTypeOK, HistoryTypeOK,
     ArchiverInv
<1>3. EpochsInv' /\ ProcessInv'
  BY <1>1 DEF SessionInv, CoreInv, EpochsInv, EpochsBounded, PlanBounded, PlanApart, EpochsApart,
     PlansApart, ProcessInv, ExitsApart, Spawns, SourceStopped
<1>4. PlansInv' /\ NoRunInHeldTree'
  BY <1>1 DEF SessionInv, CoreInv, PlansInv, PlanMatches, RelocationMatches, NoRunInHeldTree
<1>5. StoreInv'
  BY <1>1 DEF SessionInv, StoreInv, ReservationInv, CloseInv, Archiving, Stopped,
     RelocationInv, RelocationLoads, ReceiptInv, ReceiptLoads, ArchiveLoadsInv, ArchiveLoads,
     MayCommitArchive
<1>6. SnapshotsCurrent' /\ HoldInv'
  BY <1>1 DEF SessionInv, DriverInv, SnapshotsCurrent, SnapshotCurrent, Snapshot, HoldInv
<1>7. DrivenInv'
  BY <1>1 DEF SessionInv, DriverInv, DrivenInv, Driven, Drives, Waits
<1>8. RestingInv' /\ OwnedInv'
  BY <1>1 DEF SessionInv, CoreInv, RestingInv, Started, Stopped, OwnedInv, AgentOwned, HasPlan,
     OwnEpochs
<1>9. RuntimeInv'
  BY <1>1 DEF SessionInv, CoreInv, RuntimeInv, Live, HasRuntime, Drives
<1> QED BY <1>2, <1>3, <1>4, <1>5, <1>6, <1>7, <1>8, <1>9 DEF SessionInv, CoreInv, DriverInv

LEMMA SessionInvariant == Spec => []SessionInv
<1>1. SessionInv /\ [Next]_vars => SessionInv'
  BY NextInv, StutterInv
<1> QED BY <1>1, InitInv, PTL DEF Spec

\* In every order of requests: no session is committed as running in a worktree that a
\* cleanup has reserved, or under the guard of an earlier generation of it
\* (ensure_launch_not_reserved, complete_agent_resume, task_worktree_presence_facts).
THEOREM SessionSparesHeldTree == Spec => []NoRunInHeldTree
<1>1. SessionInv => NoRunInHeldTree
  BY DEF SessionInv, CoreInv
<1> QED BY <1>1, SessionInvariant, PTL

\* In every order of requests: until a process resists, a worker panics, an account is
\* missing or the daemon stops, every registered agent has an owner
\* (reap_uncommitted_runtime reaps what a plan spawned and what it replaced).
THEOREM SessionOwnsAgent == Spec => []AgentOwned
<1>1. SessionInv => AgentOwned
  BY DEF SessionInv, CoreInv, OwnedInv
<1> QED BY <1>1, SessionInvariant, PTL

\* A session that runs has its agent, an exit that is about to be applied, or an agent
\* whose end the core did not hear of: a request terminated whatever was registered, or
\* its exit was taken for another's (terminal_exit_is_current, apply_terminal_exit,
\* complete_agent_resume).  No other order of resumes, restarts, relocations, closes,
\* exits and crashes loses it.
THEOREM SessionRuns == Spec => []RunningHasProcess
<1>1. SessionInv => RunningHasProcess
  <2> SUFFICES ASSUME SessionInv, sess.state = "running", arch = None
               PROVE  HasRuntime(sess.epoch)
    BY DEF RunningHasProcess, HasRuntime
  <2>1. sess.epoch \in Nat
    BY SessionEpochTyped DEF SessionInv
  <2>2. Live(sess.epoch)
    BY DEF Live
  <2> QED BY <2>1, <2>2 DEF SessionInv, CoreInv, RuntimeInv
<1> QED BY <1>1, SessionInvariant, PTL

\* A close keeps the session stopped, and every plan out, until it has recovered the
\* process or somebody else has released its reservation: only an exit that is
\* reconciled, a failure that is applied and a second close do that
\* (reserve_retryable_session_termination).
THEOREM SessionCloseExcludes == Spec => []CloseExcludesRetry
<1>1. SessionInv => CloseExcludesRetry
  <2> SUFFICES ASSUME SessionInv, closer = "reserved", "yielded" \notin slips
               PROVE  /\ Stopped(sess)
                      /\ \A a \in Attempts : HasPlan(a) => att[a].epoch # mem.obs
    BY DEF CloseExcludesRetry
  <2>1. mem.obs = 0 /\ Stopped(sess)
    BY DEF SessionInv, StoreInv, CloseInv
  <2>2. \A a \in Attempts : HasPlan(a) => att[a].epoch # 0
    BY TypesOf, PlanTyped, PlanPhases DEF SessionInv, CoreInv, EpochsInv, PlanBounded
  <2> QED BY <2>1, <2>2
<1> QED BY <1>1, SessionInvariant, PTL

\* A session that resumes, and a reservation, have someone left to end them, through
\* failures, exits, relocations, closes, archives and crashes, until one of the steps
\* that ResumeAccounted names orphans a reservation (begin_resume_failure and
\* complete_resume_failure, which compare what they saw before).
THEOREM SessionResumeAccounted == Spec => []ResumeAccounted
<1>1. SessionInv => ResumeAccounted
  <2> SUFFICES ASSUME SessionInv, "orphaned" \notin slips
               PROVE  ResumeIsDriven /\ ReservationOwned
    BY DEF ResumeAccounted
  <2>1. Driven
    BY DEF SessionInv, DriverInv, DrivenInv
  <2>2. \A a \in Attempts :
          Drives(a) => mem.reserved /\ InProgress(a) /\ att[a].epoch = mem.obs
    BY PlanPhases DEF SessionInv, Drives
  <2>3. mem.reserved /\ mem.obs = 0 => closer # "idle"
    BY DEF SessionInv, StoreInv, ReservationInv
  <2> QED BY <2>1, <2>2, <2>3 DEF Driven, Waits, ResumeIsDriven, ReservationOwned
<1> QED BY <1>1, SessionInvariant, PTL

\* The journals and the receipt fit the session at every commit, so that the next start
\* of the daemon can open the store (validate_current_state), until a reservation is
\* orphaned, a resume overtakes an archive or a relocated session is moved.
THEOREM SessionStoreLoads == Spec => []StoreLoads
<1>1. SessionInv => StoreLoads
  BY DEF SessionInv, StoreInv, RelocationInv, ReceiptInv, ArchiveLoadsInv, RelocationLoads,
     StoreLoads, StoreValid
<1> QED BY <1>1, SessionInvariant, PTL

=============================================================================
