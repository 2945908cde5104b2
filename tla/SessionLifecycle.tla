--------------------------- MODULE SessionLifecycle ---------------------------
(* One agent session and its process: resuming, restarting, relocating,         *)
(* terminating and archiving it, next to the reaper of exited processes and to  *)
(* the cleanup of the Task worktree it may live in.  From core/session_launch   *)
(* (resume, resume_failure, relocation, lifecycle, archive), the session        *)
(* records and journals of the store, and the session handlers of the server.   *)
(*                                                                              *)
(* A step holds the core lock, or is one call of the terminal service outside   *)
(* it.  The session has a valid conversation to resume, and its provider        *)
(* supports that.                                                               *)
EXTENDS Naturals

CONSTANTS
  Attempts,       \* calls of run_agent_resume_session in flight together
  MaxEpoch,       \* bound on runtime epochs
  MaxGeneration,  \* bound on generations of the Task worktree
  MaxFaults,      \* bound on crashes, on processes that resist termination, on
                  \* workers that panic and on accounts that are missing
  None

ASSUME SessionAssumption ==
  MaxEpoch \in Nat /\ MaxGeneration \in Nat /\ MaxFaults \in Nat

VARIABLES
  \* the store
  sess,      \* lifecycle state, failure reason, epoch, cwd, launch guard, archived
  reloc,     \* the relocation operation, or None
  receipt,   \* the relocation receipt, or None
  arch,      \* the session archive operation, or None
  tree,      \* the Task worktree: generation, and whether a cleanup holds it
  \* the core's runtime maps
  mem,
  \* the terminal service
  term,      \* the registered runtime, or None
  reaped,    \* epoch of the exit that waits for the core, or None
  \* the server
  att, closer, archiver,
  \* bounds
  epochs, faults,
  \* history, which no action reads
  lost,      \* epochs of agents whose end the core did not hear of
  slips      \* what the code does not exclude and the properties name

store  == <<sess, reloc, receipt, arch>>
proc   == <<term, reaped>>
server == <<att, closer, archiver>>
history == <<lost, slips>>
vars   == <<store, tree, mem, proc, server, epochs, faults, history>>

Folders == {"root", "tree"}
Faulty  == faults < MaxFaults

\* A reservation, or the observation that goes with it, taken from the attempt that
\* holds it; a resume committed under an archive operation; a relocated session
\* restored into another folder; the reservation of the close under way released
\* by somebody else.
Slips == {"orphaned", "overtaken", "moved", "yielded"}

Slip(tag, when) == slips' = IF when THEN slips \cup {tag} ELSE slips

\* Whatever agent is registered is terminated, and no exit is reported.
LosesAgent == lost' = lost \cup (IF term # None /\ term.agent THEN {term.epoch} ELSE {})

Agent(e) == [epoch |-> e, agent |-> TRUE, alive |-> TRUE]
Shell(e) == [epoch |-> e, agent |-> FALSE, alive |-> TRUE]

Idle   == [phase |-> "idle"]
Queued == [phase |-> "queued"]  \* by a start of the daemon
Again  == [phase |-> "again"]   \* its one retry
NoMaps == [reserved |-> FALSE, ready |-> FALSE, obs |-> 0, reaping |-> FALSE,
           hold |-> FALSE]

\* What the records and runtimes hold.  A failing attempt keeps what it may have to
\* reap; a request that recovers the session has no plan yet.
Reasons == {"retry", "refused", "conflict", "uncertain"}
Session ==
  [state : {"running", "resuming", "exited", "resumeFailed"}, why : Reasons \cup {None},
   epoch : Nat, cwd : Folders, guard : Nat, archived : BOOLEAN]
Relocation ==
  [op : Nat, stage : {"sourceRetiring", "targetStarting"}, epoch : Nat,
   from : Folders, to : Folders, gen : Nat]
RelocationReceipt == [epoch : Nat, cwd : Folders, gen : Nat]
ArchiveOperation == [epoch : Nat, attention : BOOLEAN]
Maps ==
  [reserved : BOOLEAN, ready : BOOLEAN, obs : Nat, reaping : BOOLEAN, hold : BOOLEAN]
Runtime == [epoch : Nat, agent : BOOLEAN, alive : BOOLEAN]

ASSUME NoneAssumption ==
  None \notin Nat \cup Reasons \cup Relocation \cup RelocationReceipt
               \cup ArchiveOperation \cup Runtime

Stopped(s)   == s.state \in {"exited", "resumeFailed"}
Unowned(s)   == s.why \in {"conflict", "uncertain"}
Retryable(s) == s.state = "resumeFailed" /\ s.why # "refused"

ResumeFailed(s, why) == [s EXCEPT !.state = "resumeFailed", !.why = why]
Exited(s)            == [s EXCEPT !.state = "exited", !.why = None]

\* A session that runs, perhaps since an earlier relocation
Init ==
  /\ tree = [gen |-> 1, held |-> FALSE]
  /\ \E cwd \in Folders :
       sess = [state |-> "running", why |-> None, epoch |-> 1, cwd |-> cwd,
               guard |-> IF cwd = "tree" THEN 1 ELSE 0, archived |-> FALSE]
  /\ receipt \in {None, [epoch |-> 1, cwd |-> sess.cwd, gen |-> 1]}
  /\ reloc = None /\ arch = None
  /\ mem = [NoMaps EXCEPT !.obs = 1]
  /\ term = Agent(1) /\ reaped = None
  /\ att = [a \in Attempts |-> Idle]
  /\ closer = "idle" /\ archiver = "idle"
  /\ epochs = 1 /\ faults = 0 /\ lost = {} /\ slips = {}

SetAtt(a, r) == att' = [att EXCEPT ![a] = r]
Phase(a, p)  == SetAtt(a, [att[a] EXCEPT !.phase = p])

\* Only the one retry of a start tells a timeout from the other reasons that may
\* be retried.
Failing(r, why) ==
  [phase |-> "failing", epoch |-> r.epoch, old |-> r.old, spawned |-> r.spawned,
   why |-> IF why = "timeout" THEN "retry" ELSE why,
   again |-> r.kind = "startup" /\ why = "timeout", snap |-> None]
Fails(a, why) == SetAtt(a, Failing(att[a], why))
Ends(a)      == SetAtt(a, Idle)

\* Mutant: no reservation of a folder is looked for.
LaunchNeverReserved(cwd) == FALSE

\* ensure_launch_not_reserved
LaunchReserved(cwd) == cwd = "tree" /\ tree.held

\* existing_directory_comparison_input: a worktree provisioned anew is another
\* directory.
Directory(cwd) == IF cwd = "tree" THEN tree.gen ELSE 0

\* terminate_epoch leaves another generation alone.
Without(es) == IF term # None /\ term.epoch \in es THEN None ELSE term

\* spawn_agent_terminal_hold: the hold flag and the runtime it leaves.
SpawnHold(s, hold, t) ==
  IF hold \/ arch # None THEN [hold |-> hold, term |-> t]
  ELSE IF t # None THEN [hold |-> TRUE, term |-> t]
  ELSE IF Stopped(s) /\ ~s.archived /\ ~Unowned(s)
       THEN [hold |-> TRUE, term |-> Shell(s.epoch)]
       ELSE [hold |-> FALSE, term |-> None]

-----------------------------------------------------------------------------
(* Before an attempt has a plan *)

Unplanned == {"looked", "detached", "unrecovered"}

\* What run_agent_resume_session is called for.
Kinds == {"explicit", "restart", "relocation", "startup", "retry"}
Calls(a, kind) ==
  \/ att[a] = Idle /\ kind \in {"explicit", "restart", "relocation"}
  \/ att[a] = Queued /\ kind = "startup"
  \/ att[a] = Again /\ kind = "retry"

\* Every call but a restart looks first whether the ownership of the process is
\* uncertain.
Look(a, kind) ==
  /\ Calls(a, kind) /\ kind # "restart"
  /\ SetAtt(a, [kind |-> kind, phase |-> IF Unowned(sess) THEN "looked" ELSE "asked"])
  /\ UNCHANGED <<store, tree, mem, proc, closer, archiver, epochs, faults, history>>

\* detach_agent_runtime_for_ownership_recovery, under a lock of its own: whoever
\* holds a reservation by then loses its observation.
Detach(a) ==
  /\ att[a].phase = "looked"
  /\ mem' = [mem EXCEPT !.obs = 0]
  /\ Phase(a, "detached")
  /\ Slip("orphaned", mem.reserved /\ mem.obs # 0)
  /\ UNCHANGED <<store, tree, proc, closer, archiver, epochs, faults, lost>>

\* recover_agent_runtime_ownership: whatever is registered is terminated; a process
\* that cannot be proved absent is recorded, a worker that is lost ends the call.
Recover(a) ==
  /\ att[a].phase = "detached"
  /\ \/ term' = None /\ LosesAgent /\ Phase(a, "asked") /\ UNCHANGED faults
     \/ /\ Faulty /\ faults' = faults + 1
        /\ \/ Phase(a, "unrecovered") /\ UNCHANGED <<term, lost>>
           \/ /\ term' = None /\ LosesAgent
              /\ (Phase(a, "unrecovered") \/ Ends(a))
  /\ UNCHANGED <<store, tree, mem, reaped, closer, archiver, epochs, slips>>

\* apply_resume_failure: a relocation fails as a whole; a session that stopped
\* meanwhile keeps its state, unless ownership is uncertain.
ApplyFailure(why) ==
  \E s \in {IF reloc # None \/ ~Stopped(sess) \/ why = "uncertain"
            THEN ResumeFailed(sess, why) ELSE sess} :
  \E h \in {IF reloc = None /\ why # "uncertain" THEN SpawnHold(s, mem.hold, term)
            ELSE [hold |-> mem.hold, term |-> term]} :
    /\ sess' = s /\ reloc' = None
    /\ mem' = [NoMaps EXCEPT !.hold = h.hold]
    /\ term' = h.term
    /\ UNCHANGED <<receipt, arch>>

\* The reservation of a close that is under way is released by another request.
Yields == closer # "idle" /\ mem.reserved /\ ~mem'.reserved
YieldsClose == Slip("yielded", Yields)

\* mark_agent_resume_ownership_uncertain, also of a preparation whose worker is lost
MarkUncertain(a) ==
  /\ att[a].phase \in {"unrecovered", "abandoned"}
  /\ ApplyFailure("uncertain")
  /\ Ends(a)
  /\ YieldsClose
  /\ UNCHANGED <<tree, reaped, closer, archiver, epochs, faults, lost>>

-----------------------------------------------------------------------------
(* Planning *)

\* A call that had nothing to recover, a while ago, or that has recovered the
\* session.
Asks(a, kind) ==
  \/ att[a] = [kind |-> kind, phase |-> "asked"]
  \/ kind = "restart" /\ Calls(a, kind)

\* ensure_session_not_individually_archived
Archiving == sess.archived \/ arch # None

\* A guard that names another folder is dropped.
Guarded == IF sess.cwd # "tree" THEN [sess EXCEPT !.guard = 0] ELSE sess

OtherFolder == CHOOSE f \in Folders : f # sess.cwd

\* session_relocation_blockers and project_relocation_blockers
MayRelocate ==
  /\ IF term # None THEN sess.state = "running" ELSE Retryable(sess)
  /\ ~mem.reserved /\ reloc = None /\ ~tree.held /\ ~Archiving

\* What the plan answers with the current session.
AnsweredByCurrent(kind) ==
  \/ mem.reserved
  \/ (sess.state = "running") # (kind = "restart")
  \/ kind # "explicit" /\ Stopped(sess) /\ ~Retryable(sess)

AsksResume(a, kind) ==
  Asks(a, kind) /\ kind # "relocation" /\ (kind = "explicit" => ~Archiving)

\* An answer without effect ends the request.
Refused(a, kind) ==
  /\ Asks(a, kind)
  /\ \/ kind = "explicit" /\ Archiving
     \/ kind = "relocation" /\ ~MayRelocate
  /\ Ends(a)
  /\ UNCHANGED <<store, tree, mem, proc, closer, archiver, epochs, faults, history>>

PlanCurrent(a, kind) ==
  /\ AsksResume(a, kind) /\ AnsweredByCurrent(kind)
  /\ sess' = Guarded
  /\ Ends(a)
  /\ UNCHANGED <<reloc, receipt, arch, tree, mem, proc, closer, archiver, epochs, faults, history>>

\* The session fails at once where a cleanup holds its folder.
PlanLaunchReserved(a, kind) ==
  /\ AsksResume(a, kind) /\ ~AnsweredByCurrent(kind)
  /\ LaunchReserved(sess.cwd)
  /\ sess' = ResumeFailed(Guarded, "retry") /\ reloc' = None
  /\ Ends(a)
  /\ UNCHANGED <<receipt, arch, tree, mem, proc, closer, archiver, epochs, faults, history>>

Planned(kind, old, cwd, guard) ==
  [phase |-> "planned", kind |-> kind, epoch |-> epochs + 1, old |-> old, cwd |-> cwd,
   dir |-> Directory(cwd), guard |-> guard, spawned |-> FALSE]

\* A continuation shell that resists ends the request.
HoldResists(a, kind) ==
  /\ AsksResume(a, kind) /\ ~AnsweredByCurrent(kind)
  /\ ~LaunchReserved(sess.cwd)
  /\ mem.hold /\ term # None
  /\ Faulty /\ faults' = faults + 1
  /\ sess' = Guarded
  /\ Ends(a)
  /\ UNCHANGED <<reloc, receipt, arch, tree, mem, proc, closer, archiver, epochs, history>>

\* The plan is made last, and is not when the session's account is missing:
\* session_agent_account.
MakesPlan(a, r) ==
  \/ SetAtt(a, r) /\ UNCHANGED <<faults, slips>>
  \/ Ends(a) /\ Faulty /\ faults' = faults + 1 /\ Slip("orphaned", TRUE)

\* plan_agent_resume_internal_with_restart_facts, once every gate has passed; a
\* continuation shell gives way to the agent.
PlanPrepares(a, kind) ==
  /\ AsksResume(a, kind) /\ ~AnsweredByCurrent(kind)
  /\ ~LaunchReserved(sess.cwd)
  /\ epochs < MaxEpoch /\ epochs' = epochs + 1
  /\ sess' = [Guarded EXCEPT !.state = "resuming", !.why = None]
  /\ term' = IF mem.hold THEN None ELSE term
  /\ mem' = [mem EXCEPT !.reserved = TRUE, !.ready = FALSE, !.obs = epochs + 1,
                        !.hold = FALSE]
  /\ MakesPlan(a, Planned(kind, IF kind = "restart" THEN sess.epoch ELSE 0,
                          sess.cwd, Guarded.guard))
  /\ UNCHANGED <<reloc, receipt, arch, tree, reaped, closer, archiver, lost>>

\* plan_ticketed_agent_relocation and begin_session_relocation; the hold flag
\* stays as it is.
PlanRelocation(a) ==
  /\ Asks(a, "relocation") /\ MayRelocate
  /\ epochs < MaxEpoch /\ epochs' = epochs + 1
  /\ sess' = [sess EXCEPT !.state = "resuming", !.why = None]
  /\ reloc' = [op |-> epochs + 1, stage |-> "sourceRetiring", epoch |-> sess.epoch,
               from |-> sess.cwd, to |-> OtherFolder, gen |-> tree.gen]
  /\ receipt' = None
  /\ mem' = [mem EXCEPT !.reserved = TRUE, !.ready = FALSE, !.obs = epochs + 1]
  /\ MakesPlan(a, Planned("relocation", IF sess.state = "running" THEN sess.epoch ELSE 0,
                          OtherFolder, IF OtherFolder = "tree" THEN tree.gen ELSE 0))
  /\ UNCHANGED <<arch, tree, proc, closer, archiver, lost>>

-----------------------------------------------------------------------------
(* Preparation, readiness and commit *)

\* No permit in time, a full queue, a preparation that times out or that the
\* provider refuses; or a runtime of the provider that cannot be reaped.
PreparationFails(a) ==
  /\ att[a].phase = "planned"
  /\ \/ \E why \in {"retry", "timeout", "refused"} : Fails(a, why) /\ UNCHANGED faults
     \/ Faulty /\ faults' = faults + 1 /\ Fails(a, "uncertain")
  /\ UNCHANGED <<store, tree, mem, proc, closer, archiver, epochs, history>>

\* The worker panics, and the plan it drops reaps what it has, if it can.
PreparationLost(a) ==
  /\ att[a].phase = "planned"
  /\ Faulty /\ faults' = faults + 1
  /\ term' \in {term, Without({att[a].old})}
  /\ Phase(a, "abandoned")
  /\ UNCHANGED <<store, tree, mem, reaped, closer, archiver, epochs, history>>

\* prepare_runtime retires the process of the source first; the plan forgets it
\* whether that succeeds or not.
RetireSource(a) ==
  /\ att[a].phase = "planned" /\ att[a].old # 0
  /\ \/ term' = Without({att[a].old}) /\ SetAtt(a, [att[a] EXCEPT !.old = 0])
        /\ UNCHANGED faults
     \/ /\ Faulty /\ term # None /\ term.epoch = att[a].old
        /\ faults' = faults + 1
        /\ SetAtt(a, Failing([att[a] EXCEPT !.old = 0], "conflict"))
        /\ UNCHANGED term
  /\ UNCHANGED <<store, tree, mem, reaped, closer, archiver, epochs, history>>

SameDirectory(a) == att[a].dir = Directory(att[a].cwd)

Spawn(a) ==
  /\ att[a].phase = "planned" /\ att[a].old = 0
  /\ \/ ~SameDirectory(a) /\ Fails(a, "retry") /\ UNCHANGED term
     \/ SameDirectory(a) /\ term # None /\ Fails(a, "conflict") /\ UNCHANGED term
     \/ /\ SameDirectory(a) /\ term = None
        /\ term' = Agent(att[a].epoch)
        /\ SetAtt(a, [att[a] EXCEPT !.spawned = TRUE,
                        !.phase = IF att[a].kind = "relocation" THEN "spawned" ELSE "polling"])
  /\ UNCHANGED <<store, tree, mem, reaped, closer, archiver, epochs, faults, history>>

OwnRelocation(a) == reloc # None /\ reloc.op = att[a].epoch

\* mark_agent_relocation_target_starting
MarkTargetStarting(a) ==
  /\ att[a].phase = "spawned"
  /\ IF OwnRelocation(a)
     THEN reloc' = [reloc EXCEPT !.stage = "targetStarting"] /\ Phase(a, "polling")
     ELSE UNCHANGED reloc /\ Fails(a, "retry")
  /\ UNCHANGED <<sess, receipt, arch, tree, mem, proc, closer, archiver, epochs, faults, history>>

OwnAlive(a) == term # None /\ term.epoch = att[a].epoch /\ term.alive

\* agent_resume_startup_poll and the deadline of the attempt; readiness counts
\* once the process has survived the stability window, in the same directory.
Poll(a) ==
  /\ att[a].phase = "polling"
  /\ \/ /\ mem.reserved /\ mem.ready
        /\ \/ IF OwnAlive(a) /\ SameDirectory(a) THEN Phase(a, "stable") ELSE Fails(a, "retry")
           \/ Fails(a, "uncertain")    \* the look at the process itself takes too long
     \/ mem.reserved /\ ~mem.ready /\ ~OwnAlive(a) /\ Fails(a, "retry")
     \/ Fails(a, "timeout")    \* also when the reservation is missing
  /\ UNCHANGED <<store, tree, mem, proc, closer, archiver, epochs, faults, history>>

\* commit_session_relocation
MayCommitRelocation(a) ==
  /\ OwnRelocation(a) /\ reloc.stage = "targetStarting"
  /\ sess.state = "resuming" /\ sess.epoch = reloc.epoch /\ sess.cwd = reloc.from
  /\ tree.gen = reloc.gen

\* complete_agent_resume
MayComplete(a) ==
  /\ mem.reserved /\ mem.obs = att[a].epoch /\ mem.ready
  /\ ~LaunchReserved(att[a].cwd)
  /\ att[a].guard # 0 => att[a].guard = tree.gen
  /\ IF att[a].kind = "relocation" THEN MayCommitRelocation(a)
     ELSE sess.state = "resuming"

\* Mutant: the receipt of an earlier relocation stays.
CommitKeepingReceipt(a) ==
  /\ sess' = [sess EXCEPT !.state = "running", !.why = None, !.epoch = att[a].epoch]
  /\ UNCHANGED <<receipt, reloc>>

CommitResume(a) ==
  /\ sess' = [sess EXCEPT !.state = "running", !.why = None, !.epoch = att[a].epoch]
  /\ receipt' = None
  /\ UNCHANGED reloc

CommitRelocation(a) ==
  /\ sess' = [sess EXCEPT !.state = "running", !.why = None, !.epoch = att[a].epoch,
                          !.cwd = reloc.to, !.guard = att[a].guard]
  /\ receipt' = [epoch |-> att[a].epoch, cwd |-> reloc.to, gen |-> reloc.gen]
  /\ reloc' = None

Complete(a) ==
  /\ att[a].phase = "stable" /\ MayComplete(a)
  /\ IF att[a].kind = "relocation" THEN CommitRelocation(a) ELSE CommitResume(a)
  /\ mem' = [mem EXCEPT !.reserved = FALSE, !.ready = FALSE]
  /\ Ends(a)
  /\ Slip("overtaken", arch # None)
  /\ UNCHANGED <<arch, tree, proc, closer, archiver, epochs, faults, lost>>

CompletionRejected(a) ==
  /\ att[a].phase = "stable" /\ ~MayComplete(a)
  /\ Fails(a, "retry")
  /\ UNCHANGED <<store, tree, mem, proc, closer, archiver, epochs, faults, history>>

-----------------------------------------------------------------------------
(* Failure of an attempt *)

\* The project of a session never changes, and its conversation only while it runs
\* or with its epoch: what the failure compares of them follows from the epoch.
Snapshot == [obs |-> mem.obs, epoch |-> sess.epoch, cwd |-> sess.cwd,
             op |-> IF reloc = None THEN 0 ELSE reloc.op]

\* begin_resume_failure
MayBeginFailure(a) ==
  /\ mem.obs \in {0, att[a].epoch}
  /\ IF mem.reserved THEN sess.state = "resuming" \/ reloc # None ELSE Stopped(sess)

BeginFailure(a) ==
  /\ att[a].phase = "failing"
  /\ IF MayBeginFailure(a)
     THEN /\ mem' = IF mem.reserved THEN [mem EXCEPT !.ready = FALSE, !.reaping = TRUE]
                    ELSE mem
          /\ SetAtt(a, [att[a] EXCEPT !.phase = "reaping", !.snap = Snapshot])
     ELSE UNCHANGED mem /\ Phase(a, "dropping")
  /\ UNCHANGED <<store, tree, proc, closer, archiver, epochs, faults, history>>

OwnEpochs(a) == ({att[a].old} \ {0}) \cup (IF att[a].spawned THEN {att[a].epoch} ELSE {})

\* Mutant: a plan that is only dropped leaves its process.
ReapRecorded(a) ==
  /\ att[a].phase \in {"reaping", "dropping"}
  /\ IF att[a].phase = "reaping" THEN term' = Without(OwnEpochs(a)) /\ Phase(a, "reaped")
     ELSE Ends(a) /\ UNCHANGED term
  /\ UNCHANGED <<store, tree, mem, reaped, closer, archiver, epochs, faults, history>>

\* reap_uncommitted_runtime, of a failure that is recorded and of a plan that is
\* only dropped
Reap(a) ==
  /\ att[a].phase \in {"reaping", "dropping"}
  /\ \/ /\ term' = Without(OwnEpochs(a))
        /\ IF att[a].phase = "reaping" THEN Phase(a, "reaped") ELSE Ends(a)
        /\ UNCHANGED faults
     \/ /\ Faulty /\ att[a].phase = "reaping"
        /\ term # None /\ term.epoch \in OwnEpochs(a)
        /\ faults' = faults + 1
        /\ SetAtt(a, [att[a] EXCEPT !.phase = "reaped", !.why = "uncertain"])
        /\ UNCHANGED term
  /\ UNCHANGED <<store, tree, mem, reaped, closer, archiver, epochs, history>>

\* complete_resume_failure: what it decided on must still be there.
SnapshotCurrent(a) == att[a].snap = Snapshot

AfterFailure(a) ==
  IF att[a].again /\ att[a].why = "retry" /\ ~Stopped(sess) THEN Again ELSE Idle

CompleteFailure(a) ==
  /\ att[a].phase = "reaped"
  /\ IF SnapshotCurrent(a)
     THEN ApplyFailure(att[a].why) /\ SetAtt(a, AfterFailure(a)) /\ YieldsClose
     ELSE UNCHANGED <<store, mem, term, slips>> /\ Ends(a)
  /\ UNCHANGED <<tree, reaped, closer, archiver, epochs, faults, lost>>

Plans(a) ==
  \/ \E kind \in Kinds :
       \/ Refused(a, kind) \/ PlanCurrent(a, kind) \/ PlanLaunchReserved(a, kind)
       \/ HoldResists(a, kind) \/ PlanPrepares(a, kind)
  \/ PlanRelocation(a)

AttemptStep(a) ==
  \/ \E kind \in Kinds : Look(a, kind)
  \/ Detach(a) \/ Recover(a) \/ MarkUncertain(a) \/ Plans(a)
  \/ PreparationFails(a) \/ PreparationLost(a) \/ RetireSource(a) \/ Spawn(a) \/ MarkTargetStarting(a)
  \/ Poll(a) \/ Complete(a) \/ CompletionRejected(a)
  \/ BeginFailure(a) \/ Reap(a) \/ CompleteFailure(a)

-----------------------------------------------------------------------------
(* Terminating a session *)

\* Mutant: the close does not insert its reservation.
ReserveNothing ==
  /\ closer = "idle"
  /\ ~Archiving /\ Unowned(sess) /\ ~mem.reserved
  /\ mem' = [mem EXCEPT !.ready = FALSE, !.obs = 0]
  /\ closer' = "reserved"
  /\ UNCHANGED <<store, tree, proc, att, archiver, epochs, faults, history>>

\* reserve_retryable_session_termination; a close that is not eligible ends.
ReserveTermination ==
  /\ closer = "idle"
  /\ ~Archiving /\ Unowned(sess) /\ ~mem.reserved
  /\ mem' = [mem EXCEPT !.reserved = TRUE, !.ready = FALSE, !.obs = 0]
  /\ closer' = "reserved"
  /\ UNCHANGED <<store, tree, proc, att, archiver, epochs, faults, history>>

RecoverForTermination ==
  /\ closer = "reserved"
  /\ \/ term' = None /\ LosesAgent /\ closer' = "recovered" /\ UNCHANGED faults
     \/ /\ Faulty /\ faults' = faults + 1 /\ closer' = "unrecovered"
        /\ (UNCHANGED <<term, lost>> \/ (term' = None /\ LosesAgent))
  /\ UNCHANGED <<store, tree, mem, reaped, att, archiver, epochs, slips>>

\* The reservation of a resume is removed for that of the close.
FreesResume == mem.reserved /\ sess.state = "resuming"
Orphans(when) == IF when THEN {"orphaned"} ELSE {}

\* cancel_retryable_session_termination
CancelTermination ==
  /\ closer = "unrecovered"
  /\ mem' = [mem EXCEPT !.reserved = FALSE, !.ready = FALSE]
  /\ closer' = "idle"
  /\ slips' = (slips \ {"yielded"}) \cup Orphans(FreesResume)
  /\ UNCHANGED <<store, tree, proc, att, archiver, epochs, faults, lost>>

\* A close that has recovered the session, or one whose first look saw no need to:
\* another close may be under way then.
TerminatedBy(orphans) ==
  \/ /\ closer = "recovered" /\ closer' = "idle"
     /\ slips' = (slips \ {"yielded"}) \cup orphans
  \/ /\ UNCHANGED closer
     /\ slips' = slips \cup orphans \cup (IF Yields THEN {"yielded"} ELSE {})

\* terminate_session
TerminateSession ==
  /\ IF ~Archiving /\ (term # None \/ mem.reserved)
     THEN sess' = Exited(sess) /\ reloc' = None /\ mem' = NoMaps /\ term' = None
     ELSE UNCHANGED <<sess, reloc, mem, term>>
  /\ TerminatedBy({})
  /\ UNCHANGED <<receipt, arch, tree, reaped, att, archiver, epochs, faults, lost>>

\* The same, when the reservation is gone and terminate then fails: the process
\* resists, or the reaper has taken it since the look at the registry.
TerminationFails ==
  /\ ~Archiving /\ term # None
  /\ mem' = [mem EXCEPT !.reserved = FALSE]
  /\ TerminatedBy(Orphans(FreesResume))
  /\ \/ Faulty /\ faults' = faults + 1 /\ UNCHANGED proc
     \/ /\ reaped = None /\ ~term.alive
        /\ reaped' = term.epoch /\ term' = None /\ UNCHANGED faults
  /\ UNCHANGED <<store, tree, att, archiver, epochs, lost>>

-----------------------------------------------------------------------------
(* Archiving and restoring a session *)

\* prepare_session_archive and detach_session_archive_runtime
ArchiveSession ==
  /\ archiver = "idle"
  /\ sess.state = "running" /\ ~Archiving /\ ~mem.reserved /\ term # None
  /\ arch' = [epoch |-> sess.epoch, attention |-> FALSE]
  /\ mem' = [mem EXCEPT !.obs = 0, !.ready = FALSE]
  /\ archiver' = "retiring"
  /\ UNCHANGED <<sess, reloc, receipt, tree, proc, att, closer, epochs, faults, history>>

\* The process is terminated, or the operation is left for the next start.
RetireForArchive ==
  /\ archiver = "retiring"
  /\ \/ term' = None /\ LosesAgent /\ archiver' = "retired" /\ UNCHANGED <<arch, faults>>
     \/ /\ Faulty /\ term # None /\ faults' = faults + 1
        /\ arch' = [arch EXCEPT !.attention = TRUE] /\ archiver' = "idle"
        /\ UNCHANGED <<term, lost>>
  /\ UNCHANGED <<sess, reloc, receipt, tree, mem, reaped, att, closer, epochs, slips>>

\* commit_session_archive
MayCommitArchive(s) == s.epoch = arch.epoch /\ ~s.archived
Archived(s) == [Exited(s) EXCEPT !.archived = TRUE]

\* complete_session_archive
CompleteArchive ==
  /\ archiver = "retired"
  /\ archiver' = "idle"
  /\ IF term # None
     THEN arch' = [arch EXCEPT !.attention = TRUE] /\ UNCHANGED <<sess, mem, slips>>
     ELSE IF MayCommitArchive(sess)
     THEN /\ sess' = Archived(sess) /\ arch' = None
          /\ mem' = [mem EXCEPT !.obs = 0, !.ready = FALSE]
          /\ Slip("orphaned", mem.reserved)
     ELSE UNCHANGED <<sess, arch, mem, slips>>
  /\ UNCHANGED <<reloc, receipt, tree, proc, att, closer, epochs, faults, lost>>

\* restore_archived_session, in its folder or in another
RestoreArchived(cwd) ==
  /\ sess.archived /\ arch = None
  /\ sess' = [Exited(sess) EXCEPT !.archived = FALSE, !.cwd = cwd]
  /\ slips' = slips \cup (IF cwd # sess.cwd /\ receipt # None THEN {"moved"} ELSE {})
                    \cup Orphans(mem.reserved)
  /\ UNCHANGED <<reloc, receipt, arch, tree, mem, proc, server, epochs, faults, lost>>

-----------------------------------------------------------------------------
(* Processes, and the reconciler of their exits *)

ProcessExits ==
  /\ term # None /\ term.alive
  /\ term' = [term EXCEPT !.alive = FALSE]
  /\ UNCHANGED <<store, tree, mem, reaped, server, epochs, faults, history>>

\* A signal of the provisional agent counts as readiness, even if it has exited
\* since.
AgentReady ==
  /\ mem.reserved /\ ~mem.ready
  /\ \E a \in Attempts : att[a].phase \in {"spawned", "polling"} /\ att[a].epoch = mem.obs
  /\ mem' = [mem EXCEPT !.ready = TRUE]
  /\ UNCHANGED <<store, tree, proc, server, epochs, faults, history>>

\* reap_exited, outside the core lock
ReapExited ==
  /\ reaped = None /\ term # None /\ ~term.alive
  /\ reaped' = term.epoch /\ term' = None
  /\ UNCHANGED <<store, tree, mem, server, epochs, faults, history>>

\* Mutant: the provisional epoch of a resume is not considered.
ExitOfCommitted(e) == e = sess.epoch

\* terminal_exit_is_current: a reserved session has a provisional epoch.
ExitIsCurrent(e) == e = IF mem.reserved /\ mem.obs # 0 THEN mem.obs ELSE sess.epoch

\* Mutant: the exit of a provisional agent releases the reservation only.
ApplyExitQuietly ==
  /\ sess' = IF mem.reserved THEN sess ELSE Exited(sess)
  /\ mem' = [mem EXCEPT !.reserved = FALSE, !.ready = FALSE, !.obs = 0]
  /\ UNCHANGED <<reloc, term>>

\* apply_terminal_exit of an exit that counts: a continuation shell is replaced;
\* a provisional agent fails its resume; any other agent has exited.
ApplyExit ==
  \E s \in {IF mem.hold THEN sess
            ELSE IF mem.reserved THEN ResumeFailed(sess, "retry")
            ELSE IF sess.state = "resumeFailed" THEN sess
            ELSE Exited(sess)} :
  \E h \in {SpawnHold(s, FALSE, term)} :
    /\ sess' = s
    /\ reloc' = IF s = sess THEN reloc ELSE None
    /\ term' = h.term
    /\ mem' = IF mem.hold THEN [mem EXCEPT !.hold = h.hold]
              ELSE [mem EXCEPT !.reserved = FALSE, !.ready = @ /\ ~mem.reserved,
                               !.obs = 0, !.hold = h.hold]

\* reconcile_exited_sessions; a failing attempt that reaps its own process sees
\* to the rest itself.
ReconcileExit ==
  /\ reaped # None
  /\ reaped' = None
  /\ IF ExitIsCurrent(reaped) /\ ~mem.reaping THEN ApplyExit /\ YieldsClose
     ELSE UNCHANGED <<sess, reloc, mem, term, slips>>
  /\ lost' = IF ExitIsCurrent(reaped) /\ (mem.reaping \/ mem.hold)
             THEN lost \cup {reaped} ELSE lost
  /\ UNCHANGED <<receipt, arch, tree, server, epochs, faults>>

-----------------------------------------------------------------------------
(* The Task worktree, and a restart of the daemon *)

\* task_worktree_presence_facts
Attached == sess.cwd = "tree" /\ (sess.state = "running" \/ (sess.state = "resuming" /\ mem.reserved))

\* A cleanup is reserved, and ends without effect or with the worktree removed
\* and, later, provisioned again.
HoldTree ==
  /\ ~tree.held /\ ~Attached /\ reloc = None
  /\ tree' = [tree EXCEPT !.held = TRUE]
  /\ UNCHANGED <<store, mem, proc, server, epochs, faults, history>>

FreeTree ==
  /\ tree.held
  /\ \E g \in {tree.gen, tree.gen + 1} :
       g <= MaxGeneration /\ tree' = [gen |-> g, held |-> FALSE]
  /\ UNCHANGED <<store, mem, proc, server, epochs, faults, history>>

\* relocation_records_are_invalid and archive_records_are_invalid, which
\* validate_current_state asks when the store is opened
RelocationLoads ==
  reloc # None =>
    /\ sess.state = "resuming" /\ sess.epoch = reloc.epoch /\ sess.cwd = reloc.from
    /\ ~Archiving
    /\ tree.gen = reloc.gen /\ ~tree.held
ReceiptLoads ==
  receipt # None =>
    /\ reloc = None
    /\ sess.epoch = receipt.epoch /\ sess.cwd = receipt.cwd
    /\ sess.guard = IF receipt.cwd = "tree" THEN receipt.gen ELSE 0
ArchiveLoads == arch # None => MayCommitArchive(sess)

StoreValid == RelocationLoads /\ ReceiptLoads /\ ArchiveLoads

\* CoreRuntime::new on the stored session: relocations fail, what ran resumes,
\* archive operations are committed; the tracked process may be uncertain.
RestartedSession(uncertain) ==
  LET s == IF reloc # None THEN ResumeFailed(sess, "retry")
           ELSE IF Stopped(sess) THEN sess
           ELSE [sess EXCEPT !.state = "resuming"]
  IN IF arch # None THEN Archived(s)
     ELSE IF uncertain /\ ~Stopped(s) THEN ResumeFailed(s, "uncertain") ELSE s

\* The daemon stops and starts; a store that is not valid it cannot open.
Crash ==
  /\ Faulty /\ faults' = faults + 1
  /\ StoreValid
  /\ \E s \in {RestartedSession(TRUE), RestartedSession(FALSE)} :
       LET shell == Stopped(s) /\ ~s.archived /\ ~Unowned(s)
       IN /\ sess' = s
          /\ term' = IF shell THEN Shell(s.epoch) ELSE None
          /\ mem' = [NoMaps EXCEPT !.hold = shell]
          /\ IF s.state = "resuming"
             THEN \E a \in Attempts :
                    att' = [b \in Attempts |->
                             IF b = a THEN Queued ELSE Idle]
             ELSE att' = [b \in Attempts |-> Idle]
  /\ reloc' = None /\ arch' = None /\ reaped' = None
  /\ closer' = "idle" /\ archiver' = "idle" /\ slips' = slips \ {"yielded"}
  /\ UNCHANGED <<receipt, tree, epochs, lost>>

-----------------------------------------------------------------------------
Next ==
  \/ \E a \in Attempts : AttemptStep(a)
  \/ ReserveTermination \/ RecoverForTermination \/ CancelTermination
  \/ TerminateSession \/ TerminationFails
  \/ ArchiveSession \/ RetireForArchive \/ CompleteArchive
  \/ \E cwd \in Folders : RestoreArchived(cwd)
  \/ ProcessExits \/ AgentReady \/ ReapExited \/ ReconcileExit
  \/ HoldTree \/ FreeTree \/ Crash

Spec == Init /\ [][Next]_vars

-----------------------------------------------------------------------------
(* Properties *)

Calling == [kind : Kinds, phase : Unplanned \cup {"asked"}]
PlannedAttempt ==
  [phase : {"planned", "spawned", "polling", "stable", "abandoned"}, kind : Kinds, epoch : Nat,
   old : Nat, cwd : Folders, dir : Nat, guard : Nat, spawned : BOOLEAN]
Looked == [obs : Nat, epoch : Nat, cwd : Folders, op : Nat]
FailingAttempt ==
  [phase : {"failing", "dropping"}, epoch : Nat, old : Nat, spawned : BOOLEAN,
   why : Reasons, again : BOOLEAN, snap : {None}]
ReapingAttempt ==
  [phase : {"reaping", "reaped"}, epoch : Nat, old : Nat, spawned : BOOLEAN,
   why : Reasons, again : BOOLEAN, snap : Looked]
Attempt ==
  {Idle, Queued, Again} \cup Calling \cup PlannedAttempt \cup FailingAttempt
    \cup ReapingAttempt

HistoryTypeOK == lost \subseteq Nat /\ slips \subseteq Slips

StoreTypeOK ==
  /\ sess \in Session
  /\ reloc \in Relocation \cup {None} /\ receipt \in RelocationReceipt \cup {None}
  /\ arch \in ArchiveOperation \cup {None}
  /\ tree \in [gen : Nat, held : BOOLEAN]

RuntimeTypeOK ==
  /\ mem \in Maps
  /\ term \in Runtime \cup {None} /\ reaped \in Nat \cup {None}

ServerTypeOK ==
  /\ att \in [Attempts -> Attempt]
  /\ closer \in {"idle", "reserved", "recovered", "unrecovered"}
  /\ archiver \in {"idle", "retiring", "retired"}
  /\ epochs \in Nat /\ faults \in Nat

\* The types of the variables: what the store, the runtime maps and a request in each
\* phase may hold.
TypeOK == StoreTypeOK /\ RuntimeTypeOK /\ ServerTypeOK /\ HistoryTypeOK

\* A session that runs has its agent registered under its epoch, or an exit that
\* the reconciler has yet to apply, in every order of resumes, restarts,
\* relocations, closes and exits; but for an archive operation, which takes the
\* process first, and for two ways in which the core does not hear of the end of an
\* agent: another request terminates whatever is registered (to recover ownership or
\* to archive), or its exit is taken for that of a continuation shell or of a failed
\* attempt (terminal_exit_is_current, apply_terminal_exit, complete_agent_resume).
RunningHasProcess ==
  sess.state = "running" /\ arch = None =>
    \/ term # None /\ term.agent /\ term.epoch = sess.epoch
    \/ reaped = sess.epoch
    \/ sess.epoch \in lost

HasPlan(a) == att[a].phase \notin {"idle", "queued", "again", "asked"} \cup Unplanned
InProgress(a) == HasPlan(a) /\ att[a].phase # "dropping"
\* Unless a process has resisted termination, a worker has panicked, an account was
\* missing or the daemon has stopped, a registered agent is the session's, or belongs
\* to an attempt that has yet to commit or to reap it (reap_uncommitted_runtime).
AgentOwned ==
  term # None /\ term.agent /\ faults = 0 =>
    \/ sess.state = "running" /\ sess.epoch = term.epoch
    \/ \E a \in Attempts : HasPlan(a) /\ term.epoch \in OwnEpochs(a)

\* A session that resumes is driven by the attempt whose epoch is reserved, or by
\* the call that the start of the daemon made: it cannot stay so for ever.
ResumeIsDriven ==
  sess.state = "resuming" =>
    \E a \in Attempts :
      \/ mem.reserved /\ InProgress(a) /\ att[a].epoch = mem.obs
      \/ att[a] \in {Queued, [kind |-> "startup", phase |-> "asked"]}

\* A reservation is held by an attempt or by a close, never by nobody.
ReservationOwned ==
  mem.reserved =>
    closer # "idle" \/ \E a \in Attempts : InProgress(a) /\ att[a].epoch = mem.obs

\* Until a reservation is orphaned, a resume never outlives its driver, through
\* failures, closes, exits, archives and crashes: whatever is resuming or reserved has
\* someone left who ends it.  A reservation is orphaned when session_agent_account
\* fails after it was made, terminate fails after it was removed, a close that is
\* cancelled removes that of a resume, the recovery of another request takes the
\* observation that goes with it, or the session is archived or restored under it.
ResumeAccounted == "orphaned" \notin slips => ResumeIsDriven /\ ReservationOwned

\* No agent runs in a worktree that a cleanup has reserved, nor under the guard of
\* an earlier generation of it.
NoRunInHeldTree ==
  sess.state = "running" /\ sess.cwd = "tree" =>
    ~tree.held /\ sess.guard \in {0, tree.gen}

\* While a close recovers the process of a session, the session neither runs nor
\* resumes: the reservation keeps a retry out, as long as nobody else releases it
\* (reserve_retryable_session_termination says so without that condition).  An exit
\* that is reconciled, a failure that is applied or a second close releases it too.
CloseExcludesRetry ==
  closer = "reserved" /\ "yielded" \notin slips =>
    /\ Stopped(sess)
    /\ \A a \in Attempts : HasPlan(a) => att[a].epoch # mem.obs

\* The next load of the store accepts what was committed, whatever the order of
\* resumes, relocations, closes, archives, exits and crashes: each journal and
\* receipt still fits the session it names (validate_current_state rejects the
\* whole file otherwise, and the daemon does not start).  Not so once a reservation
\* is orphaned, a resume is committed under an archive operation, or a relocated
\* session is restored into another folder.
StoreLoads == slips \subseteq {"yielded"} => StoreValid

\* The receipt of a relocation always fits the session it is about, as
\* relocation_records_are_invalid demands when the store is opened.
ReceiptFits == ReceiptLoads

=============================================================================
