-------------------------------- MODULE Gates --------------------------------
(* The three admission actors of apps/server/src/app/gates.rs.  They share no   *)
(* state, so a behaviour looks at one of them: gate says which, and the         *)
(* variables of the others keep the value Unused.                               *)
EXTENDS Naturals, FiniteSets

CONSTANTS
  Requests, Projects,
  Slots, Deadlines,                  \* ObservationGate
  MaxActive, MaxQueued, Impatient,   \* ResumeGate
  Callers, Keys, None,               \* GitHostScheduler
  Hosted,                            \* the projects it is asked for
  Reads,                             \* the keys of content reads
  QueryBatch,                        \* the batch limit of the other queries
  MaxKeys, MaxWaiters, MaxRunning, MaxStreak, MaxCommands, MaxJobs,
  Unused

ASSUME GateBounds == Slots \in Nat /\ MaxActive \in Nat /\ MaxQueued \in Nat

VARIABLES
  gate,
  project, phase, commands, queue, projects, active,       \* the two gates
  explicit, answered, activeProjects,                      \* ObservationGate
  turns,                                                   \* and GitHostScheduler
  admitted, stopped, answer, shutdown, pumping, waiters,   \* ResumeGate
  entries, queues, running, waiting                        \* GitHostScheduler

Observation == INSTANCE ObservationGate

Resume == INSTANCE ResumeGate

\* The queries of a repository are batched together, a content read is its own batch.
Host == INSTANCE GitHostScheduler WITH
  Projects <- Hosted,
  Group <- [k \in Keys |-> IF k \in Reads THEN k ELSE "query"],
  BatchLimit <- [g \in Reads \cup {"query"} |-> IF g = "query" THEN QueryBatch ELSE 1]

shared == <<project, phase, commands, queue, projects, active>>
observationOnly == <<explicit, answered, activeProjects>>
resumeOnly == <<admitted, stopped, answer, shutdown, pumping, waiters>>
hostOnly == <<entries, queues, running, waiting>>
vars == <<gate, shared, observationOnly, turns, resumeOnly, hostOnly>>

\* What an idle actor shows to the properties.
ResumeIdle ==
  /\ shutdown = "no" /\ admitted = Unused /\ stopped = Unused /\ answer = Unused
  /\ pumping = Unused /\ waiters = Unused

HostIdle ==
  /\ entries = Unused /\ queues = Unused /\ running = Unused /\ waiting = Unused

ObservationIdle == explicit = Unused /\ answered = Unused /\ activeProjects = Unused

Init ==
  \/ /\ gate = "observation" /\ Observation!Init /\ ResumeIdle /\ HostIdle
  \/ /\ gate = "resume" /\ Resume!Init /\ ObservationIdle /\ turns = Unused /\ HostIdle
  \/ /\ gate = "host" /\ Host!Init
     /\ ObservationIdle /\ ResumeIdle
     /\ phase = [r \in Requests |-> "new"]
     /\ project = Unused /\ queue = Unused /\ projects = Unused /\ active = Unused

AtObservation(step) ==
  gate = "observation" /\ step /\ UNCHANGED <<gate, resumeOnly, hostOnly>>

AtResume(step) ==
  gate = "resume" /\ step /\ UNCHANGED <<gate, observationOnly, turns, hostOnly>>

AtHost(step) ==
  /\ gate = "host" /\ step
  /\ UNCHANGED <<gate, project, phase, queue, projects, active, observationOnly, resumeOnly>>

Next == AtObservation(Observation!Next) \/ AtResume(Resume!Next) \/ AtHost(Host!Next)

Spec == Init /\ [][Next]_vars

\* The fairness of the two gates.
Fairness ==
  /\ WF_vars(AtObservation(Observation!GateStep))
  /\ \A r \in Requests : WF_vars(AtObservation(Observation!Proceeds(r)))
  /\ WF_vars(AtResume(Resume!GateStep)) /\ WF_vars(AtResume(Resume!SendShutdown))
  /\ \A r \in Requests : WF_vars(AtResume(Resume!Proceeds(r)))

-----------------------------------------------------------------------------
(* What the modules state, for the gate that is looked at *)

\* Through calls, answers, deadlines and releases the observation gate keeps its
\* accounts: never more observations than slots nor two of one project, no project is
\* lost from the turns, and the counters are those of the permits that are out plus the
\* slots of the calls answered at their deadline, which acquire_until never returns.
ObservationsAccounted ==
  gate = "observation" =>
    /\ Observation!ObservationsBounded
    /\ Observation!CountsMatchPermits
    /\ Observation!EveryQueueListed

\* A waiting observation is admitted, as long as no call gives up.
EveryWaiterServed == Observation!EveryWaiterServed

\* Through cancelled callers, refusals and a shutdown the resume gate keeps its
\* accounts: never more attempts than slots, an exact admission counter, and a
\* shutdown() that returns only when no attempt has a slot.
AttemptsAccounted ==
  gate = "resume" =>
    /\ Resume!AttemptsBounded
    /\ Resume!AdmissionsCounted
    /\ Resume!ShutdownWaitsForAttempts

\* shutdown() returns, as long as no attempt gives up.
ShutdownReturnsUndisturbed == Resume!ShutdownReturnsUndisturbed

\* A resume attempt is admitted or refused, as long as no attempt gives up.
EveryAttemptAnswered == Resume!EveryAttemptAnswered

\* At the limits of keys and waiters the query scheduler keeps its accounts: no key is
\* queried twice at once, each waiting key is queued once under a project whose turn
\* comes, and whoever still waits for a key stands among its waiters.
QueriesAccounted ==
  gate = "host" => Host!SingleFlight /\ Host!QueuedOnce /\ Host!NoForgottenWaiter

=============================================================================
