------------------------------ MODULE ResumeGate ------------------------------
(* One lane of the agent resume gate (apps/server/src/app/gates.rs): an atomic  *)
(* admission counter in front of a fair queue, and a shutdown that stops        *)
(* admission and waits for the attempts in progress.  The ordinary and the      *)
(* steward lane are two such gates that share nothing.                          *)
EXTENDS Naturals, Sequences, FiniteSets, SequencesExt

CONSTANTS
  Requests,    \* resume attempts, each acquiring once
  Projects,
  MaxActive,   \* 7 for the ordinary lane, 1 for the steward lane
  MaxQueued,   \* 64
  Impatient    \* the attempts that reach their deadline or see the shutdown signal

VARIABLES
  \* shared by callers and gate
  admitted,    \* atomic counter
  stopped,     \* atomic flag
  commands,    \* the channel
  \* the callers
  project,     \* the project of each attempt
  phase,       \* where each attempt is
  answer,      \* what its one-shot channel holds
  shutdown,    \* where the caller of shutdown() is
  \* the gate task
  queue,       \* per project, the ready senders
  projects,    \* the round-robin list
  active,
  pumping,     \* whether the gate is in its admission loop
  waiters      \* shutdown callers that the gate knows of

gate == <<queue, projects, active, pumping, waiters>>
vars == <<admitted, stopped, commands, project, phase, answer, shutdown, gate>>

Phases == {"new", "checked", "counted", "waiting", "holding", "done", "refused",
           "gone"}

Command == [kind : {"acquire", "release"}, req : Requests]
             \cup {[kind |-> "shutdown"]}

Init ==
  /\ admitted = 0 /\ stopped = FALSE /\ commands = <<>>
  /\ project \in [Requests -> Projects]
  /\ phase = [r \in Requests |-> "new"]
  /\ answer = [r \in Requests |-> "none"]
  /\ shutdown = "no"
  /\ queue = [p \in Projects |-> <<>>]
  /\ projects = <<>> /\ active = 0 /\ pumping = FALSE /\ waiters = 0

-----------------------------------------------------------------------------
(* acquire *)

Send(kind, r) == commands' = Append(commands, [kind |-> kind, req |-> r])

MoveTo(r, p) == phase' = [phase EXCEPT ![r] = p]

LoadStopped(r) ==
  /\ phase[r] = "new"
  /\ MoveTo(r, IF stopped THEN "refused" ELSE "checked")
  /\ UNCHANGED <<admitted, stopped, commands, project, answer, shutdown, gate>>

\* admitted.fetch_update: a full gate refuses at once.
CountAdmission(r) ==
  /\ phase[r] = "checked"
  /\ \/ /\ admitted < MaxActive + MaxQueued
        /\ admitted' = admitted + 1
        /\ MoveTo(r, "counted")
     \/ /\ admitted >= MaxActive + MaxQueued
        /\ MoveTo(r, "refused")
        /\ UNCHANGED admitted
  /\ UNCHANGED <<stopped, commands, project, answer, shutdown, gate>>

SendAcquire(r) ==
  /\ phase[r] = "counted"
  /\ MoveTo(r, "waiting")
  /\ Send("acquire", r)
  /\ UNCHANGED <<admitted, stopped, project, answer, shutdown, gate>>

\* The await returns: with a permit, or with Stopped when the sender was dropped.
Polled(r) ==
  /\ phase[r] = "waiting" /\ answer[r] # "none"
  /\ MoveTo(r, IF answer[r] = "ready" THEN "holding" ELSE "refused")
  /\ UNCHANGED <<admitted, stopped, commands, project, answer, shutdown, gate>>

\* select! takes the branch of the shutdown signal, or the deadline passes; the
\* acquire is dropped whatever its channel holds by then.
GiveUp(r) ==
  /\ r \in Impatient
  /\ phase[r] = "waiting"
  /\ MoveTo(r, "gone")
  /\ UNCHANGED <<admitted, stopped, commands, project, answer, shutdown, gate>>

\* FairResumePermit::drop, when the attempt is over
DropPermit(r) ==
  /\ phase[r] = "holding"
  /\ MoveTo(r, "done")
  /\ Send("release", r)
  /\ UNCHANGED <<admitted, stopped, project, answer, shutdown, gate>>

-----------------------------------------------------------------------------
(* shutdown *)

StoreStopped ==
  /\ shutdown = "no"
  /\ stopped' = TRUE
  /\ shutdown' = "storing"
  /\ UNCHANGED <<admitted, commands, project, phase, answer, gate>>

SendShutdown ==
  /\ shutdown = "storing"
  /\ commands' = Append(commands, [kind |-> "shutdown"])
  /\ shutdown' = "waiting"
  /\ UNCHANGED <<admitted, stopped, project, phase, answer, gate>>

-----------------------------------------------------------------------------
(* The gate task *)

\* decrement_resume_admission: saturating.
Less(n, k) == IF n >= k THEN n - k ELSE 0

Receives(kind) ==
  /\ ~pumping /\ commands # <<>> /\ Head(commands).kind = kind
  /\ commands' = Tail(commands)
  /\ pumping' = TRUE

ReceiveAcquire ==
  /\ Receives("acquire")
  /\ LET r == Head(commands).req
         p == project[r]
     IN \/ /\ stopped
           /\ admitted' = Less(admitted, 1)
           /\ answer' = [answer EXCEPT ![r] = "dropped"]
           /\ UNCHANGED <<queue, projects>>
        \/ /\ ~stopped
           /\ queue' = [queue EXCEPT ![p] = Append(@, r)]
           /\ projects' = IF Contains(projects, p) THEN projects
                                                   ELSE Append(projects, p)
           /\ UNCHANGED <<admitted, answer>>
  /\ UNCHANGED <<stopped, project, phase, shutdown, active, waiters>>

\* Mutant of ReceiveRelease: a stopped gate no longer counts its attempts down
ReleaseIgnoredWhenStopped ==
  /\ Receives("release")
  /\ active' = IF stopped THEN active ELSE Less(active, 1)
  /\ admitted' = IF active > 0 THEN Less(admitted, 1) ELSE admitted
  /\ UNCHANGED <<stopped, project, phase, answer, shutdown, queue, projects, waiters>>

ReceiveRelease ==
  /\ Receives("release")
  /\ active' = Less(active, 1)
  /\ admitted' = IF active > 0 THEN Less(admitted, 1) ELSE admitted
  /\ UNCHANGED <<stopped, project, phase, answer, shutdown, queue, projects, waiters>>

AllQueued == {r \in Requests : \E p \in Projects : Contains(queue[p], r)}

\* Mutant of ReceiveShutdown: the dropped senders stay counted
ShutdownKeepsCount ==
  /\ Receives("shutdown")
  /\ stopped' = TRUE
  /\ queue' = [p \in Projects |-> <<>>]
  /\ projects' = <<>>
  /\ answer' = [r \in Requests |-> IF r \in AllQueued THEN "dropped" ELSE answer[r]]
  /\ waiters' = waiters + 1
  /\ UNCHANGED <<admitted, project, phase, shutdown, active>>

\* Mutant of ReceiveShutdown: the queues are left as they are
ShutdownKeepsQueues ==
  /\ Receives("shutdown")
  /\ stopped' = TRUE
  /\ waiters' = waiters + 1
  /\ UNCHANGED <<admitted, queue, projects, answer, project, phase, shutdown, active>>

\* The queues are dropped with the senders in them.
ReceiveShutdown ==
  /\ Receives("shutdown")
  /\ stopped' = TRUE
  /\ queue' = [p \in Projects |-> <<>>]
  /\ projects' = <<>>
  /\ answer' = [r \in Requests |-> IF r \in AllQueued THEN "dropped" ELSE answer[r]]
  /\ admitted' = Less(admitted, Cardinality(AllQueued))
  /\ waiters' = waiters + 1
  /\ UNCHANGED <<project, phase, shutdown, active>>

MayAdmit == pumping /\ ~stopped /\ active < MaxActive /\ projects # <<>>

\* One round of the admission loop: the head project gives its oldest sender; a
\* sender whose caller is gone costs the admission and not a slot.
Admit ==
  /\ MayAdmit
  /\ LET p == Head(projects)
         r == Head(queue[p])
     IN /\ queue' = [queue EXCEPT ![p] = Tail(@)]
        /\ projects' = IF Tail(queue[p]) = <<>> THEN Tail(projects)
                                                ELSE Append(Tail(projects), p)
        /\ \/ /\ phase[r] = "waiting"
              /\ answer' = [answer EXCEPT ![r] = "ready"]
              /\ active' = active + 1
              /\ UNCHANGED admitted
           \/ /\ phase[r] # "waiting"
              /\ admitted' = Less(admitted, 1)
              /\ UNCHANGED <<answer, active>>
  /\ UNCHANGED <<stopped, commands, project, phase, shutdown, pumping, waiters>>

\* The loop ends; a stopped gate without attempts lets shutdown() return.
StopPumping ==
  /\ pumping /\ ~MayAdmit
  /\ pumping' = FALSE
  /\ IF stopped /\ active = 0 /\ waiters > 0
     THEN waiters' = 0 /\ shutdown' = "returned"
     ELSE UNCHANGED <<waiters, shutdown>>
  /\ UNCHANGED <<admitted, stopped, commands, project, phase, answer, queue, projects,
                 active>>

GateStep ==
  \/ ReceiveAcquire
  \/ ReceiveRelease
  \/ ReceiveShutdown
  \/ Admit
  \/ StopPumping

\* The synchronous part of acquire, and what follows an answer.
Proceeds(r) ==
  \/ CountAdmission(r)
  \/ SendAcquire(r)
  \/ Polled(r)
  \/ DropPermit(r)

Next ==
  \/ GateStep
  \/ StoreStopped \/ SendShutdown
  \/ \E r \in Requests : LoadStopped(r) \/ Proceeds(r) \/ GiveUp(r)

Spec == Init /\ [][Next]_vars

\* The gate runs, a started call goes on and an attempt ends (it has a deadline).
FairSpec ==
  /\ Spec
  /\ WF_vars(GateStep)
  /\ WF_vars(SendShutdown)
  /\ \A r \in Requests : WF_vars(Proceeds(r))

-----------------------------------------------------------------------------
(* Properties *)

Holders == {r \in Requests : phase[r] = "holding"}

InChannel(kind) ==
  {r \in Requests : \E i \in DOMAIN commands :
     commands[i].kind = kind /\ commands[i].req = r}

\* The attempts that have a slot: answered, and the release not yet received.
Charged == {r \in Requests : answer[r] = "ready" /\ phase[r] # "done"}
             \cup InChannel("release")

\* At most MaxActive attempts run at once, through every mix of answers, releases,
\* callers that gave up and a shutdown.
AttemptsBounded == Cardinality(Holders) <= MaxActive

\* The admission counter that callers race on is exactly the number of attempts on
\* their way to the gate, queued in it, or holding a slot: none is counted twice,
\* and none is forgotten by a refusal, a dead caller or a shutdown.
AdmissionsCounted ==
  admitted = Cardinality({r \in Requests : phase[r] = "counted"}
                           \cup InChannel("acquire") \cup AllQueued \cup Charged)

\* When shutdown() returns, no attempt has a slot and none ever gets one.
ShutdownWaitsForAttempts ==
  shutdown = "returned" =>
    \A r \in Requests : answer[r] = "ready" => phase[r] = "done"

\* A shutdown returns: the attempts in progress end and the queued ones are refused.
ShutdownReturns == shutdown = "waiting" ~> shutdown = "returned"

GaveUp == \E r \in Requests : phase[r] = "gone"

\* A shutdown returns as long as no attempt gives up: the slot of one that was answered
\* at that moment is never released.
ShutdownReturnsUndisturbed == shutdown = "waiting" ~> (shutdown = "returned" \/ GaveUp)

\* Every attempt that asks is admitted or refused, as long as no other gives up.
EveryAttemptAnswered ==
  \A r \in Requests : phase[r] = "waiting" ~> (phase[r] # "waiting" \/ GaveUp)

=============================================================================
