--------------------------- MODULE ObservationGate ---------------------------
(* The fair Git observation gate of the daemon (apps/server/src/app/gates.rs):  *)
(* callers send commands over an unbounded channel to one gate task, which      *)
(* answers them over one-shot channels.  The gate task is modelled one loop     *)
(* turn at a time, so that callers can give up between two turns.               *)
EXTENDS Naturals, Sequences, FiniteSets, SequencesExt

CONSTANTS
  Requests,    \* calls of acquire and acquire_until, each made once
  Projects,
  Slots,       \* live observations at once: 2 in the code
  Deadlines    \* the requests made with acquire_until

VARIABLES
  \* the callers
  project,     \* the project of each request
  explicit,    \* the requests with ObservationPriority::Explicit
  phase,       \* where each call is
  answered,    \* the requests whose ready sender was used
  \* the gate
  commands,    \* the channel
  queue,       \* per project, the two queues of ready senders
  projects,    \* the round-robin list
  active,
  activeProjects,
  turns        \* turns left of the for loop; 0 when the gate is receiving

callers == <<project, explicit, phase, answered>>
gate == <<queue, projects, active, activeProjects, turns>>
vars == <<callers, commands, gate>>

Phases == {"new", "waiting", "expired", "holding", "done", "gone"}

Command == [kind : {"acquire", "release"}, req : Requests]

Init ==
  /\ project \in [Requests -> Projects]
  /\ explicit \in SUBSET Requests
  /\ phase = [r \in Requests |-> "new"]
  /\ answered = {}
  /\ commands = <<>>
  /\ queue = [p \in Projects |-> [explicit |-> <<>>, background |-> <<>>]]
  /\ projects = <<>>
  /\ active = 0
  /\ activeProjects = {}
  /\ turns = 0

-----------------------------------------------------------------------------
(* Callers *)

Send(kind, r) == commands' = Append(commands, [kind |-> kind, req |-> r])

\* acquire up to its await.
Acquire(r) ==
  /\ phase[r] = "new"
  /\ phase' = [phase EXCEPT ![r] = "waiting"]
  /\ Send("acquire", r)
  /\ UNCHANGED <<project, explicit, answered, gate>>

\* The await returns and the caller has its permit.
Admitted(r) ==
  /\ phase[r] = "waiting" /\ r \in answered
  /\ phase' = [phase EXCEPT ![r] = "holding"]
  /\ UNCHANGED <<project, explicit, answered, commands, gate>>

\* timeout_at polls the unanswered acquire, then finds its deadline passed; the
\* receiver is dropped a moment later.
Expire(r) ==
  /\ r \in Deadlines
  /\ phase[r] = "waiting" /\ r \notin answered
  /\ phase' = [phase EXCEPT ![r] = "expired"]
  /\ UNCHANGED <<project, explicit, answered, commands, gate>>

DropReceiver(r) ==
  /\ phase[r] = "expired"
  /\ phase' = [phase EXCEPT ![r] = "gone"]
  /\ UNCHANGED <<project, explicit, answered, commands, gate>>

\* FairObservationPermit::drop
DropPermit(r) ==
  /\ phase[r] = "holding"
  /\ phase' = [phase EXCEPT ![r] = "done"]
  /\ Send("release", r)
  /\ UNCHANGED <<project, explicit, answered, gate>>

-----------------------------------------------------------------------------
(* The gate task *)

Receiving == turns = 0

\* The head of "while active < 2": a for loop of one turn per listed project.
StartTurns(act, listed) == turns' = IF act < Slots THEN Len(listed) ELSE 0

\* A project's queue with the ready sender of a call at the end of its class.
Enqueued(q, r) ==
  IF r \in explicit THEN [q EXCEPT !.explicit = Append(@, r)]
                    ELSE [q EXCEPT !.background = Append(@, r)]

ReceiveAcquire ==
  /\ Receiving /\ commands # <<>> /\ Head(commands).kind = "acquire"
  /\ LET r == Head(commands).req
         p == project[r]
         listed == IF Contains(projects, p) THEN projects ELSE Append(projects, p)
     IN /\ queue' = [queue EXCEPT ![p] = Enqueued(@, r)]
        /\ projects' = listed
        /\ StartTurns(active, listed)
  /\ commands' = Tail(commands)
  /\ UNCHANGED <<callers, active, activeProjects>>

ReceiveRelease ==
  /\ Receiving /\ commands # <<>> /\ Head(commands).kind = "release"
  /\ LET freed == IF active = 0 THEN 0 ELSE active - 1
     IN active' = freed /\ StartTurns(freed, projects)
  /\ activeProjects' = activeProjects \ {project[Head(commands).req]}
  /\ commands' = Tail(commands)
  /\ UNCHANGED <<callers, queue, projects>>

\* A turn of a project that has an observation running: it goes to the back.
SkipActive ==
  /\ turns > 0 /\ projects # <<>>
  /\ Head(projects) \in activeProjects
  /\ projects' = Append(Tail(projects), Head(projects))
  /\ turns' = turns - 1
  /\ UNCHANGED <<callers, commands, queue, active, activeProjects>>

\* The sender taken in a turn, and the queue without it.
NextOf(q) == IF q.explicit # <<>> THEN Head(q.explicit) ELSE Head(q.background)

WithoutNext(q) ==
  IF q.explicit # <<>> THEN [q EXCEPT !.explicit = Tail(@)]
                       ELSE [q EXCEPT !.background = Tail(@)]

NonEmpty(q) == q.explicit # <<>> \/ q.background # <<>>

\* Mutant of Relisted: the project leaves the list with senders in its queue
Unlisted(q) == Tail(projects)

\* The list after a turn of its head.
Relisted(q) ==
  IF NonEmpty(WithoutNext(q)) THEN Append(Tail(projects), Head(projects))
                              ELSE Tail(projects)

\* The receiver of a one-shot channel is alive until its caller drops it.
Listening(r) == phase[r] \in {"waiting", "expired"}

TakesTurn(p) ==
  /\ turns > 0 /\ projects # <<>> /\ p = Head(projects)
  /\ p \notin activeProjects
  /\ NonEmpty(queue[p])
  /\ queue' = [queue EXCEPT ![p] = WithoutNext(@)]
  /\ projects' = Relisted(queue[p])

\* The send succeeds: the project is active and the loop over the turns ends.
Grant(p) ==
  /\ TakesTurn(p)
  /\ Listening(NextOf(queue[p]))
  /\ answered' = answered \cup {NextOf(queue[p])}
  /\ active' = active + 1
  /\ activeProjects' = activeProjects \cup {p}
  /\ StartTurns(active + 1, Relisted(queue[p]))
  /\ UNCHANGED <<project, explicit, phase, commands>>

\* Mutant of SkipGone: the slot is taken although nobody was answered
SkipGoneCharged(p) ==
  /\ TakesTurn(p)
  /\ ~Listening(NextOf(queue[p]))
  /\ active' = active + 1
  /\ activeProjects' = activeProjects \cup {p}
  /\ StartTurns(active + 1, Relisted(queue[p]))
  /\ UNCHANGED <<callers, commands>>

\* The send fails because the caller is gone; that was the project's turn.
SkipGone(p) ==
  /\ TakesTurn(p)
  /\ ~Listening(NextOf(queue[p]))
  /\ turns' = turns - 1
  /\ UNCHANGED <<callers, commands, active, activeProjects>>

GateStep ==
  \/ ReceiveAcquire
  \/ ReceiveRelease
  \/ SkipActive
  \/ \E p \in Projects : Grant(p) \/ SkipGone(p)

CallerStep(r) ==
  \/ Acquire(r)
  \/ Admitted(r)
  \/ Expire(r)
  \/ DropReceiver(r)
  \/ DropPermit(r)

\* What a call does by itself once it is answered or expired.
Proceeds(r) == Admitted(r) \/ DropPermit(r) \/ DropReceiver(r)

Next == GateStep \/ \E r \in Requests : CallerStep(r)

Spec == Init /\ [][Next]_vars

\* The gate task runs, an answered caller is polled, and an observation ends:
\* Git children are killed at their deadline.  Nobody has to call or to expire.
FairSpec ==
  /\ Spec
  /\ WF_vars(GateStep)
  /\ \A r \in Requests : WF_vars(Proceeds(r))

-----------------------------------------------------------------------------
(* Properties *)

Holders == {r \in Requests : phase[r] = "holding"}

\* The permits that are out: answered calls that will return or have returned with
\* theirs, and permits whose release is under way.
Permits ==
  {r \in answered : phase[r] \in {"waiting", "holding"}}
    \cup {r \in Requests : \E i \in DOMAIN commands :
            commands[i] = [kind |-> "release", req |-> r]}

\* The calls that were answered between their deadline and the drop of the
\* receiver: no permit was made for them, and nothing returns their slots.
Leaked == {r \in answered : phase[r] \in {"expired", "gone"}}

\* The two-slot cap and the serialisation of a project, across calls, answers that
\* are not polled yet, releases under way and callers that gave up: never more
\* observations than slots, and never two of one project.
ObservationsBounded ==
  /\ Cardinality(Holders) <= Slots
  /\ \A r, s \in Holders : project[r] = project[s] => r = s

\* The counter and the set of active projects agree with the permits that are out, and
\* where they exceed them every slot too many is that of a call answered at its
\* deadline: nothing else is lost or counted twice.
CountsMatchPermits ==
  /\ active = Cardinality(Permits) + Cardinality(Leaked)
  /\ activeProjects = {project[r] : r \in Permits \cup Leaked}

\* No project is lost from the round-robin list: a request is queued only under a
\* listed project, and a project is listed once.
EveryQueueListed ==
  /\ \A p \in Projects : NonEmpty(queue[p]) <=> Contains(projects, p)
  /\ \A i, j \in DOMAIN projects : projects[i] = projects[j] => i = j

\* A fair gate: every call that waits is admitted, as long as no call gives up.  (The
\* turn of a call that gave up in the queue is lost, and so is the slot of one that was
\* answered at its deadline: see Leaked; the calls behind it wait for the next command.)
EveryWaiterServed ==
  \A r \in Requests :
    phase[r] = "waiting" ~> \/ phase[r] # "waiting"
                            \/ \E s \in Requests : phase[s] \in {"expired", "gone"}

=============================================================================
