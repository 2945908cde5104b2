---------------------------- MODULE InputDelivery ----------------------------
(***************************************************************************)
(* Generated input delivery: how the daemon types a generated prompt into   *)
(* an agent's terminal.  Core keeps, per session, one pending submission, a *)
(* queue behind it and one delivery record; a delivery is carried out by a  *)
(* worker thread that pastes the content, waits for the composer, presses   *)
(* Enter and waits for the provider to acknowledge.  Core's handlers run    *)
(* under its lock, so each is one action.  The workers run beside it and    *)
(* share with it four cells per delivery (cancel_submit, paste_started,     *)
(* submit_receipted_signal and the acknowledgement channel) and one FIFO    *)
(* channel of events.                                                       *)
(*                                                                          *)
(* Durations are left out: every timeout may fire whenever its wait has not *)
(* been answered.  Failures are kept apart as far as the code branches on   *)
(* them: "ComposerUnavailable", "ComposerNotReady", "Recoverable" (the three*)
(* a manual Enter recovers) and "Terminal" (the others).                    *)
(***************************************************************************)
EXTENDS Integers, Sequences, FiniteSets

CONSTANTS
    Sessions,       \* agent sessions
    Submissions,    \* generated terminal submissions, each handed over once
    Queueable,      \* those that may steer a working provider's own queue
    Wakes,          \* persistent assistant wakes
    Asked,          \* those whose feature (Ask-To, a workflow) completes with them
    AgentKinds,     \* agents met: TRUE for claude and codex, whose worker waits for a
                    \* composer, FALSE for the others
    None,
    MaxDeliveries,  \* MAX_RUNTIME_DELIVERIES
    MaxQueued,      \* MAX_QUEUED_GENERATED_INPUTS_PER_SESSION
    MaxIds,         \* bound: delivery ids used in a behaviour
    MaxSignals,     \* bound: provider signals per session
    MaxEpoch,       \* bound: terminal generations per session
    MaxInput,       \* bound: client inputs per session
    MaxPresses      \* bound: Enter presses of one delivery

ASSUME DeliveryBounds ==
    /\ MaxDeliveries \in Nat \ {0} /\ MaxQueued \in Nat \ {0} /\ MaxIds \in Nat
    /\ Queueable \subseteq Submissions /\ Wakes \subseteq Submissions
    /\ Asked \subseteq Submissions
    /\ AgentKinds \subseteq BOOLEAN /\ AgentKinds # {}

VARIABLES
    dels,       \* deliveries and order: the delivery record of each session, by id
    nextId,     \* next_id
    pending,    \* pending_generated_input of each session's capability
    deferred,   \* defer_generated_input_until_hook_response
    queue,      \* pending_generated_input_queues
    obs,        \* the observation capability: epoch, state, sequence, progress,
                \* and whether the session's agent has a composer
    cells,      \* the cells a delivery shares with its worker
    worker,     \* the worker thread of each delivery
    events,     \* transport events not yet recorded by Core
    clock,      \* the last observation sequence issued for the session
    input,      \* client input of the terminal: all of it, and edits
    pasted,     \* how often a submission's content reached the terminal
    presses,    \* how often a delivery's worker pressed Enter
    unsent      \* submissions no feature has handed over yet

vars == <<dels, nextId, pending, deferred, queue, obs, cells, worker,
          events, clock, input, pasted, presses, unsent>>

Ids == 1..MaxIds
States == {"WritingPaste", "AwaitingProviderAck", "Confirmed",
           "ConfirmedUnattributed", "Stalled", "Blocked", "Failed",
           "RequiresUserResubmit"}
Active == {"WritingPaste", "AwaitingProviderAck"}
AcceptsReplacement == {"Confirmed", "ConfirmedUnattributed", "RequiresUserResubmit"}

\* History: sub, the submission the delivery is for, and forgotten, that its paste no
\* longer keeps Core from beginning again: the worker marked it after Core cancelled
\* the delivery, Core dropped the record, or the feature could not complete and the
\* confirmed submission stayed pending.
FreshCells == [cancel |-> FALSE, paste |-> FALSE, receipt |-> FALSE, ack |-> "open",
               sub |-> None, forgotten |-> FALSE]
NoQueue == [epoch |-> 0, subs |-> <<>>]

Pcs == {"ready", "gate", "mark", "paste", "receipt", "settle", "enter", "submitted",
        "report", "ack", "loop", "retry", "resubmitted", "again"}
Outcomes == {"Submitted", "SubmitRetried", "SubmitRetryFailed", "ProviderAckTimedOut",
             "Blocked", "Failed"}
Failures == {"none", "ComposerUnavailable", "ComposerNotReady", "Recoverable", "Terminal"}
Settlements == {"queue", "composer", "output"}
AgentStates == {"None", "Idle", "Working", "AwaitingInput"}

Input == [all : Nat, edits : Nat]
Confirmation == [seq : Nat, clean : BOOLEAN, by : {"prompt", "progress"}]
Delivery == [id : Ids, epoch : Nat, baseline : Nat, settle : Settlements,
             sub : Submissions, state : States, failure : Failures,
             conf : Confirmation \cup {None}, edits : Nat]
Cell == [cancel : BOOLEAN, paste : BOOLEAN, receipt : BOOLEAN,
         ack : {"open", "closed", "sent"}, sub : Submissions \cup {None},
         forgotten : BOOLEAN]
Worker == [pc : Pcs, session : Sessions, epoch : Nat, sub : Submissions,
           settle : Settlements, input : Input]
TransportEvent == [session : Sessions, epoch : Nat, id : Ids, outcome : Outcomes,
                   failure : Failures, diag : BOOLEAN, receipt : BOOLEAN]
Observation == [epoch : Nat, state : AgentStates, seq : Nat, progress : BOOLEAN,
                composer : BOOLEAN]

ASSUME NoneAssumption ==
    None \notin Submissions \cup Confirmation \cup Delivery \cup Worker

TypeOK ==
    /\ dels \in [Sessions -> Delivery \cup {None}] /\ nextId \in Nat \ {0}
    /\ pending \in [Sessions -> Submissions \cup {None}]
    /\ deferred \in [Sessions -> BOOLEAN]
    /\ queue \in [Sessions -> [epoch : Nat, subs : Seq(Submissions)]]
    /\ obs \in [Sessions -> Observation] /\ cells \in [Ids -> Cell]
    /\ worker \in [Ids -> Worker \cup {None}] /\ events \in Seq(TransportEvent)
    /\ clock \in [Sessions -> Nat] /\ input \in [Sessions -> Input]
    /\ pasted \in [Submissions -> Nat] /\ presses \in [Ids -> Nat]
    /\ unsent \subseteq Submissions

-----------------------------------------------------------------------------
\* A handler of Core is a chain of calls on the state behind Core's lock.  The
\* chain is written as operators on a record of that state.

Core == [dels |-> dels, next |-> nextId, pending |-> pending,
         deferred |-> deferred, queue |-> queue, obs |-> obs, cells |-> cells,
         worker |-> worker, pasted |-> pasted, changed |-> FALSE, err |-> FALSE]

Becomes(k) ==
    /\ dels' = k.dels /\ nextId' = k.next
    /\ pending' = k.pending /\ deferred' = k.deferred /\ queue' = k.queue
    /\ obs' = k.obs /\ cells' = k.cells /\ worker' = k.worker
    /\ pasted' = k.pasted

\* provider_ack_signal.take(): the sender is dropped, or sends first.
CloseAck(k, id) == [k EXCEPT !.cells[id].ack = IF @ = "open" THEN "closed" ELSE @]
SignalAck(k, id) == [k EXCEPT !.cells[id].ack = IF @ = "open" THEN "sent" ELSE @]
Cancel(k, id) == [k EXCEPT !.cells[id].cancel = TRUE]

\* A Blocked record whose paste was never started: the pending submission may
\* still be written.
Unwritten(k, d) ==
    /\ d.state = "Blocked"
    /\ d.failure \in {"ComposerUnavailable", "ComposerNotReady"}
    /\ ~k.cells[d.id].paste

\* Mutant of CanBegin: a blocked record may have been written
CanBeginWritten(k, s) ==
    \/ k.dels[s] = None
    \/ /\ k.dels[s] # None
       /\ k.dels[s].epoch = k.obs[s].epoch
       /\ \/ k.dels[s].state \in AcceptsReplacement
          \/ k.dels[s].state = "Blocked"

CanBegin(k, s) ==
    \/ k.dels[s] = None
    \/ /\ k.dels[s] # None
       /\ k.dels[s].epoch = k.obs[s].epoch
       /\ \/ k.dels[s].state \in AcceptsReplacement
          \/ Unwritten(k, k.dels[s])

Accepts(k, s) ==
    k.dels[s] # None => /\ k.dels[s].epoch = k.obs[s].epoch
                        /\ k.dels[s].state \in AcceptsReplacement

Held(k) == {s \in Sessions : k.dels[s] # None}

\* evict_oldest_terminal_delivery: the oldest record that is not active goes, and
\* with it what Core knew of its paste.  Records are ordered as their ids are.
Evictable(k) == {s \in Held(k) : k.dels[s].state \notin Active}

Oldest(k) ==
    CHOOSE s \in Evictable(k) : \A t \in Evictable(k) : k.dels[s].id <= k.dels[t].id

Drop(k, s) ==
    LET id == k.dels[s].id IN
    [CloseAck(k, id) EXCEPT !.dels[s] = None,
                            !.cells[id].forgotten = @ \/ k.cells[id].paste]

Evict(k) == IF Evictable(k) = {} THEN k ELSE Drop(k, Oldest(k))

WithRoom(k, s) ==
    IF k.dels[s] = None /\ Cardinality(Held(k)) >= MaxDeliveries THEN Evict(k) ELSE k

Full(k, s) == k.dels[s] = None /\ Cardinality(Held(k)) >= MaxDeliveries

\* The new record replaces the session's old one, whose channel it drops.
Insert(k, s, d, cell) ==
    LET r == IF k.dels[s] = None THEN k ELSE CloseAck(k, k.dels[s].id) IN
    [r EXCEPT !.dels[s] = d, !.cells[d.id] = cell, !.next = @ + 1]

Settlement(k, s) ==
    IF k.obs[s].state = "Working" THEN "queue"
    ELSE IF k.obs[s].composer THEN "composer" ELSE "output"

\* begin: how = "started", "unavailable" (the terminal answers no snapshot or
\* refuses the paste) or "unspawned" (no worker thread).  Agents without a
\* composer gate are pasted here, under the lock.
Begin(k, s, how) ==
    LET r   == WithRoom(k, s)
        id  == r.next
        sub == r.pending[s]
        settle == Settlement(r, s)
        wrote  == how # "unavailable" /\ settle # "composer"
        d == [id |-> id, epoch |-> r.obs[s].epoch, baseline |-> r.obs[s].seq,
              settle |-> settle, sub |-> sub,
              state |-> IF how = "started" THEN "WritingPaste" ELSE "Failed",
              failure |-> IF how = "started" THEN "none" ELSE "Terminal",
              conf |-> None, edits |-> input[s].edits]
        n == Insert(r, s, d, [FreshCells EXCEPT
                  !.sub = sub, !.paste = wrote, !.ack = IF how = "started" THEN "open" ELSE "closed"])
        w == [pc |-> IF settle = "composer" THEN "ready" ELSE "receipt",
              session |-> s, epoch |-> d.epoch, sub |-> sub, settle |-> settle,
              input |-> input[s]]
    IN  IF ~CanBegin(k, s) \/ Full(r, s) THEN [r EXCEPT !.err = TRUE]
        ELSE [n EXCEPT !.worker[id] = IF how = "started" THEN w ELSE None,
                       !.pasted[sub] = IF wrote THEN @ + 1 ELSE @]

\* block_for_unavailable_composer
Block(k, s) ==
    LET d == k.dels[s]
        r == WithRoom(IF d = None THEN k ELSE Cancel(k, d.id), s)
        new == [id |-> r.next, epoch |-> r.obs[s].epoch, baseline |-> r.obs[s].seq,
                settle |-> "output", sub |-> r.pending[s], state |-> "Blocked",
                failure |-> "ComposerUnavailable", conf |-> None, edits |-> 0]
    IN  CASE d # None /\ d.epoch # k.obs[s].epoch -> k
          [] d # None /\ d.epoch = k.obs[s].epoch /\ d.state = "WritingPaste" ->
                [CloseAck(Cancel(k, d.id), d.id) EXCEPT
                    !.dels[s].state = "Blocked", !.dels[s].failure = "ComposerUnavailable"]
          [] d # None /\ d.epoch = k.obs[s].epoch /\ d.state # "WritingPaste"
                /\ d.state \notin AcceptsReplacement -> k
          [] OTHER ->
                IF Full(r, s) THEN r
                ELSE Insert(r, s, new, [FreshCells EXCEPT !.cancel = TRUE, !.ack = "closed"])

\* generated_input_composer_may_accept, or a queueable submission of a working
\* provider.
ComposerReady(k, s) ==
    \/ k.obs[s].state = "Idle"
    \/ k.obs[s].state = "Working" /\ k.pending[s] \in Queueable

\* deliver_pending_agent_generated_input
Deliver(k, s, how) ==
    LET d == k.dels[s] IN
    IF k.pending[s] = None \/ k.next > MaxIds THEN k
    ELSE IF ~CanBegin(k, s)
         THEN IF d.state = "WritingPaste" /\ k.obs[s].state = "AwaitingInput"
              THEN Block(k, s) ELSE k
    ELSE IF ~ComposerReady(k, s)
         THEN IF k.obs[s].state # "None" THEN Block(k, s) ELSE k
    ELSE Begin(k, s, how)

-----------------------------------------------------------------------------
\* Provider evidence.

Clean(d, s) == input[s].edits = d.edits

\* manual_recovery_is_attributed
Attributed(d, failure, clean) == failure = "Recoverable" /\ clean

\* unwritten_readiness_failure
UnwrittenReadiness(k, d, failure) ==
    failure = "ComposerNotReady" /\ ~k.cells[d.id].paste

NewerConfirmation(d, conf) ==
    IF d.conf # None /\ d.conf.seq > conf.seq THEN d.conf ELSE conf

\* confirm_provider_submission
ConfirmSubmission(k, s, seq) ==
    LET d == k.dels[s]
        conf == [seq |-> seq, clean |-> Clean(d, s), by |-> "prompt"]
        next == IF d.state \in {"AwaitingProviderAck", "Stalled"} THEN "Confirmed"
                ELSE IF Attributed(d, d.failure, conf.clean) THEN "Confirmed"
                ELSE "ConfirmedUnattributed"
    IN  IF d = None \/ d.epoch # k.obs[s].epoch \/ seq <= d.baseline
               \/ UnwrittenReadiness(k, d, d.failure)
        THEN k
        ELSE IF d.state = "WritingPaste"
        THEN [SignalAck(k, d.id) EXCEPT !.dels[s].conf = NewerConfirmation(d, conf)]
        ELSE IF d.state \in {"AwaitingProviderAck", "Stalled", "Blocked", "Failed"}
        THEN [SignalAck(k, d.id) EXCEPT !.dels[s].conf = conf, !.dels[s].state = next,
                                        !.dels[s].failure = "none", !.changed = TRUE]
        ELSE k

\* confirm_provider_progress
ConfirmProgress(k, s, seq) ==
    LET d == k.dels[s] IN
    IF d = None \/ d.epoch # k.obs[s].epoch THEN k
    ELSE IF d.state = "AwaitingProviderAck" /\ seq > d.baseline THEN Cancel(k, d.id)
    ELSE IF d.state = "ConfirmedUnattributed" /\ d.conf # None /\ seq > d.conf.seq
    THEN [SignalAck(k, d.id) EXCEPT !.dels[s].state = "Confirmed",
                                    !.dels[s].failure = "none", !.changed = TRUE]
    ELSE k

QueueEvidence(k, d, s, seq) ==
    /\ d.epoch = k.obs[s].epoch /\ d.settle = "queue"
    /\ k.cells[d.id].receipt
    /\ seq > d.baseline

\* confirm_provider_queue_progress
ConfirmQueueProgress(k, s, seq) ==
    LET d == k.dels[s]
        conf == [seq |-> seq, clean |-> FALSE, by |-> "progress"]
    IN  IF d = None \/ ~QueueEvidence(k, d, s, seq) THEN k
        ELSE IF d.state = "WritingPaste"
        THEN [k EXCEPT !.dels[s].conf = NewerConfirmation(d, conf)]
        ELSE IF d.state = "AwaitingProviderAck"
        THEN [SignalAck(k, d.id) EXCEPT !.dels[s].conf = conf,
                 !.dels[s].state = "Confirmed", !.dels[s].failure = "none",
                 !.changed = TRUE]
        ELSE k

\* The queue without its head; an empty queue is removed.
Rest(q) == IF Len(q.subs) = 1 THEN NoQueue ELSE [q EXCEPT !.subs = Tail(@)]

\* promote_queued_generated_terminal_input: the queue of the current terminal
\* generation gives up its head.
Promote(k, s, how) ==
    IF k.queue[s].epoch = k.obs[s].epoch /\ k.queue[s].subs # <<>>
    THEN Deliver([k EXCEPT !.queue[s] = Rest(@),
                           !.pending[s] = Head(k.queue[s].subs)], s, how)
    ELSE [k EXCEPT !.queue[s] = NoQueue]

\* Mutant of Complete: an unattributed confirmation promotes nothing
CompleteOnlyConfirmed(k, s, how, answer) ==
    LET d == k.dels[s] IN
    IF k.changed /\ d # None /\ d.epoch = k.obs[s].epoch
          /\ d.state \in {"Confirmed", "ConfirmedUnattributed"}
    THEN IF d.state = "Confirmed"
         THEN Promote([k EXCEPT !.pending[s] = None, !.deferred[s] = FALSE], s, how)
         ELSE [k EXCEPT !.pending[s] = None, !.deferred[s] = FALSE]
    ELSE k

\* What complete_ask_to_generated_input and
\* complete_workflow_coordinator_prompt_delivery answer: nothing to do, done, or an
\* error.  When a feature has something to do is its own affair.
Answers == {"none", "done", "failed"}

\* Only the feature of the submission on record is asked.
AnswersTo(s) == IF dels[s] # None /\ dels[s].sub \in Asked THEN Answers ELSE {"none"}

\* complete_confirmed_generated_input: a feature that cannot complete leaves the
\* submission pending and the queue as it is.
Complete(k, s, how, answer) ==
    LET d == k.dels[s]
        asks == d.state = "Confirmed" /\ d.sub \in Asked
    IN  IF d = None \/ d.epoch # k.obs[s].epoch
              \/ d.state \notin {"Confirmed", "ConfirmedUnattributed"}
        THEN k
        ELSE IF asks /\ answer = "failed"
        THEN [k EXCEPT !.err = TRUE, !.cells[d.id].forgotten = @ \/ k.cells[d.id].paste]
        ELSE IF k.changed \/ (asks /\ answer = "done")
        THEN Promote([k EXCEPT !.pending[s] = None, !.deferred[s] = FALSE], s, how)
        ELSE k

-----------------------------------------------------------------------------
\* Transport events.

CloseOn(k, s, state, failure) ==
    [CloseAck(k, k.dels[s].id) EXCEPT !.dels[s].state = state,
                                      !.dels[s].failure = failure]

\* The Blocked and Failed outcomes of a delivery still WritingPaste: a turn the
\* provider reported meanwhile is credited, unless nothing was ever written.
Unsent(k, s, state, failure) ==
    LET d == k.dels[s] IN
    IF UnwrittenReadiness(k, d, failure)
    THEN [CloseOn(k, s, state, failure) EXCEPT !.dels[s].conf = None]
    ELSE IF d.conf # None
    THEN CloseOn(k, s, IF Attributed(d, failure, d.conf.clean) THEN "Confirmed"
                       ELSE "ConfirmedUnattributed", "none")
    ELSE CloseOn(k, s, state, failure)

\* Mutant of EventIsCurrent: delivery ids are not compared
EventIsCurrentAnyDelivery(k, e) ==
    k.dels[e.session] # None => k.dels[e.session].epoch = e.epoch

EventIsCurrent(k, e) ==
    k.dels[e.session] # None => /\ k.dels[e.session].id = e.id
                                /\ k.dels[e.session].epoch = e.epoch

\* Mutant of AckVerdictApplies: a late verdict counts in every state
AckVerdictAlways(d) == TRUE

\* The verdicts of the wait for the provider count only while it lasts.
AckVerdictApplies(d) == d.state = "AwaitingProviderAck"

\* apply_transport_event
ApplyEvent(k, e) ==
    LET s == e.session
        d == k.dels[s]
        r == IF e.receipt THEN [k EXCEPT !.cells[d.id].receipt = TRUE] ELSE k
        confirmed == d.conf # None /\ d.conf.seq > d.baseline
    IN  IF d = None \/ ~EventIsCurrent(k, e) THEN k
        ELSE CASE e.outcome = "Submitted" /\ d.state = "WritingPaste" ->
                    [r EXCEPT !.dels[s].state = IF confirmed THEN "Confirmed"
                                                ELSE "AwaitingProviderAck",
                              !.dels[s].failure = "none", !.changed = TRUE]
               [] e.outcome \in {"SubmitRetryFailed", "ProviderAckTimedOut"}
                    /\ AckVerdictApplies(d) ->
                    [CloseOn(r, s, "Stalled", e.failure) EXCEPT !.changed = TRUE]
               [] e.outcome = "Blocked" /\ d.state = "WritingPaste" ->
                    [Unsent(r, s, "Blocked", e.failure) EXCEPT !.changed = TRUE]
               [] e.outcome = "Failed" /\ d.state = "WritingPaste" ->
                    [Unsent(r, s, "Failed", e.failure) EXCEPT !.changed = TRUE]
               [] OTHER -> [r EXCEPT !.changed = e.diag]

\* record_generated_input_runtime_event: the server's pump takes the next event.
RecordEvent(how) ==
    /\ events # <<>>
    /\ LET e == Head(events)
           s == e.session
           k == ApplyEvent(Core, e)
           current == obs[s].epoch = e.epoch /\ obs[s].progress
           p == IF current THEN ConfirmProgress(k, s, obs[s].seq) ELSE k
       IN  IF obs[s].epoch = e.epoch
           THEN \E answer \in AnswersTo(s) : Becomes(Complete(p, s, how, answer))
           ELSE Becomes(p)
    /\ events' = Tail(events)
    /\ UNCHANGED <<clock, input, presses, unsent>>

-----------------------------------------------------------------------------
\* Core's other handlers.

\* The epoch of a closed session is 0.
Live(s) == obs[s].epoch # 0

Hows == {"started", "unavailable", "unspawned"}

\* submit_generated_terminal_input, with the queue behind a busy session.
Enqueue(k, s, sub) ==
    LET subs == IF k.queue[s].epoch = k.obs[s].epoch THEN k.queue[s].subs ELSE <<>> IN
    IF Len(subs) >= MaxQueued THEN k
    ELSE [k EXCEPT !.queue[s] = [epoch |-> k.obs[s].epoch, subs |-> Append(subs, sub)]]

Submit(s, sub, how) ==
    /\ Live(s) /\ sub \in unsent
    /\ unsent' = unsent \ {sub}
    /\ IF pending[s] # None \/ ~Accepts(Core, s)
       THEN Becomes(Enqueue(Core, s, sub))
       ELSE LET k == Deliver([Core EXCEPT !.pending[s] = sub, !.deferred[s] = FALSE], s, how)
            IN  Becomes(IF k.err THEN [k EXCEPT !.pending[s] = None] ELSE k)
    /\ UNCHANGED <<events, clock, input, presses>>

\* A provider signal: the hook observation or the daemon bridge's.  The
\* sequence is issued under Core's lock.  "trailing" is a completion the reducer
\* drops because the turn already ended.
Signals == {"started", "prompt", "tool", "ask", "stop", "trailing"}
Progress == {"tool", "ask", "stop", "trailing"}
After == [started |-> "Idle", prompt |-> "Working", tool |-> "Working",
          ask |-> "AwaitingInput", stop |-> "Idle"]

\* reduce_observation
Reduced(o, sig, seq) ==
    IF sig = "trailing" THEN [o EXCEPT !.progress = TRUE]
    ELSE [o EXCEPT !.state = After[sig], !.seq = seq, !.progress = sig \in Progress]

Signal(s, sig, how) ==
    /\ Live(s) /\ clock[s] < MaxSignals
    /\ sig = "trailing" => obs[s].state = "Idle"
    /\ clock' = [clock EXCEPT ![s] = @ + 1]
    /\ LET hold == sig = "started" /\ pending[s] # None
           o == Reduced(obs[s], sig, clock[s] + 1)
           k == [Core EXCEPT !.obs[s] = o, !.deferred[s] = @ \/ hold]
           c == IF sig = "prompt" THEN ConfirmSubmission(k, s, o.seq)
                ELSE IF sig \in Progress
                THEN ConfirmQueueProgress(ConfirmProgress(k, s, o.seq), s, o.seq)
                ELSE k
           f(answer) == IF sig \in Progress \cup {"prompt"} THEN Complete(c, s, how, answer) ELSE c
       IN  \E answer \in AnswersTo(s) :
               Becomes(IF hold \/ f(answer).err THEN f(answer) ELSE Deliver(f(answer), s, how))
    /\ UNCHANGED <<events, input, presses, unsent>>

\* deliver_pending_generated_input_after_hook_response
HookResponded(s, how) ==
    /\ Live(s) /\ deferred[s] /\ pending[s] # None
    /\ Becomes(Deliver([Core EXCEPT !.deferred[s] = FALSE], s, how))
    /\ UNCHANGED <<events, clock, input, presses, unsent>>

\* A resume replaces the terminal: transition_runtime_epoch and a new
\* capability.  Workers of the old generation can write to it no more.
Outlived(d, epoch) ==
    [d EXCEPT !.epoch = epoch, !.conf = None,
              !.state = IF d.state = "Confirmed" THEN "Confirmed" ELSE "RequiresUserResubmit",
              !.failure = IF d.state = "Confirmed" THEN d.failure ELSE "Terminal"]

Transition(k, s) ==
    LET d == k.dels[s] IN
    IF d = None THEN k
    ELSE [CloseAck(Cancel(k, d.id), d.id) EXCEPT
            !.dels[s] = Outlived(d, k.obs[s].epoch + 1)]

\* A capability that has observed nothing yet.
Renewed(o, epoch) ==
    [o EXCEPT !.epoch = epoch, !.state = "None", !.seq = 0, !.progress = FALSE]

Restart(s) ==
    /\ Live(s) /\ obs[s].epoch < MaxEpoch
    /\ Becomes([Transition(Core, s) EXCEPT
            !.obs[s] = Renewed(obs[s], obs[s].epoch + 1),
            !.pending[s] = None, !.deferred[s] = FALSE])
    /\ UNCHANGED <<events, clock, input, presses, unsent>>

\* retire_closed_session_runtime with remove_session
Retire(s) ==
    /\ Live(s)
    /\ LET d == dels[s]
           k == IF d = None THEN Core ELSE CloseAck(Cancel(Core, d.id), d.id)
       IN  Becomes([k EXCEPT !.dels[s] = None, !.obs[s] = Renewed(obs[s], 0),
                !.pending[s] = None, !.deferred[s] = FALSE, !.queue[s] = NoQueue])
    /\ UNCHANGED <<events, clock, input, presses, unsent>>

\* The user types into the terminal: an edit, or a key that edits nothing.
ClientInput(s, edit) ==
    /\ Live(s) /\ input[s].all < MaxInput
    /\ input' = [input EXCEPT ![s] = [all |-> @.all + 1,
                                       edits |-> IF edit THEN @.edits + 1 ELSE @.edits]]
    /\ UNCHANGED <<dels, nextId, pending, deferred, queue, obs, cells, worker,
                   events, clock, pasted, presses, unsent>>

-----------------------------------------------------------------------------
\* The worker thread of a delivery: run_transport_delivery, then the wait for
\* the provider.  Its program counter names the wait or the write it is at.

CoreUnchanged == UNCHANGED <<dels, nextId, pending, deferred, queue, obs,
                             clock, input, unsent>>

At(id, pc) == worker[id] # None /\ worker[id].pc = pc
Goto(id, pc) == worker' = [worker EXCEPT ![id].pc = pc]
Stop(id) == worker' = [worker EXCEPT ![id] = None]

Event(id, outcome, failure, diag) ==
    [session |-> worker[id].session, epoch |-> worker[id].epoch, id |-> id,
     outcome |-> outcome, failure |-> failure, diag |-> diag,
     receipt |-> outcome \in {"Submitted", "SubmitRetried"}]

Send(e) == events' = Append(events, e)

\* The terminal of the worker's generation is still the session's.
Reachable(id) == obs[worker[id].session].epoch = worker[id].epoch

Ends(id, outcome, failure, diag) ==
    /\ Send(Event(id, outcome, failure, diag)) /\ Stop(id)
    /\ UNCHANGED <<cells, pasted, presses>> /\ CoreUnchanged

Moves(id, pc) ==
    /\ Goto(id, pc)
    /\ UNCHANGED <<events, cells, pasted, presses>> /\ CoreUnchanged

\* wait_for_composer_ready: the composer shows, or the wait fails, and a
\* cancelled worker reports the cancellation whatever failed.
ComposerShows(id) == At(id, "ready") /\ Reachable(id) /\ Moves(id, "gate")

ReadinessFails(id) ==
    /\ At(id, "ready")
    /\ IF cells[id].cancel THEN Ends(id, "Blocked", "ComposerUnavailable", FALSE)
       ELSE \/ Ends(id, "Blocked", "ComposerNotReady", FALSE)
            \/ Ends(id, "Failed", "Terminal", FALSE)

\* The last look at cancel_submit before the paste; paste_started is set only
\* afterwards, and the write comes after that.
PasteGate(id) ==
    /\ At(id, "gate")
    /\ IF cells[id].cancel THEN Ends(id, "Blocked", "ComposerUnavailable", FALSE)
       ELSE Moves(id, "mark")

MarkPaste(id) ==
    /\ At(id, "mark")
    /\ \/ /\ Reachable(id)
          /\ cells' = [cells EXCEPT ![id].paste = TRUE,
                               ![id].forgotten = @ \/ cells[id].cancel]
          /\ Goto(id, "paste")
          /\ UNCHANGED <<events, pasted, presses>> /\ CoreUnchanged
       \/ Ends(id, "Failed", "Terminal", FALSE)

Paste(id) ==
    /\ At(id, "paste")
    /\ \/ /\ Reachable(id)
          /\ pasted' = [pasted EXCEPT ![worker[id].sub] = @ + 1] /\ Goto(id, "receipt")
          /\ UNCHANGED <<events, cells, presses>> /\ CoreUnchanged
       \/ Ends(id, "Failed", "Terminal", FALSE)

\* The paste's receipt, and the look at cancel_submit after it.
PasteReceipted(id) ==
    /\ At(id, "receipt")
    /\ \/ IF cells[id].cancel THEN Ends(id, "Blocked", "ComposerUnavailable", TRUE)
          ELSE Moves(id, "settle")
       \/ Ends(id, "Failed", "Terminal", FALSE)

\* Settlement, late settlement included: it may end without one, and must once
\* the late wait sees client input.
Settle(id) ==
    /\ At(id, "settle")
    /\ \/ IF cells[id].cancel THEN Ends(id, "Blocked", "ComposerUnavailable", TRUE)
          ELSE Reachable(id) /\ Moves(id, "enter")
       \/ Ends(id, "Blocked", "Recoverable", TRUE)
       \/ Ends(id, "Failed", "Terminal", TRUE)

\* write_submit_attempt: the key reaches the terminal before its receipt does.
Press(id, from, to) ==
    /\ At(id, from) /\ Reachable(id) /\ presses[id] < MaxPresses
    /\ presses' = [presses EXCEPT ![id] = @ + 1] /\ Goto(id, to)
    /\ UNCHANGED <<events, cells, pasted>> /\ CoreUnchanged

PressEnter(id) == Press(id, "enter", "submitted")

EnterFails(id) ==
    /\ At(id, "enter")
    /\ \/ Ends(id, "Blocked", "Recoverable", TRUE)   \* a half-written protocol reply
       \/ Ends(id, "Failed", "Recoverable", TRUE)    \* the write failed
       \/ Ends(id, "Failed", "Terminal", TRUE)

\* The receipt is exposed to Core before the event is.  A delivery into the
\* provider's queue ends here.
EnterReceipted(id) ==
    /\ At(id, "submitted")
    /\ cells' = [cells EXCEPT ![id].receipt = TRUE] /\ Goto(id, "report")
    /\ UNCHANGED <<events, pasted, presses>> /\ CoreUnchanged

EnterUnreceipted(id) == At(id, "submitted") /\ Ends(id, "Failed", "Recoverable", TRUE)

Report(id) ==
    /\ At(id, "report")
    /\ Send(Event(id, "Submitted", "none", TRUE))
    /\ IF worker[id].settle = "queue" THEN Stop(id) ELSE Goto(id, "ack")
    /\ UNCHANGED <<cells, pasted, presses>> /\ CoreUnchanged

Quits(id) ==
    /\ Stop(id)
    /\ UNCHANGED <<events, cells, pasted, presses>> /\ CoreUnchanged

\* recv_timeout on the acknowledgement channel, answered or disconnected.
Acknowledged(id) ==
    (At(id, "ack") \/ At(id, "again")) /\ cells[id].ack # "open" /\ Quits(id)

\* The wait timed out: one more look at the channel and at cancel_submit, then
\* the evidence for a retry (a wake needs none, a plain agent never has any).
AckTimesOut(id) ==
    /\ At(id, "ack")
    /\ IF cells[id].ack # "open" \/ cells[id].cancel THEN Quits(id)
       ELSE \/ /\ worker[id].sub \in Wakes \/ worker[id].settle = "composer"
               /\ Moves(id, "loop")
            \/ /\ worker[id].sub \notin Wakes
               /\ Ends(id, "ProviderAckTimedOut", "Terminal", FALSE)

\* The head of the retry loop.
Touched(id) ==
    \/ ~Reachable(id)
    \/ input[worker[id].session] # worker[id].input

RetryHead(id) ==
    /\ At(id, "loop")
    /\ IF cells[id].ack # "open" THEN Quits(id)
       ELSE IF cells[id].cancel \/ (worker[id].sub \in Wakes /\ Touched(id))
       THEN Ends(id, "ProviderAckTimedOut", "Terminal", FALSE)
       ELSE Moves(id, "retry")

PressAgain(id) == Press(id, "retry", "resubmitted")

RetryFails(id) ==
    /\ At(id, "retry") \/ At(id, "resubmitted")
    /\ \/ Ends(id, "SubmitRetryFailed", "Recoverable", TRUE)
       \/ Ends(id, "SubmitRetryFailed", "Terminal", TRUE)

RetryReceipted(id) ==
    /\ At(id, "resubmitted")
    /\ cells' = [cells EXCEPT ![id].receipt = TRUE] /\ Goto(id, "again")
    /\ Send(Event(id, "SubmitRetried", "none", TRUE))
    /\ UNCHANGED <<pasted, presses>> /\ CoreUnchanged

\* Only a wake's window lets the loop go round.
RetryTimesOut(id) ==
    /\ At(id, "again") /\ cells[id].ack = "open"
    /\ \/ worker[id].sub \in Wakes /\ presses[id] < MaxPresses /\ Moves(id, "loop")
       \/ Ends(id, "ProviderAckTimedOut", "Terminal", FALSE)

-----------------------------------------------------------------------------
Init ==
    /\ dels = [s \in Sessions |-> None] /\ nextId = 1
    /\ pending = [s \in Sessions |-> None] /\ deferred = [s \in Sessions |-> FALSE]
    /\ queue = [s \in Sessions |-> NoQueue]
    /\ obs \in [Sessions -> [epoch : {0, 1}, state : {"None"}, seq : {0},
                            progress : {FALSE}, composer : AgentKinds]]
    /\ cells = [id \in Ids |-> FreshCells] /\ worker = [id \in Ids |-> None]
    /\ events = <<>> /\ clock = [s \in Sessions |-> 0]
    /\ input = [s \in Sessions |-> [all |-> 0, edits |-> 0]]
    /\ pasted = [sub \in Submissions |-> 0] /\ presses = [id \in Ids |-> 0]
    /\ unsent = Submissions

WorkerStep(id) ==
    \/ ComposerShows(id) \/ ReadinessFails(id) \/ PasteGate(id) \/ MarkPaste(id)
    \/ Paste(id) \/ PasteReceipted(id) \/ Settle(id) \/ PressEnter(id)
    \/ EnterFails(id) \/ EnterReceipted(id) \/ EnterUnreceipted(id) \/ Report(id)
    \/ Acknowledged(id) \/ AckTimesOut(id) \/ RetryHead(id) \/ PressAgain(id)
    \/ RetryFails(id) \/ RetryReceipted(id) \/ RetryTimesOut(id)

CoreStep ==
    \/ \E how \in Hows : RecordEvent(how)
    \/ \E s \in Sessions, how \in Hows :
          \/ \E sub \in Submissions : Submit(s, sub, how)
          \/ \E sig \in Signals : Signal(s, sig, how)
          \/ HookResponded(s, how)
    \/ \E s \in Sessions :
          Restart(s) \/ Retire(s) \/ \E edit \in BOOLEAN : ClientInput(s, edit)

Next == CoreStep \/ \E id \in Ids : WorkerStep(id)

Spec == Init /\ [][Next]_vars

-----------------------------------------------------------------------------
\* A submission's content reaches the terminal at most once, whatever is
\* blocked, cancelled, retried or begun again ("never replay content").
NoReplay == \A sub \in Submissions : pasted[sub] <= 1

\* Content reaches the terminal twice in three ways only: the worker had passed its
\* last look at cancel_submit when Core cancelled the delivery, the record was evicted
\* at the limit of deliveries, or the feature of a confirmed submission failed to
\* complete and it stayed pending (complete_confirmed_generated_input).  No other
\* failure, timeout, retry, restart or replacement replays content.
PastedOnceUnlessForgotten ==
    \A sub \in Submissions :
        pasted[sub] > 1 => \E id \in Ids : cells[id].sub = sub /\ cells[id].forgotten

\* A delivery awaits the provider's acknowledgement only if its own worker
\* pressed Enter: the report of a replaced delivery never advances its
\* successor.
AwaitingMeansPressed ==
    \A s \in Sessions :
        dels[s] # None /\ dels[s].state = "AwaitingProviderAck" => presses[dels[s].id] > 0

\* Progress alone confirms a delivery only after that delivery pressed Enter,
\* although Core learns of the press from a cell, ahead of the event.
ProgressConfirmsAfterEnter ==
    \A s \in Sessions :
        dels[s] # None /\ dels[s].conf # None /\ dels[s].conf.by = "progress"
            => presses[dels[s].id] > 0

\* No delivery gets ahead of its own Enter: neither a late event of a replaced one
\* nor progress of the turn that is already running advances it.
AdvancesAfterEnter == AwaitingMeansPressed /\ ProgressConfirmsAfterEnter

\* A queued submission always has something in front of it whose end promotes
\* it: the pending submission, or a delivery that accepts no replacement.
NoStrandedQueue ==
    \A s \in Sessions :
        Live(s) /\ queue[s].epoch = obs[s].epoch /\ queue[s].subs # <<>>
            => pending[s] # None \/ ~Accepts(Core, s)

\* Confirmed is final: no late failure, timeout or restart of the worker's
\* report reopens a delivery the provider acknowledged.
ConfirmedIsFinal ==
    [][\A s \in Sessions :
          dels[s] # None /\ dels[s].state = "Confirmed"
            => \/ dels'[s] = None
               \/ dels'[s].id # dels[s].id
               \/ dels'[s].state = "Confirmed"]_vars

\* No delivery is left writing with nobody behind it: its worker still runs, or
\* the worker's last report is on its way to Core.  Whatever fails, cancels or
\* replaces a delivery, it reaches a verdict.
WritingIsDriven ==
    \A s \in Sessions :
        dels[s] # None /\ dels[s].state = "WritingPaste"
            => \/ worker[dels[s].id] # None
               \/ \E i \in 1..Len(events) : events[i].id = dels[s].id

\* Nothing is left without someone to move it: neither the queue behind a delivery nor
\* a delivery that is being written.  (What ends a delivery that awaits the provider's
\* acknowledgement after its worker quit, or a submission whose feature failed to
\* complete, is the next signal of the provider.)
NothingStranded == NoStrandedQueue /\ WritingIsDriven

=============================================================================
