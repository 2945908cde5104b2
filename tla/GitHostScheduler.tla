--------------------------- MODULE GitHostScheduler ---------------------------
(***************************************************************************)
(* GitHostQueryScheduler of the server: one task that coalesces queries to  *)
(* the Git host by key, queues each key once under its project, gives the   *)
(* projects turns, and runs at most two batches at a time.  A command holds *)
(* several jobs of one project; the task adds them all, then fills its free *)
(* slots.  A content read is a job whose group is its own key and whose     *)
(* batch limit is one.  What a query answers is left out: a batch that      *)
(* panics answers its keys with the timeout outcome, and is a completion    *)
(* like any other.                                                          *)
(***************************************************************************)
EXTENDS Integers, Sequences, FiniteSets, SequencesExt

CONSTANTS
    Callers,        \* tasks that schedule queries; each waits for its answers
    Projects, Keys,
    Group,          \* batch_group_key of a key
    BatchLimit,     \* batch_limit of a group
    None,
    MaxKeys,        \* MAX_GIT_HOST_INFLIGHT_KEYS
    MaxWaiters,     \* MAX_GIT_HOST_WAITERS_PER_KEY
    MaxRunning,     \* the two batches of the dispatch loop
    MaxStreak,      \* explicit turns before a background one: 3
    MaxCommands,    \* the capacity of the command channel: 256
    MaxJobs         \* bound: jobs of one command

VARIABLES
    commands,   \* the command channel
    entries,    \* entries: project, running, waiters of an in-flight key
    queues,     \* queues: explicit and background keys and the streak
    turns,      \* projects: the order of turns
    running,    \* running: the batches under way, as sets of keys
    waiting     \* the keys each caller still awaits an answer for

vars == <<commands, entries, queues, turns, running, waiting>>

NoQueue == [explicit |-> <<>>, background |-> <<>>, streak |-> 0]
Queued(q) == q.explicit # <<>> \/ q.background # <<>>

\* The scheduler's state, for the loops inside one of its steps.
Scheduler == [entries |-> entries, queues |-> queues, turns |-> turns,
              running |-> running, waiting |-> waiting]

Becomes(x) ==
    /\ entries' = x.entries /\ queues' = x.queues /\ turns' = x.turns
    /\ running' = x.running /\ waiting' = x.waiting

Answer(x, c, k) == [x EXCEPT !.waiting[c] = @ \ {k}]

\* An explicit request for a queued key moves the key to the front of the
\* explicit queue of the project that asked for it first.
Promote(x, k) ==
    LET p == x.entries[k].project IN
    [x EXCEPT !.queues[p].background = SelectSeq(@, LAMBDA q : q # k),
              !.queues[p].explicit = IF Contains(@, k) THEN @ ELSE <<k>> \o @]

\* A key already in flight takes one more waiter.
Join(x, k, cmd) ==
    LET j == IF Cardinality(x.entries[k].waiters) < MaxWaiters
             THEN [x EXCEPT !.entries[k].waiters = @ \cup {cmd.caller}]
             ELSE Answer(x, cmd.caller, k)
    IN  IF cmd.explicit /\ ~x.entries[k].running /\ Queued(x.queues[x.entries[k].project])
        THEN Promote(j, k) ELSE j

Enter(x, k, cmd) ==
    LET p == cmd.project
        listed == Queued(x.queues[p]) \/ Contains(x.turns, p)
    IN  [x EXCEPT !.entries[k] = [project |-> p, running |-> FALSE, waiters |-> {cmd.caller}],
                  !.turns = IF listed THEN @ ELSE Append(@, p),
                  !.queues[p].explicit = IF cmd.explicit THEN Append(@, k) ELSE @,
                  !.queues[p].background = IF cmd.explicit THEN @ ELSE Append(@, k)]

Add(x, k, cmd) ==
    IF x.entries[k] # None THEN Join(x, k, cmd)
    ELSE IF Cardinality({j \in Keys : x.entries[j] # None}) >= MaxKeys
         THEN Answer(x, cmd.caller, k)
    ELSE Enter(x, k, cmd)

-----------------------------------------------------------------------------
\* choose_git_host_background
TakesBackground(q) ==
    q.background # <<>> /\ (q.explicit = <<>> \/ q.streak >= MaxStreak)

\* The keys of one batch: the head of the selected queue and the keys of its
\* group behind it, up to the group's limit.
Batch(x, selected) ==
    LET ready == SelectSeq(selected, LAMBDA k : x.entries[k] # None /\ ~x.entries[k].running)
        group == Group[Head(ready)]
        alike == SelectSeq(ready, LAMBDA k : Group[k] = group)
        limit == BatchLimit[group]
    IN  IF ready = <<>> THEN {}
        ELSE ToSet(SubSeq(alike, 1, IF Len(alike) < limit THEN Len(alike) ELSE limit))

Requeued(x, q, p) ==
    IF Queued(q) THEN [x EXCEPT !.queues[p] = q, !.turns = Append(Tail(@), p)]
    ELSE [x EXCEPT !.queues[p] = NoQueue, !.turns = Tail(@)]

\* One turn of take_git_host_query_batch: the first project of the list gives a
\* batch, is listed again at the end if keys are left, and counts the streak.
Turn(x) ==
    LET p == Head(x.turns)
        q == x.queues[p]
        back == TakesBackground(q)
        batch == Batch(x, IF back THEN q.background ELSE q.explicit)
        left(seq) == SelectSeq(seq, LAMBDA k : k \notin batch)
        kept == [explicit   |-> IF back THEN q.explicit ELSE left(q.explicit),
                 background |-> IF back THEN left(q.background) ELSE q.background,
                 streak     |-> IF back THEN 0
                                ELSE IF q.streak < MaxStreak THEN q.streak + 1 ELSE q.streak]
    IN  [Requeued(x, kept, p) EXCEPT
            !.entries = [k \in Keys |-> IF k \in batch THEN [@[k] EXCEPT !.running = TRUE]
                                        ELSE @[k]],
            !.running = IF batch = {} THEN @ ELSE @ \cup {batch}]

\* Turns go round the list until one gives a batch.
TakeBatch(x) ==
    FoldLeft(LAMBDA y, p : IF y.running # x.running THEN y ELSE Turn(y), x, x.turns)

\* The loop after every step fills the free slots.
DispatchOnce(x) == IF Cardinality(x.running) < MaxRunning THEN TakeBatch(x) ELSE x

Dispatch(x) == FoldLeft(LAMBDA y, i : DispatchOnce(y), x, [i \in 1..MaxRunning |-> i])

-----------------------------------------------------------------------------
\* schedule, schedule_content; the send waits while the channel is full.
Schedule(c, p, explicit, ks) ==
    /\ waiting[c] = {}
    /\ Len(commands) < MaxCommands
    /\ commands' = Append(commands, [caller |-> c, project |-> p, explicit |-> explicit,
                                     jobs |-> ks])
    /\ waiting' = [waiting EXCEPT ![c] = ToSet(ks)]
    /\ UNCHANGED <<entries, queues, turns, running>>

Receive ==
    /\ commands # <<>>
    /\ LET cmd == Head(commands) IN
       \E x \in {Dispatch(FoldLeft(LAMBDA y, k : Add(y, k, cmd), Scheduler, cmd.jobs))} :
           Becomes(x)
    /\ commands' = Tail(commands)

SettledFirstWaiter(x, batch) ==
    [x EXCEPT !.running = @ \ {batch},
              !.entries = [k \in Keys |-> IF k \in batch THEN None ELSE @[k]],
              !.waiting = [c \in Callers |->
                  @[c] \ {k \in batch : x.entries[k] # None
                              /\ c = CHOOSE d \in x.entries[k].waiters : TRUE}]]

\* A batch ends: its entries go, and every waiter gets the outcome.
Settled(x, batch) ==
    [x EXCEPT !.running = @ \ {batch},
              !.entries = [k \in Keys |-> IF k \in batch THEN None ELSE @[k]],
              !.waiting = [c \in Callers |->
                  @[c] \ {k \in batch : x.entries[k] # None /\ c \in x.entries[k].waiters}]]

Complete(batch) ==
    /\ \E x \in {Dispatch(Settled(Scheduler, batch))} : Becomes(x)
    /\ UNCHANGED commands

-----------------------------------------------------------------------------
Jobs == {ks \in UNION {[1..n -> Keys] : n \in 1..MaxJobs} : IsInjective(ks)}

Init ==
    /\ commands = <<>> /\ entries = [k \in Keys |-> None]
    /\ queues = [p \in Projects |-> NoQueue] /\ turns = <<>>
    /\ running = {} /\ waiting = [c \in Callers |-> {}]

Next ==
    \/ \E c \in Callers, p \in Projects, e \in BOOLEAN, ks \in Jobs : Schedule(c, p, e, ks)
    \/ Receive
    \/ \E batch \in running : Complete(batch)

Spec == Init /\ [][Next]_vars

-----------------------------------------------------------------------------
\* A key is queried by at most one batch at a time, however many callers and
\* projects ask for it, and at most two batches run.
SingleFlight ==
    /\ Cardinality(running) <= MaxRunning
    /\ \A b, d \in running : b # d => b \cap d = {}
    /\ \A k \in Keys : (\E b \in running : k \in b)
                          <=> (entries[k] # None /\ entries[k].running)

\* A key in flight that does not run yet stands exactly once in the queues of
\* its project, and that project has a turn coming.
QueuedOnce ==
    \A k \in Keys :
        entries[k] # None /\ ~entries[k].running =>
            LET q == queues[entries[k].project]
                all == q.explicit \o q.background
            IN  /\ Cardinality({i \in 1..Len(all) : all[i] = k}) = 1
                /\ Contains(turns, entries[k].project)

\* Nobody is forgotten: a caller that still waits for a key stands among the
\* waiters of that key, or its command has not been received.
NoForgottenWaiter ==
    \A c \in Callers : \A k \in waiting[c] :
        \/ entries[k] # None /\ c \in entries[k].waiters
        \/ \E i \in 1..Len(commands) : commands[i].caller = c

=============================================================================
