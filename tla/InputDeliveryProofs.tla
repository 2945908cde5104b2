------------------------ MODULE InputDeliveryProofs ------------------------
(***************************************************************************)
(* Generated input delivery, proved for any number of sessions,            *)
(* submissions, deliveries, signals and restarts, and any limits.          *)
(*                                                                         *)
(* Core's handlers are chains of operators on a record k of Core's state.  *)
(* The inductive invariant is therefore stated of such a record, with the  *)
(* events, the presses and the unsent submissions as further parameters,   *)
(* and shown to be kept by each operator of the chains.                    *)
(***************************************************************************)
EXTENDS InputDelivery, TLAPS, WellFoundedInduction

CoreState ==
  [dels : [Sessions -> Delivery \cup {None}], next : Nat \ {0},
   pending : [Sessions -> Submissions \cup {None}], deferred : [Sessions -> BOOLEAN],
   queue : [Sessions -> [epoch : Nat, subs : Seq(Submissions)]],
   obs : [Sessions -> Observation], cells : [Ids -> Cell],
   worker : [Ids -> Worker \cup {None}], pasted : [Submissions -> Nat],
   changed : BOOLEAN, err : BOOLEAN]

\* The worker has not yet marked its paste; it has not yet reported; it has pressed
\* Enter.
Unmarked == {"ready", "gate", "mark"}
Unreported == Unmarked \cup {"paste", "receipt", "settle", "enter", "submitted", "report"}
Pressed == {"submitted", "report", "ack", "loop", "retry", "resubmitted", "again"}
Deciding == {"Submitted", "Blocked", "Failed"}

-----------------------------------------------------------------------------
(* The inductive invariant *)

\* Ids are handed out in order, and a record is of its session's terminal generation.
IdsOnRecord(k, ev) ==
  /\ \A s \in Sessions : k.dels[s] # None =>
       k.dels[s].id < k.next /\ k.dels[s].epoch = k.obs[s].epoch
  /\ \A id \in Ids : id >= k.next => k.worker[id] = None /\ k.cells[id] = FreshCells
  /\ \A i \in 1..Len(ev) : ev[i].id < k.next

\* Where a worker is says what it has done.
WorkersOnRecord(k, ev, pr) ==
  /\ \A id \in Ids : k.worker[id] # None =>
       /\ k.worker[id].sub = k.cells[id].sub
       /\ k.cells[id].paste <=> k.worker[id].pc \notin Unmarked
       /\ k.worker[id].pc \in Pressed => pr[id] > 0
       /\ k.worker[id].pc \in Unreported => \A i \in 1..Len(ev) : ev[i].id # id
  /\ \A id \in Ids : k.cells[id].receipt => pr[id] > 0
  /\ \A i \in 1..Len(ev) :
       ev[i].receipt \/ ev[i].outcome = "Submitted" => pr[ev[i].id] > 0

\* AdvancesAfterEnter
AfterEnter(k, pr) ==
  \A s \in Sessions : k.dels[s] # None =>
    /\ k.dels[s].state = "AwaitingProviderAck" => pr[k.dels[s].id] > 0
    /\ k.dels[s].conf # None /\ k.dels[s].conf.by = "progress" => pr[k.dels[s].id] > 0

\* The worker that will decide, or the event that decides, about a delivery that is
\* being written.
DrivenBy(d, s, k, ev) ==
  \/ /\ k.worker[d.id] # None /\ k.worker[d.id].pc \in Unreported
     /\ k.worker[d.id].session = s /\ k.worker[d.id].epoch = d.epoch
  \/ \E i \in 1..Len(ev) : /\ ev[i].id = d.id /\ ev[i].outcome \in Deciding
                           /\ ev[i].session = s /\ ev[i].epoch = d.epoch

Driven(k, ev) ==
  \A s \in Sessions :
    k.dels[s] # None /\ k.dels[s].state = "WritingPaste" => DrivenBy(k.dels[s], s, k, ev)

\* A worker that may still paste and was not cancelled serves the delivery of its
\* session, for the pending submission.
Serves(k) ==
  \A id \in Ids :
    k.worker[id] # None /\ k.worker[id].pc \in Unmarked /\ ~k.cells[id].cancel =>
      LET s == k.worker[id].session IN
      /\ k.dels[s] # None /\ k.dels[s].id = id /\ k.dels[s].state = "WritingPaste"
      /\ k.pending[s] = k.worker[id].sub

\* Without a pending submission the session accepts one, and nothing is queued.
QueueCovered(k) ==
  \A s \in Sessions :
    /\ k.queue[s].epoch <= k.obs[s].epoch
    /\ k.pending[s] = None =>
         /\ k.dels[s] # None => k.dels[s].state \in AcceptsReplacement
         /\ k.queue[s].epoch = k.obs[s].epoch => k.queue[s].subs = <<>>
    /\ k.obs[s].epoch = 0 =>
         k.dels[s] = None /\ k.pending[s] = None /\ k.queue[s] = NoQueue

Queued(k, s, sub) == \E i \in 1..Len(k.queue[s].subs) : k.queue[s].subs[i] = sub

\* A submission is in one place, and has not been begun while it is unsent or queued.
OnePlace(k, un) ==
  /\ \A s, t \in Sessions :
       k.pending[s] # None => /\ k.pending[s] \notin un
                              /\ k.pending[s] = k.pending[t] => s = t
                              /\ ~Queued(k, t, k.pending[s])
  /\ \A s, t \in Sessions : \A i \in 1..Len(k.queue[s].subs) :
       /\ k.queue[s].subs[i] \notin un
       /\ \A j \in 1..Len(k.queue[t].subs) :
            k.queue[s].subs[i] = k.queue[t].subs[j] => s = t /\ i = j
       /\ \A id \in Ids : k.cells[id].sub # k.queue[s].subs[i]
  /\ \A id \in Ids : k.cells[id].sub \notin un

\* The deliveries that wrote a submission's content, or are about to.
Wrote(k, id, sub) == k.cells[id].sub = sub /\ k.cells[id].paste
Forgotten(k, sub) == \E id \in Ids : k.cells[id].sub = sub /\ k.cells[id].forgotten

\* The count of pastes is that of the deliveries that wrote.
PastesCounted(k) ==
  /\ \A sub \in Submissions : k.pasted[sub] > 0 => \E id \in Ids : Wrote(k, id, sub)
  /\ \A sub \in Submissions : \A i, j \in Ids :
       Wrote(k, i, sub) /\ Wrote(k, j, sub) /\ i # j => Forgotten(k, sub)
  /\ \A sub \in Submissions : \A id \in Ids :
       Wrote(k, id, sub) /\ ~Forgotten(k, sub) =>
         /\ k.pasted[sub] <= 1
         /\ k.worker[id] # None /\ k.worker[id].pc = "paste" => k.pasted[sub] = 0

\* Core knows that the pending submission was written, unless that was forgotten: the
\* session's delivery is the one that wrote, and it accepts no replacement, except
\* between its confirmation and the completion that follows.
Known(k, s, ok) ==
  k.pending[s] # None /\ (\E id \in Ids : Wrote(k, id, k.pending[s])) =>
    \/ Forgotten(k, k.pending[s])
    \/ /\ k.dels[s] # None /\ Wrote(k, k.dels[s].id, k.pending[s])
       /\ \/ k.dels[s].state \notin AcceptsReplacement
          \/ ok /\ k.dels[s].state \in {"Confirmed", "ConfirmedUnattributed"}

WritesKnown(k) == \A s \in Sessions : Known(k, s, FALSE)
WritesKnownOrDone(k, s) == \A t \in Sessions : Known(k, t, k.changed /\ t = s)

Sound(k, ev, pr, un) ==
  /\ IdsOnRecord(k, ev) /\ WorkersOnRecord(k, ev, pr) /\ AfterEnter(k, pr)
  /\ Driven(k, ev) /\ Serves(k) /\ QueueCovered(k) /\ OnePlace(k, un)
  /\ PastesCounted(k)

DeliveryInv == TypeOK /\ Sound(Core, events, presses, unsent) /\ WritesKnown(Core)

-----------------------------------------------------------------------------
(* Kinds of steps of a chain *)

\* What only grows in the cells: a cancellation, and a receipt after a press.
CellsKept(k, n, pr) ==
  \A id \in Ids :
    /\ n.cells[id].sub = k.cells[id].sub /\ n.cells[id].paste = k.cells[id].paste
    /\ n.cells[id].forgotten = k.cells[id].forgotten
    /\ k.cells[id].cancel => n.cells[id].cancel
    /\ n.cells[id].receipt => k.cells[id].receipt \/ pr[id] > 0
    /\ id >= k.next => n.cells[id] = k.cells[id]

\* A record moves on to another state, keeping its id.
Advances(d, n, k, pr) ==
  /\ n.id = d.id /\ n.epoch = d.epoch
  /\ d.state = "Confirmed" => n.state = "Confirmed"
  /\ n.state = "AwaitingProviderAck" => d.state = "AwaitingProviderAck" \/ pr[d.id] > 0
  /\ n.conf # None /\ n.conf.by = "progress" => n.conf = d.conf \/ pr[d.id] > 0
  /\ n.state = "WritingPaste" => d.state = "WritingPaste"
  /\ d.state = "WritingPaste" /\ n.state # "WritingPaste" =>
       \/ k.cells[d.id].cancel
       \/ k.worker[d.id] = None \/ k.worker[d.id].pc \notin Unmarked
  /\ d.state \in AcceptsReplacement => n.state \in AcceptsReplacement
  /\ n.state \in AcceptsReplacement /\ n.state # d.state =>
       k.changed /\ n.state \in {"Confirmed", "ConfirmedUnattributed"}

\* Core learns something about the delivery of s.
Restates(k, n, s, pr) ==
  /\ n \in CoreState
  /\ n.next = k.next /\ n.pending = k.pending /\ n.queue = k.queue
  /\ n.worker = k.worker /\ n.pasted = k.pasted
  /\ k.changed => n.changed
  /\ \A t \in Sessions : n.obs[t].epoch = k.obs[t].epoch
  /\ \A t \in Sessions \ {s} : n.dels[t] = k.dels[t]
  /\ CellsKept(k, n, pr)
  /\ \/ n.dels[s] = k.dels[s]
     \/ /\ k.dels[s] # None /\ n.dels[s] # None
        /\ Advances(k.dels[s], n.dels[s], n, pr)

\* A record that is Confirmed keeps its id and stays so, until it goes.
Kept(o, k) ==
  /\ o.next <= k.next
  /\ \A s \in Sessions : o.dels[s] # None /\ o.dels[s].state = "Confirmed" =>
       \/ k.dels[s] = None
       \/ k.dels[s].id >= o.next
       \/ k.dels[s].id = o.dels[s].id /\ k.dels[s].state = "Confirmed"

LEMMA RestateSound ==
  ASSUME NEW k \in CoreState, NEW n, NEW s \in Sessions, NEW pr \in [Ids -> Nat],
         NEW ev \in Seq(TransportEvent), NEW un \in SUBSET Submissions,
         Sound(k, ev, pr, un), Restates(k, n, s, pr)
  PROVE  Sound(n, ev, pr, un)
<1> USE DEF Restates
<1>1. IdsOnRecord(n, ev)
  BY DEF Sound, IdsOnRecord, CellsKept, Advances
<1>2. WorkersOnRecord(n, ev, pr)
  BY DEF Sound, WorkersOnRecord, CellsKept
<1>3. AfterEnter(n, pr)
  <2> SUFFICES ASSUME NEW t \in Sessions, n.dels[t] # None
               PROVE  /\ n.dels[t].state = "AwaitingProviderAck" => pr[n.dels[t].id] > 0
                      /\ n.dels[t].conf # None /\ n.dels[t].conf.by = "progress" =>
                           pr[n.dels[t].id] > 0
    BY DEF AfterEnter
  <2>1. k.dels[t] # None =>
          /\ k.dels[t].state = "AwaitingProviderAck" => pr[k.dels[t].id] > 0
          /\ k.dels[t].conf # None /\ k.dels[t].conf.by = "progress" => pr[k.dels[t].id] > 0
    BY DEF Sound, AfterEnter
  <2>2. CASE n.dels[t] = k.dels[t]
    BY <2>1, <2>2
  <2>3. CASE n.dels[t] # k.dels[t]
    <3>1. t = s /\ k.dels[s] # None /\ Advances(k.dels[s], n.dels[s], n, pr)
      BY <2>3
    <3> QED BY <3>1, <2>1 DEF Advances
  <2> QED BY <2>2, <2>3
<1>4. Driven(n, ev)
  <2> SUFFICES ASSUME NEW t \in Sessions, n.dels[t] # None, n.dels[t].state = "WritingPaste"
               PROVE  DrivenBy(n.dels[t], t, n, ev)
    BY DEF Driven
  <2>1. /\ k.dels[t] # None /\ k.dels[t].state = "WritingPaste"
        /\ n.dels[t].id = k.dels[t].id /\ n.dels[t].epoch = k.dels[t].epoch
    BY DEF Advances
  <2>2. DrivenBy(k.dels[t], t, k, ev)
    BY <2>1 DEF Sound, Driven
  <2> QED BY <2>1, <2>2 DEF DrivenBy
<1>5. Serves(n)
  <2> SUFFICES ASSUME NEW id \in Ids, n.worker[id] # None,
                      n.worker[id].pc \in Unmarked, ~n.cells[id].cancel
               PROVE  LET t == n.worker[id].session IN
                      /\ n.dels[t] # None /\ n.dels[t].id = id
                      /\ n.dels[t].state = "WritingPaste"
                      /\ n.pending[t] = n.worker[id].sub
    BY DEF Serves
  <2> DEFINE t == n.worker[id].session
  <2>1. k.worker[id] = n.worker[id] /\ ~k.cells[id].cancel /\ t \in Sessions
    BY DEF CellsKept, CoreState, Worker
  <2>2. /\ k.dels[t] # None /\ k.dels[t].id = id /\ k.dels[t].state = "WritingPaste"
        /\ k.pending[t] = n.worker[id].sub
    BY <2>1 DEF Sound, Serves
  <2>3. CASE n.dels[t] = k.dels[t]
    BY <2>2, <2>3
  <2>4. CASE n.dels[t] # k.dels[t]
    <3>1. t = s /\ n.dels[s] # None /\ Advances(k.dels[s], n.dels[s], n, pr)
      BY <2>1, <2>4
    <3> QED BY <3>1, <2>2 DEF Advances
  <2> QED BY <2>3, <2>4
<1>6. QueueCovered(n)
  BY DEF Sound, QueueCovered, Advances
<1>7. OnePlace(n, un)
  BY DEF Sound, OnePlace, Queued, CellsKept
<1>8. PastesCounted(n)
  <2>1. \A id \in Ids, sub \in Submissions : Wrote(n, id, sub) <=> Wrote(k, id, sub)
    BY DEF CellsKept, Wrote
  <2>2. \A sub \in Submissions : Forgotten(n, sub) <=> Forgotten(k, sub)
    BY DEF CellsKept, Forgotten
  <2> QED BY <2>1, <2>2 DEF Sound, PastesCounted
<1> QED BY <1>1, <1>2, <1>3, <1>4, <1>5, <1>6, <1>7, <1>8 DEF Sound

LEMMA RestateKnown ==
  ASSUME NEW k \in CoreState, NEW n, NEW s \in Sessions, NEW pr \in [Ids -> Nat],
         WritesKnownOrDone(k, s), Restates(k, n, s, pr)
  PROVE  WritesKnownOrDone(n, s)
<1> SUFFICES ASSUME NEW t \in Sessions, n.pending[t] # None, ~Forgotten(n, n.pending[t]),
                    NEW id \in Ids, Wrote(n, id, n.pending[t])
             PROVE  /\ n.dels[t] # None /\ Wrote(n, n.dels[t].id, n.pending[t])
                    /\ \/ n.dels[t].state \notin AcceptsReplacement
                       \/ /\ n.changed /\ t = s
                          /\ n.dels[t].state \in {"Confirmed", "ConfirmedUnattributed"}
  BY DEF WritesKnownOrDone, Known
<1>1. \A i \in Ids : \A sub : Wrote(n, i, sub) <=> Wrote(k, i, sub)
  BY DEF Restates, CellsKept, Wrote
<1>2. \A sub : Forgotten(n, sub) <=> Forgotten(k, sub)
  BY DEF Restates, CellsKept, Forgotten
<1>3. n.pending[t] = k.pending[t] /\ (k.changed => n.changed)
  BY DEF Restates
<1>4. /\ k.dels[t] # None /\ Wrote(k, k.dels[t].id, n.pending[t])
      /\ \/ k.dels[t].state \notin AcceptsReplacement
         \/ /\ k.changed /\ t = s
            /\ k.dels[t].state \in {"Confirmed", "ConfirmedUnattributed"}
  BY <1>1, <1>2, <1>3 DEF WritesKnownOrDone, Known
<1>5. k.dels[t].id \in Ids
  BY <1>4 DEF CoreState, Delivery
<1>6. CASE n.dels[t] = k.dels[t]
  BY <1>1, <1>3, <1>4, <1>5, <1>6
<1>7. CASE n.dels[t] # k.dels[t]
  <2>1. t = s /\ n.dels[s] # None /\ Advances(k.dels[s], n.dels[s], n, pr)
    BY <1>7 DEF Restates
  <2> QED BY <2>1, <1>1, <1>3, <1>4, <1>5 DEF Advances, AcceptsReplacement
<1> QED BY <1>6, <1>7

LEMMA RestateStrict ==
  ASSUME NEW k \in CoreState, NEW n, NEW s \in Sessions, NEW pr \in [Ids -> Nat],
         WritesKnown(k), Restates(k, n, s, pr),
         n.dels[s] = k.dels[s] \/ n.dels[s].state \notin AcceptsReplacement
  PROVE  WritesKnown(n)
<1> SUFFICES ASSUME NEW t \in Sessions, n.pending[t] # None, ~Forgotten(n, n.pending[t]),
                    NEW id \in Ids, Wrote(n, id, n.pending[t])
             PROVE  /\ n.dels[t] # None /\ Wrote(n, n.dels[t].id, n.pending[t])
                    /\ n.dels[t].state \notin AcceptsReplacement
  BY DEF WritesKnown, Known
<1>1. \A i \in Ids : \A sub : Wrote(n, i, sub) <=> Wrote(k, i, sub)
  BY DEF Restates, CellsKept, Wrote
<1>2. \A sub : Forgotten(n, sub) <=> Forgotten(k, sub)
  BY DEF Restates, CellsKept, Forgotten
<1>3. n.pending[t] = k.pending[t]
  BY DEF Restates
<1>4. /\ k.dels[t] # None /\ Wrote(k, k.dels[t].id, n.pending[t])
      /\ k.dels[t].state \notin AcceptsReplacement
  BY <1>1, <1>2, <1>3 DEF WritesKnown, Known
<1>5. k.dels[t].id \in Ids
  BY <1>4 DEF CoreState, Delivery
<1>6. CASE n.dels[t] = k.dels[t]
  BY <1>1, <1>3, <1>4, <1>5, <1>6
<1>7. CASE n.dels[t] # k.dels[t]
  <2>1. t = s /\ n.dels[s] # None /\ Advances(k.dels[s], n.dels[s], n, pr)
    BY <1>7 DEF Restates
  <2> QED BY <2>1, <1>1, <1>3, <1>4, <1>5, <1>7 DEF Advances
<1> QED BY <1>6, <1>7

LEMMA RestateKept ==
  ASSUME NEW k \in CoreState, NEW n, NEW s \in Sessions, NEW pr \in [Ids -> Nat],
         NEW o \in CoreState, Kept(o, k), Restates(k, n, s, pr)
  PROVE  Kept(o, n)
BY DEF Restates, Kept, Advances

-----------------------------------------------------------------------------
(* Provider evidence *)

\* Only cells of the delivery id, and of those the cancellation and the channel.
CellTouched(k, n, id) ==
  /\ n \in CoreState
  /\ n.dels = k.dels /\ n.next = k.next /\ n.pending = k.pending
  /\ n.deferred = k.deferred /\ n.queue = k.queue /\ n.obs = k.obs
  /\ n.worker = k.worker /\ n.pasted = k.pasted /\ n.changed = k.changed /\ n.err = k.err
  /\ \A j \in Ids \ {id} : n.cells[j] = k.cells[j]
  /\ n.cells[id].sub = k.cells[id].sub /\ n.cells[id].paste = k.cells[id].paste
  /\ n.cells[id].receipt = k.cells[id].receipt
  /\ n.cells[id].forgotten = k.cells[id].forgotten
  /\ k.cells[id].cancel => n.cells[id].cancel

\* Writes that touch only the cell id.
LEMMA CellWritten ==
  ASSUME NEW k \in CoreState, NEW id \in Ids, NEW cell \in Cell, NEW n,
         n = [k EXCEPT !.cells[id] = cell],
         cell.sub = k.cells[id].sub, cell.paste = k.cells[id].paste,
         cell.receipt = k.cells[id].receipt, cell.forgotten = k.cells[id].forgotten,
         cell.cancel = k.cells[id].cancel \/ cell.cancel = TRUE
  PROVE  CellTouched(k, n, id) /\ n.cells[id] = cell
<1> DEFINE c == [k.cells EXCEPT ![id] = cell]
<1>1. k.cells \in [Ids -> Cell]
  BY DEF CoreState
<1>2. c \in [Ids -> Cell] /\ c[id] = cell /\ \A j \in Ids \ {id} : c[j] = k.cells[j]
  BY <1>1
<1>3. n = [k EXCEPT !.cells = c]
  BY DEF CoreState
<1> HIDE DEF c
<1>4. n \in CoreState /\ n.cells = c
  BY <1>2, <1>3 DEF CoreState
<1>5. /\ n.dels = k.dels /\ n.next = k.next /\ n.pending = k.pending
      /\ n.deferred = k.deferred /\ n.queue = k.queue /\ n.obs = k.obs
      /\ n.worker = k.worker /\ n.pasted = k.pasted /\ n.changed = k.changed /\ n.err = k.err
  BY <1>3 DEF CoreState
<1> QED BY <1>2, <1>4, <1>5 DEF CellTouched

LEMMA CloseAckTouches ==
  ASSUME NEW k \in CoreState, NEW id \in Ids
  PROVE  CellTouched(k, CloseAck(k, id), id)
<1> DEFINE cell == [k.cells[id] EXCEPT !.ack = IF @ = "open" THEN "closed" ELSE @]
<1>1. k.cells[id] \in Cell
  BY DEF CoreState
<1>2. /\ cell \in Cell /\ cell.sub = k.cells[id].sub /\ cell.paste = k.cells[id].paste
      /\ cell.receipt = k.cells[id].receipt /\ cell.forgotten = k.cells[id].forgotten
      /\ cell.cancel = k.cells[id].cancel
  BY <1>1 DEF Cell
<1>3. CloseAck(k, id) = [k EXCEPT !.cells[id] = cell]
  BY DEF CloseAck, CoreState
<1> HIDE DEF cell
<1> QED BY <1>2, <1>3, CellWritten

LEMMA SignalAckTouches ==
  ASSUME NEW k \in CoreState, NEW id \in Ids
  PROVE  CellTouched(k, SignalAck(k, id), id)
<1> DEFINE cell == [k.cells[id] EXCEPT !.ack = IF @ = "open" THEN "sent" ELSE @]
<1>1. k.cells[id] \in Cell
  BY DEF CoreState
<1>2. /\ cell \in Cell /\ cell.sub = k.cells[id].sub /\ cell.paste = k.cells[id].paste
      /\ cell.receipt = k.cells[id].receipt /\ cell.forgotten = k.cells[id].forgotten
      /\ cell.cancel = k.cells[id].cancel
  BY <1>1 DEF Cell
<1>3. SignalAck(k, id) = [k EXCEPT !.cells[id] = cell]
  BY DEF SignalAck, CoreState
<1> HIDE DEF cell
<1> QED BY <1>2, <1>3, CellWritten

LEMMA CancelTouches ==
  ASSUME NEW k \in CoreState, NEW id \in Ids
  PROVE  CellTouched(k, Cancel(k, id), id) /\ Cancel(k, id).cells[id].cancel
<1> DEFINE cell == [k.cells[id] EXCEPT !.cancel = TRUE]
<1>1. k.cells[id] \in Cell
  BY DEF CoreState
<1>2. /\ cell \in Cell /\ cell.sub = k.cells[id].sub /\ cell.paste = k.cells[id].paste
      /\ cell.receipt = k.cells[id].receipt /\ cell.forgotten = k.cells[id].forgotten
      /\ cell.cancel = TRUE
  BY <1>1 DEF Cell
<1>3. Cancel(k, id) = [k EXCEPT !.cells[id] = cell]
  BY DEF Cancel, CoreState
<1> HIDE DEF cell
<1>4. CellTouched(k, Cancel(k, id), id)
  BY <1>2, <1>3, CellWritten
<1>5. Cancel(k, id).cells[id] = cell
  BY <1>2, <1>3 DEF CoreState
<1> QED BY <1>2, <1>4, <1>5

LEMMA TouchesKeep ==
  ASSUME NEW k \in CoreState, NEW n, NEW s \in Sessions, NEW pr,
         k.dels[s] # None, k.dels[s].id < k.next, CellTouched(k, n, k.dels[s].id)
  PROVE  Restates(k, n, s, pr)
BY DEF Restates, CellTouched, CellsKept, CoreState, Delivery, Ids


\* Core after the cells of the session's delivery were touched (c), with another record.
Rewritten(c, s, d, changed) == [c EXCEPT !.dels[s] = d, !.changed = changed]

LEMMA RewrittenRestates ==
  ASSUME NEW k \in CoreState, NEW c, NEW s \in Sessions, NEW d \in Delivery,
         NEW b \in BOOLEAN, NEW pr,
         k.dels[s] # None, k.dels[s].id < k.next, CellTouched(k, c, k.dels[s].id),
         k.changed => b, Advances(k.dels[s], d, Rewritten(c, s, d, b), pr)
  PROVE  Restates(k, Rewritten(c, s, d, b), s, pr)
<1> DEFINE n == Rewritten(c, s, d, b)
<1>1. d # None
  BY NoneAssumption
<1>2. /\ n \in CoreState /\ n.dels[s] = d
      /\ n.next = c.next /\ n.pending = c.pending /\ n.queue = c.queue /\ n.obs = c.obs
      /\ n.worker = c.worker /\ n.pasted = c.pasted /\ n.cells = c.cells
      /\ n.changed = b
      /\ \A t \in Sessions \ {s} : n.dels[t] = c.dels[t]
  BY DEF Rewritten, CellTouched, CoreState
<1>3. k.dels[s].id \in Ids /\ k.next \in Nat /\ Ids \subseteq Nat
  BY DeliveryBounds DEF CoreState, Delivery, Ids
<1>4. Advances(k.dels[s], n.dels[s], n, pr)
  BY <1>2
<1>5. Restates(k, n, s, pr)
  <2> HIDE DEF n
  <2>1. CellsKept(k, n, pr)
    BY <1>2, <1>3 DEF CellsKept, CellTouched
  <2> QED BY <1>1, <1>2, <1>4, <2>1 DEF Restates, CellTouched
<1> QED BY <1>5

\* The updates of a record that the handlers write.
LEMMA UpdateConf ==
  ASSUME NEW c \in CoreState, NEW s \in Sessions, NEW v
  PROVE  [c EXCEPT !.dels[s].conf = v]
           = Rewritten(c, s, [c.dels[s] EXCEPT !.conf = v], c.changed)
BY DEF Rewritten, CoreState

LEMMA SameRestates ==
  ASSUME NEW k \in CoreState, NEW s \in Sessions, NEW pr
  PROVE  Restates(k, k, s, pr)
BY DEF Restates, CellsKept

LEMMA ConfirmSubmissionRestates ==
  ASSUME NEW k \in CoreState, NEW s \in Sessions, NEW seq \in Nat, NEW pr, NEW ev,
         IdsOnRecord(k, ev), input \in [Sessions -> Input]
  PROVE  Restates(k, ConfirmSubmission(k, s, seq), s, pr)
<1> DEFINE d == k.dels[s]
           conf == [seq |-> seq, clean |-> Clean(d, s), by |-> "prompt"]
           c == SignalAck(k, d.id)
           n == ConfirmSubmission(k, s, seq)
<1>1. CASE n = k
  BY <1>1, SameRestates
<1>2. CASE n # k
  <2>1. d # None /\ d \in Delivery /\ d.id \in Ids /\ d.id < k.next
    <3>1. d # None
      BY <1>2 DEF ConfirmSubmission
    <3>2. d \in Delivery
      BY <3>1 DEF CoreState
    <3> QED BY <3>1, <3>2 DEF Delivery, IdsOnRecord
  <2>2. CellTouched(k, c, d.id)
    BY <2>1, SignalAckTouches
  <2>3. c \in CoreState /\ c.dels = k.dels /\ c.changed = k.changed
    BY <2>2 DEF CellTouched
  <2>4. /\ conf \in Confirmation /\ conf.by = "prompt"
        /\ NewerConfirmation(d, conf) \in {d.conf, conf}
        /\ NewerConfirmation(d, conf) \in Confirmation
    BY <2>1, NoneAssumption DEF Confirmation, NewerConfirmation, Delivery, Clean
  <2>5. CASE d.state = "WritingPaste"
    <3> DEFINE e == [d EXCEPT !.conf = NewerConfirmation(d, conf)]
    <3>1. e \in Delivery
      BY <2>1, <2>4 DEF Delivery
    <3>2. n = [c EXCEPT !.dels[s].conf = NewerConfirmation(d, conf)]
      BY <1>2, <2>5 DEF ConfirmSubmission
    <3>3. n = Rewritten(c, s, e, k.changed)
      <4> HIDE DEF c, n
      <4> QED BY <2>3, <3>2, UpdateConf
    <3>4. Advances(d, e, Rewritten(c, s, e, k.changed), pr)
      BY <2>1, <2>4, <2>5 DEF Advances, Delivery, AcceptsReplacement
    <3>5. k.changed \in BOOLEAN
      BY DEF CoreState
    <3> HIDE DEF c, e
    <3> QED BY <2>1, <2>2, <3>1, <3>3, <3>4, <3>5, RewrittenRestates
  <2>6. CASE d.state # "WritingPaste"
    <3> DEFINE next == IF d.state \in {"AwaitingProviderAck", "Stalled"} THEN "Confirmed"
                       ELSE IF Attributed(d, d.failure, conf.clean) THEN "Confirmed"
                       ELSE "ConfirmedUnattributed"
               e == [d EXCEPT !.conf = conf, !.state = next, !.failure = "none"]
    <3>1. /\ d.state \in {"AwaitingProviderAck", "Stalled", "Blocked", "Failed"}
          /\ n = [c EXCEPT !.dels[s].conf = conf, !.dels[s].state = next,
                           !.dels[s].failure = "none", !.changed = TRUE]
      BY <1>2, <2>6 DEF ConfirmSubmission
    <3>2. next \in {"Confirmed", "ConfirmedUnattributed"}
      OBVIOUS
    <3> HIDE DEF next, conf
    <3>3. e \in Delivery
      BY <2>1, <2>4, <3>2 DEF Delivery, States, Failures
    <3>4. n = Rewritten(c, s, e, TRUE)
      <4> HIDE DEF c, n, d
      <4>1. [c EXCEPT !.dels[s].conf = conf, !.dels[s].state = next,
                      !.dels[s].failure = "none", !.changed = TRUE]
              = Rewritten(c, s, [c.dels[s] EXCEPT !.conf = conf, !.state = next,
                                                  !.failure = "none"], TRUE)
        BY <2>3 DEF Rewritten, CoreState
      <4>2. c.dels[s] = d
        BY <2>3 DEF d
      <4> QED BY <3>1, <4>1, <4>2
    <3>5. Rewritten(c, s, e, TRUE).changed
      BY <2>3 DEF Rewritten, CoreState
    <3>6. Advances(d, e, Rewritten(c, s, e, TRUE), pr)
      BY <2>1, <2>4, <3>1, <3>2, <3>5 DEF Advances, Delivery, AcceptsReplacement
    <3> QED BY <2>1, <2>2, <3>3, <3>4, <3>6, RewrittenRestates
  <2> QED BY <2>5, <2>6
<1> QED BY <1>1, <1>2

LEMMA IdsNat == Ids \subseteq Nat
BY DeliveryBounds DEF Ids

LEMMA NextNat ==
  ASSUME NEW k \in CoreState
  PROVE  k.next \in Nat \ {0}
BY DEF CoreState

LEMMA Untouched ==
  ASSUME NEW k \in CoreState, NEW id
  PROVE  CellTouched(k, k, id)
BY DEF CellTouched

\* What a handler that works on the delivery of s knows of it.
LEMMA RecordAt ==
  ASSUME NEW k \in CoreState, NEW s \in Sessions, NEW ev, IdsOnRecord(k, ev),
         k.dels[s] # None
  PROVE  k.dels[s] \in Delivery /\ k.dels[s].id \in Ids /\ k.dels[s].id < k.next
<1>1. k.dels[s] \in Delivery
  BY DEF CoreState
<1> QED BY <1>1 DEF Delivery, IdsOnRecord

LEMMA ConfirmProgressRestates ==
  ASSUME NEW k \in CoreState, NEW s \in Sessions, NEW seq \in Nat, NEW pr, NEW ev,
         IdsOnRecord(k, ev)
  PROVE  Restates(k, ConfirmProgress(k, s, seq), s, pr)
<1> DEFINE d == k.dels[s]
           n == ConfirmProgress(k, s, seq)
<1>1. CASE n = k
  BY <1>1, SameRestates
<1>2. CASE n # k
  <2>1. d # None /\ d \in Delivery /\ d.id \in Ids /\ d.id < k.next
    BY <1>2, RecordAt DEF ConfirmProgress
  <2>2. CASE d.state = "AwaitingProviderAck"
    <3>1. n = Cancel(k, d.id)
      BY <1>2, <2>2 DEF ConfirmProgress
    <3> QED BY <2>1, <3>1, CancelTouches, TouchesKeep
  <2>3. CASE d.state # "AwaitingProviderAck"
    <3> DEFINE c == SignalAck(k, d.id)
               e == [d EXCEPT !.state = "Confirmed", !.failure = "none"]
    <3>1. d.state = "ConfirmedUnattributed"
      BY <1>2, <2>3 DEF ConfirmProgress
    <3>2. n = [c EXCEPT !.dels[s].state = "Confirmed", !.dels[s].failure = "none",
                        !.changed = TRUE]
      BY <1>2, <2>3 DEF ConfirmProgress
    <3>3. CellTouched(k, c, d.id)
      BY <2>1, SignalAckTouches
    <3>4. c \in CoreState /\ c.dels = k.dels
      BY <3>3 DEF CellTouched
    <3>5. n = Rewritten(c, s, e, TRUE)
      <4> HIDE DEF c, n
      <4> QED BY <3>2, <3>4 DEF Rewritten, CoreState
    <3>6. Rewritten(c, s, e, TRUE).changed
      BY <3>4 DEF Rewritten, CoreState
    <3>7. e \in Delivery
      BY <2>1 DEF Delivery, States, Failures
    <3>8. Advances(d, e, Rewritten(c, s, e, TRUE), pr)
      BY <2>1, <3>1, <3>6 DEF Advances, Delivery, AcceptsReplacement
    <3> HIDE DEF c, e
    <3> QED BY <2>1, <3>3, <3>5, <3>7, <3>8, RewrittenRestates
  <2> QED BY <2>2, <2>3
<1> QED BY <1>1, <1>2

LEMMA ConfirmQueueProgressRestates ==
  ASSUME NEW k \in CoreState, NEW s \in Sessions, NEW seq \in Nat, NEW pr, NEW ev,
         IdsOnRecord(k, ev), WorkersOnRecord(k, ev, pr)
  PROVE  Restates(k, ConfirmQueueProgress(k, s, seq), s, pr)
<1> DEFINE d == k.dels[s]
           conf == [seq |-> seq, clean |-> FALSE, by |-> "progress"]
           n == ConfirmQueueProgress(k, s, seq)
<1>1. CASE n = k
  BY <1>1, SameRestates
<1>2. CASE n # k
  <2>1. d # None /\ d \in Delivery /\ d.id \in Ids /\ d.id < k.next
    BY <1>2, RecordAt DEF ConfirmQueueProgress
  <2>2. pr[d.id] > 0
    BY <1>2, <2>1 DEF ConfirmQueueProgress, QueueEvidence, WorkersOnRecord
  <2>3. /\ conf \in Confirmation
        /\ NewerConfirmation(d, conf) \in Confirmation
    BY <2>1, NoneAssumption DEF Confirmation, NewerConfirmation, Delivery
  <2>4. CASE d.state = "WritingPaste"
    <3> DEFINE e == [d EXCEPT !.conf = NewerConfirmation(d, conf)]
    <3>1. e \in Delivery
      BY <2>1, <2>3 DEF Delivery
    <3>2. n = [k EXCEPT !.dels[s].conf = NewerConfirmation(d, conf)]
      BY <1>2, <2>4 DEF ConfirmQueueProgress
    <3>3. n = Rewritten(k, s, e, k.changed)
      <4> HIDE DEF n, conf
      <4> QED BY <3>2 DEF Rewritten, CoreState
    <3>4. Advances(d, e, Rewritten(k, s, e, k.changed), pr)
      BY <2>1, <2>2, <2>3, <2>4 DEF Advances, Delivery, AcceptsReplacement
    <3>5. k.changed \in BOOLEAN
      BY DEF CoreState
    <3>6. CellTouched(k, k, d.id)
      BY Untouched
    <3> HIDE DEF e
    <3> QED BY <2>1, <3>1, <3>3, <3>4, <3>5, <3>6, RewrittenRestates
  <2>5. CASE d.state # "WritingPaste"
    <3> DEFINE c == SignalAck(k, d.id)
               e == [d EXCEPT !.conf = conf, !.state = "Confirmed", !.failure = "none"]
    <3>1. /\ d.state = "AwaitingProviderAck"
          /\ n = [c EXCEPT !.dels[s].conf = conf, !.dels[s].state = "Confirmed",
                           !.dels[s].failure = "none", !.changed = TRUE]
      BY <1>2, <2>5 DEF ConfirmQueueProgress
    <3> HIDE DEF conf
    <3>2. e \in Delivery
      BY <2>1, <2>3 DEF Delivery, States, Failures
    <3>3. CellTouched(k, c, d.id)
      BY <2>1, SignalAckTouches
    <3>4. c \in CoreState /\ c.dels = k.dels
      BY <3>3 DEF CellTouched
    <3>5. n = Rewritten(c, s, e, TRUE)
      <4>1. c.dels[s] = d /\ c.dels \in [Sessions -> Delivery \cup {None}]
        BY <3>4 DEF CoreState
      <4> HIDE DEF c, n
      <4>2. n = [c EXCEPT !.dels = [c.dels EXCEPT ![s] = e], !.changed = TRUE]
        BY <3>1, <4>1
      <4> QED BY <4>2 DEF Rewritten
    <3>6. Rewritten(c, s, e, TRUE).changed
      BY <3>4 DEF Rewritten, CoreState
    <3>7. Advances(d, e, Rewritten(c, s, e, TRUE), pr)
      BY <2>1, <2>2, <2>3, <3>1, <3>6 DEF Advances, Delivery, AcceptsReplacement
    <3> HIDE DEF c, e
    <3> QED BY <2>1, <3>2, <3>3, <3>5, <3>7, RewrittenRestates
  <2> QED BY <2>4, <2>5
<1> QED BY <1>1, <1>2

-----------------------------------------------------------------------------
(* Transport events *)

\* What the chain of a handler keeps on its way, having started from o.
Chain(o, k, s, ev, pr, un) ==
  k \in CoreState /\ Sound(k, ev, pr, un) /\ WritesKnownOrDone(k, s) /\ Kept(o, k)

LEMMA RestateChain ==
  ASSUME NEW o \in CoreState, NEW k, NEW n, NEW s \in Sessions, NEW pr \in [Ids -> Nat],
         NEW ev \in Seq(TransportEvent), NEW un \in SUBSET Submissions,
         Chain(o, k, s, ev, pr, un), Restates(k, n, s, pr)
  PROVE  Chain(o, n, s, ev, pr, un)
<1>1. n \in CoreState
  BY DEF Restates
<1> QED BY <1>1, RestateSound, RestateKnown, RestateKept DEF Chain

Receipted(k, id) == [k EXCEPT !.cells[id].receipt = TRUE]

LEMMA ReceiptCell ==
  ASSUME NEW k \in CoreState, NEW id \in Ids
  PROVE  LET n == Receipted(k, id) IN
         /\ n \in CoreState /\ n.dels = k.dels /\ n.next = k.next /\ n.pending = k.pending
         /\ n.queue = k.queue /\ n.obs = k.obs /\ n.worker = k.worker
         /\ n.pasted = k.pasted /\ n.changed = k.changed
         /\ \A j \in Ids \ {id} : n.cells[j] = k.cells[j]
         /\ n.cells[id].sub = k.cells[id].sub /\ n.cells[id].paste = k.cells[id].paste
         /\ n.cells[id].forgotten = k.cells[id].forgotten
         /\ k.cells[id].cancel => n.cells[id].cancel
<1> DEFINE n == Receipted(k, id)
<1>1. n \in CoreState
  <2> DEFINE c == [k.cells EXCEPT ![id].receipt = TRUE]
  <2>1. c \in [Ids -> Cell]
    <3>1. k.cells \in [Ids -> Cell]
      BY DEF CoreState
    <3>2. [k.cells[id] EXCEPT !.receipt = TRUE] \in Cell
      BY <3>1 DEF Cell
    <3> QED BY <3>1, <3>2
  <2>2. n = [k EXCEPT !.cells = c]
    BY DEF Receipted, CoreState
  <2> HIDE DEF c, n
  <2> QED BY <2>1, <2>2 DEF CoreState
<1>2. /\ n.dels = k.dels /\ n.next = k.next /\ n.pending = k.pending
      /\ n.queue = k.queue /\ n.obs = k.obs /\ n.worker = k.worker
      /\ n.pasted = k.pasted /\ n.changed = k.changed
      /\ \A j \in Ids \ {id} : n.cells[j] = k.cells[j]
  BY DEF Receipted, CoreState
<1>3. /\ n.cells[id].sub = k.cells[id].sub /\ n.cells[id].paste = k.cells[id].paste
      /\ n.cells[id].forgotten = k.cells[id].forgotten
      /\ k.cells[id].cancel => n.cells[id].cancel
  BY DEF Receipted, CoreState, Cell
<1> HIDE DEF n
<1> QED BY <1>1, <1>2, <1>3 DEF n

LEMMA ReceiptRestates ==
  ASSUME NEW k \in CoreState, NEW s \in Sessions, NEW pr, NEW ev, IdsOnRecord(k, ev),
         k.dels[s] # None, pr[k.dels[s].id] > 0, NEW n,
         n = Receipted(k, k.dels[s].id)
  PROVE  Restates(k, n, s, pr)
<1>1. k.dels[s].id \in Ids /\ k.dels[s].id < k.next /\ k.next \in Nat /\ Ids \subseteq Nat
  BY RecordAt, IdsNat, NextNat
<1> DEFINE id == k.dels[s].id
<1>a. /\ n \in CoreState /\ n.dels = k.dels /\ n.next = k.next /\ n.pending = k.pending
      /\ n.queue = k.queue /\ n.obs = k.obs /\ n.worker = k.worker
      /\ n.pasted = k.pasted /\ n.changed = k.changed
      /\ \A j \in Ids \ {id} : n.cells[j] = k.cells[j]
      /\ n.cells[id].sub = k.cells[id].sub /\ n.cells[id].paste = k.cells[id].paste
      /\ n.cells[id].forgotten = k.cells[id].forgotten
      /\ k.cells[id].cancel => n.cells[id].cancel
  BY <1>1, ReceiptCell
<1>2. CellsKept(k, n, pr)
  <2> SUFFICES ASSUME NEW j \in Ids
               PROVE  /\ n.cells[j].sub = k.cells[j].sub
                      /\ n.cells[j].paste = k.cells[j].paste
                      /\ n.cells[j].forgotten = k.cells[j].forgotten
                      /\ k.cells[j].cancel => n.cells[j].cancel
                      /\ n.cells[j].receipt => k.cells[j].receipt \/ pr[j] > 0
                      /\ j >= k.next => n.cells[j] = k.cells[j]
    BY DEF CellsKept
  <2>1. CASE j = id
    <3>1. ~(j >= k.next)
      BY <2>1, <1>1
    <3> QED BY <3>1, <2>1, <1>a
  <2>2. CASE j # id
    BY <2>2, <1>a
  <2> QED BY <2>1, <2>2
<1> HIDE DEF id
<1> QED BY <1>2, <1>a DEF Restates

\* A record whose channel is closed with a new state, failure and confirmation.
Closed(r, s, v, w, x) ==
  Rewritten(CloseAck(r, r.dels[s].id), s,
            [r.dels[s] EXCEPT !.state = v, !.failure = w, !.conf = x], TRUE)

Changed(k) == [k EXCEPT !.changed = TRUE]
Unconfirmed(k, s) == [k EXCEPT !.dels[s].conf = None]

LEMMA CloseOnCloses ==
  ASSUME NEW r \in CoreState, NEW s \in Sessions, NEW v, NEW w, r.dels[s] \in Delivery
  PROVE  /\ Changed(CloseOn(r, s, v, w)) = Closed(r, s, v, w, r.dels[s].conf)
         /\ Changed(Unconfirmed(CloseOn(r, s, v, w), s)) = Closed(r, s, v, w, None)
<1> DEFINE c == CloseAck(r, r.dels[s].id)
<1>1. c \in CoreState /\ c.dels = r.dels
  <2>1. r.dels[s].id \in Ids
    BY DEF Delivery
  <2> QED BY <2>1, CloseAckTouches DEF CellTouched
<1>2. CloseOn(r, s, v, w) = [c EXCEPT !.dels[s].state = v, !.dels[s].failure = w]
  BY DEF CloseOn
<1>3. Closed(r, s, v, w, r.dels[s].conf)
        = Rewritten(c, s, [c.dels[s] EXCEPT !.state = v, !.failure = w], TRUE)
  <2>1. [r.dels[s] EXCEPT !.state = v, !.failure = w, !.conf = r.dels[s].conf]
          = [r.dels[s] EXCEPT !.state = v, !.failure = w]
    BY DEF Delivery
  <2> HIDE DEF c
  <2> QED BY <1>1, <2>1 DEF Closed, c
<1>4. Closed(r, s, v, w, None)
        = Rewritten(c, s, [c.dels[s] EXCEPT !.state = v, !.failure = w, !.conf = None], TRUE)
  BY <1>1 DEF Closed
<1> HIDE DEF c
<1> DEFINE a == [c EXCEPT !.dels[s].state = v, !.dels[s].failure = w]
<1>5. Changed(a) = Rewritten(c, s, [c.dels[s] EXCEPT !.state = v, !.failure = w], TRUE)
  BY <1>1 DEF Rewritten, CoreState, Changed
<1>6. Changed(Unconfirmed(a, s))
        = Rewritten(c, s, [c.dels[s] EXCEPT !.state = v, !.failure = w, !.conf = None], TRUE)
  BY <1>1 DEF Rewritten, CoreState, Changed, Unconfirmed
<1>7. CloseOn(r, s, v, w) = a
  BY <1>2
<1> HIDE DEF a
<1> QED BY <1>3, <1>4, <1>5, <1>6, <1>7

LEMMA ClosedRestates ==
  ASSUME NEW r \in CoreState, NEW s \in Sessions, NEW pr, NEW ev, IdsOnRecord(r, ev),
         r.dels[s] # None, NEW v \in States, NEW w \in Failures,
         NEW x \in {None, r.dels[s].conf},
         v \in {"Stalled", "Blocked", "Failed", "Confirmed", "ConfirmedUnattributed"},
         r.dels[s].state \in Active,
         r.dels[s].state = "WritingPaste" =>
           r.worker[r.dels[s].id] = None \/ r.worker[r.dels[s].id].pc \notin Unmarked
  PROVE  Restates(r, Closed(r, s, v, w, x), s, pr)
<1> DEFINE d == r.dels[s]
           c == CloseAck(r, d.id)
           e == [d EXCEPT !.state = v, !.failure = w, !.conf = x]
           n == Rewritten(c, s, e, TRUE)
<1>1. d \in Delivery /\ d.id \in Ids /\ d.id < r.next
  BY RecordAt
<1>2. CellTouched(r, c, d.id)
  BY <1>1, CloseAckTouches
<1>3. c \in CoreState /\ c.worker = r.worker
  BY <1>2 DEF CellTouched
<1>4. e \in Delivery
  BY <1>1 DEF Delivery
<1>5. n.changed /\ n.worker = r.worker
  <2> HIDE DEF c, e
  <2> QED BY <1>3 DEF Rewritten, CoreState
<1>6. /\ e.id = d.id /\ e.epoch = d.epoch /\ e.state = v /\ e.conf = x
  BY <1>1 DEF Delivery
<1>7. Advances(d, e, n, pr)
  <2> HIDE DEF e, n, d
  <2>1. d.state \in Active /\ (d.state = "WritingPaste" =>
          r.worker[d.id] = None \/ r.worker[d.id].pc \notin Unmarked)
    BY DEF d
  <2>2. x # None => x = d.conf
    BY DEF d
  <2> QED BY <1>5, <1>6, <2>1, <2>2 DEF Advances, Active, AcceptsReplacement
<1> HIDE DEF c, e
<1>8. Restates(r, n, s, pr)
  BY <1>1, <1>2, <1>4, <1>7, RewrittenRestates
<1> QED BY <1>8 DEF Closed, n, c, e

WithDiag(k, b) == [k EXCEPT !.changed = b]

LEMMA ChangedRestates ==
  ASSUME NEW k \in CoreState, NEW s \in Sessions, NEW pr, NEW b \in BOOLEAN, ~k.changed
  PROVE  Restates(k, WithDiag(k, b), s, pr) /\ WithDiag(k, b).dels = k.dels
<1> DEFINE n == WithDiag(k, b)
<1>1. /\ n \in CoreState /\ n.dels = k.dels /\ n.next = k.next /\ n.pending = k.pending
      /\ n.queue = k.queue /\ n.obs = k.obs /\ n.worker = k.worker
      /\ n.pasted = k.pasted /\ n.cells = k.cells
  BY DEF CoreState, WithDiag
<1> HIDE DEF n
<1>2. Restates(k, n, s, pr)
  BY <1>1 DEF Restates, CellsKept
<1> QED BY <1>1, <1>2 DEF n

\* The event's verdict on the delivery it is about.
Undecided(k, e) ==
  /\ k.dels[e.session] # None /\ k.dels[e.session].state = "WritingPaste"
  /\ k.dels[e.session].id = e.id /\ k.dels[e.session].epoch = e.epoch
  /\ e.outcome \in Deciding

LEMMA ClosedState ==
  ASSUME NEW r \in CoreState, NEW s \in Sessions, NEW v, NEW w, NEW x,
         r.dels[s] \in Delivery
  PROVE  Closed(r, s, v, w, x).dels[s].state = v
<1> DEFINE c == CloseAck(r, r.dels[s].id)
           e == [r.dels[s] EXCEPT !.state = v, !.failure = w, !.conf = x]
<1>1. c \in CoreState
  <2>1. r.dels[s].id \in Ids
    BY DEF Delivery
  <2> QED BY <2>1, CloseAckTouches DEF CellTouched
<1>2. e.state = v
  BY DEF Delivery
<1> HIDE DEF c, e
<1>3. Rewritten(c, s, e, TRUE).dels[s] = e
  BY <1>1 DEF Rewritten, CoreState
<1> QED BY <1>2, <1>3 DEF Closed, c, e

LEMMA UnsentCloses ==
  ASSUME NEW r \in CoreState, NEW s \in Sessions, r.dels[s] \in Delivery,
         NEW v \in {"Blocked", "Failed"}, NEW w \in Failures
  PROVE  \E y \in {"Blocked", "Failed", "Confirmed", "ConfirmedUnattributed"},
            z \in Failures, x \in {None, r.dels[s].conf} :
           Changed(Unsent(r, s, v, w)) = Closed(r, s, y, z, x)
<1> DEFINE d == r.dels[s]
           n == Changed(Unsent(r, s, v, w))
           a == IF Attributed(d, w, d.conf.clean) THEN "Confirmed"
                ELSE "ConfirmedUnattributed"
<1>1. CASE UnwrittenReadiness(r, d, w)
  <2>1. n = Changed(Unconfirmed(CloseOn(r, s, v, w), s))
    BY <1>1 DEF Unsent, Unconfirmed
  <2>2. n = Closed(r, s, v, w, None)
    BY <2>1, CloseOnCloses
  <2> QED BY <2>2
<1>2. CASE ~UnwrittenReadiness(r, d, w) /\ d.conf # None
  <2>1. n = Changed(CloseOn(r, s, a, "none"))
    BY <1>2 DEF Unsent
  <2>2. a \in {"Confirmed", "ConfirmedUnattributed"} /\ "none" \in Failures
    BY DEF Failures
  <2> HIDE DEF a
  <2>3. n = Closed(r, s, a, "none", d.conf)
    BY <2>1, CloseOnCloses
  <2> QED BY <2>2, <2>3
<1>3. CASE ~UnwrittenReadiness(r, d, w) /\ d.conf = None
  <2>1. n = Changed(CloseOn(r, s, v, w))
    BY <1>3 DEF Unsent
  <2>2. n = Closed(r, s, v, w, d.conf)
    BY <2>1, CloseOnCloses
  <2> QED BY <2>2
<1> QED BY <1>1, <1>2, <1>3

Decision(d, v) == [d EXCEPT !.state = v, !.failure = "none"]

Decided(r, s, v) ==
  [r EXCEPT !.dels[s].state = v, !.dels[s].failure = "none", !.changed = TRUE]

LEMMA DecidedRewrites ==
  ASSUME NEW r \in CoreState, NEW s \in Sessions, NEW v
  PROVE  Decided(r, s, v)
           = Rewritten(r, s, Decision(r.dels[s], v), TRUE)
BY DEF Decided, Decision, Rewritten, CoreState

LEMMA SubmittedRestates ==
  ASSUME NEW r \in CoreState, NEW s \in Sessions, NEW pr, NEW ev, IdsOnRecord(r, ev),
         r.dels[s] # None, r.dels[s].state = "WritingPaste", pr[r.dels[s].id] > 0,
         NEW v \in {"Confirmed", "AwaitingProviderAck"},
         r.worker[r.dels[s].id] = None \/ r.worker[r.dels[s].id].pc \notin Unmarked
  PROVE  LET n == Rewritten(r, s, Decision(r.dels[s], v), TRUE)
         IN  Restates(r, n, s, pr) /\ n.dels[s].state = v
<1> DEFINE d == r.dels[s]
           e == Decision(d, v)
           n == Rewritten(r, s, e, TRUE)
<1>1. d \in Delivery /\ d.id \in Ids /\ d.id < r.next
  BY RecordAt
<1>2. e \in Delivery /\ e.id = d.id /\ e.epoch = d.epoch /\ e.state = v /\ e.conf = d.conf
  BY <1>1 DEF Decision, Delivery, States, Failures
<1>4. n.changed /\ n.worker = r.worker /\ n.dels[s] = e
  <2> HIDE DEF e
  <2> QED BY DEF Rewritten, CoreState
<1>5. Advances(d, e, n, pr)
  <2> HIDE DEF e, n
  <2> QED BY <1>2, <1>4 DEF Advances, AcceptsReplacement
<1>6. CellTouched(r, r, d.id)
  BY Untouched
<1>7. Restates(r, n, s, pr)
  <2> HIDE DEF e
  <2> QED BY <1>1, <1>2, <1>5, <1>6, RewrittenRestates
<1> HIDE DEF e
<1> QED BY <1>2, <1>4, <1>7 DEF e

LEMMA ApplyEventChain ==
  ASSUME NEW o \in CoreState, NEW k, NEW pr \in [Ids -> Nat],
         NEW ev \in Seq(TransportEvent), NEW un \in SUBSET Submissions,
         NEW s, s = Head(ev).session,
         Chain(o, k, s, ev, pr, un), ev # <<>>, ~k.changed
  PROVE  LET n == ApplyEvent(k, Head(ev)) IN
         Chain(o, n, s, ev, pr, un) /\ ~Undecided(n, Head(ev))
<1> DEFINE e == Head(ev)
           d == k.dels[s]
           n == ApplyEvent(k, e)
<1>1. e \in TransportEvent /\ 1 \in 1..Len(ev) /\ ev[1] = e
  OBVIOUS
<1>2. s \in Sessions /\ e.failure \in Failures /\ e.diag \in BOOLEAN
  BY <1>1 DEF TransportEvent
<1>3. k \in CoreState /\ IdsOnRecord(k, ev) /\ WorkersOnRecord(k, ev, pr)
  BY DEF Chain, Sound
<1>4. CASE d = None \/ ~EventIsCurrent(k, e)
  <2>1. n = k
    BY <1>4 DEF ApplyEvent
  <2>2. ~Undecided(k, e)
    BY <1>4 DEF Undecided, EventIsCurrent
  <2> QED BY <2>1, <2>2
<1>5. CASE d # None /\ EventIsCurrent(k, e)
  <2> DEFINE r == IF e.receipt THEN Receipted(k, d.id) ELSE k
             confirmed == d.conf # None /\ d.conf.seq > d.baseline
             v == IF confirmed THEN "Confirmed" ELSE "AwaitingProviderAck"
  <2>1. d.id = e.id /\ d \in Delivery /\ d.id \in Ids
    BY <1>2, <1>3, <1>5, RecordAt DEF EventIsCurrent
  <2>2. /\ e.receipt \/ e.outcome = "Submitted" => pr[d.id] > 0
        /\ k.worker[d.id] = None \/ k.worker[d.id].pc \notin Unreported
    BY <1>1, <1>3, <2>1 DEF WorkersOnRecord
  <2>3. /\ Chain(o, r, s, ev, pr, un) /\ r.dels = k.dels /\ r.worker = k.worker
        /\ r.changed = k.changed
    <3>1. CASE e.receipt
      <4>1. Restates(k, r, s, pr)
        BY <1>2, <1>3, <1>5, <2>2, <3>1, ReceiptRestates
      <4>2. Chain(o, r, s, ev, pr, un)
        BY <1>2, <4>1, RestateChain
      <4> QED BY <1>3, <2>1, <3>1, <4>2, ReceiptCell
    <3>2. CASE ~e.receipt
      BY <3>2
    <3> QED BY <3>1, <3>2
  <2>4. r \in CoreState /\ IdsOnRecord(r, ev) /\ r.dels[s] = d /\ r.dels[s] \in Delivery
    BY <2>1, <2>3 DEF Chain, Sound
  <2>5. r.worker[d.id] = None \/ r.worker[d.id].pc \notin Unmarked
    BY <2>2, <2>3 DEF Unreported
  <2>6. r = (IF e.receipt THEN [k EXCEPT !.cells[d.id].receipt = TRUE] ELSE k)
    BY DEF Receipted
  <2> SUFFICES Restates(r, n, s, pr) /\ (e.outcome \in Deciding => n.dels[s].state # "WritingPaste")
    BY <1>2, <2>3, RestateChain DEF Undecided
  <2>7. CASE e.outcome = "Submitted" /\ d.state = "WritingPaste"
    <3>1. n = Decided(r, s, v)
      BY <1>5, <2>6, <2>7 DEF ApplyEvent, Decided
    <3>2. v \in {"Confirmed", "AwaitingProviderAck"}
      OBVIOUS
    <3> HIDE DEF v, r, n, d
    <3>3. n = Rewritten(r, s, Decision(r.dels[s], v), TRUE)
      BY <1>2, <2>4, <3>1, DecidedRewrites
    <3>4. /\ r.dels[s] # None /\ r.dels[s].state = "WritingPaste" /\ pr[r.dels[s].id] > 0
          /\ r.worker[r.dels[s].id] = None \/ r.worker[r.dels[s].id].pc \notin Unmarked
      BY <1>5, <2>2, <2>4, <2>5, <2>7
    <3>5. Restates(r, n, s, pr) /\ n.dels[s].state = v
      <4> DEFINE m == Rewritten(r, s, Decision(r.dels[s], v), TRUE)
      <4>1. Restates(r, m, s, pr) /\ m.dels[s].state = v
        BY ONLY <1>2, <2>4, <3>2, <3>4, SubmittedRestates
      <4> QED BY <3>3, <4>1
    <3> QED BY <3>2, <3>5
  <2>8. CASE e.outcome \in {"SubmitRetryFailed", "ProviderAckTimedOut"} /\ AckVerdictApplies(d)
    <3>1. n = Changed(CloseOn(r, s, "Stalled", e.failure))
      BY <1>5, <2>6, <2>8 DEF ApplyEvent, Changed
    <3> HIDE DEF r, n
    <3>2. n = Closed(r, s, "Stalled", e.failure, r.dels[s].conf)
      BY <1>2, <2>4, <3>1, CloseOnCloses
    <3>3. r.dels[s].state \in Active /\ r.dels[s].state # "WritingPaste"
      BY <2>4, <2>8 DEF AckVerdictApplies, Active
    <3>4. Restates(r, n, s, pr)
      BY <1>2, <1>5, <2>4, <3>2, <3>3, ClosedRestates DEF States
    <3> QED BY <2>8, <3>4 DEF Deciding
  <2>9. CASE e.outcome \in {"Blocked", "Failed"} /\ d.state = "WritingPaste"
    <3>1. n = Changed(Unsent(r, s, e.outcome, e.failure))
      BY <1>5, <2>6, <2>9 DEF ApplyEvent, Changed
    <3> HIDE DEF r, n
    <3>2. PICK y \in {"Blocked", "Failed", "Confirmed", "ConfirmedUnattributed"},
               z \in Failures, x \in {None, r.dels[s].conf} : n = Closed(r, s, y, z, x)
      BY <1>2, <2>4, <2>9, <3>1, UnsentCloses
    <3>3. r.dels[s].state \in Active
      BY <2>4, <2>9 DEF Active
    <3>4. Restates(r, n, s, pr)
      BY <1>2, <1>5, <2>4, <2>5, <3>2, <3>3, ClosedRestates DEF States
    <3>5. n.dels[s].state = y
      BY <1>2, <2>4, <3>2, ClosedState
    <3> QED BY <3>2, <3>4, <3>5
  <2>10. CASE /\ ~(e.outcome = "Submitted" /\ d.state = "WritingPaste")
              /\ ~(e.outcome \in {"SubmitRetryFailed", "ProviderAckTimedOut"}
                     /\ AckVerdictApplies(d))
              /\ ~(e.outcome \in {"Blocked", "Failed"} /\ d.state = "WritingPaste")
    <3>1. n = WithDiag(r, e.diag)
      BY <1>5, <2>6, <2>10 DEF ApplyEvent, WithDiag
    <3>2. Restates(r, n, s, pr) /\ n.dels = r.dels
      <4> HIDE DEF r
      <4> QED BY <1>2, <2>3, <2>4, <3>1, ChangedRestates
    <3> HIDE DEF r, n
    <3> QED BY <2>4, <2>10, <3>2 DEF Deciding
  <2> QED BY <2>7, <2>8, <2>9, <2>10
<1> QED BY <1>4, <1>5

\* The event has been applied: nobody needs it any more.
LEMMA PopChain ==
  ASSUME NEW o \in CoreState, NEW k, NEW pr \in [Ids -> Nat],
         NEW ev \in Seq(TransportEvent), NEW un \in SUBSET Submissions, NEW s,
         Chain(o, k, s, ev, pr, un), ev # <<>>, ~Undecided(k, Head(ev))
  PROVE  Chain(o, k, s, Tail(ev), pr, un)
<1> DEFINE tl == Tail(ev)
<1>1. /\ tl \in Seq(TransportEvent) /\ Len(tl) = Len(ev) - 1 /\ ev[1] = Head(ev)
      /\ Len(ev) \in Nat \ {0}
      /\ \A i \in 1..Len(tl) : tl[i] = ev[i + 1]
  OBVIOUS
<1>2. \A i \in 1..Len(tl) : i + 1 \in 1..Len(ev)
  BY <1>1
<1>3. \A i \in 2..Len(ev) : i - 1 \in 1..Len(tl) /\ ev[i] = tl[i - 1]
  BY <1>1
<1> HIDE DEF tl
<1>4. Sound(k, ev, pr, un)
  BY DEF Chain
<1>5. IdsOnRecord(k, tl)
  BY <1>1, <1>2, <1>4 DEF Sound, IdsOnRecord
<1>6. WorkersOnRecord(k, tl, pr)
  BY <1>1, <1>2, <1>4 DEF Sound, WorkersOnRecord
<1>7. Driven(k, tl)
  <2> SUFFICES ASSUME NEW t \in Sessions, k.dels[t] # None, k.dels[t].state = "WritingPaste",
                      NEW i \in 1..Len(ev), ev[i].id = k.dels[t].id,
                      ev[i].outcome \in Deciding, ev[i].session = t,
                      ev[i].epoch = k.dels[t].epoch
               PROVE  i \in 2..Len(ev)
    BY <1>3, <1>4 DEF Sound, Driven, DrivenBy
  <2>1. i # 1
    BY <1>1 DEF Undecided
  <2> QED BY <2>1, <1>1
<1> QED BY <1>4, <1>5, <1>6, <1>7 DEF Chain, Sound, tl

-----------------------------------------------------------------------------
(* Eviction *)

\* The record of t goes, and a paste of its delivery is forgotten.
Drops(k, n, t) ==
  LET id == k.dels[t].id IN
  /\ n \in CoreState
  /\ n.next = k.next /\ n.pending = k.pending /\ n.queue = k.queue /\ n.obs = k.obs
  /\ n.worker = k.worker /\ n.pasted = k.pasted
  /\ n.dels[t] = None
  /\ \A u \in Sessions \ {t} : n.dels[u] = k.dels[u]
  /\ \A j \in Ids \ {id} : n.cells[j] = k.cells[j]
  /\ n.cells[id].sub = k.cells[id].sub /\ n.cells[id].paste = k.cells[id].paste
  /\ n.cells[id].receipt = k.cells[id].receipt
  /\ n.cells[id].cancel = k.cells[id].cancel
  /\ k.cells[id].forgotten \/ k.cells[id].paste => n.cells[id].forgotten

LEMMA DropDrops ==
  ASSUME NEW k \in CoreState, NEW t \in Sessions, k.dels[t] # None
  PROVE  /\ Drops(k, Drop(k, t), t)
         /\ Drop(k, t).err = k.err /\ Drop(k, t).changed = k.changed
<1> DEFINE id == k.dels[t].id
           c == CloseAck(k, id)
           f == c.cells[id].forgotten \/ k.cells[id].paste
           cs == [c.cells EXCEPT ![id].forgotten = f]
           n == Drop(k, t)
<1>1. id \in Ids /\ k.dels[t] \in Delivery
  BY DEF CoreState, Delivery
<1>2. CellTouched(k, c, id)
  BY <1>1, CloseAckTouches
<1>3. c \in CoreState
  BY <1>2 DEF CellTouched
<1>4. c.cells[id].cancel = k.cells[id].cancel
  BY <1>1 DEF CoreState, CloseAck, Cell
<1> HIDE DEF id
<1>5. n = [c EXCEPT !.dels[t] = None, !.cells[id].forgotten = f]
  BY DEF Drop, id
<1> HIDE DEF c
<1>6. c.cells[id] \in Cell /\ k.cells[id] \in Cell /\ c.cells \in [Ids -> Cell]
  BY <1>1, <1>3 DEF CoreState
<1>7. f \in BOOLEAN
  BY <1>6 DEF Cell
<1> HIDE DEF f
<1>8. [c.cells[id] EXCEPT !.forgotten = f] \in Cell
  BY <1>6, <1>7 DEF Cell
<1>9. /\ cs \in [Ids -> Cell] /\ \A j \in Ids \ {id} : cs[j] = c.cells[j]
      /\ cs[id] = [c.cells[id] EXCEPT !.forgotten = f]
  BY <1>1, <1>6, <1>8
<1>10. /\ cs[id].sub = c.cells[id].sub /\ cs[id].paste = c.cells[id].paste
       /\ cs[id].receipt = c.cells[id].receipt /\ cs[id].cancel = c.cells[id].cancel
       /\ cs[id].forgotten = f
  BY <1>6, <1>9 DEF Cell
<1>11. n = [c EXCEPT !.dels[t] = None, !.cells = cs]
  BY <1>3, <1>5 DEF CoreState
<1> HIDE DEF cs, n
<1>12. /\ n \in CoreState
       /\ n.next = c.next /\ n.pending = c.pending /\ n.queue = c.queue /\ n.obs = c.obs
       /\ n.worker = c.worker /\ n.pasted = c.pasted /\ n.cells = cs
       /\ n.dels[t] = None /\ \A u \in Sessions \ {t} : n.dels[u] = c.dels[u]
       /\ n.err = c.err /\ n.changed = c.changed
  BY <1>3, <1>9, <1>11 DEF CoreState
<1>13. Drops(k, n, t)
  <2>1. k.cells[id].forgotten \/ k.cells[id].paste => n.cells[id].forgotten
    BY <1>2, <1>10, <1>12 DEF CellTouched, f
  <2>2. /\ n.next = k.next /\ n.pending = k.pending /\ n.queue = k.queue /\ n.obs = k.obs
        /\ n.worker = k.worker /\ n.pasted = k.pasted
        /\ \A u \in Sessions \ {t} : n.dels[u] = k.dels[u]
    BY <1>2, <1>12 DEF CellTouched
  <2>3. \A j \in Ids \ {id} : n.cells[j] = k.cells[j]
    BY <1>2, <1>9, <1>12 DEF CellTouched
  <2>4. /\ n.cells[id].sub = k.cells[id].sub /\ n.cells[id].paste = k.cells[id].paste
        /\ n.cells[id].receipt = k.cells[id].receipt
        /\ n.cells[id].cancel = k.cells[id].cancel
    BY <1>2, <1>4, <1>10, <1>12 DEF CellTouched
  <2> QED BY <1>12, <2>1, <2>2, <2>3, <2>4 DEF Drops, id
<1> QED BY <1>2, <1>12, <1>13 DEF CellTouched, n

LEMMA DropSound ==
  ASSUME NEW k \in CoreState, NEW n, NEW t \in Sessions, NEW pr \in [Ids -> Nat],
         NEW ev \in Seq(TransportEvent), NEW un \in SUBSET Submissions,
         Sound(k, ev, pr, un), k.dels[t] # None, k.dels[t].state \notin Active,
         Drops(k, n, t)
  PROVE  Sound(n, ev, pr, un)
<1>1. k.dels[t].id \in Ids /\ k.dels[t].id < k.next /\ k.next \in Nat /\ Ids \subseteq Nat
  BY RecordAt, NextNat, IdsNat DEF Sound
<1>2. \A id \in Ids :
        /\ n.cells[id].sub = k.cells[id].sub /\ n.cells[id].paste = k.cells[id].paste
        /\ n.cells[id].receipt = k.cells[id].receipt
        /\ n.cells[id].cancel = k.cells[id].cancel
        /\ k.cells[id].forgotten => n.cells[id].forgotten
        /\ id >= k.next => n.cells[id] = k.cells[id]
  BY <1>1 DEF Drops
<1>3. /\ n.next = k.next /\ n.pending = k.pending /\ n.queue = k.queue /\ n.obs = k.obs
      /\ n.worker = k.worker /\ n.pasted = k.pasted
      /\ n.dels[t] = None
      /\ \A u \in Sessions \ {t} : n.dels[u] = k.dels[u]
  BY DEF Drops
<1>4. IdsOnRecord(n, ev)
  <2>1. IdsOnRecord(k, ev)
    BY DEF Sound
  <2>2. \A u \in Sessions : n.dels[u] # None => n.dels[u] = k.dels[u]
    BY <1>3
  <2>3. \A u \in Sessions : n.dels[u] # None =>
          n.dels[u].id < n.next /\ n.dels[u].epoch = n.obs[u].epoch
    BY <2>1, <2>2, <1>3 DEF IdsOnRecord
  <2>4. \A id \in Ids : id >= n.next => n.worker[id] = None /\ n.cells[id] = FreshCells
    BY <2>1, <1>2, <1>3 DEF IdsOnRecord
  <2> QED BY <2>1, <2>3, <2>4, <1>3 DEF IdsOnRecord
<1>5. WorkersOnRecord(n, ev, pr)
  <2>1. WorkersOnRecord(k, ev, pr)
    BY DEF Sound
  <2>2. \A id \in Ids : n.worker[id] # None =>
          /\ n.worker[id].sub = n.cells[id].sub
          /\ n.cells[id].paste <=> n.worker[id].pc \notin Unmarked
          /\ n.worker[id].pc \in Pressed => pr[id] > 0
          /\ n.worker[id].pc \in Unreported => \A i \in 1..Len(ev) : ev[i].id # id
    BY <2>1, <1>2, <1>3 DEF WorkersOnRecord
  <2>3. \A id \in Ids : n.cells[id].receipt => pr[id] > 0
    BY <2>1, <1>2 DEF WorkersOnRecord
  <2> QED BY <2>1, <2>2, <2>3 DEF WorkersOnRecord
<1>6. AfterEnter(n, pr)
  BY <1>3 DEF Sound, AfterEnter
<1>7. Driven(n, ev)
  BY <1>3 DEF Sound, Driven, DrivenBy
<1>8. Serves(n)
  <2> SUFFICES ASSUME NEW id \in Ids, n.worker[id] # None,
                      n.worker[id].pc \in Unmarked, ~n.cells[id].cancel
               PROVE  LET u == n.worker[id].session IN
                      /\ n.dels[u] # None /\ n.dels[u].id = id
                      /\ n.dels[u].state = "WritingPaste"
                      /\ n.pending[u] = n.worker[id].sub
    BY DEF Serves
  <2>1. n.worker[id].session \in Sessions
    BY <1>3 DEF CoreState, Worker
  <2> QED BY <1>2, <1>3, <2>1 DEF Sound, Serves, Active
<1>9. QueueCovered(n)
  BY <1>3 DEF Sound, QueueCovered
<1>10. OnePlace(n, un)
  BY <1>2, <1>3 DEF Sound, OnePlace, Queued
<1>11. PastesCounted(n)
  <2>1. \A id \in Ids, sub \in Submissions : Wrote(n, id, sub) <=> Wrote(k, id, sub)
    BY <1>2 DEF Wrote
  <2>2. \A sub \in Submissions : Forgotten(k, sub) => Forgotten(n, sub)
    BY <1>2 DEF Forgotten
  <2> QED BY <1>3, <2>1, <2>2 DEF Sound, PastesCounted
<1> QED BY <1>4, <1>5, <1>6, <1>7, <1>8, <1>9, <1>10, <1>11 DEF Sound

LEMMA DropKnown ==
  ASSUME NEW k \in CoreState, NEW n, NEW t \in Sessions, WritesKnown(k),
         k.dels[t] # None, Drops(k, n, t)
  PROVE  WritesKnown(n)
<1>1. k.dels[t].id \in Ids
  BY DEF CoreState, Delivery
<1> SUFFICES ASSUME NEW u \in Sessions, n.pending[u] # None, ~Forgotten(n, n.pending[u]),
                    NEW id \in Ids, Wrote(n, id, n.pending[u])
             PROVE  /\ n.dels[u] # None /\ Wrote(n, n.dels[u].id, n.pending[u])
                    /\ n.dels[u].state \notin AcceptsReplacement
  BY DEF WritesKnown, Known
<1>2. \A i \in Ids : \A sub : Wrote(n, i, sub) <=> Wrote(k, i, sub)
  BY <1>1 DEF Drops, Wrote
<1>3. \A sub : Forgotten(k, sub) => Forgotten(n, sub)
  BY <1>1 DEF Drops, Forgotten
<1>4. n.pending[u] = k.pending[u]
  BY DEF Drops
<1>5. /\ k.dels[u] # None /\ Wrote(k, k.dels[u].id, n.pending[u])
      /\ k.dels[u].state \notin AcceptsReplacement
  BY <1>2, <1>3, <1>4 DEF WritesKnown, Known
<1>6. u # t
  <2> SUFFICES ASSUME u = t PROVE FALSE
    OBVIOUS
  <2>1. Forgotten(n, n.pending[u])
    BY <1>1, <1>5 DEF Forgotten, Wrote, Drops
  <2> QED BY <2>1
<1>7. k.dels[u].id \in Ids
  BY <1>5 DEF CoreState, Delivery
<1> QED BY <1>2, <1>5, <1>6, <1>7 DEF Drops

LEMMA LeastExists ==
  ASSUME NEW T \in SUBSET Nat, T # {}
  PROVE  \E m \in T : \A x \in T : m <= x
<1> DEFINE R == OpToRel(<, Nat)
<1>1. \A x, y \in Nat : <<x, y>> \in R <=> x < y
  BY DEF OpToRel
<1>2. IsWellFoundedOn(R, Nat)
  BY NatLessThanWellFounded
<1> HIDE DEF R
<1>3. PICK m \in T : \A y \in T : ~(<<y, m>> \in R)
  BY <1>2, WFMin
<1>4. m \in Nat /\ \A x \in T : x \in Nat
  OBVIOUS
<1>5. \A x \in T : ~(x < m)
  BY <1>1, <1>3, <1>4
<1>6. \A x \in T : m <= x
  BY <1>4, <1>5
<1> QED BY <1>6

LEMMA OldestEvictable ==
  ASSUME NEW k \in CoreState, Evictable(k) # {}
  PROVE  Oldest(k) \in Evictable(k)
<1> DEFINE T == {k.dels[s].id : s \in Evictable(k)}
<1>1. \A s \in Evictable(k) : s \in Sessions /\ k.dels[s] # None
  BY DEF Evictable, Held
<1>2. \A s \in Evictable(k) : k.dels[s].id \in Nat
  BY <1>1, IdsNat DEF CoreState, Delivery
<1>3. T \in SUBSET Nat /\ T # {}
  BY <1>2
<1>4. PICK m \in T : \A x \in T : m <= x
  BY <1>3, LeastExists
<1>5. PICK s \in Evictable(k) : k.dels[s].id = m
  BY <1>4
<1>6. \A t \in Evictable(k) : k.dels[s].id <= k.dels[t].id
  BY <1>4, <1>5
<1> QED BY <1>5, <1>6 DEF Oldest

\* A chain after which nothing is left to complete.
Firm(o, k, ev, pr, un) ==
  k \in CoreState /\ Sound(k, ev, pr, un) /\ WritesKnown(k) /\ Kept(o, k)

\* What making room leaves alone.
SameFor(k, r, s) ==
  /\ r.dels[s] = k.dels[s] /\ r.next = k.next /\ r.pending = k.pending
  /\ r.queue = k.queue /\ r.obs = k.obs /\ r.err = k.err /\ r.changed = k.changed
  /\ \A id \in Ids : r.cells[id].paste = k.cells[id].paste

LEMMA WithRoomFirm ==
  ASSUME NEW o \in CoreState, NEW k, NEW s \in Sessions, NEW pr \in [Ids -> Nat],
         NEW ev \in Seq(TransportEvent), NEW un \in SUBSET Submissions,
         Firm(o, k, ev, pr, un)
  PROVE  LET r == WithRoom(k, s) IN
         Firm(o, r, ev, pr, un) /\ SameFor(k, r, s)
<1> DEFINE r == WithRoom(k, s)
           t == Oldest(k)
<1>1. CASE r = k
  BY <1>1 DEF SameFor
<1>2. CASE r # k
  <2>1. k \in CoreState /\ k.dels[s] = None /\ Evictable(k) # {} /\ r = Drop(k, t)
    BY <1>2 DEF WithRoom, Evict, Firm
  <2>2. t \in Sessions /\ k.dels[t] # None /\ k.dels[t].state \notin Active
    BY <2>1, OldestEvictable DEF Evictable, Held
  <2> HIDE DEF r, t
  <2>3. Drops(k, r, t) /\ r.err = k.err /\ r.changed = k.changed
    BY <2>1, <2>2, DropDrops
  <2>4. r \in CoreState
    BY <2>3 DEF Drops
  <2>5. Sound(r, ev, pr, un)
    BY <2>1, <2>2, <2>3, DropSound DEF Firm
  <2>6. WritesKnown(r)
    BY <2>1, <2>2, <2>3, DropKnown DEF Firm
  <2>7. Kept(o, r)
    BY <2>2, <2>3 DEF Firm, Kept, Drops
  <2>8. SameFor(k, r, s)
    <3>1. \A id \in Ids : r.cells[id].paste = k.cells[id].paste
      BY <2>3 DEF Drops
    <3> QED BY <2>1, <2>2, <2>3, <3>1 DEF SameFor, Drops
  <2> QED BY <2>4, <2>5, <2>6, <2>7, <2>8 DEF Firm, r
<1> QED BY <1>1, <1>2

-----------------------------------------------------------------------------
(* A new delivery *)

\* The record d, the cells and the worker of a new delivery for the pending submission.
Starts(k, n, s, d) ==
  LET id == d.id
      sub == k.pending[s]
  IN
  /\ n \in CoreState /\ d \in Delivery
  /\ sub \in Submissions
  /\ id = k.next /\ d.epoch = k.obs[s].epoch /\ d.conf = None
  /\ d.state \in {"WritingPaste", "Failed", "Blocked"}
  /\ n.next = k.next + 1
  /\ n.pending = k.pending /\ n.queue = k.queue /\ n.obs = k.obs
  /\ n.dels[s] = d /\ \A t \in Sessions \ {s} : n.dels[t] = k.dels[t]
  /\ \A j \in Ids \ {id} :
       /\ n.worker[j] = k.worker[j]
       /\ n.cells[j].sub = k.cells[j].sub /\ n.cells[j].paste = k.cells[j].paste
       /\ n.cells[j].receipt = k.cells[j].receipt
       /\ n.cells[j].forgotten = k.cells[j].forgotten
       /\ k.cells[j].cancel => n.cells[j].cancel
       /\ j >= k.next => n.cells[j] = k.cells[j]
  /\ n.cells[id].sub \in {None, sub} /\ ~n.cells[id].receipt /\ ~n.cells[id].forgotten
  /\ n.cells[id].paste => n.cells[id].sub = sub
  /\ d.state = "WritingPaste" <=> n.worker[id] # None
  /\ n.worker[id] # None =>
       /\ n.worker[id].session = s /\ n.worker[id].epoch = d.epoch
       /\ n.worker[id].sub = sub /\ n.cells[id].sub = sub
       /\ n.worker[id].pc \in {"ready", "receipt"}
       /\ n.cells[id].paste <=> n.worker[id].pc = "receipt"
  /\ \A x \in Submissions \ {sub} : n.pasted[x] = k.pasted[x]
  /\ n.pasted[sub] = IF n.cells[id].paste THEN k.pasted[sub] + 1 ELSE k.pasted[sub]

\* The pending submission may be begun: it was not written, as far as Core can know, and
\* no delivery of the session is being written.
Startable(k, s) ==
  /\ k.dels[s] # None => k.dels[s].state # "WritingPaste"
  /\ \A id \in Ids : Wrote(k, id, k.pending[s]) => Forgotten(k, k.pending[s])

\* Facts about the cells after a start, in the form the proofs below use.
LEMMA StartCells ==
  ASSUME NEW k \in CoreState, NEW n, NEW s \in Sessions, NEW d, NEW ev,
         IdsOnRecord(k, ev), Starts(k, n, s, d)
  PROVE  /\ d.id \in Ids /\ k.next \in Nat /\ Ids \subseteq Nat
         /\ k.worker[d.id] = None /\ k.cells[d.id] = FreshCells
         /\ \A x \in Submissions : ~Wrote(k, d.id, x)
         /\ \A j \in Ids \ {d.id}, x \in Submissions : Wrote(n, j, x) <=> Wrote(k, j, x)
         /\ \A x \in Submissions : Wrote(n, d.id, x) <=>
              x = k.pending[s] /\ n.cells[d.id].paste
         /\ \A x \in Submissions : Forgotten(n, x) <=> Forgotten(k, x)
<1>1. d.id \in Ids /\ k.next \in Nat /\ Ids \subseteq Nat /\ d.id = k.next
  <2>1. d \in Delivery /\ d.id = k.next
    BY DEF Starts
  <2> QED BY <2>1, NextNat, IdsNat DEF Delivery
<1>2. k.worker[d.id] = None /\ k.cells[d.id] = FreshCells
  BY <1>1 DEF IdsOnRecord
<1>3. ~k.cells[d.id].paste /\ ~k.cells[d.id].forgotten
  BY <1>2 DEF FreshCells
<1>4. \A x \in Submissions : ~Wrote(k, d.id, x)
  BY <1>3 DEF Wrote
<1>5. \A j \in Ids \ {d.id}, x \in Submissions : Wrote(n, j, x) <=> Wrote(k, j, x)
  BY DEF Wrote, Starts
<1>6. \A x \in Submissions : Wrote(n, d.id, x) <=> x = k.pending[s] /\ n.cells[d.id].paste
  BY DEF Wrote, Starts
<1>7. \A x \in Submissions : Forgotten(n, x) <=> Forgotten(k, x)
  BY <1>1, <1>3 DEF Forgotten, Starts
<1> QED BY <1>1, <1>2, <1>4, <1>5, <1>6, <1>7

LEMMA StartSound ==
  ASSUME NEW k \in CoreState, NEW n, NEW s \in Sessions, NEW d, NEW pr \in [Ids -> Nat],
         NEW ev \in Seq(TransportEvent), NEW un \in SUBSET Submissions,
         Sound(k, ev, pr, un), Startable(k, s), Starts(k, n, s, d)
  PROVE  Sound(n, ev, pr, un)
<1> DEFINE id == d.id
           sub == k.pending[s]
<1>1. /\ id \in Ids /\ k.next \in Nat /\ Ids \subseteq Nat /\ id = k.next
      /\ k.worker[id] = None /\ k.cells[id] = FreshCells /\ sub \in Submissions
  <2>1. id = k.next /\ sub \in Submissions
    BY DEF Starts
  <2> QED BY <2>1, StartCells DEF Sound
<1>a. n.next = k.next + 1
  BY DEF Starts
<1>b. IdsOnRecord(k, ev)
  BY DEF Sound
<1>2. \A i \in 1..Len(ev) : ev[i].id \in Ids /\ ev[i].id < k.next
  <2>1. \A i \in 1..Len(ev) : ev[i] \in TransportEvent
    OBVIOUS
  <2> QED BY <2>1 DEF TransportEvent, Sound, IdsOnRecord
<1>3. IdsOnRecord(n, ev)
  <2>1. \A t \in Sessions : k.dels[t] # None => k.dels[t].id \in Nat
    BY IdsNat DEF CoreState, Delivery
  <2>2. \A t \in Sessions : n.dels[t] # None =>
          n.dels[t].id < n.next /\ n.dels[t].epoch = n.obs[t].epoch
    <3>1. /\ n.dels[s] = d /\ d.epoch = k.obs[s].epoch /\ n.obs = k.obs
          /\ \A t \in Sessions \ {s} : n.dels[t] = k.dels[t]
      BY DEF Starts
    <3>2. \A t \in Sessions : k.dels[t] # None =>
            k.dels[t].id < k.next /\ k.dels[t].epoch = k.obs[t].epoch
      BY <1>b DEF IdsOnRecord
    <3>3. d.id < n.next /\ \A i \in Nat : i < k.next => i < n.next
      BY <1>1, <1>a
    <3> HIDE DEF id, sub
    <3> QED BY <3>1, <3>2, <3>3, <2>1
  <2>3. \A j \in Ids : j >= n.next => j # id /\ j >= k.next
    BY <1>1, <1>a
  <2>4. \A j \in Ids : j >= n.next => n.worker[j] = None /\ n.cells[j] = FreshCells
    <3>1. \A j \in Ids : j >= k.next => k.worker[j] = None /\ k.cells[j] = FreshCells
      BY <1>b DEF IdsOnRecord
    <3>2. \A j \in Ids \ {id} :
            n.worker[j] = k.worker[j] /\ (j >= k.next => n.cells[j] = k.cells[j])
      BY DEF Starts
    <3> HIDE DEF id
    <3> QED BY <2>3, <3>1, <3>2
  <2>5. ASSUME NEW i \in 1..Len(ev) PROVE ev[i].id < n.next
    <3>1. ev[i].id \in Nat /\ ev[i].id < k.next
      BY <1>1, <1>2
    <3> QED BY <1>1, <1>a, <3>1
  <2> QED BY <2>2, <2>4, <2>5 DEF IdsOnRecord
<1>4. WorkersOnRecord(n, ev, pr)
  <2>1. ASSUME NEW j \in Ids, n.worker[j] # None
        PROVE  /\ n.worker[j].sub = n.cells[j].sub
               /\ n.cells[j].paste <=> n.worker[j].pc \notin Unmarked
               /\ n.worker[j].pc \in Pressed => pr[j] > 0
               /\ n.worker[j].pc \in Unreported => \A i \in 1..Len(ev) : ev[i].id # j
    <3>1. CASE j = id
      <4>1. /\ n.worker[id].sub = n.cells[id].sub
            /\ n.worker[id].pc \in {"ready", "receipt"}
            /\ n.cells[id].paste <=> n.worker[id].pc = "receipt"
        BY <2>1, <3>1 DEF Starts
      <4>2. \A i \in 1..Len(ev) : ev[i].id # id
        BY <1>1, <1>2
      <4> QED BY <3>1, <4>1, <4>2 DEF Unmarked, Pressed
    <3>2. CASE j # id
      BY <2>1, <3>2 DEF Sound, WorkersOnRecord, Starts
    <3> QED BY <3>1, <3>2
  <2>2. \A j \in Ids : n.cells[j].receipt => pr[j] > 0
    BY DEF Sound, WorkersOnRecord, Starts
  <2> QED BY <2>1, <2>2 DEF Sound, WorkersOnRecord
<1>5. AfterEnter(n, pr)
  BY DEF Sound, AfterEnter, Starts
<1>6. Driven(n, ev)
  <2> SUFFICES ASSUME NEW t \in Sessions, n.dels[t] # None,
                      n.dels[t].state = "WritingPaste"
               PROVE  DrivenBy(n.dels[t], t, n, ev)
    BY DEF Driven
  <2>1. CASE t = s
    <3>1. /\ n.dels[s] = d /\ n.worker[id] # None /\ n.worker[id].session = s
          /\ n.worker[id].epoch = d.epoch /\ n.worker[id].pc \in {"ready", "receipt"}
      BY <2>1 DEF Starts
    <3> QED BY <2>1, <3>1 DEF DrivenBy, Unreported, Unmarked
  <2>2. CASE t # s
    <3>1. n.dels[t] = k.dels[t]
      BY <2>2 DEF Starts
    <3>2. k.dels[t].id \in Ids /\ k.dels[t].id < k.next
      BY <3>1, RecordAt DEF Sound
    <3>3. k.dels[t].id # id /\ n.worker[k.dels[t].id] = k.worker[k.dels[t].id]
      <4>1. k.dels[t].id # id
        BY <1>1, <3>2
      <4> QED BY <3>2, <4>1 DEF Starts
    <3>4. DrivenBy(k.dels[t], t, k, ev)
      BY <3>1 DEF Sound, Driven
    <3> QED BY <3>1, <3>3, <3>4 DEF DrivenBy
  <2> QED BY <2>1, <2>2
<1>7. Serves(n)
  <2> SUFFICES ASSUME NEW j \in Ids, n.worker[j] # None,
                      n.worker[j].pc \in Unmarked, ~n.cells[j].cancel
               PROVE  LET t == n.worker[j].session IN
                      /\ n.dels[t] # None /\ n.dels[t].id = j
                      /\ n.dels[t].state = "WritingPaste"
                      /\ n.pending[t] = n.worker[j].sub
    BY DEF Serves
  <2>1. CASE j = id
    <3>1. d # None
      BY NoneAssumption DEF Starts
    <3> QED BY <2>1, <3>1 DEF Starts
  <2>2. CASE j # id
    <3> DEFINE t == k.worker[j].session
    <3>1. n.worker[j] = k.worker[j] /\ ~k.cells[j].cancel
      BY <2>2 DEF Starts
    <3>2. t \in Sessions
      BY <3>1 DEF CoreState, Worker
    <3>3. /\ k.dels[t] # None /\ k.dels[t].id = j /\ k.dels[t].state = "WritingPaste"
          /\ k.pending[t] = k.worker[j].sub
      BY <3>1 DEF Sound, Serves
    <3>4. t # s
      BY <3>3 DEF Startable
    <3> QED BY <3>1, <3>2, <3>3, <3>4 DEF Starts
  <2> QED BY <2>1, <2>2
<1>8. QueueCovered(n)
  <2>1. sub # None
    BY <1>1, NoneAssumption
  <2>2. n.pending = k.pending /\ n.queue = k.queue /\ n.obs = k.obs
    BY DEF Starts
  <2>3. k.obs[s].epoch # 0
    BY <2>1 DEF Sound, QueueCovered
  <2>4. \A t \in Sessions \ {s} : n.dels[t] = k.dels[t]
    BY DEF Starts
  <2> QED BY <2>1, <2>2, <2>3, <2>4 DEF Sound, QueueCovered
<1>9. OnePlace(n, un)
  <2>1. n.pending = k.pending /\ n.queue = k.queue
    BY DEF Starts
  <2>2. sub # None /\ sub \notin un /\ None \notin un /\ \A t \in Sessions : ~Queued(k, t, sub)
    BY <1>1, NoneAssumption DEF Sound, OnePlace
  <2>3. \A t \in Sessions : \A i \in 1..Len(k.queue[t].subs) :
          k.queue[t].subs[i] \in Submissions
    BY DEF CoreState
  <2>4. \A j \in Ids : n.cells[j].sub \notin un
    BY <2>2 DEF Sound, OnePlace, Starts
  <2>5. \A t \in Sessions : \A i \in 1..Len(k.queue[t].subs) :
          \A j \in Ids : n.cells[j].sub # k.queue[t].subs[i]
    <3>1. \A t \in Sessions : \A i \in 1..Len(k.queue[t].subs) :
            k.queue[t].subs[i] # None /\ k.queue[t].subs[i] # sub
      BY <2>2, <2>3, NoneAssumption DEF Queued
    <3> QED BY <3>1 DEF Sound, OnePlace, Starts
  <2> QED BY <2>1, <2>4, <2>5 DEF Sound, OnePlace, Queued
<1>10. PastesCounted(n)
  <2>1. /\ \A x \in Submissions : ~Wrote(k, id, x)
        /\ \A j \in Ids \ {id}, x \in Submissions : Wrote(n, j, x) <=> Wrote(k, j, x)
        /\ \A x \in Submissions : Wrote(n, id, x) <=> x = sub /\ n.cells[id].paste
        /\ \A x \in Submissions : Forgotten(n, x) <=> Forgotten(k, x)
    <3>1. \A x \in Submissions : ~Wrote(k, id, x)
      BY <1>b, StartCells
    <3>2. /\ \A j \in Ids \ {id}, x \in Submissions : Wrote(n, j, x) <=> Wrote(k, j, x)
          /\ \A x \in Submissions : Wrote(n, id, x) <=> x = sub /\ n.cells[id].paste
          /\ \A x \in Submissions : Forgotten(n, x) <=> Forgotten(k, x)
      BY <1>b, StartCells
    <3> QED BY <3>1, <3>2
  <2>2. /\ \A x \in Submissions \ {sub} : n.pasted[x] = k.pasted[x]
        /\ n.pasted[sub] = IF n.cells[id].paste THEN k.pasted[sub] + 1 ELSE k.pasted[sub]
        /\ k.pasted \in [Submissions -> Nat]
    BY DEF Starts, CoreState
  <2>3. \A j \in Ids : Wrote(k, j, sub) => Forgotten(k, sub)
    BY DEF Startable
  <2>4. PastesCounted(k)
    BY DEF Sound
  <2>5. \A x \in Submissions : n.pasted[x] > 0 => \E j \in Ids : Wrote(n, j, x)
    <3> SUFFICES ASSUME NEW x \in Submissions, n.pasted[x] > 0
                 PROVE  \E j \in Ids : Wrote(n, j, x)
      OBVIOUS
    <3>1. CASE x = sub /\ n.cells[id].paste
      BY <1>1, <2>1, <3>1
    <3>2. CASE ~(x = sub /\ n.cells[id].paste)
      <4>1. k.pasted[x] > 0
        BY <2>2, <3>2
      <4>2. PICK j \in Ids : Wrote(k, j, x)
        BY <2>4, <4>1 DEF PastesCounted
      <4> QED BY <2>1, <4>2
    <3> QED BY <3>1, <3>2
  <2>6. ASSUME NEW x \in Submissions, NEW i \in Ids, NEW j \in Ids,
               Wrote(n, i, x), Wrote(n, j, x), i # j
        PROVE  Forgotten(n, x)
    BY <2>1, <2>3, <2>4, <2>6 DEF PastesCounted
  <2>7. ASSUME NEW x \in Submissions, NEW j \in Ids, Wrote(n, j, x), ~Forgotten(n, x)
        PROVE  /\ n.pasted[x] <= 1
               /\ n.worker[j] # None /\ n.worker[j].pc = "paste" => n.pasted[x] = 0
    <3>1. CASE j = id
      <4>1. x = sub /\ n.cells[id].paste
        BY <2>1, <2>7, <3>1
      <4>2. \A i \in Ids : ~Wrote(k, i, x)
        BY <2>1, <2>3, <2>7, <4>1
      <4>3. k.pasted[x] = 0
        BY <2>2, <2>4, <4>2 DEF PastesCounted
      <4>4. n.worker[id] # None => n.worker[id].pc # "paste"
        BY DEF Starts
      <4> QED BY <2>2, <3>1, <4>1, <4>3, <4>4
    <3>2. CASE j # id
      <4>1. Wrote(k, j, x) /\ ~Forgotten(k, x)
        BY <2>1, <2>7, <3>2
      <4>2. x # sub
        BY <2>3, <4>1
      <4>3. n.worker[j] = k.worker[j] /\ n.pasted[x] = k.pasted[x]
        BY <2>2, <3>2, <4>2 DEF Starts
      <4> QED BY <2>4, <4>1, <4>3 DEF PastesCounted
    <3> QED BY <3>1, <3>2
  <2> QED BY <2>5, <2>6, <2>7 DEF PastesCounted
<1> QED BY <1>3, <1>4, <1>5, <1>6, <1>7, <1>8, <1>9, <1>10 DEF Sound

LEMMA StartKnown ==
  ASSUME NEW k \in CoreState, NEW n, NEW s \in Sessions, NEW d, NEW pr, NEW ev,
         NEW un, Sound(k, ev, pr, un), WritesKnown(k), Startable(k, s), Starts(k, n, s, d)
  PROVE  WritesKnown(n)
<1> DEFINE id == d.id
<1>1. /\ id \in Ids
      /\ \A j \in Ids \ {id}, x \in Submissions : Wrote(n, j, x) <=> Wrote(k, j, x)
      /\ \A x \in Submissions : Wrote(n, id, x) <=> x = k.pending[s] /\ n.cells[id].paste
      /\ \A x \in Submissions : Forgotten(n, x) <=> Forgotten(k, x)
  BY StartCells DEF Sound
<1>2. n.pending = k.pending /\ k.pending[s] \in Submissions
  BY DEF Starts
<1> SUFFICES ASSUME NEW u \in Sessions, n.pending[u] # None, ~Forgotten(n, n.pending[u]),
                    NEW j \in Ids, Wrote(n, j, n.pending[u])
             PROVE  /\ n.dels[u] # None /\ Wrote(n, n.dels[u].id, n.pending[u])
                    /\ n.dels[u].state \notin AcceptsReplacement
  BY DEF WritesKnown, Known
<1>3. k.pending[u] \in Submissions /\ n.pending[u] = k.pending[u]
  BY <1>2 DEF CoreState
<1>4. CASE u = s
  <2>1. j = id
    BY <1>1, <1>3, <1>4 DEF Startable
  <2>2. n.dels[s] = d /\ d # None /\ d.state \notin AcceptsReplacement
    BY NoneAssumption DEF Starts, AcceptsReplacement
  <2> QED BY <1>4, <2>1, <2>2
<1>5. CASE u # s
  <2>1. k.pending[u] # k.pending[s]
    BY <1>2, <1>3, <1>5, NoneAssumption DEF Sound, OnePlace
  <2>2. Wrote(k, j, k.pending[u]) /\ ~Forgotten(k, k.pending[u])
    BY <1>1, <1>3, <2>1
  <2>3. /\ k.dels[u] # None /\ Wrote(k, k.dels[u].id, k.pending[u])
        /\ k.dels[u].state \notin AcceptsReplacement
    BY <1>3, <2>2 DEF WritesKnown, Known
  <2>4. n.dels[u] = k.dels[u]
    BY <1>5 DEF Starts
  <2>5. k.dels[u].id \in Ids /\ k.dels[u].id < k.next
    BY <2>3, RecordAt DEF Sound
  <2>6. k.dels[u].id # id
    BY <2>5, IdsNat, NextNat DEF Starts
  <2> QED BY <1>1, <1>3, <2>3, <2>4, <2>5, <2>6
<1> QED BY <1>4, <1>5

LEMMA StartFirm ==
  ASSUME NEW o \in CoreState, NEW k, NEW n, NEW s \in Sessions, NEW d,
         NEW pr \in [Ids -> Nat],
         NEW ev \in Seq(TransportEvent), NEW un \in SUBSET Submissions,
         Firm(o, k, ev, pr, un), Startable(k, s), Starts(k, n, s, d)
  PROVE  Firm(o, n, ev, pr, un)
<1>1. n \in CoreState
  BY DEF Starts
<1>2. Kept(o, n)
  <2>1. k.next \in Nat /\ o.next \in Nat
    BY NextNat DEF Firm
  <2> QED BY <2>1 DEF Firm, Kept, Starts
<1> QED BY <1>1, <1>2, StartSound, StartKnown DEF Firm

\* What Insert does.
Inserts(r, i, s, d, cell) ==
  /\ i \in CoreState
  /\ i.next = r.next + 1 /\ i.pending = r.pending /\ i.queue = r.queue /\ i.obs = r.obs
  /\ i.worker = r.worker /\ i.pasted = r.pasted /\ i.err = r.err
  /\ i.dels[s] = d /\ \A t \in Sessions \ {s} : i.dels[t] = r.dels[t]
  /\ i.cells[d.id] = cell
  /\ \A j \in Ids \ {d.id} :
       /\ i.cells[j].sub = r.cells[j].sub /\ i.cells[j].paste = r.cells[j].paste
       /\ i.cells[j].receipt = r.cells[j].receipt
       /\ i.cells[j].forgotten = r.cells[j].forgotten
       /\ r.cells[j].cancel => i.cells[j].cancel
       /\ j >= r.next => i.cells[j] = r.cells[j]

LEMMA InsertInserts ==
  ASSUME NEW r \in CoreState, NEW s \in Sessions, NEW d \in Delivery, NEW cell \in Cell,
         NEW ev, IdsOnRecord(r, ev), d.id = r.next
  PROVE  Inserts(r, Insert(r, s, d, cell), s, d, cell)
<1> DEFINE c == IF r.dels[s] = None THEN r ELSE CloseAck(r, r.dels[s].id)
           id == d.id
           i == Insert(r, s, d, cell)
<1>1. id \in Ids /\ r.next \in Nat /\ Ids \subseteq Nat
  BY IdsNat, NextNat DEF Delivery
<1>2. /\ c \in CoreState
      /\ c.dels = r.dels /\ c.next = r.next /\ c.pending = r.pending
      /\ c.queue = r.queue /\ c.obs = r.obs
      /\ c.worker = r.worker /\ c.pasted = r.pasted /\ c.err = r.err
      /\ \A j \in Ids :
           /\ c.cells[j].sub = r.cells[j].sub /\ c.cells[j].paste = r.cells[j].paste
           /\ c.cells[j].receipt = r.cells[j].receipt
           /\ c.cells[j].forgotten = r.cells[j].forgotten
           /\ r.cells[j].cancel => c.cells[j].cancel
           /\ j >= r.next => c.cells[j] = r.cells[j]
  <2>1. CASE r.dels[s] = None
    BY <2>1
  <2>2. CASE r.dels[s] # None
    <3>1. r.dels[s].id \in Ids /\ r.dels[s].id < r.next
      BY <2>2, RecordAt
    <3>2. CellTouched(r, c, r.dels[s].id)
      BY <2>2, <3>1, CloseAckTouches
    <3> HIDE DEF c, i, id
    <3>3. \A j \in Ids : j >= r.next => j # r.dels[s].id
      <4>1. \A j \in Nat : j < r.next /\ j >= r.next => FALSE
        BY <1>1
      <4> QED BY <1>1, <3>1, <4>1
    <3>4. \A j \in Ids :
           /\ c.cells[j].sub = r.cells[j].sub /\ c.cells[j].paste = r.cells[j].paste
           /\ c.cells[j].receipt = r.cells[j].receipt
           /\ c.cells[j].forgotten = r.cells[j].forgotten
           /\ r.cells[j].cancel => c.cells[j].cancel
           /\ j >= r.next => c.cells[j] = r.cells[j]
      BY <3>2, <3>3 DEF CellTouched
    <3> QED BY <3>2, <3>4 DEF CellTouched
  <2> QED BY <2>1, <2>2
<1>3. i = [c EXCEPT !.dels[s] = d, !.cells[id] = cell, !.next = c.next + 1]
  BY DEF Insert
<1> HIDE DEF c, i, id
<1>4. /\ i.next = c.next + 1 /\ i.pending = c.pending /\ i.queue = c.queue /\ i.obs = c.obs
      /\ i.worker = c.worker /\ i.pasted = c.pasted /\ i.err = c.err
      /\ i.dels = [c.dels EXCEPT ![s] = d] /\ i.cells = [c.cells EXCEPT ![id] = cell]
      /\ i.changed = c.changed /\ i.deferred = c.deferred
  BY <1>2, <1>3 DEF CoreState
<1>5. i \in CoreState
  <2>1. c.next + 1 \in Nat \ {0}
    BY <1>1, <1>2
  <2>2. [c.dels EXCEPT ![s] = d] \in [Sessions -> Delivery \cup {None}]
    BY <1>2 DEF CoreState
  <2>3. [c.cells EXCEPT ![id] = cell] \in [Ids -> Cell]
    BY <1>1, <1>2 DEF CoreState
  <2>4. i = [c EXCEPT !.dels = [c.dels EXCEPT ![s] = d],
                      !.cells = [c.cells EXCEPT ![id] = cell], !.next = c.next + 1]
    BY <1>2, <1>3 DEF CoreState
  <2> QED BY <1>2, <2>1, <2>2, <2>3, <2>4 DEF CoreState
<1>6. /\ i.dels[s] = d /\ \A t \in Sessions \ {s} : i.dels[t] = c.dels[t]
      /\ i.cells[id] = cell /\ \A j \in Ids \ {id} : i.cells[j] = c.cells[j]
  BY <1>1, <1>2, <1>4 DEF CoreState
<1>7. Inserts(r, i, s, d, cell)
  BY <1>2, <1>4, <1>5, <1>6 DEF Inserts, id
<1> QED BY <1>7 DEF i

\* The pending submission of s, when there is one to begin.
LEMMA CanBeginStartable ==
  ASSUME NEW k \in CoreState, NEW s \in Sessions, WritesKnown(k), k.pending[s] # None,
         k.dels[s] = None \/ k.dels[s].state \in AcceptsReplacement \/ Unwritten(k, k.dels[s])
  PROVE  Startable(k, s)
<1>1. k.dels[s] # None => k.dels[s].state # "WritingPaste"
  BY DEF AcceptsReplacement, Unwritten
<1>2. ASSUME NEW id \in Ids, Wrote(k, id, k.pending[s]), ~Forgotten(k, k.pending[s])
      PROVE  FALSE
  <2>1. /\ k.dels[s] # None /\ Wrote(k, k.dels[s].id, k.pending[s])
        /\ k.dels[s].state \notin AcceptsReplacement
    BY <1>2 DEF WritesKnown, Known
  <2> QED BY <2>1 DEF Unwritten, Wrote
<1> QED BY <1>1, <1>2 DEF Startable

LEMMA BeginFirm ==
  ASSUME NEW o \in CoreState, NEW k, NEW s \in Sessions, NEW how \in Hows,
         NEW pr \in [Ids -> Nat], NEW ev \in Seq(TransportEvent),
         NEW un \in SUBSET Submissions, input \in [Sessions -> Input],
         Firm(o, k, ev, pr, un), CanBegin(k, s), k.pending[s] # None, k.next <= MaxIds
  PROVE  LET n == Begin(k, s, how) IN
         /\ Firm(o, n, ev, pr, un) /\ n.queue = k.queue /\ n.pending = k.pending
         /\ n.obs[s].epoch = k.obs[s].epoch
         /\ n.err => k.err \/ n.dels[s] = None
<1> DEFINE r == WithRoom(k, s)
           id == r.next
           sub == r.pending[s]
           settle == Settlement(r, s)
           wrote == how # "unavailable" /\ settle # "composer"
           d == [id |-> id, epoch |-> r.obs[s].epoch, baseline |-> r.obs[s].seq,
                 settle |-> settle, sub |-> sub,
                 state |-> IF how = "started" THEN "WritingPaste" ELSE "Failed",
                 failure |-> IF how = "started" THEN "none" ELSE "Terminal",
                 conf |-> None, edits |-> input[s].edits]
           cell == [FreshCells EXCEPT !.sub = sub, !.paste = wrote,
                                      !.ack = IF how = "started" THEN "open" ELSE "closed"]
           i == Insert(r, s, d, cell)
           w == [pc |-> IF settle = "composer" THEN "ready" ELSE "receipt",
                 session |-> s, epoch |-> d.epoch, sub |-> sub, settle |-> settle,
                 input |-> input[s]]
           x == IF how = "started" THEN w ELSE None
           y == IF wrote THEN i.pasted[sub] + 1 ELSE i.pasted[sub]
           n == Begin(k, s, how)
<1>1. Firm(o, r, ev, pr, un) /\ SameFor(k, r, s)
  BY WithRoomFirm
<1>2. /\ r \in CoreState /\ IdsOnRecord(r, ev) /\ WritesKnown(r) /\ k \in CoreState
      /\ r.next = k.next /\ r.pending = k.pending /\ r.queue = k.queue /\ r.err = k.err
      /\ r.dels[s] = k.dels[s] /\ r.obs = k.obs
      /\ \A j \in Ids : r.cells[j].paste = k.cells[j].paste
  BY <1>1 DEF Firm, Sound, SameFor
<1>3. CASE Full(r, s)
  <2>1. n = [r EXCEPT !.err = TRUE]
    BY <1>3 DEF Begin
  <2>2. r.dels[s] = None
    BY <1>3 DEF Full
  <2> HIDE DEF r, n
  <2>3. /\ Firm(o, n, ev, pr, un) /\ n.dels = r.dels /\ n.queue = r.queue
        /\ n.pending = r.pending /\ n.obs = r.obs
    <3>1. /\ n \in CoreState /\ n.dels = r.dels /\ n.next = r.next
          /\ n.pending = r.pending /\ n.queue = r.queue /\ n.obs = r.obs
          /\ n.worker = r.worker /\ n.pasted = r.pasted /\ n.cells = r.cells
          /\ n.changed = r.changed
      BY <1>2, <2>1 DEF CoreState
    <3>2. Restates(r, n, s, pr)
      BY <3>1 DEF Restates, CellsKept
    <3>3. n.dels[s] = r.dels[s]
      BY <3>1
    <3> QED BY <1>1, <3>1, <3>2, <3>3, RestateSound, RestateStrict, RestateKept DEF Firm
  <2> QED BY <1>2, <2>2, <2>3 DEF n
<1>4. CASE ~Full(r, s)
  <2>1. n = [i EXCEPT !.worker[id] = x, !.pasted[sub] = y]
    BY <1>4 DEF Begin
  <2>2. Startable(r, s)
    <3>1. k.dels[s] # None => k.dels[s].id \in Ids
      BY <1>2 DEF CoreState, Delivery
    <3>2. r.dels[s] = None \/ r.dels[s].state \in AcceptsReplacement \/ Unwritten(r, r.dels[s])
      BY <1>2, <3>1 DEF CanBegin, Unwritten
    <3> QED BY <1>2, <3>2, CanBeginStartable
  <2>3. /\ sub \in Submissions /\ id \in Ids /\ r.obs[s] \in Observation
        /\ settle \in Settlements /\ input[s] \in Input /\ input[s].edits \in Nat
        /\ r.obs[s].epoch \in Nat /\ r.obs[s].seq \in Nat /\ wrote \in BOOLEAN
    <3>1. sub \in Submissions
      BY <1>2 DEF CoreState
    <3>2. id \in Ids
      BY <1>2, DeliveryBounds DEF CoreState, Ids
    <3>3. r.obs[s] \in Observation
      BY <1>2 DEF CoreState
    <3>4. r.obs[s].epoch \in Nat /\ r.obs[s].seq \in Nat
      BY <3>3 DEF Observation
    <3>5. settle \in Settlements
      BY DEF Settlement, Settlements
    <3>6. input[s] \in Input /\ input[s].edits \in Nat
      BY DEF Input
    <3> QED BY <3>1, <3>2, <3>3, <3>4, <3>5, <3>6
  <2> HIDE DEF r, id, sub, settle, wrote, n
  <2>4. d \in Delivery /\ d.id = id
    BY <2>3 DEF Delivery, States, Failures
  <2>5. /\ cell \in Cell /\ cell.sub = sub /\ cell.paste = wrote /\ ~cell.receipt
        /\ ~cell.forgotten
    BY <2>3 DEF Cell, FreshCells
  <2>6. w \in Worker
    BY <2>3 DEF Worker, Pcs
  <2>7. /\ d.epoch = r.obs[s].epoch /\ d.conf = None
        /\ d.state = IF how = "started" THEN "WritingPaste" ELSE "Failed"
    OBVIOUS
  <2>8. /\ w.session = s /\ w.epoch = d.epoch /\ w.sub = sub
        /\ w.pc = IF settle = "composer" THEN "ready" ELSE "receipt"
    OBVIOUS
  <2> HIDE DEF d, cell, w, i
  <2>9. Inserts(r, i, s, d, cell)
    BY <1>2, <2>4, <2>5, InsertInserts DEF i, id
  <2>10. i \in CoreState /\ y \in Nat /\ x \in Worker \cup {None}
    <3>1. i \in CoreState
      BY <2>9 DEF Inserts
    <3>2. i.pasted[sub] \in Nat
      BY <2>3, <3>1 DEF CoreState
    <3> QED BY <2>6, <3>1, <3>2
  <2>11. x # None <=> how = "started"
    BY <2>6, NoneAssumption
  <2>12. y = IF wrote THEN i.pasted[sub] + 1 ELSE i.pasted[sub]
    OBVIOUS
  <2>13. how # "started" => x = None
    OBVIOUS
  <2>14. how = "started" => x = w
    OBVIOUS
  <2> HIDE DEF x, y
  <2>15. /\ n \in CoreState /\ n.next = i.next /\ n.pending = i.pending /\ n.queue = i.queue
         /\ n.obs = i.obs /\ n.dels = i.dels /\ n.cells = i.cells /\ n.err = i.err
         /\ n.worker[id] = x /\ \A j \in Ids \ {id} : n.worker[j] = i.worker[j]
         /\ n.pasted[sub] = y /\ \A z \in Submissions \ {sub} : n.pasted[z] = i.pasted[z]
    <3>1. i \in CoreState /\ id \in Ids /\ sub \in Submissions
      BY <2>3, <2>10
    <3>2. n \in CoreState
      BY <2>1, <2>10, <3>1 DEF CoreState
    <3> QED BY <2>1, <3>1, <3>2 DEF CoreState
  <2>16. Starts(r, n, s, d)
    <3>1. sub = r.pending[s] /\ id = r.next /\ d.id = r.next
      BY <2>4 DEF sub, id
    <3>2. wrote = (how # "unavailable" /\ settle # "composer")
      BY DEF wrote
    <3>3. n.cells[id] = cell
      BY <2>4, <2>9, <2>15 DEF Inserts
    <3>4. d.state \in {"WritingPaste", "Failed", "Blocked"}
      BY <2>7
    <3>5. d.state = "WritingPaste" <=> n.worker[id] # None
      BY <2>7, <2>11, <2>15
    <3>6. n.worker[id] # None =>
            /\ n.worker[id].session = s /\ n.worker[id].epoch = d.epoch
            /\ n.worker[id].sub = sub /\ n.cells[id].sub = sub
            /\ n.worker[id].pc \in {"ready", "receipt"}
            /\ n.cells[id].paste <=> n.worker[id].pc = "receipt"
      BY <2>5, <2>8, <2>11, <2>14, <2>15, <3>2, <3>3
    <3>7. n.pasted[sub] = IF n.cells[id].paste THEN r.pasted[sub] + 1 ELSE r.pasted[sub]
      BY <2>5, <2>9, <2>12, <2>15, <3>3 DEF Inserts
    <3>8. /\ n.cells[id].sub \in {None, sub} /\ ~n.cells[id].receipt /\ ~n.cells[id].forgotten
          /\ n.cells[id].paste => n.cells[id].sub = sub
      BY <2>5, <3>3
    <3>9. /\ n.next = r.next + 1 /\ n.pending = r.pending /\ n.queue = r.queue /\ n.obs = r.obs
          /\ n.dels[s] = d /\ \A t \in Sessions \ {s} : n.dels[t] = r.dels[t]
          /\ \A j \in Ids \ {id} : n.worker[j] = r.worker[j]
          /\ \A z \in Submissions \ {sub} : n.pasted[z] = r.pasted[z]
      BY <2>9, <2>15 DEF Inserts
    <3>10. \A j \in Ids \ {id} :
             /\ n.cells[j].sub = r.cells[j].sub /\ n.cells[j].paste = r.cells[j].paste
             /\ n.cells[j].receipt = r.cells[j].receipt
             /\ n.cells[j].forgotten = r.cells[j].forgotten
             /\ r.cells[j].cancel => n.cells[j].cancel
             /\ j >= r.next => n.cells[j] = r.cells[j]
      BY <2>4, <2>9, <2>15 DEF Inserts
    <3> QED BY <2>3, <2>4, <2>7, <2>15, <3>1, <3>4, <3>5, <3>6, <3>7, <3>8, <3>9, <3>10
            DEF Starts
  <2>17. Firm(o, n, ev, pr, un)
    BY <1>1, <2>2, <2>16, StartFirm
  <2>18. n.queue = k.queue /\ n.pending = k.pending /\ n.obs = k.obs /\ n.err = k.err
    BY <1>2, <2>9, <2>15 DEF Inserts
  <2> QED BY <2>17, <2>18 DEF n
<1> QED BY <1>3, <1>4

LEMMA RestateFirm ==
  ASSUME NEW o \in CoreState, NEW k, NEW n, NEW s \in Sessions, NEW pr \in [Ids -> Nat],
         NEW ev \in Seq(TransportEvent), NEW un \in SUBSET Submissions,
         Firm(o, k, ev, pr, un), Restates(k, n, s, pr),
         n.dels[s] = k.dels[s] \/ n.dels[s].state \notin AcceptsReplacement
  PROVE  Firm(o, n, ev, pr, un)
<1>1. n \in CoreState
  BY DEF Restates
<1> QED BY <1>1, RestateSound, RestateStrict, RestateKept DEF Firm

LEMMA CancelledTouches ==
  ASSUME NEW k \in CoreState, NEW id \in Ids
  PROVE  /\ CellTouched(k, CloseAck(Cancel(k, id), id), id)
         /\ CloseAck(Cancel(k, id), id).cells[id].cancel
<1> DEFINE c == Cancel(k, id)
           m == CloseAck(c, id)
<1>1. CellTouched(k, c, id) /\ c.cells[id].cancel
  BY CancelTouches
<1>2. c \in CoreState
  BY <1>1 DEF CellTouched
<1> HIDE DEF c
<1>3. CellTouched(c, m, id)
  BY <1>2, CloseAckTouches
<1> HIDE DEF m
<1>4. CellTouched(k, m, id) /\ m.cells[id].cancel
  BY <1>1, <1>3 DEF CellTouched
<1> QED BY <1>4 DEF c, m

LEMMA BlockWritingFirm ==
  ASSUME NEW o \in CoreState, NEW k, NEW s \in Sessions,
         NEW pr \in [Ids -> Nat], NEW ev \in Seq(TransportEvent),
         NEW un \in SUBSET Submissions, Firm(o, k, ev, pr, un),
         k.dels[s] # None, k.dels[s].state = "WritingPaste"
  PROVE  LET n == Block(k, s) IN
         /\ Firm(o, n, ev, pr, un) /\ n.queue = k.queue /\ n.pending = k.pending
         /\ n.obs[s].epoch = k.obs[s].epoch /\ n.err = k.err
<1> DEFINE d == k.dels[s]
           c == CloseAck(Cancel(k, d.id), d.id)
           e == [d EXCEPT !.state = "Blocked", !.failure = "ComposerUnavailable"]
           n == Block(k, s)
<1>1. k \in CoreState /\ IdsOnRecord(k, ev)
  BY DEF Firm, Sound
<1>2. d \in Delivery /\ d.id \in Ids /\ d.id < k.next
  BY <1>1, RecordAt
<1>3. d.epoch = k.obs[s].epoch
  BY <1>1 DEF IdsOnRecord
<1>4. CellTouched(k, c, d.id) /\ c.cells[d.id].cancel
  BY <1>1, <1>2, CancelledTouches
<1>5. c \in CoreState /\ c.dels = k.dels /\ c.changed = k.changed /\ c.err = k.err
  BY <1>4 DEF CellTouched
<1>6. n = [c EXCEPT !.dels[s].state = "Blocked", !.dels[s].failure = "ComposerUnavailable"]
  BY <1>3 DEF Block
<1>7. e \in Delivery /\ e.id = d.id /\ e.epoch = d.epoch /\ e.state = "Blocked" /\ e.conf = d.conf
  BY <1>2 DEF Delivery, States, Failures
<1> HIDE DEF c, n
<1>8. n = Rewritten(c, s, e, k.changed)
  BY <1>5, <1>6 DEF Rewritten, CoreState
<1>9. n.dels[s] = e /\ n.cells = c.cells /\ n.err = c.err
  <2> HIDE DEF e
  <2> QED BY <1>5, <1>8 DEF Rewritten, CoreState
<1> HIDE DEF e
<1>10. Advances(d, e, n, pr)
  BY <1>4, <1>7, <1>9 DEF Advances, AcceptsReplacement
<1>11. k.changed \in BOOLEAN
  BY <1>1 DEF CoreState
<1>12. Restates(k, n, s, pr)
  BY <1>1, <1>2, <1>4, <1>7, <1>8, <1>10, <1>11, RewrittenRestates
<1>13. Firm(o, n, ev, pr, un)
  BY <1>7, <1>9, <1>12, RestateFirm DEF AcceptsReplacement
<1>14. n.queue = k.queue /\ n.pending = k.pending /\ n.obs[s].epoch = k.obs[s].epoch
  BY <1>12 DEF Restates
<1> QED BY <1>5, <1>9, <1>13, <1>14 DEF n

LEMMA BlockNewFirm ==
  ASSUME NEW o \in CoreState, NEW k, NEW s \in Sessions,
         NEW pr \in [Ids -> Nat], NEW ev \in Seq(TransportEvent),
         NEW un \in SUBSET Submissions, Firm(o, k, ev, pr, un),
         k.pending[s] # None, k.next <= MaxIds,
         k.dels[s] = None \/ k.dels[s].state \in AcceptsReplacement
  PROVE  LET n == Block(k, s) IN
         /\ Firm(o, n, ev, pr, un) /\ n.queue = k.queue /\ n.pending = k.pending
         /\ n.obs[s].epoch = k.obs[s].epoch /\ n.err = k.err
<1> DEFINE h == IF k.dels[s] = None THEN k ELSE Cancel(k, k.dels[s].id)
           r == WithRoom(h, s)
           d == [id |-> r.next, epoch |-> r.obs[s].epoch, baseline |-> r.obs[s].seq,
                 settle |-> "output", sub |-> r.pending[s], state |-> "Blocked",
                 failure |-> "ComposerUnavailable", conf |-> None, edits |-> 0]
           cell == [FreshCells EXCEPT !.cancel = TRUE, !.ack = "closed"]
           n == Block(k, s)
<1>1. k \in CoreState /\ IdsOnRecord(k, ev)
  BY DEF Firm, Sound
<1>2. n = IF Full(r, s) THEN r ELSE Insert(r, s, d, cell)
  <2>1. k.dels[s] # None => k.dels[s].epoch = k.obs[s].epoch /\ k.dels[s].state # "WritingPaste"
    BY <1>1 DEF IdsOnRecord, AcceptsReplacement
  <2> QED BY <2>1 DEF Block
<1>3. /\ Firm(o, h, ev, pr, un) /\ h.next = k.next /\ h.pending = k.pending
      /\ h.queue = k.queue /\ h.dels = k.dels /\ h.err = k.err /\ h.obs = k.obs
  <2>1. CASE k.dels[s] = None
    BY <2>1
  <2>2. CASE k.dels[s] # None
    <3>1. k.dels[s].id \in Ids /\ k.dels[s].id < k.next
      BY <1>1, <2>2, RecordAt
    <3>2. CellTouched(k, h, k.dels[s].id)
      BY <1>1, <2>2, <3>1, CancelTouches
    <3> HIDE DEF h
    <3>3. Restates(k, h, s, pr)
      BY <1>1, <2>2, <3>1, <3>2, TouchesKeep
    <3>4. h.dels = k.dels
      BY <3>2 DEF CellTouched
    <3>5. Firm(o, h, ev, pr, un)
      BY <3>3, <3>4, RestateFirm
    <3> QED BY <3>2, <3>5 DEF CellTouched
  <2> QED BY <2>1, <2>2
<1> HIDE DEF h
<1>4. Firm(o, r, ev, pr, un) /\ SameFor(h, r, s)
  BY <1>3, WithRoomFirm
<1>5. /\ r \in CoreState /\ IdsOnRecord(r, ev) /\ WritesKnown(r)
      /\ r.next = k.next /\ r.pending = k.pending /\ r.queue = k.queue /\ r.err = k.err
      /\ r.dels[s] = k.dels[s] /\ r.obs = k.obs
  BY <1>3, <1>4 DEF Firm, Sound, SameFor
<1> HIDE DEF r, n
<1>6. CASE Full(r, s)
  BY <1>2, <1>4, <1>5, <1>6 DEF n
<1>7. CASE ~Full(r, s)
  <2>1. n = Insert(r, s, d, cell)
    BY <1>2, <1>7
  <2>2. Startable(r, s)
    BY <1>5, CanBeginStartable
  <2>3. r.pending[s] \in Submissions /\ r.next \in Ids /\ r.obs[s] \in Observation
    BY <1>5, DeliveryBounds DEF CoreState, Ids
  <2>4. d \in Delivery
    <3>1. r.obs[s].epoch \in Nat /\ r.obs[s].seq \in Nat
      BY <2>3 DEF Observation
    <3> QED BY <2>3, <3>1 DEF Delivery, States, Failures, Settlements
  <2>5. d.id = r.next /\ d.epoch = r.obs[s].epoch /\ d.conf = None /\ d.state = "Blocked"
    OBVIOUS
  <2>6. /\ cell \in Cell /\ cell.sub = None /\ ~cell.paste /\ ~cell.receipt
        /\ ~cell.forgotten
    BY DEF Cell, FreshCells
  <2> HIDE DEF d, cell
  <2>7. Inserts(r, n, s, d, cell)
    BY <1>5, <2>1, <2>4, <2>5, <2>6, InsertInserts
  <2>8. r.worker[r.next] = None
    <3>1. r.next >= r.next
      BY <1>5, NextNat
    <3> QED BY <1>5, <2>3, <3>1 DEF IdsOnRecord
  <2>9. Starts(r, n, s, d)
    <3>1. n.worker = r.worker /\ n.pasted = r.pasted /\ n.cells[d.id] = cell
      BY <2>7 DEF Inserts
    <3>2. n.worker[d.id] = None
      BY <2>5, <2>8, <3>1
    <3> QED BY <2>3, <2>4, <2>5, <2>6, <2>7, <3>1, <3>2 DEF Starts, Inserts
  <2>10. Firm(o, n, ev, pr, un)
    BY <1>4, <2>2, <2>9, StartFirm
  <2> QED BY <1>5, <2>7, <2>10 DEF Inserts, n
<1> QED BY <1>6, <1>7

LEMMA DeliverFirm ==
  ASSUME NEW o \in CoreState, NEW k, NEW s \in Sessions, NEW how \in Hows,
         NEW pr \in [Ids -> Nat], NEW ev \in Seq(TransportEvent),
         NEW un \in SUBSET Submissions, input \in [Sessions -> Input],
         Firm(o, k, ev, pr, un)
  PROVE  LET n == Deliver(k, s, how) IN
         /\ Firm(o, n, ev, pr, un) /\ n.queue = k.queue /\ n.pending = k.pending
         /\ n.obs[s].epoch = k.obs[s].epoch
         /\ n.err => k.err \/ n.dels[s] = None
<1> DEFINE d == k.dels[s]
           n == Deliver(k, s, how)
<1>1. IdsOnRecord(k, ev) /\ k \in CoreState /\ MaxIds \in Nat
  BY DeliveryBounds DEF Firm, Sound
<1>2. CASE n = k
  BY <1>2
<1>3. CASE n # k
  <2>1. k.pending[s] # None /\ k.next <= MaxIds
    BY <1>1, <1>3, NextNat DEF Deliver
  <2>2. CASE ~CanBegin(k, s)
    <3>1. n = Block(k, s) /\ d.state = "WritingPaste"
      BY <1>3, <2>2 DEF Deliver
    <3>2. d # None
      BY <2>2 DEF CanBegin
    <3> QED BY <3>1, <3>2, BlockWritingFirm
  <2>3. CASE CanBegin(k, s) /\ ~ComposerReady(k, s)
    <3>1. n = Block(k, s)
      BY <1>3, <2>3 DEF Deliver
    <3>2. CASE d = None \/ d.state \in AcceptsReplacement
      BY <2>1, <3>1, <3>2, BlockNewFirm
    <3>3. CASE d # None /\ d.state \notin AcceptsReplacement
      <4>1. d.state = "Blocked" /\ d.epoch = k.obs[s].epoch
        BY <2>3, <3>3 DEF CanBegin, Unwritten
      <4>2. n = k
        BY <3>1, <3>3, <4>1 DEF Block
      <4> QED BY <1>3, <4>2
    <3> QED BY <3>2, <3>3
  <2>4. CASE CanBegin(k, s) /\ ComposerReady(k, s)
    <3>1. n = Begin(k, s, how)
      BY <1>1, <2>1, <2>4, NextNat DEF Deliver
    <3> QED BY <2>1, <2>4, <3>1, BeginFirm
  <2> QED BY <2>2, <2>3, <2>4
<1> QED BY <1>2, <1>3

-----------------------------------------------------------------------------
(* Completion and the queue *)

\* The pending submission of s is done; the head of the queue, if any, takes its place.
Promotes(k, n, s) ==
  /\ n \in CoreState
  /\ n.next = k.next /\ n.obs = k.obs /\ n.worker = k.worker /\ n.pasted = k.pasted
  /\ n.cells = k.cells /\ n.dels = k.dels
  /\ \A t \in Sessions \ {s} : n.pending[t] = k.pending[t] /\ n.queue[t] = k.queue[t]
  /\ n.queue[s].epoch \in {0, k.queue[s].epoch}
  /\ \/ /\ k.queue[s].subs # <<>> /\ n.pending[s] = k.queue[s].subs[1]
        /\ \A i \in 1..Len(n.queue[s].subs) :
             i + 1 \in 1..Len(k.queue[s].subs) /\ n.queue[s].subs[i] = k.queue[s].subs[i + 1]
     \/ n.pending[s] = None /\ n.queue[s] = NoQueue

LEMMA PromoteFirm ==
  ASSUME NEW o \in CoreState, NEW k, NEW n, NEW s \in Sessions,
         NEW pr \in [Ids -> Nat], NEW ev \in Seq(TransportEvent),
         NEW un \in SUBSET Submissions, Chain(o, k, s, ev, pr, un),
         k.dels[s] # None, k.dels[s].state \in {"Confirmed", "ConfirmedUnattributed"},
         Promotes(k, n, s)
  PROVE  Firm(o, n, ev, pr, un)
<1> DEFINE q == k.queue[s].subs
<1>1. k \in CoreState /\ n \in CoreState /\ Sound(k, ev, pr, un) /\ q \in Seq(Submissions)
  <2>1. k \in CoreState
    BY DEF Chain
  <2>2. k.queue[s] \in [epoch : Nat, subs : Seq(Submissions)]
    BY <2>1 DEF CoreState
  <2> QED BY <2>1, <2>2 DEF Chain, Promotes
<1>2. /\ n.next = k.next /\ n.obs = k.obs /\ n.worker = k.worker /\ n.pasted = k.pasted
      /\ n.cells = k.cells /\ n.dels = k.dels
      /\ \A t \in Sessions \ {s} : n.pending[t] = k.pending[t] /\ n.queue[t] = k.queue[t]
  BY DEF Promotes
<1>3. IdsOnRecord(n, ev) /\ WorkersOnRecord(n, ev, pr) /\ AfterEnter(n, pr) /\ Driven(n, ev)
  BY <1>1, <1>2 DEF Sound, IdsOnRecord, WorkersOnRecord, AfterEnter, Driven, DrivenBy
<1>4. PastesCounted(n)
  BY <1>1, <1>2 DEF Sound, PastesCounted, Wrote, Forgotten
<1>5. Serves(n)
  <2> SUFFICES ASSUME NEW id \in Ids, k.worker[id] # None,
                      k.worker[id].pc \in Unmarked, ~k.cells[id].cancel
               PROVE  LET t == k.worker[id].session IN
                      /\ k.dels[t] # None /\ k.dels[t].id = id
                      /\ k.dels[t].state = "WritingPaste"
                      /\ n.pending[t] = k.worker[id].sub
    BY <1>2 DEF Serves
  <2> DEFINE t == k.worker[id].session
  <2>1. t \in Sessions
    BY <1>1 DEF CoreState, Worker
  <2>2. /\ k.dels[t] # None /\ k.dels[t].id = id /\ k.dels[t].state = "WritingPaste"
        /\ k.pending[t] = k.worker[id].sub
    BY <1>1 DEF Sound, Serves
  <2>3. t # s
    BY <2>2
  <2> QED BY <1>2, <2>1, <2>2, <2>3
<1>6. q # <<>> => q[1] \in Submissions /\ 1 \in 1..Len(q)
  BY <1>1
<1>7. QueueCovered(n)
  <2>1. QueueCovered(k)
    BY <1>1 DEF Sound
  <2>2. n.queue[s].epoch <= n.obs[s].epoch
    <3>1. k.obs[s].epoch \in Nat
      BY <1>1 DEF CoreState, Observation
    <3> QED BY <1>2, <2>1, <3>1 DEF QueueCovered, Promotes
  <2>3. k.obs[s].epoch # 0
    BY <2>1 DEF QueueCovered
  <2>4. n.pending[s] = None => n.queue[s] = NoQueue
    BY <1>6, NoneAssumption DEF Promotes
  <2>5. NoQueue.subs = <<>>
    BY DEF NoQueue
  <2>6. k.dels[s].state \in AcceptsReplacement
    BY DEF AcceptsReplacement
  <2> QED BY <1>2, <2>1, <2>2, <2>3, <2>4, <2>5, <2>6 DEF QueueCovered
<1>8. \A i \in 1..Len(n.queue[s].subs) :
        /\ i + 1 \in 1..Len(q) /\ n.queue[s].subs[i] = q[i + 1]
        /\ i + 1 # 1
  <2>1. NoQueue.subs = <<>> /\ Len(<<>>) = 0
    BY DEF NoQueue
  <2>2. \A i \in 1..Len(n.queue[s].subs) : i \in Nat \ {0}
    <3>1. n.queue[s].subs \in Seq(Submissions)
      BY <1>1 DEF CoreState
    <3> QED BY <3>1
  <2>3. CASE n.queue[s] = NoQueue
    BY <2>1, <2>3
  <2>4. CASE n.queue[s] # NoQueue
    BY <2>2, <2>4 DEF Promotes
  <2> QED BY <2>3, <2>4
<1>9. OnePlace(k, un)
  BY <1>1 DEF Sound
<1>10. n.pending[s] # None =>
         /\ q # <<>> /\ n.pending[s] = q[1] /\ 1 \in 1..Len(q) /\ q[1] \in Submissions
         /\ q[1] \notin un /\ \A id \in Ids : k.cells[id].sub # q[1]
         /\ \A t \in Sessions : k.pending[t] # None => k.pending[t] # q[1]
         /\ \A t \in Sessions : \A j \in 1..Len(k.queue[t].subs) :
              k.queue[t].subs[j] = q[1] => t = s /\ j = 1
  <2>1. n.pending[s] # None => q # <<>> /\ n.pending[s] = q[1]
    BY DEF Promotes
  <2>2. ASSUME q # <<>>
        PROVE  \A t \in Sessions : k.pending[t] # None => k.pending[t] # q[1]
    BY <1>6, <1>9, <2>2 DEF OnePlace, Queued
  <2>3. ASSUME q # <<>>, NEW t \in Sessions, NEW j \in 1..Len(k.queue[t].subs),
               k.queue[t].subs[j] = q[1]
        PROVE  t = s /\ j = 1
    BY <1>6, <1>9, <2>3 DEF OnePlace
  <2>4. ASSUME q # <<>>
        PROVE  q[1] \notin un /\ \A id \in Ids : k.cells[id].sub # q[1]
    BY <1>6, <1>9, <2>4 DEF OnePlace
  <2> QED BY <1>6, <2>1, <2>2, <2>3, <2>4
<1>11. \A t \in Sessions : \A j \in 1..Len(n.queue[t].subs) :
         /\ \E i \in 1..Len(k.queue[t].subs) : n.queue[t].subs[j] = k.queue[t].subs[i]
         /\ t # s => j \in 1..Len(k.queue[t].subs) /\ n.queue[t].subs[j] = k.queue[t].subs[j]
  <2> SUFFICES ASSUME NEW t \in Sessions, NEW j \in 1..Len(n.queue[t].subs)
               PROVE  /\ \E i \in 1..Len(k.queue[t].subs) :
                           n.queue[t].subs[j] = k.queue[t].subs[i]
                      /\ t # s => /\ j \in 1..Len(k.queue[t].subs)
                                  /\ n.queue[t].subs[j] = k.queue[t].subs[j]
    OBVIOUS
  <2>1. CASE t = s
    BY <1>8, <2>1
  <2>2. CASE t # s
    BY <1>2, <2>2
  <2> QED BY <2>1, <2>2
<1>12. OnePlace(n, un)
  <2>1. ASSUME NEW t \in Sessions, NEW u \in Sessions, n.pending[t] # None
        PROVE  /\ n.pending[t] \notin un
               /\ n.pending[t] = n.pending[u] => t = u
               /\ ~Queued(n, u, n.pending[t])
    <3>1. CASE t # s
      <4>1. n.pending[t] = k.pending[t]
        BY <1>2, <3>1
      <4>2. n.pending[t] \notin un /\ ~Queued(k, u, n.pending[t])
        BY <1>9, <2>1, <4>1 DEF OnePlace
      <4>3. ~Queued(n, u, n.pending[t])
        <5> SUFFICES ASSUME NEW j \in 1..Len(n.queue[u].subs),
                            n.queue[u].subs[j] = n.pending[t]
                     PROVE  FALSE
          BY DEF Queued
        <5>1. PICK i \in 1..Len(k.queue[u].subs) : n.queue[u].subs[j] = k.queue[u].subs[i]
          BY <1>11
        <5> QED BY <4>2, <5>1 DEF Queued
      <4>4. n.pending[t] = n.pending[u] => t = u
        BY <1>2, <1>9, <1>10, <2>1, <3>1, <4>1 DEF OnePlace
      <4> QED BY <4>2, <4>3, <4>4
    <3>2. CASE t = s
      <4>1. n.pending[s] \notin un
        BY <1>10, <2>1, <3>2
      <4>2. n.pending[s] = n.pending[u] => s = u
        BY <1>2, <1>10, <2>1, <3>2
      <4>3. ~Queued(n, u, n.pending[s])
        <5> SUFFICES ASSUME NEW j \in 1..Len(n.queue[u].subs),
                            n.queue[u].subs[j] = n.pending[s]
                     PROVE  FALSE
          BY DEF Queued
        <5>1. CASE u # s
          BY <1>10, <1>11, <2>1, <3>2, <5>1
        <5>2. CASE u = s
          BY <1>8, <1>10, <2>1, <3>2, <5>2
        <5> QED BY <5>1, <5>2
      <4> QED BY <3>2, <4>1, <4>2, <4>3
    <3> QED BY <3>1, <3>2
  <2>2. ASSUME NEW t \in Sessions, NEW u \in Sessions, NEW i \in 1..Len(n.queue[t].subs)
        PROVE  /\ n.queue[t].subs[i] \notin un
               /\ \A id \in Ids : n.cells[id].sub # n.queue[t].subs[i]
    <3>1. PICK j \in 1..Len(k.queue[t].subs) : n.queue[t].subs[i] = k.queue[t].subs[j]
      BY <1>11
    <3> QED BY <1>2, <1>9, <3>1 DEF OnePlace
  <2>3. ASSUME NEW t \in Sessions, NEW u \in Sessions, NEW i \in 1..Len(n.queue[t].subs),
               NEW j \in 1..Len(n.queue[u].subs), n.queue[t].subs[i] = n.queue[u].subs[j]
        PROVE  t = u /\ i = j
    <3>1. n.queue[s].subs \in Seq(Submissions) /\ n.queue[t].subs \in Seq(Submissions)
          /\ n.queue[u].subs \in Seq(Submissions)
      BY <1>1 DEF CoreState
    <3>2. t = u
      <4>1. PICK a \in 1..Len(k.queue[t].subs) : n.queue[t].subs[i] = k.queue[t].subs[a]
        BY <1>11
      <4>2. PICK b \in 1..Len(k.queue[u].subs) : n.queue[u].subs[j] = k.queue[u].subs[b]
        BY <1>11
      <4>3. k.queue[t].subs[a] = k.queue[u].subs[b]
        BY <4>1, <4>2, <2>3
      <4>4. k.queue[t].subs[a] = k.queue[u].subs[b] => t = u
        BY <1>9 DEF OnePlace
      <4> QED BY <4>3, <4>4
    <3>3. CASE t # s
      BY <1>9, <1>11, <2>3, <3>2, <3>3 DEF OnePlace
    <3>4. CASE t = s
      <4>1. i \in Nat /\ j \in Nat /\ i + 1 \in 1..Len(q) /\ j + 1 \in 1..Len(q)
        BY <1>8, <3>1, <3>2, <3>4
      <4>2. q[i + 1] = q[j + 1]
        BY <1>8, <2>3, <3>2, <3>4
      <4>3. i + 1 = j + 1
        BY <1>9, <4>1, <4>2 DEF OnePlace
      <4> QED BY <3>2, <4>1, <4>3
    <3> QED BY <3>2, <3>3, <3>4
  <2>4. \A id \in Ids : n.cells[id].sub \notin un
    BY <1>2, <1>9 DEF OnePlace
  <2> QED BY <2>1, <2>2, <2>3, <2>4 DEF OnePlace
<1>13. WritesKnown(n)
  <2> SUFFICES ASSUME NEW t \in Sessions PROVE Known(n, t, FALSE)
    BY DEF WritesKnown
  <2>1. CASE t = s
    BY <1>2, <1>10, <2>1 DEF Known, Wrote
  <2>2. CASE t # s
    <3>1. Known(k, t, FALSE)
      BY <2>2 DEF Chain, WritesKnownOrDone, Known
    <3> QED BY <1>2, <2>2, <3>1 DEF Known, Wrote, Forgotten
  <2> QED BY <2>1, <2>2
<1>14. Kept(o, n)
  BY <1>2 DEF Chain, Kept
<1> QED BY <1>1, <1>3, <1>4, <1>5, <1>7, <1>12, <1>13, <1>14 DEF Firm, Sound

\* A feature fails to complete: the paste of the confirmed delivery is forgotten.
LEMMA ForgetFirm ==
  ASSUME NEW o \in CoreState, NEW k, NEW s \in Sessions,
         NEW pr \in [Ids -> Nat], NEW ev \in Seq(TransportEvent),
         NEW un \in SUBSET Submissions, Chain(o, k, s, ev, pr, un),
         k.dels[s] # None, k.dels[s].state \in {"Confirmed", "ConfirmedUnattributed"}
  PROVE  LET id == k.dels[s].id IN
         Firm(o, [k EXCEPT !.err = TRUE, !.cells[id].forgotten = @ \/ k.cells[id].paste],
              ev, pr, un)
<1> DEFINE id == k.dels[s].id
           f == k.cells[id].forgotten \/ k.cells[id].paste
           c == [k.cells[id] EXCEPT !.forgotten = f]
           n == [k EXCEPT !.err = TRUE, !.cells[id].forgotten = f]
<1>1. k \in CoreState /\ Sound(k, ev, pr, un) /\ IdsOnRecord(k, ev) /\ id \in Ids
  BY DEF Chain, Sound, CoreState, Delivery
<1>2. k.cells[id] \in Cell /\ f \in BOOLEAN
  BY <1>1 DEF CoreState, Cell
<1>3. /\ c \in Cell /\ c.sub = k.cells[id].sub /\ c.paste = k.cells[id].paste
      /\ c.cancel = k.cells[id].cancel /\ c.receipt = k.cells[id].receipt
      /\ c.ack = k.cells[id].ack /\ c.forgotten = f
  BY <1>2 DEF Cell
<1> HIDE DEF f
<1>4. /\ n.dels = k.dels /\ n.next = k.next /\ n.pending = k.pending
      /\ n.queue = k.queue /\ n.obs = k.obs /\ n.worker = k.worker /\ n.pasted = k.pasted
      /\ n.cells[id] = c /\ \A j \in Ids \ {id} : n.cells[j] = k.cells[j]
  BY <1>1 DEF CoreState
<1>5. n \in CoreState
  BY <1>1, <1>3 DEF CoreState
<1>0. id = k.dels[s].id
  OBVIOUS
<1> HIDE DEF c, n, id
<1>6. /\ \A j \in Ids : /\ n.cells[j].sub = k.cells[j].sub /\ n.cells[j].paste = k.cells[j].paste
                        /\ n.cells[j].cancel = k.cells[j].cancel
                        /\ n.cells[j].receipt = k.cells[j].receipt
                        /\ n.cells[j].ack = k.cells[j].ack
                        /\ k.cells[j].forgotten => n.cells[j].forgotten
                        /\ j # id => n.cells[j] = k.cells[j]
      /\ k.cells[id].paste => n.cells[id].forgotten
  BY <1>3, <1>4 DEF f
<1>7. /\ id < k.next /\ \A j \in Ids : j >= k.next => n.cells[j] = k.cells[j]
  <2>1. id < k.next
    BY <1>0, <1>1 DEF IdsOnRecord
  <2>2. ASSUME NEW j \in Ids, j >= k.next PROVE j # id
    BY <2>1, <2>2, <1>1, NextNat, IdsNat
  <2> QED BY <2>1, <2>2, <1>6
<1>8. /\ IdsOnRecord(n, ev) /\ WorkersOnRecord(n, ev, pr) /\ AfterEnter(n, pr)
      /\ Driven(n, ev)
  <2>0. IdsOnRecord(k, ev) /\ WorkersOnRecord(k, ev, pr) /\ AfterEnter(k, pr) /\ Driven(k, ev)
    BY <1>1 DEF Sound
  <2>1. IdsOnRecord(n, ev)
    BY <2>0, <1>4, <1>7 DEF IdsOnRecord
  <2>2. WorkersOnRecord(n, ev, pr)
    BY <2>0, <1>4, <1>6 DEF WorkersOnRecord
  <2>3. AfterEnter(n, pr)
    BY <2>0, <1>4 DEF AfterEnter
  <2>4. Driven(n, ev)
    BY <2>0, <1>4 DEF Driven, DrivenBy
  <2> QED BY <2>1, <2>2, <2>3, <2>4
<1>9. Serves(n) /\ QueueCovered(n) /\ OnePlace(n, un)
  <2>0. Serves(k) /\ QueueCovered(k) /\ OnePlace(k, un)
    BY <1>1 DEF Sound
  <2>1. Serves(n)
    BY <2>0, <1>4, <1>6 DEF Serves
  <2>2. QueueCovered(n)
    BY <2>0, <1>4 DEF QueueCovered
  <2>3. OnePlace(n, un)
    BY <2>0, <1>4, <1>6 DEF OnePlace, Queued
  <2> QED BY <2>1, <2>2, <2>3
<1>10. /\ \A j \in Ids : \A sub : Wrote(n, j, sub) <=> Wrote(k, j, sub)
       /\ \A sub : Forgotten(k, sub) => Forgotten(n, sub)
  BY <1>6 DEF Wrote, Forgotten
<1>11. PastesCounted(n)
  BY <1>1, <1>4, <1>10 DEF Sound, PastesCounted
<1>12. WritesKnown(n)
  <2> SUFFICES ASSUME NEW t \in Sessions, n.pending[t] # None, ~Forgotten(n, n.pending[t]),
                      NEW j \in Ids, Wrote(n, j, n.pending[t])
               PROVE  /\ n.dels[t] # None /\ Wrote(n, n.dels[t].id, n.pending[t])
                      /\ n.dels[t].state \notin AcceptsReplacement
    BY DEF WritesKnown, Known
  <2>1. /\ k.dels[t] # None /\ Wrote(k, k.dels[t].id, k.pending[t])
        /\ k.dels[t].state \notin AcceptsReplacement \/ t = s
    BY <1>4, <1>10 DEF Chain, WritesKnownOrDone, Known
  <2>2. k.dels[t].id \in Ids
    BY <1>1, <2>1 DEF CoreState, Delivery
  <2>3. ASSUME t = s PROVE FALSE
    <3>1. k.cells[id].sub = k.pending[t] /\ k.cells[id].paste
      BY <1>0, <2>1, <2>3 DEF Wrote
    <3>2. n.cells[id].sub = n.pending[t] /\ n.cells[id].forgotten
      BY <1>1, <1>4, <1>6, <3>1
    <3> QED BY <1>1, <3>2 DEF Forgotten
  <2> QED BY <1>4, <1>10, <2>1, <2>2, <2>3
<1>13. Kept(o, n)
  BY <1>4 DEF Chain, Kept
<1>14. Firm(o, n, ev, pr, un)
  BY <1>5, <1>8, <1>9, <1>11, <1>12, <1>13 DEF Firm, Sound
<1> QED BY <1>0, <1>14 DEF n, f

LEMMA CompleteFirm ==
  ASSUME NEW o \in CoreState, NEW k, NEW s \in Sessions, NEW how \in Hows, NEW answer,
         NEW pr \in [Ids -> Nat], NEW ev \in Seq(TransportEvent),
         NEW un \in SUBSET Submissions, input \in [Sessions -> Input],
         Chain(o, k, s, ev, pr, un)
  PROVE  Firm(o, Complete(k, s, how, answer), ev, pr, un)
<1> DEFINE d == k.dels[s]
           n == Complete(k, s, how, answer)
           asks == d.state = "Confirmed" /\ d.sub \in Asked
           ready == d # None /\ d.state \in {"Confirmed", "ConfirmedUnattributed"}
           failed == ready /\ asks /\ answer = "failed"
           done == ready /\ ~failed /\ (k.changed \/ (asks /\ answer = "done"))
<1>1. k \in CoreState /\ IdsOnRecord(k, ev)
  BY DEF Chain, Sound
<1>2. d # None => d.epoch = k.obs[s].epoch
  BY <1>1 DEF IdsOnRecord
<1>3. CASE ~done /\ ~failed
  <2>1. n = k
    BY <1>2, <1>3 DEF Complete
  <2>2. WritesKnown(k)
    <3> SUFFICES ASSUME NEW t \in Sessions PROVE Known(k, t, FALSE)
      BY DEF WritesKnown
    <3>1. Known(k, t, k.changed /\ t = s)
      BY DEF Chain, WritesKnownOrDone
    <3> QED BY <1>3, <3>1 DEF Known
  <2> QED BY <2>1, <2>2 DEF Chain, Firm
<1>4. CASE done
  <2> DEFINE c == [k EXCEPT !.pending[s] = None, !.deferred[s] = FALSE]
             q == k.queue[s]
             rest == Rest(q)
  <2>1. n = Promote(c, s, how)
    BY <1>2, <1>4 DEF Complete
  <2>2. /\ c \in CoreState /\ c.queue = k.queue /\ c.obs = k.obs /\ c.dels = k.dels
        /\ c.next = k.next /\ c.worker = k.worker /\ c.pasted = k.pasted
        /\ c.cells = k.cells /\ c.pending[s] = None
        /\ \A t \in Sessions \ {s} : c.pending[t] = k.pending[t]
    BY <1>1 DEF CoreState
  <2>3. q \in [epoch : Nat, subs : Seq(Submissions)]
    BY <1>1 DEF CoreState
  <2>4. q.epoch \in Nat /\ q.subs \in Seq(Submissions)
    BY <2>3
  <2> HIDE DEF c, q
  <2>5. NoQueue \in [epoch : Nat, subs : Seq(Submissions)] /\ NoQueue.epoch = 0
        /\ NoQueue.subs = <<>>
    BY DEF NoQueue
  <2>6. CASE q.epoch = k.obs[s].epoch /\ q.subs # <<>>
    <3> DEFINE m == [c EXCEPT !.queue[s] = rest, !.pending[s] = Head(q.subs)]
    <3>1. /\ rest \in [epoch : Nat, subs : Seq(Submissions)]
          /\ rest.epoch \in {0, q.epoch}
          /\ \A i \in 1..Len(rest.subs) :
               i + 1 \in 1..Len(q.subs) /\ rest.subs[i] = q.subs[i + 1]
      <4>1. CASE Len(q.subs) = 1
        BY <2>5, <4>1 DEF Rest
      <4>2. CASE Len(q.subs) # 1
        <5>1. /\ Tail(q.subs) \in Seq(Submissions) /\ Len(Tail(q.subs)) = Len(q.subs) - 1
              /\ Len(q.subs) \in Nat \ {0}
              /\ \A i \in 1..Len(Tail(q.subs)) : Tail(q.subs)[i] = q.subs[i + 1]
          BY <2>4, <2>6
        <5>2. rest.subs = Tail(q.subs) /\ rest.epoch = q.epoch
              /\ rest \in [epoch : Nat, subs : Seq(Submissions)]
          BY <2>3, <4>2, <5>1 DEF Rest
        <5> HIDE DEF rest
        <5> QED BY <5>1, <5>2
      <4> QED BY <4>1, <4>2
    <3> HIDE DEF rest
    <3>2. Head(q.subs) \in Submissions /\ Head(q.subs) = q.subs[1]
      BY <2>4, <2>6
    <3>3. n = Deliver(m, s, how)
      <4>1. c.queue[s] = q
        BY <2>2 DEF q
      <4>2. n = Deliver([c EXCEPT !.queue[s] = Rest(c.queue[s]),
                                  !.pending[s] = Head(c.queue[s].subs)], s, how)
        BY <2>1, <2>2, <2>6, <4>1 DEF Promote
      <4> QED BY <4>1, <4>2 DEF rest
    <3>4. /\ m \in CoreState
          /\ m.next = c.next /\ m.obs = c.obs /\ m.worker = c.worker /\ m.pasted = c.pasted
          /\ m.cells = c.cells /\ m.dels = c.dels
          /\ m.queue[s] = rest /\ m.pending[s] = Head(q.subs)
          /\ \A t \in Sessions \ {s} : m.pending[t] = c.pending[t] /\ m.queue[t] = c.queue[t]
      BY <2>2, <3>1, <3>2 DEF CoreState
    <3> HIDE DEF m
    <3>5. Promotes(k, m, s)
      BY <2>2, <2>6, <3>1, <3>2, <3>4 DEF Promotes, q
    <3>6. Firm(o, m, ev, pr, un)
      BY <1>4, <3>5, PromoteFirm
    <3> QED BY <3>3, <3>6, DeliverFirm
  <2>7. CASE ~(q.epoch = k.obs[s].epoch /\ q.subs # <<>>)
    <3>1. n = [c EXCEPT !.queue[s] = NoQueue]
      BY <2>1, <2>2, <2>7 DEF Promote, q
    <3> HIDE DEF n
    <3>2. /\ n \in CoreState
          /\ n.next = c.next /\ n.obs = c.obs /\ n.worker = c.worker /\ n.pasted = c.pasted
          /\ n.cells = c.cells /\ n.dels = c.dels /\ n.pending = c.pending
          /\ n.queue[s] = NoQueue
          /\ \A t \in Sessions \ {s} : n.queue[t] = c.queue[t]
      BY <2>2, <2>5, <3>1 DEF CoreState
    <3>3. Promotes(k, n, s)
      BY <2>2, <2>5, <3>2 DEF Promotes
    <3>4. Firm(o, n, ev, pr, un)
      BY <1>4, <3>3, PromoteFirm
    <3> QED BY <3>4 DEF n
  <2> QED BY <2>6, <2>7
<1>5. CASE failed
  <2>1. n = [k EXCEPT !.err = TRUE, !.cells[d.id].forgotten = @ \/ k.cells[d.id].paste]
    BY <1>2, <1>5 DEF Complete
  <2>2. k.dels[s] # None /\ k.dels[s].state \in {"Confirmed", "ConfirmedUnattributed"}
    BY <1>5
  <2>3. Firm(o, [k EXCEPT !.err = TRUE,
                          !.cells[k.dels[s].id].forgotten = @ \/ k.cells[k.dels[s].id].paste],
             ev, pr, un)
    BY <2>2, ForgetFirm
  <2> QED BY <2>1, <2>3
<1> QED BY <1>3, <1>4, <1>5

-----------------------------------------------------------------------------
(* Submissions, restarts and retirements *)

\* Only the pending submission and the queue of s change.
Refiles(k, n, s) ==
  /\ n \in CoreState
  /\ n.next = k.next /\ n.obs = k.obs /\ n.worker = k.worker /\ n.pasted = k.pasted
  /\ n.cells = k.cells /\ n.dels = k.dels
  /\ \A t \in Sessions \ {s} : n.pending[t] = k.pending[t] /\ n.queue[t] = k.queue[t]

LEMMA RefileFirm ==
  ASSUME NEW o \in CoreState, NEW k, NEW n, NEW s \in Sessions,
         NEW pr \in [Ids -> Nat], NEW ev \in Seq(TransportEvent),
         NEW un \in SUBSET Submissions, NEW left \in SUBSET un, Firm(o, k, ev, pr, un),
         Refiles(k, n, s), Serves(n), QueueCovered(n), OnePlace(n, left), Known(n, s, FALSE)
  PROVE  Firm(o, n, ev, pr, left)
<1>1. k \in CoreState /\ n \in CoreState /\ Sound(k, ev, pr, un) /\ WritesKnown(k)
  BY DEF Firm, Refiles
<1>2. /\ n.next = k.next /\ n.obs = k.obs /\ n.worker = k.worker /\ n.pasted = k.pasted
      /\ n.cells = k.cells /\ n.dels = k.dels
      /\ \A t \in Sessions \ {s} : n.pending[t] = k.pending[t] /\ n.queue[t] = k.queue[t]
  BY DEF Refiles
<1>3. IdsOnRecord(n, ev) /\ WorkersOnRecord(n, ev, pr) /\ AfterEnter(n, pr) /\ Driven(n, ev)
  BY <1>1, <1>2 DEF Sound, IdsOnRecord, WorkersOnRecord, AfterEnter, Driven, DrivenBy
<1>4. PastesCounted(n)
  BY <1>1, <1>2 DEF Sound, PastesCounted, Wrote, Forgotten
<1>5. WritesKnown(n)
  <2> SUFFICES ASSUME NEW t \in Sessions, t # s PROVE Known(n, t, FALSE)
    BY DEF WritesKnown
  <2> QED BY <1>1, <1>2 DEF WritesKnown, Known, Wrote, Forgotten
<1>6. Kept(o, n)
  BY <1>2 DEF Firm, Kept
<1> QED BY <1>1, <1>3, <1>4, <1>5, <1>6 DEF Firm, Sound

\* Without a delivery of s that is being written, no worker serves s.
LEMMA RefileServes ==
  ASSUME NEW k \in CoreState, NEW n, NEW s \in Sessions, Serves(k), Refiles(k, n, s),
         n.pending[s] = k.pending[s] \/ k.dels[s] = None \/ k.pending[s] = None
  PROVE  Serves(n)
<1> SUFFICES ASSUME NEW id \in Ids, k.worker[id] # None,
                    k.worker[id].pc \in Unmarked, ~k.cells[id].cancel
             PROVE  LET t == k.worker[id].session IN
                    /\ k.dels[t] # None /\ k.dels[t].id = id
                    /\ k.dels[t].state = "WritingPaste"
                    /\ n.pending[t] = k.worker[id].sub
  BY DEF Serves, Refiles
<1> DEFINE t == k.worker[id].session
<1>1. k.worker[id] \in Worker
  BY DEF CoreState
<1>2. t \in Sessions /\ k.worker[id].sub # None
  BY <1>1, NoneAssumption DEF Worker
<1>3. /\ k.dels[t] # None /\ k.dels[t].id = id /\ k.dels[t].state = "WritingPaste"
      /\ k.pending[t] = k.worker[id].sub
  BY DEF Serves
<1>4. n.pending[t] = k.pending[t]
  BY <1>2, <1>3 DEF Refiles
<1> QED BY <1>3, <1>4

LEMMA SubmitFirm ==
  ASSUME NEW o \in CoreState, NEW k, NEW n, NEW s \in Sessions,
         NEW pr \in [Ids -> Nat], NEW ev \in Seq(TransportEvent),
         NEW un \in SUBSET Submissions, NEW sub \in un, Firm(o, k, ev, pr, un),
         Refiles(k, n, s), k.pending[s] = None, k.obs[s].epoch # 0,
         n.pending[s] = sub, n.queue[s] = k.queue[s]
  PROVE  Firm(o, n, ev, pr, un \ {sub})
<1> DEFINE left == un \ {sub}
<1>1. k \in CoreState /\ Sound(k, ev, pr, un)
  BY DEF Firm
<1>2. /\ n.obs = k.obs /\ n.cells = k.cells /\ n.dels = k.dels
      /\ \A t \in Sessions : n.queue[t] = k.queue[t]
      /\ \A t \in Sessions \ {s} : n.pending[t] = k.pending[t]
  BY DEF Refiles
<1>3. Serves(n)
  BY <1>1, RefileServes DEF Sound
<1>4. sub # None
  BY NoneAssumption
<1>5. QueueCovered(n)
  BY <1>1, <1>2, <1>4 DEF Sound, QueueCovered
<1>6. OnePlace(k, un)
  BY <1>1 DEF Sound
<1>7. OnePlace(n, left)
  <2>1. ASSUME NEW t \in Sessions, NEW u \in Sessions, n.pending[t] # None
        PROVE  /\ n.pending[t] \notin left
               /\ n.pending[t] = n.pending[u] => t = u
               /\ ~Queued(n, u, n.pending[t])
    <3>1. ~Queued(n, u, n.pending[t])
      <4>1. CASE t = s
        BY <1>2, <1>6, <4>1 DEF OnePlace, Queued
      <4>2. CASE t # s
        BY <1>2, <1>6, <2>1, <4>2 DEF OnePlace, Queued
      <4> QED BY <4>1, <4>2
    <3>2. n.pending[t] \notin left /\ (n.pending[t] = n.pending[u] => t = u)
      BY <1>2, <1>4, <1>6, <2>1 DEF OnePlace
    <3> QED BY <3>1, <3>2
  <2>2. /\ \A t, u \in Sessions : \A i \in 1..Len(n.queue[t].subs) :
             /\ n.queue[t].subs[i] \notin left
             /\ \A j \in 1..Len(n.queue[u].subs) :
                  n.queue[t].subs[i] = n.queue[u].subs[j] => t = u /\ i = j
             /\ \A id \in Ids : n.cells[id].sub # n.queue[t].subs[i]
        /\ \A id \in Ids : n.cells[id].sub \notin left
    <3>1. ASSUME NEW t \in Sessions, NEW u \in Sessions, NEW i \in 1..Len(n.queue[t].subs)
          PROVE  /\ n.queue[t].subs[i] \notin left
                 /\ \A j \in 1..Len(n.queue[u].subs) :
                      n.queue[t].subs[i] = n.queue[u].subs[j] => t = u /\ i = j
                 /\ \A id \in Ids : n.cells[id].sub # n.queue[t].subs[i]
      <4>1. n.queue[t] = k.queue[t] /\ n.queue[u] = k.queue[u] /\ n.cells = k.cells
        BY <1>2
      <4> QED BY <1>6, <4>1 DEF OnePlace
    <3>2. \A id \in Ids : n.cells[id].sub \notin left
      BY <1>2, <1>6 DEF OnePlace
    <3> QED BY <3>1, <3>2
  <2> QED BY <2>1, <2>2 DEF OnePlace
<1>8. Known(n, s, FALSE)
  BY <1>2, <1>6 DEF Known, Wrote, OnePlace
<1>9. left \in SUBSET un
  OBVIOUS
<1> HIDE DEF left
<1>10. Firm(o, n, ev, pr, left)
  BY <1>3, <1>5, <1>7, <1>8, <1>9, RefileFirm
<1> QED BY <1>10 DEF left

LEMMA ClearFirm ==
  ASSUME NEW o \in CoreState, NEW k, NEW n, NEW s \in Sessions,
         NEW pr \in [Ids -> Nat], NEW ev \in Seq(TransportEvent),
         NEW un \in SUBSET Submissions, Firm(o, k, ev, pr, un),
         Refiles(k, n, s), k.dels[s] = None,
         k.queue[s].epoch = k.obs[s].epoch => k.queue[s].subs = <<>>,
         n.pending[s] = None, n.queue[s] = k.queue[s]
  PROVE  Firm(o, n, ev, pr, un)
<1>1. k \in CoreState /\ Sound(k, ev, pr, un)
  BY DEF Firm
<1>2. /\ n.obs = k.obs /\ n.cells = k.cells /\ n.dels = k.dels
      /\ \A t \in Sessions : n.queue[t] = k.queue[t]
      /\ \A t \in Sessions \ {s} : n.pending[t] = k.pending[t]
  BY DEF Refiles
<1>3. Serves(n)
  BY <1>1, RefileServes DEF Sound
<1>4. QueueCovered(n)
  BY <1>1, <1>2 DEF Sound, QueueCovered
<1>5. OnePlace(n, un)
  <2>1. OnePlace(k, un)
    BY <1>1 DEF Sound
  <2>2. ASSUME NEW t \in Sessions, NEW u \in Sessions, NEW i \in 1..Len(n.queue[t].subs)
        PROVE  /\ n.queue[t].subs[i] \notin un
               /\ \A j \in 1..Len(n.queue[u].subs) :
                    n.queue[t].subs[i] = n.queue[u].subs[j] => t = u /\ i = j
               /\ \A id \in Ids : n.cells[id].sub # n.queue[t].subs[i]
    <3>1. n.queue[t] = k.queue[t] /\ n.queue[u] = k.queue[u] /\ n.cells = k.cells
      BY <1>2
    <3> QED BY <2>1, <3>1 DEF OnePlace
  <2>3. ASSUME NEW t \in Sessions, NEW u \in Sessions, n.pending[t] # None
        PROVE  /\ n.pending[t] \notin un
               /\ n.pending[t] = n.pending[u] => t = u
               /\ ~Queued(n, u, n.pending[t])
    <3>1. n.pending[t] = k.pending[t] /\ n.queue[u] = k.queue[u]
      BY <1>2, <2>3
    <3>2. n.pending[u] # None => n.pending[u] = k.pending[u]
      BY <1>2
    <3> QED BY <2>1, <2>3, <3>1, <3>2 DEF OnePlace, Queued
  <2>4. \A id \in Ids : n.cells[id].sub \notin un
    BY <1>2, <2>1 DEF OnePlace
  <2> QED BY <2>2, <2>3, <2>4 DEF OnePlace
<1>6. Known(n, s, FALSE)
  BY DEF Known
<1> QED BY <1>3, <1>4, <1>5, <1>6, RefileFirm

LEMMA QueueDistinct ==
  ASSUME NEW k, NEW un, OnePlace(k, un), NEW t \in Sessions, NEW u \in Sessions,
         NEW i \in 1..Len(k.queue[t].subs), NEW j \in 1..Len(k.queue[u].subs),
         k.queue[t].subs[i] = k.queue[u].subs[j]
  PROVE  t = u /\ i = j
BY DEF OnePlace

\* The queue of s keeps a prefix, which may be all or nothing, and gains sub at its end.
Enqueues(k, n, s, sub) ==
  LET q == k.queue[s].subs
      m == n.queue[s].subs
  IN  \A i \in 1..Len(m) :
        \/ i \in 1..Len(q) /\ m[i] = q[i]
        \/ i = Len(m) /\ m[i] = sub

LEMMA EnqueueFirm ==
  ASSUME NEW o \in CoreState, NEW k, NEW n, NEW s \in Sessions,
         NEW pr \in [Ids -> Nat], NEW ev \in Seq(TransportEvent),
         NEW un \in SUBSET Submissions, NEW sub \in un, Firm(o, k, ev, pr, un),
         Refiles(k, n, s), k.pending[s] # None, k.obs[s].epoch # 0,
         n.pending[s] = k.pending[s], n.queue[s].epoch <= k.obs[s].epoch,
         Enqueues(k, n, s, sub)
  PROVE  Firm(o, n, ev, pr, un \ {sub})
<1> DEFINE left == un \ {sub}
<1>1. k \in CoreState /\ n \in CoreState /\ Sound(k, ev, pr, un)
  BY DEF Firm, Refiles
<1>2. /\ n.obs = k.obs /\ n.cells = k.cells /\ n.dels = k.dels
      /\ \A t \in Sessions : n.pending[t] = k.pending[t]
      /\ \A t \in Sessions \ {s} : n.queue[t] = k.queue[t]
  BY DEF Refiles
<1>3. Serves(n)
  BY <1>1, RefileServes DEF Sound
<1>4. QueueCovered(n)
  BY <1>1, <1>2 DEF Sound, QueueCovered
<1>5. OnePlace(k, un)
  BY <1>1 DEF Sound
<1>6. \A t \in Sessions : \A j \in 1..Len(n.queue[t].subs) :
        \/ /\ j \in 1..Len(k.queue[t].subs)
           /\ n.queue[t].subs[j] = k.queue[t].subs[j]
        \/ t = s /\ j = Len(n.queue[s].subs) /\ n.queue[t].subs[j] = sub
  <2> SUFFICES ASSUME NEW t \in Sessions, NEW j \in 1..Len(n.queue[t].subs)
               PROVE  \/ /\ j \in 1..Len(k.queue[t].subs)
                         /\ n.queue[t].subs[j] = k.queue[t].subs[j]
                      \/ t = s /\ j = Len(n.queue[s].subs) /\ n.queue[t].subs[j] = sub
    OBVIOUS
  <2>1. CASE t = s
    BY <2>1 DEF Enqueues
  <2>2. CASE t # s
    BY <1>2, <2>2
  <2> QED BY <2>1, <2>2
<1>7. /\ sub \in un /\ sub \notin left /\ left \subseteq un
      /\ \A t \in Sessions : k.pending[t] # sub \/ k.pending[t] = None
      /\ \A t \in Sessions : \A j \in 1..Len(k.queue[t].subs) : k.queue[t].subs[j] # sub
      /\ \A id \in Ids : k.cells[id].sub # sub
  BY <1>5 DEF OnePlace
<1> HIDE DEF left
<1>8. OnePlace(n, left)
  <2>1. ASSUME NEW t \in Sessions, NEW u \in Sessions, n.pending[t] # None
        PROVE  /\ n.pending[t] \notin left
               /\ n.pending[t] = n.pending[u] => t = u
               /\ ~Queued(n, u, n.pending[t])
    <3>1. n.pending[t] \notin left /\ (n.pending[t] = n.pending[u] => t = u)
      BY <1>2, <1>5, <1>7, <2>1 DEF OnePlace
    <3>2. ASSUME NEW j \in 1..Len(n.queue[u].subs), n.queue[u].subs[j] = n.pending[t]
          PROVE  FALSE
      <4>1. n.pending[t] = k.pending[t] /\ k.pending[t] # sub
        BY <1>2, <1>7, <2>1
      <4>2. j \in 1..Len(k.queue[u].subs) /\ k.queue[u].subs[j] = k.pending[t]
        BY <1>6, <3>2, <4>1
      <4>3. ~Queued(k, u, k.pending[t])
        BY <1>5, <2>1, <4>1 DEF OnePlace
      <4> QED BY <4>2, <4>3 DEF Queued
    <3> QED BY <3>1, <3>2 DEF Queued
  <2>2. ASSUME NEW t \in Sessions, NEW i \in 1..Len(n.queue[t].subs)
        PROVE  /\ n.queue[t].subs[i] \notin left
               /\ \A id \in Ids : n.cells[id].sub # n.queue[t].subs[i]
    <3>1. CASE n.queue[t].subs[i] = sub
      BY <1>2, <1>7, <3>1
    <3>2. CASE n.queue[t].subs[i] # sub
      BY <1>2, <1>5, <1>6, <1>7, <3>2 DEF OnePlace
    <3> QED BY <3>1, <3>2
  <2>3. ASSUME NEW t \in Sessions, NEW u \in Sessions, NEW i \in 1..Len(n.queue[t].subs),
               NEW j \in 1..Len(n.queue[u].subs), n.queue[t].subs[i] = n.queue[u].subs[j]
        PROVE  t = u /\ i = j
    <3>1. CASE n.queue[t].subs[i] = sub
      <4>1. t = s /\ i = Len(n.queue[s].subs)
        BY <1>6, <1>7, <3>1
      <4>2. u = s /\ j = Len(n.queue[s].subs)
        BY <1>6, <1>7, <2>3, <3>1
      <4> QED BY <4>1, <4>2
    <3>2. CASE n.queue[t].subs[i] # sub
      <4>1. /\ i \in 1..Len(k.queue[t].subs) /\ n.queue[t].subs[i] = k.queue[t].subs[i]
            /\ j \in 1..Len(k.queue[u].subs) /\ n.queue[u].subs[j] = k.queue[u].subs[j]
        BY <1>6, <2>3, <3>2
      <4>2. k.queue[t].subs[i] = k.queue[u].subs[j]
        BY <2>3, <4>1
      <4> QED BY <1>5, <4>1, <4>2, QueueDistinct
    <3> QED BY <3>1, <3>2
  <2>4. \A id \in Ids : n.cells[id].sub \notin left
    BY <1>2, <1>5, <1>7 DEF OnePlace
  <2> QED BY <2>1, <2>2, <2>3, <2>4 DEF OnePlace
<1>9. Known(n, s, FALSE)
  <2>1. Known(k, s, FALSE)
    BY DEF Firm, WritesKnown
  <2> QED BY <1>2, <2>1 DEF Known, Wrote, Forgotten
<1>10. Firm(o, n, ev, pr, left)
  BY <1>3, <1>4, <1>7, <1>8, <1>9, RefileFirm
<1> QED BY <1>10 DEF left

-----------------------------------------------------------------------------
(* Core's handlers *)

LEMMA CoreRecord ==
  ASSUME TypeOK
  PROVE  /\ Core \in CoreState
         /\ Core.dels = dels /\ Core.next = nextId /\ Core.pending = pending
         /\ Core.deferred = deferred /\ Core.queue = queue /\ Core.obs = obs
         /\ Core.cells = cells /\ Core.worker = worker /\ Core.pasted = pasted
         /\ ~Core.changed /\ ~Core.err
BY DEF TypeOK, Core, CoreState

\* The invariant speaks of these fields only.
LEMMA SoundSame ==
  ASSUME NEW k, NEW n, NEW ev, NEW pr, NEW un,
         n.dels = k.dels, n.next = k.next, n.pending = k.pending, n.queue = k.queue,
         n.obs = k.obs, n.cells = k.cells, n.worker = k.worker, n.pasted = k.pasted,
         Sound(k, ev, pr, un), WritesKnown(k)
  PROVE  Sound(n, ev, pr, un) /\ WritesKnown(n)
<1>1. IdsOnRecord(n, ev) /\ WorkersOnRecord(n, ev, pr) /\ AfterEnter(n, pr)
  BY DEF Sound, IdsOnRecord, WorkersOnRecord, AfterEnter
<1>2. Driven(n, ev) /\ Serves(n) /\ QueueCovered(n)
  BY DEF Sound, Driven, DrivenBy, Serves, QueueCovered
<1>3. OnePlace(n, un)
  BY DEF Sound, OnePlace, Queued
<1>4. PastesCounted(n)
  BY DEF Sound, PastesCounted, Wrote, Forgotten
<1>5. WritesKnown(n)
  BY DEF WritesKnown, Known, Wrote, Forgotten
<1> QED BY <1>1, <1>2, <1>3, <1>4, <1>5 DEF Sound

LEMMA BecomesKeeps ==
  ASSUME TypeOK, NEW k, Firm(Core, k, events', presses', unsent'), Becomes(k),
         events' \in Seq(TransportEvent), clock' \in [Sessions -> Nat],
         input' \in [Sessions -> Input], presses' \in [Ids -> Nat],
         unsent' \subseteq Submissions
  PROVE  DeliveryInv' /\ Kept(Core, Core')
<1>1. /\ Core'.dels = k.dels /\ Core'.next = k.next /\ Core'.pending = k.pending
      /\ Core'.queue = k.queue /\ Core'.obs = k.obs /\ Core'.cells = k.cells
      /\ Core'.worker = k.worker /\ Core'.pasted = k.pasted
  BY DEF Core, Becomes
<1>2. k \in CoreState /\ Kept(Core, k)
  BY DEF Firm
<1>3. TypeOK'
  BY <1>2 DEF TypeOK, CoreState, Becomes
<1>4. Sound(Core', events', presses', unsent') /\ WritesKnown(Core')
  BY <1>1, SoundSame DEF Firm
<1>5. Kept(Core, Core')
  BY <1>1, <1>2 DEF Kept
<1> QED BY <1>3, <1>4, <1>5 DEF DeliveryInv

LEMMA CoreFirm ==
  ASSUME DeliveryInv
  PROVE  /\ Core \in CoreState /\ Firm(Core, Core, events, presses, unsent)
         /\ presses \in [Ids -> Nat] /\ events \in Seq(TransportEvent)
         /\ unsent \in SUBSET Submissions /\ input \in [Sessions -> Input]
<1>1. Core \in CoreState
  BY CoreRecord DEF DeliveryInv
<1>2. Kept(Core, Core)
  <2>1. Core.next \in Nat
    BY <1>1, NextNat
  <2> QED BY <2>1 DEF Kept
<1> QED BY <1>1, <1>2 DEF DeliveryInv, Firm, TypeOK

\* A change of what the invariant does not speak of.
LEMMA DeferFirm ==
  ASSUME NEW o \in CoreState, NEW k, NEW s \in Sessions, NEW b \in BOOLEAN,
         NEW pr \in [Ids -> Nat], NEW ev \in Seq(TransportEvent),
         NEW un \in SUBSET Submissions, Firm(o, k, ev, pr, un)
  PROVE  Firm(o, [k EXCEPT !.deferred[s] = b], ev, pr, un)
<1> DEFINE n == [k EXCEPT !.deferred[s] = b]
<1>1. k \in CoreState
  BY DEF Firm
<1>2. /\ n \in CoreState /\ n.dels = k.dels /\ n.next = k.next /\ n.pending = k.pending
      /\ n.queue = k.queue /\ n.obs = k.obs /\ n.worker = k.worker
      /\ n.pasted = k.pasted /\ n.cells = k.cells
  BY <1>1 DEF CoreState
<1> HIDE DEF n
<1>3. Sound(n, ev, pr, un) /\ WritesKnown(n)
  BY <1>2, SoundSame DEF Firm
<1>4. Kept(o, n)
  BY <1>2 DEF Firm, Kept
<1> QED BY <1>2, <1>3, <1>4 DEF Firm, n

LEMMA HookRespondedKeeps ==
  ASSUME DeliveryInv, NEW s \in Sessions, NEW how \in Hows, HookResponded(s, how)
  PROVE  DeliveryInv' /\ Kept(Core, Core')
<1> DEFINE k == [Core EXCEPT !.deferred[s] = FALSE]
           n == Deliver(k, s, how)
<1>1. Firm(Core, k, events, presses, unsent)
  BY CoreFirm, DeferFirm
<1> HIDE DEF k
<1>2. Firm(Core, n, events, presses, unsent)
  BY <1>1, CoreFirm, DeliverFirm
<1>3. Becomes(n) /\ UNCHANGED <<events, clock, input, presses, unsent>>
  BY DEF HookResponded, k
<1> HIDE DEF n
<1>4. TypeOK
  BY DEF DeliveryInv
<1> QED BY <1>2, <1>3, <1>4, BecomesKeeps DEF TypeOK

LEMMA SubmitKeeps ==
  ASSUME DeliveryInv, NEW s \in Sessions, NEW sub \in Submissions, NEW how \in Hows,
         Submit(s, sub, how)
  PROVE  DeliveryInv' /\ Kept(Core, Core')
<1>1. /\ TypeOK /\ Core \in CoreState /\ Firm(Core, Core, events, presses, unsent)
      /\ presses \in [Ids -> Nat] /\ events \in Seq(TransportEvent)
      /\ unsent \in SUBSET Submissions /\ input \in [Sessions -> Input]
      /\ Sound(Core, events, presses, unsent)
  BY CoreFirm DEF DeliveryInv
<1>2. /\ Live(s) /\ sub \in unsent /\ unsent' = unsent \ {sub}
      /\ UNCHANGED <<events, clock, input, presses>>
  BY DEF Submit
<1>3. Core.obs[s].epoch # 0 /\ Core.pending[s] = pending[s]
  BY <1>1, <1>2, CoreRecord DEF Live
<1>4. ASSUME NEW n, Becomes(n), Firm(Core, n, events, presses, unsent \ {sub})
      PROVE  DeliveryInv' /\ Kept(Core, Core')
  <2>1. Firm(Core, n, events', presses', unsent')
    BY <1>2, <1>4
  <2>2. /\ events' \in Seq(TransportEvent) /\ clock' \in [Sessions -> Nat]
        /\ input' \in [Sessions -> Input] /\ presses' \in [Ids -> Nat]
        /\ unsent' \subseteq Submissions
    BY <1>1, <1>2 DEF TypeOK
  <2> QED BY <1>1, <1>4, <2>1, <2>2, BecomesKeeps
<1> DEFINE c == Core
<1>5. c.obs = obs /\ c.pending = pending /\ ~c.err /\ c = Core
  BY <1>1, CoreRecord
<1>6. CASE pending[s] # None \/ ~Accepts(Core, s)
  <2> DEFINE subs == IF c.queue[s].epoch = c.obs[s].epoch THEN c.queue[s].subs ELSE <<>>
             q == [epoch |-> c.obs[s].epoch, subs |-> Append(subs, sub)]
             n == Enqueue(c, s, sub)
  <2>1. Becomes(n)
    BY <1>6 DEF Submit
  <2> HIDE DEF c
  <2>2. c.pending[s] # None
    <3> SUFFICES ASSUME c.pending[s] = None PROVE FALSE
      OBVIOUS
    <3>1. IdsOnRecord(c, events) /\ QueueCovered(c)
      BY <1>1, <1>5 DEF Sound
    <3>2. Accepts(c, s)
      BY <3>1 DEF Accepts, IdsOnRecord, QueueCovered
    <3> QED BY <1>5, <1>6, <3>2
  <2>3. c \in CoreState /\ c.queue[s] \in [epoch : Nat, subs : Seq(Submissions)]
        /\ c.obs[s] \in Observation /\ sub \in Submissions
    BY <1>1, <1>5 DEF CoreState
  <2>4. subs \in Seq(Submissions) /\ c.obs[s].epoch \in Nat
    BY <2>3 DEF Observation
  <2>5. \A i \in 1..Len(subs) : i \in 1..Len(c.queue[s].subs) /\ subs[i] = c.queue[s].subs[i]
    <3>1. CASE c.queue[s].epoch = c.obs[s].epoch
      BY <3>1
    <3>2. CASE c.queue[s].epoch # c.obs[s].epoch
      <4>1. subs = <<>>
        BY <3>2
      <4> HIDE DEF subs
      <4> QED BY <4>1
    <3> QED BY <3>1, <3>2
  <2>6. n = c \/ n = [c EXCEPT !.queue[s] = q]
    BY DEF Enqueue
  <2> HIDE DEF n, subs
  <2>7. Refiles(c, n, s) /\ n.pending = c.pending /\ n.queue[s] \in {c.queue[s], q}
    <3>1. q \in [epoch : Nat, subs : Seq(Submissions)]
      BY <2>3, <2>4
    <3> HIDE DEF q
    <3>2. CASE n = c
      BY <2>3, <3>2 DEF Refiles
    <3>3. CASE n = [c EXCEPT !.queue[s] = q]
      <4>1. /\ n \in CoreState /\ n.dels = c.dels /\ n.next = c.next /\ n.pending = c.pending
            /\ n.obs = c.obs /\ n.worker = c.worker
            /\ n.pasted = c.pasted /\ n.cells = c.cells /\ n.queue[s] = q
            /\ \A t \in Sessions \ {s} : n.queue[t] = c.queue[t]
        BY <2>3, <3>1, <3>3 DEF CoreState
      <4> QED BY <4>1 DEF Refiles
    <3> QED BY <2>6, <3>2, <3>3
  <2>8. n.queue[s].epoch <= c.obs[s].epoch
    <3>1. c.queue[s].epoch <= c.obs[s].epoch
      BY <1>1, <1>5 DEF Sound, QueueCovered
    <3>2. q.epoch = c.obs[s].epoch
      OBVIOUS
    <3> HIDE DEF q
    <3> QED BY <2>4, <2>7, <3>1, <3>2
  <2>9. Enqueues(c, n, s, sub)
    <3>1. CASE n.queue[s] = c.queue[s]
      BY <3>1 DEF Enqueues
    <3>2. CASE n.queue[s] = q
      <4> DEFINE m == Append(subs, sub)
      <4>1. /\ Len(m) = Len(subs) + 1 /\ m[Len(m)] = sub /\ Len(subs) \in Nat
            /\ \A i \in 1..Len(subs) : m[i] = subs[i]
        BY <2>3, <2>4
      <4>2. n.queue[s].subs = m
        BY <3>2
      <4> HIDE DEF m
      <4>3. \A i \in 1..Len(m) : i \in 1..Len(subs) \/ i = Len(m)
        BY <4>1
      <4> QED BY <2>5, <4>1, <4>2, <4>3 DEF Enqueues
    <3> QED BY <2>7, <3>1, <3>2
  <2>10. Firm(Core, n, events, presses, unsent \ {sub})
    <3>1. Firm(Core, c, events, presses, unsent) /\ c.obs[s].epoch # 0
      BY <1>1, <1>3, <1>5
    <3>2. n.pending[s] = c.pending[s]
      BY <2>7
    <3> QED BY <1>1, <1>2, <2>2, <2>7, <2>8, <2>9, <3>1, <3>2, EnqueueFirm
  <2> QED BY <1>4, <2>1, <2>10
<1>7. CASE ~(pending[s] # None \/ ~Accepts(Core, s))
  <2> DEFINE h == [c EXCEPT !.pending[s] = sub, !.deferred[s] = FALSE]
             k == Deliver(h, s, how)
             n == IF k.err THEN [k EXCEPT !.pending[s] = None] ELSE k
  <2>1. Becomes(n)
    BY <1>7 DEF Submit
  <2> HIDE DEF c
  <2>2. c \in CoreState /\ c.pending[s] = None
    BY <1>1, <1>5, <1>7
  <2>3. /\ h \in CoreState /\ h.dels = c.dels /\ h.next = c.next /\ h.queue = c.queue
        /\ h.obs = c.obs /\ h.worker = c.worker
        /\ h.pasted = c.pasted /\ h.cells = c.cells /\ h.err = c.err /\ h.pending[s] = sub
        /\ \A t \in Sessions \ {s} : h.pending[t] = c.pending[t]
    BY <2>2 DEF CoreState
  <2> HIDE DEF h
  <2>4. Refiles(c, h, s) /\ h.queue[s] = c.queue[s]
    BY <2>3 DEF Refiles
  <2>5. Firm(Core, h, events, presses, unsent \ {sub})
    <3>1. Firm(Core, c, events, presses, unsent) /\ c.obs[s].epoch # 0
      BY <1>1, <1>3, <1>5
    <3> QED BY <1>1, <1>2, <2>2, <2>3, <2>4, <3>1, SubmitFirm
  <2>6. unsent \ {sub} \in SUBSET Submissions
    BY <1>1
  <2>7. /\ Firm(Core, k, events, presses, unsent \ {sub}) /\ k.queue = h.queue
        /\ k.obs[s].epoch = h.obs[s].epoch
        /\ k.err => h.err \/ k.dels[s] = None
    <3> DEFINE left == unsent \ {sub}
    <3>1. left \in SUBSET Submissions /\ Firm(Core, h, events, presses, left)
      BY <2>5, <2>6
    <3> HIDE DEF left
    <3>2. /\ Firm(Core, k, events, presses, left) /\ k.queue = h.queue
          /\ k.obs[s].epoch = h.obs[s].epoch
          /\ k.err => h.err \/ k.dels[s] = None
      BY <1>1, <3>1, DeliverFirm
    <3> QED BY <3>2 DEF left
  <2> HIDE DEF k
  <2>8. CASE ~k.err
    BY <1>4, <2>1, <2>7, <2>8
  <2>9. CASE k.err
    <3> DEFINE m == [k EXCEPT !.pending[s] = None]
    <3>1. n = m
      BY <2>9
    <3>2. k \in CoreState /\ k.dels[s] = None /\ Sound(k, events, presses, unsent \ {sub})
      BY <1>5, <2>3, <2>7, <2>9 DEF Firm
    <3>3. /\ m \in CoreState /\ m.dels = k.dels /\ m.next = k.next /\ m.queue = k.queue
          /\ m.obs = k.obs /\ m.worker = k.worker
          /\ m.pasted = k.pasted /\ m.cells = k.cells /\ m.pending[s] = None
          /\ \A t \in Sessions \ {s} : m.pending[t] = k.pending[t]
      BY <3>2 DEF CoreState
    <3> HIDE DEF m, n
    <3>4. Refiles(k, m, s)
      BY <3>3 DEF Refiles
    <3>5. k.queue[s].epoch = k.obs[s].epoch => k.queue[s].subs = <<>>
      <4>1. c.queue[s].epoch = c.obs[s].epoch => c.queue[s].subs = <<>>
        BY <1>1, <1>5, <2>2 DEF Sound, QueueCovered
      <4>2. k.obs[s].epoch = c.obs[s].epoch /\ k.queue = c.queue
        BY <2>3, <2>7
      <4> QED BY <4>1, <4>2
    <3>6. m.queue[s] = k.queue[s]
      BY <3>3
    <3>7. Firm(Core, m, events, presses, unsent \ {sub})
      BY <1>1, <2>6, <2>7, <3>2, <3>3, <3>4, <3>5, <3>6, ClearFirm
    <3> QED BY <1>4, <2>1, <3>1, <3>7
  <2> QED BY <2>8, <2>9
<1> QED BY <1>6, <1>7

LEMMA FirmChain ==
  ASSUME NEW o, NEW k, NEW s, NEW ev, NEW pr, NEW un, Firm(o, k, ev, pr, un)
  PROVE  Chain(o, k, s, ev, pr, un)
<1>1. WritesKnownOrDone(k, s)
  BY DEF Firm, WritesKnown, WritesKnownOrDone, Known
<1> QED BY <1>1 DEF Firm, Chain

\* A handler's result becomes Core's state, with the clock, events and input given.
LEMMA HandlerKeeps ==
  ASSUME DeliveryInv, NEW n, Becomes(n), NEW ev, events' = ev,
         ev \in Seq(TransportEvent), Firm(Core, n, ev, presses, unsent),
         clock' \in [Sessions -> Nat], UNCHANGED <<input, presses, unsent>>
  PROVE  DeliveryInv' /\ Kept(Core, Core')
<1>1. TypeOK
  BY DEF DeliveryInv
<1>2. /\ input' \in [Sessions -> Input] /\ presses' \in [Ids -> Nat]
      /\ unsent' \subseteq Submissions
  BY <1>1 DEF TypeOK
<1> QED BY <1>1, <1>2, BecomesKeeps

\* The observation of s moves on within its terminal generation.
Observes(k, s, o, b) == [k EXCEPT !.obs[s] = o, !.deferred[s] = b]

LEMMA ObserveRestates ==
  ASSUME NEW k \in CoreState, NEW s \in Sessions, NEW o \in Observation,
         NEW b \in BOOLEAN, NEW pr, o.epoch = k.obs[s].epoch
  PROVE  /\ Restates(k, Observes(k, s, o, b), s, pr)
         /\ Observes(k, s, o, b).dels = k.dels
<1> DEFINE n == Observes(k, s, o, b)
<1>1. /\ n \in CoreState /\ n.dels = k.dels /\ n.next = k.next /\ n.pending = k.pending
      /\ n.queue = k.queue /\ n.worker = k.worker /\ n.changed = k.changed
      /\ n.pasted = k.pasted /\ n.cells = k.cells /\ n.obs[s] = o
      /\ \A t \in Sessions \ {s} : n.obs[t] = k.obs[t]
  BY DEF CoreState, Observes
<1> HIDE DEF n
<1>2. Restates(k, n, s, pr)
  BY <1>1 DEF Restates, CellsKept
<1> QED BY <1>1, <1>2 DEF n

LEMMA ReducedObservation ==
  ASSUME NEW o \in Observation, NEW sig \in Signals, NEW seq \in Nat
  PROVE  Reduced(o, sig, seq) \in Observation /\ Reduced(o, sig, seq).epoch = o.epoch
<1>1. CASE sig = "trailing"
  BY <1>1 DEF Reduced, Observation
<1>2. CASE sig # "trailing"
  <2>1. After[sig] \in AgentStates
    BY <1>2 DEF After, Signals, AgentStates
  <2>2. (sig \in Progress) \in BOOLEAN
    OBVIOUS
  <2> QED BY <1>2, <2>1, <2>2 DEF Reduced, Observation
<1> QED BY <1>1, <1>2

LEMMA SignalKeeps ==
  ASSUME DeliveryInv, NEW s \in Sessions, NEW sig \in Signals, NEW how \in Hows,
         Signal(s, sig, how)
  PROVE  DeliveryInv' /\ Kept(Core, Core')
<1> DEFINE hold == sig = "started" /\ pending[s] # None
           o == Reduced(obs[s], sig, clock[s] + 1)
           b == Core.deferred[s] \/ hold
           k == Observes(Core, s, o, b)
           p == ConfirmProgress(k, s, o.seq)
           c == IF sig = "prompt" THEN ConfirmSubmission(k, s, o.seq)
                ELSE IF sig \in Progress THEN ConfirmQueueProgress(p, s, o.seq)
                ELSE k
           f(answer) == IF sig \in Progress \cup {"prompt"}
                        THEN Complete(c, s, how, answer) ELSE c
           n(answer) == IF hold \/ f(answer).err THEN f(answer)
                        ELSE Deliver(f(answer), s, how)
<1>1. /\ Core \in CoreState /\ Firm(Core, Core, events, presses, unsent)
      /\ presses \in [Ids -> Nat] /\ events \in Seq(TransportEvent)
      /\ unsent \in SUBSET Submissions /\ input \in [Sessions -> Input]
  BY CoreFirm
<1>2. obs[s] \in Observation /\ clock[s] + 1 \in Nat /\ clock \in [Sessions -> Nat]
  BY DEF DeliveryInv, TypeOK
<1>3. /\ clock' = [clock EXCEPT ![s] = @ + 1] /\ \E answer \in AnswersTo(s) : Becomes(n(answer))
      /\ UNCHANGED <<events, input, presses, unsent>>
  BY DEF Signal, Observes
<1>4. o \in Observation /\ o.epoch = Core.obs[s].epoch
  BY <1>2, CoreRecord, ReducedObservation DEF DeliveryInv
<1>5. b \in BOOLEAN
  OBVIOUS
<1>6. o.seq \in Nat
  BY <1>4 DEF Observation
<1> HIDE DEF o, b, hold
<1>7. Restates(Core, k, s, presses) /\ k.dels = Core.dels
  BY <1>1, <1>4, <1>5, ObserveRestates
<1>8. Firm(Core, k, events, presses, unsent)
  BY <1>1, <1>7, RestateFirm
<1>9. Chain(Core, k, s, events, presses, unsent)
  BY <1>8, FirmChain
<1> HIDE DEF k
<1>10. k \in CoreState /\ IdsOnRecord(k, events)
  BY <1>9 DEF Chain, Sound
<1>11. Chain(Core, c, s, events, presses, unsent)
  <2>1. CASE sig = "prompt"
    <3>1. Restates(k, ConfirmSubmission(k, s, o.seq), s, presses)
      BY <1>1, <1>6, <1>10, ConfirmSubmissionRestates
    <3> QED BY <1>1, <1>9, <2>1, <3>1, RestateChain
  <2>2. CASE sig # "prompt" /\ sig \in Progress
    <3>1. Restates(k, p, s, presses)
      BY <1>6, <1>10, ConfirmProgressRestates
    <3>2. Chain(Core, p, s, events, presses, unsent)
      BY <1>1, <1>9, <3>1, RestateChain
    <3> HIDE DEF p
    <3>3. p \in CoreState /\ IdsOnRecord(p, events) /\ WorkersOnRecord(p, events, presses)
      BY <3>2 DEF Chain, Sound
    <3>4. Restates(p, ConfirmQueueProgress(p, s, o.seq), s, presses)
      BY <1>6, <3>3, ConfirmQueueProgressRestates
    <3>5. Chain(Core, ConfirmQueueProgress(p, s, o.seq), s, events, presses, unsent)
      BY <1>1, <3>2, <3>4, RestateChain
    <3> QED BY <2>2, <3>5
  <2>3. CASE sig # "prompt" /\ sig \notin Progress
    BY <1>9, <2>3
  <2> QED BY <2>1, <2>2, <2>3
<1> HIDE DEF c
<1>p. PICK answer \in AnswersTo(s) : Becomes(n(answer))
  BY <1>3
<1> DEFINE g == f(answer)
<1>12. Firm(Core, g, events, presses, unsent)
  <2>1. CASE sig \in Progress \cup {"prompt"}
    <3>1. Firm(Core, Complete(c, s, how, answer), events, presses, unsent)
      BY <1>1, <1>11, CompleteFirm
    <3> QED BY <2>1, <3>1
  <2>2. CASE sig \notin Progress \cup {"prompt"}
    <3>1. g = k
      BY <2>2 DEF c
    <3> QED BY <1>8, <3>1
  <2> QED BY <2>1, <2>2
<1>m. Becomes(IF hold \/ g.err THEN g ELSE Deliver(g, s, how))
  BY <1>p
<1> HIDE DEF g
<1> DEFINE m == IF hold \/ g.err THEN g ELSE Deliver(g, s, how)
<1>13. Firm(Core, m, events, presses, unsent)
  BY <1>1, <1>12, DeliverFirm
<1>b. Becomes(m)
  BY <1>m
<1> HIDE DEF m
<1>14. clock' \in [Sessions -> Nat]
  BY <1>2, <1>3
<1> QED BY <1>1, <1>3, <1>b, <1>13, <1>14, HandlerKeeps

LEMMA RecordEventKeeps ==
  ASSUME DeliveryInv, NEW how \in Hows, RecordEvent(how)
  PROVE  DeliveryInv' /\ Kept(Core, Core')
<1> DEFINE e == Head(events)
           s == e.session
           tl == Tail(events)
           k == ApplyEvent(Core, e)
           current == obs[s].epoch = e.epoch /\ obs[s].progress
           p == IF current THEN ConfirmProgress(k, s, obs[s].seq) ELSE k
           n(answer) == Complete(p, s, how, answer)
<1>1. /\ Core \in CoreState /\ Firm(Core, Core, events, presses, unsent)
      /\ presses \in [Ids -> Nat] /\ events \in Seq(TransportEvent)
      /\ unsent \in SUBSET Submissions /\ input \in [Sessions -> Input]
  BY CoreFirm
<1>2. /\ events # <<>> /\ events' = tl
      /\ UNCHANGED <<clock, input, presses, unsent>>
  BY DEF RecordEvent
<1>3. /\ obs[s].epoch = e.epoch => \E answer \in AnswersTo(s) : Becomes(n(answer))
      /\ obs[s].epoch # e.epoch => Becomes(p)
  BY DEF RecordEvent
<1>4. e \in TransportEvent /\ tl \in Seq(TransportEvent)
  BY <1>1, <1>2
<1>5. s \in Sessions
  BY <1>4 DEF TransportEvent
<1>6. obs[s].seq \in Nat /\ clock \in [Sessions -> Nat]
  BY <1>5 DEF DeliveryInv, TypeOK, Observation
<1>7. ~Core.changed /\ Core.dels = dels /\ Core.obs = obs
  BY CoreRecord DEF DeliveryInv
<1>8. Chain(Core, Core, s, events, presses, unsent)
  BY <1>1, FirmChain
<1>9. Chain(Core, k, s, events, presses, unsent) /\ ~Undecided(k, e)
  <2> DEFINE t == Head(events).session
  <2>1. t = Head(events).session /\ Chain(Core, Core, t, events, presses, unsent)
    BY <1>8
  <2> HIDE DEF t
  <2>2. Chain(Core, ApplyEvent(Core, Head(events)), t, events, presses, unsent)
        /\ ~Undecided(ApplyEvent(Core, Head(events)), Head(events))
    BY <1>1, <1>2, <1>7, <2>1, ApplyEventChain
  <2> QED BY <2>2 DEF t
<1>10. obs[s].epoch # e.epoch => k = Core
  <2>1. IdsOnRecord(Core, events)
    BY <1>8 DEF Chain, Sound
  <2>2. dels[s] # None => dels[s].epoch = obs[s].epoch
    BY <1>5, <1>7, <2>1 DEF IdsOnRecord
  <2> QED BY <1>7, <2>2 DEF ApplyEvent, EventIsCurrent
<1> HIDE DEF k
<1>11. Chain(Core, k, s, tl, presses, unsent)
  BY <1>1, <1>2, <1>9, PopChain
<1> HIDE DEF tl, e
<1>12. CASE obs[s].epoch # e.epoch
  <2>1. p = Core /\ Becomes(Core)
    BY <1>3, <1>10, <1>12
  <2>2. Firm(Core, Core, tl, presses, unsent)
    BY <1>1, <1>10, <1>11, <1>12 DEF Firm, Chain
  <2> QED BY <1>2, <1>4, <1>6, <2>1, <2>2, HandlerKeeps
<1>13. CASE obs[s].epoch = e.epoch
  <2>1. k \in CoreState /\ IdsOnRecord(k, tl)
    BY <1>11 DEF Chain, Sound
  <2>2. Restates(k, ConfirmProgress(k, s, obs[s].seq), s, presses)
    BY <1>5, <1>6, <2>1, ConfirmProgressRestates
  <2>3. Chain(Core, ConfirmProgress(k, s, obs[s].seq), s, tl, presses, unsent)
    BY <1>1, <1>4, <1>5, <1>11, <2>2, RestateChain
  <2>4. Chain(Core, p, s, tl, presses, unsent)
    BY <1>11, <2>3
  <2> HIDE DEF p
  <2>p. PICK answer \in AnswersTo(s) : Becomes(n(answer))
    BY <1>3, <1>13
  <2> DEFINE m == Complete(p, s, how, answer)
  <2>5. Firm(Core, m, tl, presses, unsent)
    BY <1>1, <1>4, <1>5, <2>4, CompleteFirm
  <2>6. Becomes(m)
    BY <2>p
  <2> HIDE DEF m
  <2> QED BY <1>2, <1>4, <1>6, <2>5, <2>6, HandlerKeeps
<1> QED BY <1>12, <1>13

\* The terminal of s is replaced or closed: its delivery is cancelled, and nothing is
\* pending or, for this generation, queued.
Resets(k, n, s) ==
  /\ n \in CoreState
  /\ n.next = k.next /\ n.worker = k.worker /\ n.pasted = k.pasted
  /\ \A t \in Sessions \ {s} : /\ n.dels[t] = k.dels[t] /\ n.pending[t] = k.pending[t]
                               /\ n.queue[t] = k.queue[t] /\ n.obs[t] = k.obs[t]
  /\ \A pr : CellsKept(k, n, pr)
  /\ k.dels[s] # None => n.cells[k.dels[s].id].cancel
  /\ n.pending[s] = None
  /\ \/ n.dels[s] = None
     \/ /\ k.dels[s] # None /\ n.dels[s] # None
        /\ n.dels[s].id = k.dels[s].id /\ n.dels[s].epoch = n.obs[s].epoch
        /\ n.dels[s].conf = None /\ n.dels[s].state \in AcceptsReplacement
        /\ k.dels[s].state = "Confirmed" => n.dels[s].state = "Confirmed"
  /\ n.queue[s].epoch <= n.obs[s].epoch
  /\ \/ n.queue[s] = NoQueue
     \/ n.queue[s] = k.queue[s] /\ n.queue[s].epoch # n.obs[s].epoch
  /\ n.obs[s].epoch = 0 => n.dels[s] = None /\ n.queue[s] = NoQueue

LEMMA ResetOnePlace ==
  ASSUME NEW k, NEW n, NEW s \in Sessions, NEW un, OnePlace(k, un), Resets(k, n, s)
  PROVE  OnePlace(n, un)
<1>1. \A t \in Sessions : n.queue[t] = k.queue[t] \/ n.queue[t].subs = <<>>
  BY DEF Resets, NoQueue
<1>2. \A t \in Sessions : n.pending[t] # None => n.pending[t] = k.pending[t]
  BY DEF Resets
<1>3. \A id \in Ids : n.cells[id].sub = k.cells[id].sub
  BY DEF Resets, CellsKept
<1>4. \A t \in Sessions : \A i \in 1..Len(n.queue[t].subs) : n.queue[t] = k.queue[t]
  BY <1>1
<1>5. ASSUME NEW t \in Sessions, NEW u \in Sessions, NEW i \in 1..Len(n.queue[t].subs)
      PROVE  /\ n.queue[t].subs[i] \notin un
             /\ \A j \in 1..Len(n.queue[u].subs) :
                  n.queue[t].subs[i] = n.queue[u].subs[j] => t = u /\ i = j
             /\ \A id \in Ids : n.cells[id].sub # n.queue[t].subs[i]
  <2>1. n.queue[t] = k.queue[t]
    BY <1>4
  <2>2. ASSUME NEW j \in 1..Len(n.queue[u].subs), n.queue[t].subs[i] = n.queue[u].subs[j]
        PROVE  t = u /\ i = j
    <3>1. n.queue[u] = k.queue[u]
      BY <1>4
    <3> QED BY <2>1, <2>2, <3>1, QueueDistinct
  <2>3. \A id \in Ids : k.cells[id].sub # k.queue[t].subs[i]
    BY <2>1 DEF OnePlace
  <2>4. k.queue[t].subs[i] \notin un
    BY <2>1 DEF OnePlace
  <2> QED BY <1>3, <2>1, <2>2, <2>3, <2>4
<1>6. ASSUME NEW t \in Sessions, NEW u \in Sessions, n.pending[t] # None
      PROVE  /\ n.pending[t] \notin un
             /\ n.pending[t] = n.pending[u] => t = u
             /\ ~Queued(n, u, n.pending[t])
  <2>1. n.pending[t] = k.pending[t]
    BY <1>2, <1>6
  <2>2. n.pending[t] \notin un /\ (n.pending[t] = n.pending[u] => t = u)
    BY <1>2, <1>6, <2>1 DEF OnePlace
  <2>3. ~Queued(k, u, k.pending[t])
    BY <1>6, <2>1 DEF OnePlace
  <2>4. ~Queued(n, u, n.pending[t])
    BY <1>4, <2>1, <2>3 DEF Queued
  <2> QED BY <2>2, <2>4
<1>7. \A id \in Ids : n.cells[id].sub \notin un
  BY <1>3 DEF OnePlace
<1> QED BY <1>5, <1>6, <1>7 DEF OnePlace

LEMMA ResetFirm ==
  ASSUME NEW o \in CoreState, NEW k, NEW n, NEW s \in Sessions,
         NEW pr \in [Ids -> Nat], NEW ev \in Seq(TransportEvent),
         NEW un \in SUBSET Submissions, Firm(o, k, ev, pr, un), Resets(k, n, s)
  PROVE  Firm(o, n, ev, pr, un)
<1>1. k \in CoreState /\ Sound(k, ev, pr, un) /\ WritesKnown(k) /\ n \in CoreState
  BY DEF Firm, Resets
<1>2. /\ n.next = k.next /\ n.worker = k.worker /\ n.pasted = k.pasted
      /\ CellsKept(k, n, pr)
      /\ \A t \in Sessions \ {s} : /\ n.dels[t] = k.dels[t] /\ n.pending[t] = k.pending[t]
                                   /\ n.queue[t] = k.queue[t] /\ n.obs[t] = k.obs[t]
  BY DEF Resets
<1>3. n.dels[s] # None =>
        /\ k.dels[s] # None /\ n.dels[s].id = k.dels[s].id
        /\ n.dels[s].epoch = n.obs[s].epoch /\ n.dels[s].conf = None
        /\ n.dels[s].state \in AcceptsReplacement
        /\ k.dels[s].state = "Confirmed" => n.dels[s].state = "Confirmed"
  BY DEF Resets
<1>4. IdsOnRecord(n, ev)
  BY <1>1, <1>2, <1>3 DEF Sound, IdsOnRecord, CellsKept
<1>5. WorkersOnRecord(n, ev, pr)
  BY <1>1, <1>2 DEF Sound, WorkersOnRecord, CellsKept
<1>6. AfterEnter(n, pr)
  BY <1>1, <1>2, <1>3 DEF Sound, AfterEnter, AcceptsReplacement
<1>7. Driven(n, ev)
  BY <1>1, <1>2, <1>3 DEF Sound, Driven, DrivenBy, AcceptsReplacement
<1>8. Serves(n)
  <2> SUFFICES ASSUME NEW id \in Ids, n.worker[id] # None,
                      n.worker[id].pc \in Unmarked, ~n.cells[id].cancel
               PROVE  LET t == n.worker[id].session IN
                      /\ n.dels[t] # None /\ n.dels[t].id = id
                      /\ n.dels[t].state = "WritingPaste"
                      /\ n.pending[t] = n.worker[id].sub
    BY DEF Serves
  <2> DEFINE t == n.worker[id].session
  <2>1. k.worker[id] = n.worker[id] /\ ~k.cells[id].cancel
    BY <1>2 DEF CellsKept
  <2>2. t \in Sessions
    BY <1>1, <2>1 DEF CoreState, Worker
  <2>3. /\ k.dels[t] # None /\ k.dels[t].id = id /\ k.dels[t].state = "WritingPaste"
        /\ k.pending[t] = n.worker[id].sub
    BY <1>1, <2>1 DEF Sound, Serves
  <2>4. t # s
    BY <2>3 DEF Resets
  <2> QED BY <1>2, <2>2, <2>3, <2>4
<1>9. QueueCovered(n)
  <2>1. QueueCovered(k)
    BY <1>1 DEF Sound
  <2>2. n.pending[s] = None /\ n.queue[s].epoch <= n.obs[s].epoch
    BY DEF Resets
  <2>3. n.queue[s].epoch = n.obs[s].epoch => n.queue[s].subs = <<>>
    BY DEF Resets, NoQueue
  <2>4. n.obs[s].epoch = 0 => n.dels[s] = None /\ n.queue[s] = NoQueue
    BY DEF Resets
  <2> QED BY <1>2, <1>3, <2>1, <2>2, <2>3, <2>4 DEF QueueCovered
<1>10. OnePlace(n, un)
  BY <1>1, ResetOnePlace DEF Sound
<1>11. /\ \A id \in Ids : \A sub : Wrote(n, id, sub) <=> Wrote(k, id, sub)
       /\ \A sub : Forgotten(n, sub) <=> Forgotten(k, sub)
  BY <1>2 DEF CellsKept, Wrote, Forgotten
<1>12. PastesCounted(n)
  BY <1>1, <1>2, <1>11 DEF Sound, PastesCounted
<1>13. WritesKnown(n)
  <2> SUFFICES ASSUME NEW t \in Sessions, n.pending[t] # None, ~Forgotten(n, n.pending[t]),
                      NEW id \in Ids, Wrote(n, id, n.pending[t])
               PROVE  /\ n.dels[t] # None /\ Wrote(n, n.dels[t].id, n.pending[t])
                      /\ n.dels[t].state \notin AcceptsReplacement
    BY DEF WritesKnown, Known
  <2>1. n.pending[t] = k.pending[t] /\ n.dels[t] = k.dels[t]
    BY <1>2 DEF Resets
  <2>2. /\ k.dels[t] # None /\ Wrote(k, k.dels[t].id, k.pending[t])
        /\ k.dels[t].state \notin AcceptsReplacement
    BY <1>1, <1>11, <2>1 DEF WritesKnown, Known
  <2>3. k.dels[t].id \in Ids
    BY <1>1, <2>2 DEF CoreState, Delivery
  <2> QED BY <1>11, <2>1, <2>2, <2>3
<1>14. Kept(o, n)
  BY <1>2, <1>3 DEF Firm, Kept
<1> QED BY <1>1, <1>4, <1>5, <1>6, <1>7, <1>8, <1>9, <1>10, <1>12, <1>13, <1>14
        DEF Firm, Sound

\* The cells of a cancelled delivery, and of no other.
LEMMA TouchedCellsKept ==
  ASSUME NEW k \in CoreState, NEW c, NEW id \in Ids, CellTouched(k, c, id), id < k.next
  PROVE  \A pr : CellsKept(k, c, pr)
<1>1. k.next \in Nat /\ id \in Nat
  BY NextNat, IdsNat
<1> SUFFICES ASSUME NEW pr, NEW j \in Ids
             PROVE  /\ c.cells[j].sub = k.cells[j].sub /\ c.cells[j].paste = k.cells[j].paste
                    /\ c.cells[j].forgotten = k.cells[j].forgotten
                    /\ k.cells[j].cancel => c.cells[j].cancel
                    /\ c.cells[j].receipt => k.cells[j].receipt \/ pr[j] > 0
                    /\ j >= k.next => c.cells[j] = k.cells[j]
  BY DEF CellsKept
<1>2. CASE j = id
  BY <1>1, <1>2 DEF CellTouched
<1>3. CASE j # id
  BY <1>3 DEF CellTouched
<1> QED BY <1>2, <1>3

LEMMA CancelledCells ==
  ASSUME NEW k \in CoreState, NEW s \in Sessions, NEW ev, IdsOnRecord(k, ev),
         k.dels[s] # None
  PROVE  LET c == CloseAck(Cancel(k, k.dels[s].id), k.dels[s].id) IN
         /\ c \in CoreState /\ c.cells[k.dels[s].id].cancel
         /\ c.dels = k.dels /\ c.next = k.next /\ c.pending = k.pending
         /\ c.deferred = k.deferred /\ c.queue = k.queue /\ c.obs = k.obs
         /\ c.worker = k.worker /\ c.pasted = k.pasted
         /\ \A pr : CellsKept(k, c, pr)
<1> DEFINE id == k.dels[s].id
           c == CloseAck(Cancel(k, id), id)
<1>1. id \in Ids /\ id < k.next
  BY RecordAt
<1>2. CellTouched(k, c, id) /\ c.cells[id].cancel
  BY <1>1, CancelledTouches
<1> HIDE DEF c
<1>3. \A pr : CellsKept(k, c, pr)
  BY <1>1, <1>2, TouchedCellsKept
<1>4. /\ c \in CoreState /\ c.dels = k.dels /\ c.next = k.next /\ c.pending = k.pending
      /\ c.deferred = k.deferred /\ c.queue = k.queue /\ c.obs = k.obs
      /\ c.worker = k.worker /\ c.pasted = k.pasted
  BY <1>2 DEF CellTouched
<1> QED BY <1>2, <1>3, <1>4 DEF c

\* What a closed terminal leaves: the cells of c, and nothing for s.
Closing(c, s, o) ==
  [c EXCEPT !.dels[s] = None, !.obs[s] = o, !.pending[s] = None, !.deferred[s] = FALSE,
            !.queue[s] = NoQueue]

LEMMA ClosingResets ==
  ASSUME NEW k \in CoreState, NEW c \in CoreState, NEW s \in Sessions,
         NEW o \in Observation,
         c.dels = k.dels, c.next = k.next, c.pending = k.pending, c.queue = k.queue,
         c.obs = k.obs, c.worker = k.worker, c.pasted = k.pasted,
         \A pr : CellsKept(k, c, pr), k.dels[s] # None => c.cells[k.dels[s].id].cancel
  PROVE  Resets(k, Closing(c, s, o), s)
<1> DEFINE n == Closing(c, s, o)
<1>1. NoQueue \in [epoch : Nat, subs : Seq(Submissions)]
  BY DEF NoQueue
<1>2. /\ n \in CoreState /\ n.next = c.next /\ n.worker = c.worker /\ n.pasted = c.pasted
      /\ n.cells = c.cells /\ n.dels[s] = None /\ n.pending[s] = None
      /\ n.queue[s] = NoQueue /\ n.obs[s] = o
      /\ \A t \in Sessions \ {s} : /\ n.dels[t] = c.dels[t] /\ n.pending[t] = c.pending[t]
                                   /\ n.queue[t] = c.queue[t] /\ n.obs[t] = c.obs[t]
  BY <1>1 DEF Closing, CoreState
<1>3. NoQueue.epoch <= o.epoch
  BY DEF NoQueue, Observation
<1> HIDE DEF n
<1>4. \A pr : CellsKept(k, n, pr)
  BY <1>2 DEF CellsKept
<1>5. Resets(k, n, s)
  BY <1>2, <1>3, <1>4 DEF Resets
<1> QED BY <1>5 DEF n

LEMMA RenewedObservation ==
  ASSUME NEW o \in Observation, NEW epoch \in Nat
  PROVE  Renewed(o, epoch) \in Observation /\ Renewed(o, epoch).epoch = epoch
BY DEF Renewed, Observation, AgentStates

LEMMA RetireKeeps ==
  ASSUME DeliveryInv, NEW s \in Sessions, Retire(s)
  PROVE  DeliveryInv' /\ Kept(Core, Core')
<1> DEFINE k == Core
           d == k.dels[s]
           c == IF d = None THEN k ELSE CloseAck(Cancel(k, d.id), d.id)
           o == Renewed(obs[s], 0)
           n == Closing(c, s, o)
<1>1. /\ k \in CoreState /\ Firm(Core, k, events, presses, unsent)
      /\ presses \in [Ids -> Nat] /\ events \in Seq(TransportEvent)
      /\ unsent \in SUBSET Submissions /\ input \in [Sessions -> Input]
      /\ clock \in [Sessions -> Nat]
  BY CoreFirm DEF DeliveryInv, TypeOK
<1>2. k.dels = dels /\ IdsOnRecord(k, events)
  BY <1>1, CoreRecord DEF DeliveryInv, Firm, Sound
<1>3. Becomes(n) /\ UNCHANGED <<events, clock, input, presses, unsent>>
  <2>1. d = dels[s]
    BY <1>2
  <2>2. LET h == IF dels[s] = None THEN Core
                 ELSE CloseAck(Cancel(Core, dels[s].id), dels[s].id)
        IN  Becomes([h EXCEPT !.dels[s] = None,
                !.obs[s] = o,
                !.pending[s] = None, !.deferred[s] = FALSE, !.queue[s] = NoQueue])
    BY DEF Retire
  <2>3. c = IF dels[s] = None THEN Core
            ELSE CloseAck(Cancel(Core, dels[s].id), dels[s].id)
    BY <2>1
  <2> HIDE DEF c
  <2>4. Becomes([c EXCEPT !.dels[s] = None,
                !.obs[s] = o,
                !.pending[s] = None, !.deferred[s] = FALSE, !.queue[s] = NoQueue])
    BY <2>2, <2>3
  <2> QED BY <2>4 DEF Closing, Retire
<1> HIDE DEF k
<1>4. /\ c \in CoreState
      /\ c.dels = k.dels /\ c.next = k.next /\ c.pending = k.pending /\ c.queue = k.queue
      /\ c.obs = k.obs /\ c.worker = k.worker /\ c.pasted = k.pasted
      /\ \A pr : CellsKept(k, c, pr)
      /\ k.dels[s] # None => c.cells[k.dels[s].id].cancel
  <2>1. CASE d = None
    BY <1>1, <2>1 DEF CellsKept
  <2>2. CASE d # None
    BY <1>1, <1>2, <2>2, CancelledCells
  <2> QED BY <2>1, <2>2
<1>5. obs[s] \in Observation
  BY DEF DeliveryInv, TypeOK
<1> HIDE DEF c
<1>6. o \in Observation
  BY <1>5, RenewedObservation
<1> HIDE DEF o
<1>7. Resets(k, n, s)
  BY <1>1, <1>4, <1>6, ClosingResets
<1> HIDE DEF n
<1>8. Core \in CoreState
  BY CoreFirm
<1>9. Firm(Core, n, events, presses, unsent)
  BY <1>1, <1>7, <1>8, ResetFirm
<1> QED BY <1>1, <1>3, <1>9, HandlerKeeps

LEMMA OutlivedRecord ==
  ASSUME NEW d \in Delivery, NEW epoch \in Nat
  PROVE  LET e == Outlived(d, epoch) IN
         /\ e \in Delivery /\ e.id = d.id /\ e.epoch = epoch /\ e.conf = None
         /\ e.state \in AcceptsReplacement
         /\ d.state = "Confirmed" => e.state = "Confirmed"
BY DEF Outlived, Delivery, AcceptsReplacement, States, Failures

LEMMA TransitionCells ==
  ASSUME NEW k \in CoreState, NEW s \in Sessions, NEW ev, IdsOnRecord(k, ev)
  PROVE  LET n == Transition(k, s) IN
         /\ n \in CoreState
         /\ n.next = k.next /\ n.pending = k.pending /\ n.queue = k.queue
         /\ n.obs = k.obs /\ n.worker = k.worker /\ n.pasted = k.pasted
         /\ \A t \in Sessions \ {s} : n.dels[t] = k.dels[t]
         /\ \A pr : CellsKept(k, n, pr)
         /\ k.dels[s] # None => n.cells[k.dels[s].id].cancel
         /\ k.dels[s] = None => n.dels[s] = None
         /\ k.dels[s] # None => n.dels[s] = Outlived(k.dels[s], k.obs[s].epoch + 1)
<1> DEFINE d == k.dels[s]
           n == Transition(k, s)
           c == CloseAck(Cancel(k, d.id), d.id)
           e == Outlived(d, k.obs[s].epoch + 1)
<1>1. CASE d = None
  <2>1. n = k
    BY <1>1 DEF Transition
  <2> QED BY <1>1, <2>1 DEF CellsKept
<1>2. CASE d # None
  <2>1. /\ c \in CoreState /\ c.cells[d.id].cancel /\ c.dels = k.dels /\ c.next = k.next
        /\ c.pending = k.pending /\ c.queue = k.queue /\ c.obs = k.obs
        /\ c.worker = k.worker /\ c.pasted = k.pasted /\ \A pr : CellsKept(k, c, pr)
    BY <1>2, CancelledCells
  <2>2. d \in Delivery /\ d.id \in Ids /\ k.obs[s].epoch + 1 \in Nat
    <3>1. k.obs[s] \in Observation
      BY DEF CoreState
    <3> QED BY <1>2, <3>1, RecordAt DEF Observation
  <2>3. n = [c EXCEPT !.dels[s] = e]
    BY <1>2 DEF Transition
  <2>4. e \in Delivery
    BY <2>2, OutlivedRecord
  <2> HIDE DEF c, n
  <2> HIDE DEF e
  <2>7. /\ n \in CoreState /\ n.next = c.next /\ n.pending = c.pending /\ n.queue = c.queue
        /\ n.obs = c.obs /\ n.worker = c.worker /\ n.pasted = c.pasted
        /\ n.cells = c.cells /\ n.dels[s] = e
        /\ \A t \in Sessions \ {s} : n.dels[t] = c.dels[t]
    BY <2>1, <2>3, <2>4 DEF CoreState
  <2>8. \A pr : CellsKept(k, n, pr)
    BY <2>1, <2>7 DEF CellsKept
  <2> QED BY <1>2, <2>1, <2>7, <2>8 DEF n, e
<1> QED BY <1>1, <1>2

Resuming(c, s, o) ==
  [c EXCEPT !.obs[s] = o, !.pending[s] = None, !.deferred[s] = FALSE]

LEMMA ResumingFields ==
  ASSUME NEW c \in CoreState, NEW s \in Sessions, NEW o \in Observation
  PROVE  LET n == Resuming(c, s, o) IN
         /\ n \in CoreState /\ n.next = c.next /\ n.worker = c.worker
         /\ n.pasted = c.pasted /\ n.cells = c.cells /\ n.dels = c.dels
         /\ n.queue = c.queue /\ n.pending[s] = None /\ n.obs[s] = o
         /\ \A t \in Sessions \ {s} : n.pending[t] = c.pending[t] /\ n.obs[t] = c.obs[t]
BY DEF Resuming, CoreState

LEMMA RestartKeeps ==
  ASSUME DeliveryInv, NEW s \in Sessions, Restart(s)
  PROVE  DeliveryInv' /\ Kept(Core, Core')
<1> DEFINE k == Core
           c == Transition(k, s)
           o == Renewed(obs[s], obs[s].epoch + 1)
           n == Resuming(c, s, o)
<1>1. /\ k \in CoreState /\ Firm(Core, k, events, presses, unsent)
      /\ presses \in [Ids -> Nat] /\ events \in Seq(TransportEvent)
      /\ unsent \in SUBSET Submissions /\ input \in [Sessions -> Input]
      /\ clock \in [Sessions -> Nat]
  BY CoreFirm DEF DeliveryInv, TypeOK
<1>2. IdsOnRecord(k, events) /\ QueueCovered(k)
  BY <1>1 DEF Firm, Sound
<1>3. Becomes(n) /\ UNCHANGED <<events, clock, input, presses, unsent>>
  BY DEF Restart, Resuming
<1> HIDE DEF k
<1>4. /\ c \in CoreState
      /\ c.next = k.next /\ c.pending = k.pending /\ c.queue = k.queue
      /\ c.obs = k.obs /\ c.worker = k.worker /\ c.pasted = k.pasted
      /\ \A t \in Sessions \ {s} : c.dels[t] = k.dels[t]
      /\ \A pr : CellsKept(k, c, pr)
      /\ k.dels[s] # None => c.cells[k.dels[s].id].cancel
      /\ k.dels[s] = None => c.dels[s] = None
      /\ k.dels[s] # None => c.dels[s] = Outlived(k.dels[s], k.obs[s].epoch + 1)
  BY <1>1, <1>2, TransitionCells
<1>5. c.obs[s] \in Observation /\ k.obs[s].epoch \in Nat
  BY <1>4 DEF CoreState, Observation
<1> HIDE DEF c
<1>6. o \in Observation /\ o.epoch = k.obs[s].epoch + 1
  <2>1. obs[s] = k.obs[s] /\ obs[s] \in Observation
    BY <1>4, <1>5, CoreRecord DEF DeliveryInv, k
  <2>2. obs[s].epoch + 1 \in Nat
    BY <1>5, <2>1
  <2> QED BY <2>1, <2>2, RenewedObservation
<1> HIDE DEF o
<1>7. /\ n \in CoreState /\ n.next = c.next /\ n.worker = c.worker
      /\ n.pasted = c.pasted /\ n.cells = c.cells /\ n.dels = c.dels
      /\ n.queue = c.queue /\ n.pending[s] = None /\ n.obs[s] = o
      /\ \A t \in Sessions \ {s} : n.pending[t] = c.pending[t] /\ n.obs[t] = c.obs[t]
  BY <1>4, <1>6, ResumingFields
<1> HIDE DEF n
<1>8. n.dels[s] = None \/
        /\ k.dels[s] # None /\ n.dels[s] # None
        /\ n.dels[s].id = k.dels[s].id /\ n.dels[s].epoch = n.obs[s].epoch
        /\ n.dels[s].conf = None /\ n.dels[s].state \in AcceptsReplacement
        /\ k.dels[s].state = "Confirmed" => n.dels[s].state = "Confirmed"
  <2>1. CASE k.dels[s] = None
    BY <1>4, <1>7, <2>1
  <2>2. CASE k.dels[s] # None
    <3>1. k.dels[s] \in Delivery /\ k.obs[s].epoch + 1 \in Nat
      BY <1>1, <1>2, <1>5, <2>2, RecordAt
    <3>2. n.dels[s] = Outlived(k.dels[s], k.obs[s].epoch + 1)
      BY <1>4, <1>7, <2>2
    <3>3. LET e == Outlived(k.dels[s], k.obs[s].epoch + 1) IN
          /\ e \in Delivery /\ e.id = k.dels[s].id /\ e.epoch = k.obs[s].epoch + 1
          /\ e.conf = None /\ e.state \in AcceptsReplacement
          /\ k.dels[s].state = "Confirmed" => e.state = "Confirmed"
      BY <3>1, OutlivedRecord
    <3>4. n.obs[s].epoch = k.obs[s].epoch + 1
      BY <1>6, <1>7
    <3>5. n.dels[s] # None
      BY <3>2, <3>3, NoneAssumption
    <3> QED BY <2>2, <3>2, <3>3, <3>4, <3>5
  <2> QED BY <2>1, <2>2
<1>9. n.queue[s] = k.queue[s] /\ n.queue[s].epoch < n.obs[s].epoch /\ n.obs[s].epoch # 0
      /\ n.queue[s].epoch \in Nat /\ n.obs[s].epoch \in Nat
  <2>1. k.queue[s].epoch <= k.obs[s].epoch
    BY <1>2 DEF QueueCovered
  <2>2. k.queue[s].epoch \in Nat
    BY <1>1 DEF CoreState
  <2> QED BY <1>4, <1>5, <1>6, <1>7, <2>1, <2>2
<1>10. \A pr : CellsKept(k, n, pr)
  BY <1>4, <1>7 DEF CellsKept
<1>11. Resets(k, n, s)
  <2>1. n.queue[s].epoch <= n.obs[s].epoch /\ n.queue[s].epoch # n.obs[s].epoch
    BY <1>9
  <2> QED BY <1>4, <1>7, <1>8, <1>9, <1>10, <2>1 DEF Resets
<1>12. Core \in CoreState
  BY CoreFirm
<1>13. Firm(Core, n, events, presses, unsent)
  BY <1>1, <1>11, <1>12, ResetFirm
<1> QED BY <1>1, <1>3, <1>13, HandlerKeeps

LEMMA ClientInputKeeps ==
  ASSUME DeliveryInv, NEW s \in Sessions, NEW edit \in BOOLEAN, ClientInput(s, edit)
  PROVE  DeliveryInv' /\ Kept(Core, Core')
<1>1. Becomes(Core)
  BY DEF ClientInput, Becomes, Core
<1>2. /\ Firm(Core, Core, events', presses', unsent') /\ TypeOK
      /\ UNCHANGED <<events, clock, presses, unsent>>
  BY CoreFirm DEF ClientInput, DeliveryInv
<1>3. input' \in [Sessions -> Input]
  <2>1. input \in [Sessions -> Input]
    BY DEF DeliveryInv, TypeOK
  <2>2. [all |-> input[s].all + 1,
         edits |-> IF edit THEN input[s].edits + 1 ELSE input[s].edits] \in Input
    BY <2>1 DEF Input
  <2> QED BY <2>1, <2>2 DEF ClientInput
<1> QED BY <1>1, <1>2, <1>3, BecomesKeeps DEF TypeOK

-----------------------------------------------------------------------------
(* The workers *)

\* The event a worker reports with, if it reports.
Reported(k, id, ev, nv, np) ==
  \/ nv = ev
  \/ \E e \in TransportEvent :
       /\ nv = Append(ev, e)
       /\ e.id = id /\ e.session = k.worker[id].session /\ e.epoch = k.worker[id].epoch
       /\ e.receipt \/ e.outcome = "Submitted" => np[id] > 0
       /\ k.worker[id].pc \in Unreported => e.outcome \in Deciding

\* A step of the worker of delivery id, from k to n.
WorkerActs(k, n, id, ev, nv, pr, np) ==
  /\ k.worker[id] # None
  /\ n.dels = k.dels /\ n.next = k.next /\ n.pending = k.pending /\ n.queue = k.queue
  /\ n.obs = k.obs
  /\ \A j \in Ids \ {id} : n.worker[j] = k.worker[j] /\ n.cells[j] = k.cells[j]
  /\ \A j \in Ids : np[j] >= pr[j]
  /\ n.cells[id].sub = k.cells[id].sub /\ n.cells[id].cancel = k.cells[id].cancel
  /\ n.cells[id].receipt => k.cells[id].receipt \/ np[id] > 0
  /\ Reported(k, id, ev, nv, np)
  /\ n.worker[id] # None =>
       /\ n.worker[id].sub = k.worker[id].sub
       /\ n.worker[id].session = k.worker[id].session
       /\ n.worker[id].epoch = k.worker[id].epoch
       /\ n.cells[id].paste <=> n.worker[id].pc \notin Unmarked
       /\ n.worker[id].pc \in Pressed => np[id] > 0
       /\ n.worker[id].pc \in Unreported => k.worker[id].pc \in Unreported /\ nv = ev
       /\ n.worker[id].pc \in Unmarked => k.worker[id].pc \in Unmarked
  /\ k.worker[id].pc \in Unreported =>
       nv # ev \/ (n.worker[id] # None /\ n.worker[id].pc \in Unreported)

LEMMA AppendEvents ==
  ASSUME NEW ev \in Seq(TransportEvent), NEW e \in TransportEvent
  PROVE  LET nv == Append(ev, e) IN
         /\ nv \in Seq(TransportEvent)
         /\ \A i \in 1..Len(ev) : i \in 1..Len(nv) /\ nv[i] = ev[i]
         /\ Len(nv) \in 1..Len(nv) /\ nv[Len(nv)] = e
         /\ \A i \in 1..Len(nv) : i \in 1..Len(ev) \/ nv[i] = e
         /\ nv # ev
<1> DEFINE nv == Append(ev, e)
<1>1. nv \in Seq(TransportEvent) /\ Len(nv) = Len(ev) + 1 /\ Len(ev) \in Nat
  OBVIOUS
<1>2. nv[Len(nv)] = e /\ \A i \in 1..Len(ev) : nv[i] = ev[i]
  OBVIOUS
<1>3. nv # ev
  BY <1>1
<1> HIDE DEF nv
<1>4. \A i \in 1..Len(nv) : i \in 1..Len(ev) \/ i = Len(nv)
  BY <1>1
<1>5. Len(nv) \in 1..Len(nv) /\ \A i \in 1..Len(ev) : i \in 1..Len(nv)
  BY <1>1
<1> QED BY <1>1, <1>2, <1>3, <1>4, <1>5 DEF nv

LEMMA WorkerActsSound ==
  ASSUME NEW k \in CoreState, NEW n \in CoreState, NEW id \in Ids,
         NEW ev \in Seq(TransportEvent), NEW nv, NEW pr \in [Ids -> Nat],
         NEW np \in [Ids -> Nat], NEW un, Sound(k, ev, pr, un),
         WorkerActs(k, n, id, ev, nv, pr, np), PastesCounted(n)
  PROVE  Sound(n, nv, np, un)
<1>1. /\ n.dels = k.dels /\ n.next = k.next /\ n.pending = k.pending /\ n.queue = k.queue
      /\ n.obs = k.obs /\ k.worker[id] # None
      /\ \A j \in Ids \ {id} : n.worker[j] = k.worker[j] /\ n.cells[j] = k.cells[j]
      /\ \A j \in Ids : np[j] >= pr[j]
      /\ n.cells[id].sub = k.cells[id].sub /\ n.cells[id].cancel = k.cells[id].cancel
      /\ n.cells[id].receipt => k.cells[id].receipt \/ np[id] > 0
      /\ Reported(k, id, ev, nv, np)
  BY DEF WorkerActs
<1>2. n.worker[id] # None =>
       /\ n.worker[id].sub = k.worker[id].sub
       /\ n.worker[id].session = k.worker[id].session
       /\ n.worker[id].epoch = k.worker[id].epoch
       /\ n.cells[id].paste <=> n.worker[id].pc \notin Unmarked
       /\ n.worker[id].pc \in Pressed => np[id] > 0
       /\ n.worker[id].pc \in Unreported => k.worker[id].pc \in Unreported /\ nv = ev
       /\ n.worker[id].pc \in Unmarked => k.worker[id].pc \in Unmarked
  BY DEF WorkerActs
<1>3. /\ IdsOnRecord(k, ev) /\ WorkersOnRecord(k, ev, pr) /\ AfterEnter(k, pr)
      /\ Driven(k, ev) /\ Serves(k) /\ QueueCovered(k) /\ OnePlace(k, un)
  BY DEF Sound
<1>4. /\ \A i \in 1..Len(ev) : i \in 1..Len(nv) /\ nv[i] = ev[i]
      /\ \A i \in 1..Len(nv) :
           \/ i \in 1..Len(ev) /\ nv[i] = ev[i]
           \/ /\ nv[i].id = id /\ nv # ev
              /\ nv[i].receipt \/ nv[i].outcome = "Submitted" => np[id] > 0
      /\ k.worker[id].pc \in Unreported /\ nv # ev =>
           \E i \in 1..Len(nv) : /\ nv[i].id = id /\ nv[i].outcome \in Deciding
                                 /\ nv[i].session = k.worker[id].session
                                 /\ nv[i].epoch = k.worker[id].epoch
  <2>1. CASE nv = ev
    BY <2>1
  <2>2. CASE nv # ev
    <3>1. PICK e \in TransportEvent :
            /\ nv = Append(ev, e)
            /\ e.id = id /\ e.session = k.worker[id].session /\ e.epoch = k.worker[id].epoch
            /\ e.receipt \/ e.outcome = "Submitted" => np[id] > 0
            /\ k.worker[id].pc \in Unreported => e.outcome \in Deciding
      BY <1>1, <2>2 DEF Reported
    <3>2. /\ \A i \in 1..Len(ev) : i \in 1..Len(nv) /\ nv[i] = ev[i]
          /\ Len(nv) \in 1..Len(nv) /\ nv[Len(nv)] = e
          /\ \A i \in 1..Len(nv) : i \in 1..Len(ev) \/ nv[i] = e
      BY <3>1, AppendEvents
    <3> QED BY <2>2, <3>1, <3>2
  <2> QED BY <2>1, <2>2
<1>5. id < k.next /\ k.next \in Nat /\ Ids \subseteq Nat
  BY <1>1, <1>3, NextNat, IdsNat DEF IdsOnRecord
<1>6. IdsOnRecord(n, nv)
  <2>1. \A s \in Sessions : n.dels[s] # None =>
          n.dels[s].id < n.next /\ n.dels[s].epoch = n.obs[s].epoch
    BY <1>1, <1>3 DEF IdsOnRecord
  <2>2. \A j \in Ids : j >= n.next => n.worker[j] = None /\ n.cells[j] = FreshCells
    BY <1>1, <1>3, <1>5 DEF IdsOnRecord
  <2>3. \A i \in 1..Len(nv) : nv[i].id < n.next
    BY <1>1, <1>3, <1>4, <1>5 DEF IdsOnRecord
  <2> QED BY <2>1, <2>2, <2>3 DEF IdsOnRecord
<1>7. WorkersOnRecord(n, nv, np)
  <2>1. ASSUME NEW j \in Ids, n.worker[j] # None
        PROVE  /\ n.worker[j].sub = n.cells[j].sub
               /\ n.cells[j].paste <=> n.worker[j].pc \notin Unmarked
               /\ n.worker[j].pc \in Pressed => np[j] > 0
               /\ n.worker[j].pc \in Unreported => \A i \in 1..Len(nv) : nv[i].id # j
    <3>1. CASE j = id
      <4>1. n.worker[j].pc \in Unreported => \A i \in 1..Len(nv) : nv[i].id # j
        BY <1>1, <1>2, <1>3, <2>1, <3>1 DEF WorkersOnRecord
      <4> QED BY <1>1, <1>2, <1>3, <2>1, <3>1, <4>1 DEF WorkersOnRecord
    <3>2. CASE j # id
      <4>1. n.worker[j].pc \in Unreported => \A i \in 1..Len(nv) : nv[i].id # j
        BY <1>1, <1>3, <1>4, <2>1, <3>2 DEF WorkersOnRecord
      <4>2. n.worker[j].pc \in Pressed => np[j] > 0
        BY <1>1, <1>3, <2>1, <3>2 DEF WorkersOnRecord
      <4> QED BY <1>1, <1>3, <2>1, <3>2, <4>1, <4>2 DEF WorkersOnRecord
    <3> QED BY <3>1, <3>2
  <2>2. ASSUME NEW j \in Ids, n.cells[j].receipt PROVE np[j] > 0
    BY <1>1, <1>3, <2>2 DEF WorkersOnRecord
  <2>3. ASSUME NEW i \in 1..Len(nv), nv[i].receipt \/ nv[i].outcome = "Submitted"
        PROVE  np[nv[i].id] > 0
    <3>1. CASE i \in 1..Len(ev) /\ nv[i] = ev[i]
      <4>1. ev[i] \in TransportEvent
        BY <3>1
      <4>2. ev[i].id \in Ids
        BY <4>1 DEF TransportEvent
      <4>3. pr[ev[i].id] > 0
        BY <1>3, <2>3, <3>1 DEF WorkersOnRecord
      <4> QED BY <1>1, <3>1, <4>2, <4>3
    <3>2. CASE ~(i \in 1..Len(ev) /\ nv[i] = ev[i])
      BY <1>4, <2>3, <3>2
    <3> QED BY <3>1, <3>2
  <2> QED BY <2>1, <2>2, <2>3 DEF WorkersOnRecord
<1>8. AfterEnter(n, np)
  <2> SUFFICES ASSUME NEW s \in Sessions, k.dels[s] # None
               PROVE  /\ k.dels[s].state = "AwaitingProviderAck" => np[k.dels[s].id] > 0
                      /\ k.dels[s].conf # None /\ k.dels[s].conf.by = "progress" =>
                           np[k.dels[s].id] > 0
    BY <1>1 DEF AfterEnter
  <2>1. k.dels[s].id \in Ids
    BY <1>3, RecordAt
  <2> QED BY <1>1, <1>3, <2>1 DEF AfterEnter
<1>9. Driven(n, nv)
  <2> SUFFICES ASSUME NEW s \in Sessions, k.dels[s] # None, k.dels[s].state = "WritingPaste"
               PROVE  DrivenBy(k.dels[s], s, n, nv)
    BY <1>1 DEF Driven
  <2> DEFINE d == k.dels[s]
  <2>1. d.id \in Ids
    BY <1>3, RecordAt
  <2>2. DrivenBy(d, s, k, ev)
    BY <1>3 DEF Driven
  <2> HIDE DEF d
  <2> SUFFICES DrivenBy(d, s, n, nv)
    BY DEF d
  <2>3. CASE \E i \in 1..Len(ev) : /\ ev[i].id = d.id /\ ev[i].outcome \in Deciding
                                   /\ ev[i].session = s /\ ev[i].epoch = d.epoch
    BY <1>4, <2>3 DEF DrivenBy
  <2>4. CASE /\ k.worker[d.id] # None /\ k.worker[d.id].pc \in Unreported
             /\ k.worker[d.id].session = s /\ k.worker[d.id].epoch = d.epoch
    <3>1. CASE d.id # id
      BY <1>1, <2>1, <2>4, <3>1 DEF DrivenBy
    <3>2. CASE d.id = id /\ nv = ev
      <4>1. n.worker[id] # None /\ n.worker[id].pc \in Unreported
        BY <2>4, <3>2 DEF WorkerActs
      <4> QED BY <1>2, <2>4, <3>2, <4>1 DEF DrivenBy
    <3>3. CASE d.id = id /\ nv # ev
      BY <1>4, <2>4, <3>3 DEF DrivenBy
    <3> QED BY <3>1, <3>2, <3>3
  <2> QED BY <2>2, <2>3, <2>4 DEF DrivenBy
<1>10. Serves(n)
  <2> SUFFICES ASSUME NEW j \in Ids, n.worker[j] # None,
                      n.worker[j].pc \in Unmarked, ~n.cells[j].cancel
               PROVE  LET t == n.worker[j].session IN
                      /\ n.dels[t] # None /\ n.dels[t].id = j
                      /\ n.dels[t].state = "WritingPaste"
                      /\ n.pending[t] = n.worker[j].sub
    BY DEF Serves
  <2>1. /\ k.worker[j] # None /\ k.worker[j].pc \in Unmarked /\ ~k.cells[j].cancel
        /\ n.worker[j].session = k.worker[j].session /\ n.worker[j].sub = k.worker[j].sub
    BY <1>1, <1>2
  <2> QED BY <1>1, <1>3, <2>1 DEF Serves
<1>11. QueueCovered(n)
  BY <1>1, <1>3 DEF QueueCovered
<1>12. OnePlace(n, un)
  <2>1. \A j \in Ids : n.cells[j].sub = k.cells[j].sub
    BY <1>1
  <2>2. n.pending = k.pending /\ n.queue = k.queue
    BY <1>1
  <2>3. OnePlace(k, un)
    BY <1>3
  <2>4. \A t \in Sessions : \A sub : Queued(n, t, sub) <=> Queued(k, t, sub)
    BY <2>2 DEF Queued
  <2>5. ASSUME NEW t \in Sessions, NEW u \in Sessions, NEW i \in 1..Len(k.queue[t].subs)
        PROVE  /\ k.queue[t].subs[i] \notin un
               /\ \A j \in 1..Len(k.queue[u].subs) :
                    k.queue[t].subs[i] = k.queue[u].subs[j] => t = u /\ i = j
               /\ \A j \in Ids : n.cells[j].sub # k.queue[t].subs[i]
    BY <2>1, <2>3 DEF OnePlace
  <2>6. ASSUME NEW t \in Sessions, NEW u \in Sessions, k.pending[t] # None
        PROVE  /\ k.pending[t] \notin un
               /\ k.pending[t] = k.pending[u] => t = u
               /\ ~Queued(n, u, k.pending[t])
    BY <2>3, <2>4, <2>6 DEF OnePlace
  <2>7. \A j \in Ids : n.cells[j].sub \notin un
    BY <2>1, <2>3 DEF OnePlace
  <2> QED BY <2>2, <2>5, <2>6, <2>7 DEF OnePlace
<1> QED BY <1>6, <1>7, <1>8, <1>9, <1>10, <1>11, <1>12 DEF Sound

\* A step that neither marks nor writes a paste.
LEMMA PlainCounts ==
  ASSUME NEW k \in CoreState, NEW n \in CoreState, NEW id \in Ids, NEW ev, NEW nv,
         NEW pr, NEW np, WorkerActs(k, n, id, ev, nv, pr, np),
         n.cells[id].paste = k.cells[id].paste,
         n.cells[id].forgotten = k.cells[id].forgotten, n.pasted = k.pasted,
         n.worker[id] = None \/ n.worker[id].pc # "paste",
         PastesCounted(k), WritesKnown(k)
  PROVE  PastesCounted(n) /\ WritesKnown(n)
<1>1. \A j \in Ids : /\ n.cells[j].sub = k.cells[j].sub /\ n.cells[j].paste = k.cells[j].paste
                     /\ n.cells[j].forgotten = k.cells[j].forgotten
  BY DEF WorkerActs
<1>2. n.dels = k.dels /\ n.pending = k.pending /\ n.pasted = k.pasted
  BY DEF WorkerActs
<1>3. \A j \in Ids : n.worker[j] # None /\ n.worker[j].pc = "paste" =>
                       k.worker[j] # None /\ k.worker[j].pc = "paste"
  BY DEF WorkerActs
<1>4. /\ \A j \in Ids : \A sub : Wrote(n, j, sub) <=> Wrote(k, j, sub)
      /\ \A sub : Forgotten(n, sub) <=> Forgotten(k, sub)
  BY <1>1 DEF Wrote, Forgotten
<1>5. PastesCounted(n)
  BY <1>2, <1>3, <1>4 DEF PastesCounted
<1>6. WritesKnown(n)
  <2> SUFFICES ASSUME NEW t \in Sessions, n.pending[t] # None, ~Forgotten(n, n.pending[t]),
                      NEW j \in Ids, Wrote(n, j, n.pending[t])
               PROVE  /\ n.dels[t] # None /\ Wrote(n, n.dels[t].id, n.pending[t])
                      /\ n.dels[t].state \notin AcceptsReplacement
    BY DEF WritesKnown, Known
  <2>1. /\ k.dels[t] # None /\ Wrote(k, k.dels[t].id, k.pending[t])
        /\ k.dels[t].state \notin AcceptsReplacement
    BY <1>2, <1>4 DEF WritesKnown, Known
  <2>2. k.dels[t].id \in Ids
    BY <2>1 DEF CoreState, Delivery
  <2> QED BY <1>2, <1>4, <2>1, <2>2
<1> QED BY <1>5, <1>6

LEMMA CorePrime ==
  ASSUME TypeOK'
  PROVE  /\ Core' \in CoreState
         /\ Core'.dels = dels' /\ Core'.next = nextId' /\ Core'.pending = pending'
         /\ Core'.queue = queue' /\ Core'.obs = obs'
         /\ Core'.cells = cells' /\ Core'.worker = worker' /\ Core'.pasted = pasted'
BY DEF TypeOK, Core, CoreState

LEMMA WorkerKeeps ==
  ASSUME DeliveryInv, TypeOK', NEW id \in Ids, unsent' = unsent,
         WorkerActs(Core, Core', id, events, events', presses, presses'),
         PastesCounted(Core'), WritesKnown(Core')
  PROVE  DeliveryInv' /\ Kept(Core, Core')
<1>1. /\ Core \in CoreState /\ Sound(Core, events, presses, unsent)
      /\ presses \in [Ids -> Nat] /\ events \in Seq(TransportEvent)
      /\ Kept(Core, Core)
  BY CoreFirm DEF DeliveryInv, Firm
<1>2. Core' \in CoreState
  BY CorePrime
<1>3. presses' \in [Ids -> Nat]
  BY DEF TypeOK
<1>4. Sound(Core', events', presses', unsent)
  BY <1>1, <1>2, <1>3, WorkerActsSound
<1>5. Kept(Core, Core')
  <2>1. Core'.dels = Core.dels /\ Core'.next = Core.next
    BY DEF WorkerActs
  <2> QED BY <1>1, <2>1 DEF Kept
<1> QED BY <1>4, <1>5 DEF DeliveryInv

LEMMA PlainKeeps ==
  ASSUME DeliveryInv, TypeOK', NEW id \in Ids, unsent' = unsent,
         WorkerActs(Core, Core', id, events, events', presses, presses'),
         cells'[id].paste = cells[id].paste, cells'[id].forgotten = cells[id].forgotten,
         pasted' = pasted, worker'[id] = None \/ worker'[id].pc # "paste"
  PROVE  DeliveryInv' /\ Kept(Core, Core')
<1>1. /\ Core \in CoreState /\ Core.cells = cells /\ Core.pasted = pasted
      /\ PastesCounted(Core) /\ WritesKnown(Core)
  BY CoreRecord DEF DeliveryInv, Sound
<1>2. /\ Core' \in CoreState /\ Core'.cells = cells' /\ Core'.worker = worker'
      /\ Core'.pasted = pasted'
  BY CorePrime
<1>3. PastesCounted(Core') /\ WritesKnown(Core')
  BY <1>1, <1>2, PlainCounts
<1> QED BY <1>3, WorkerKeeps

\* What a worker's own assignments do.
LEMMA GotoFields ==
  ASSUME TypeOK, NEW id \in Ids, worker[id] # None, NEW pc \in Pcs, Goto(id, pc)
  PROVE  /\ worker' \in [Ids -> Worker \cup {None}]
         /\ worker'[id] # None /\ worker'[id].pc = pc
         /\ worker'[id].sub = worker[id].sub /\ worker'[id].session = worker[id].session
         /\ worker'[id].epoch = worker[id].epoch
         /\ \A j \in Ids \ {id} : worker'[j] = worker[j]
<1> DEFINE w == [worker[id] EXCEPT !.pc = pc]
<1>1. worker \in [Ids -> Worker \cup {None}] /\ worker[id] \in Worker
  BY DEF TypeOK
<1>2. /\ w \in Worker /\ w.pc = pc /\ w.sub = worker[id].sub
      /\ w.session = worker[id].session /\ w.epoch = worker[id].epoch
  BY <1>1 DEF Worker
<1>3. worker' = [worker EXCEPT ![id] = w]
  BY DEF Goto
<1> HIDE DEF w
<1> QED BY <1>1, <1>2, <1>3, NoneAssumption

LEMMA StopFields ==
  ASSUME TypeOK, NEW id \in Ids, Stop(id)
  PROVE  /\ worker' \in [Ids -> Worker \cup {None}] /\ worker'[id] = None
         /\ \A j \in Ids \ {id} : worker'[j] = worker[j]
BY DEF TypeOK, Stop

LEMMA EventFields ==
  ASSUME TypeOK, NEW id \in Ids, worker[id] # None, NEW outcome \in Outcomes,
         NEW failure \in Failures, NEW diag \in BOOLEAN
  PROVE  LET e == Event(id, outcome, failure, diag) IN
         /\ e \in TransportEvent /\ e.id = id /\ e.session = worker[id].session
         /\ e.epoch = worker[id].epoch /\ e.outcome = outcome
         /\ e.receipt <=> outcome \in {"Submitted", "SubmitRetried"}
<1>1. worker[id] \in Worker
  BY DEF TypeOK
<1>2. worker[id].session \in Sessions /\ worker[id].epoch \in Nat
  BY <1>1 DEF Worker
<1> DEFINE b == outcome \in {"Submitted", "SubmitRetried"}
           e == [session |-> worker[id].session, epoch |-> worker[id].epoch, id |-> id,
                 outcome |-> outcome, failure |-> failure, diag |-> diag, receipt |-> b]
<1>3. b \in BOOLEAN
  OBVIOUS
<1>4. Event(id, outcome, failure, diag) = e
  BY DEF Event
<1>5. /\ e \in TransportEvent /\ e.id = id /\ e.session = worker[id].session
      /\ e.epoch = worker[id].epoch /\ e.outcome = outcome /\ e.receipt = b
  <2> HIDE DEF b
  <2> QED BY <1>2, <1>3 DEF TransportEvent
<1> HIDE DEF e
<1> QED BY <1>3, <1>4, <1>5

\* What the invariant says of the worker at hand.
LEMMA WorkerOnRecord ==
  ASSUME DeliveryInv, NEW id \in Ids, NEW pc, At(id, pc)
  PROVE  /\ TypeOK /\ worker[id] # None /\ worker[id].pc = pc
         /\ worker[id] \in Worker /\ cells[id] \in Cell
         /\ worker[id].sub = cells[id].sub
         /\ cells[id].paste <=> pc \notin Unmarked
         /\ pc \in Pressed => presses[id] > 0
         /\ Core \in CoreState /\ Core.dels = dels /\ Core.next = nextId
         /\ Core.pending = pending /\ Core.queue = queue /\ Core.obs = obs
         /\ Core.cells = cells /\ Core.worker = worker /\ Core.pasted = pasted
<1>1. /\ TypeOK /\ Core \in CoreState /\ Core.dels = dels /\ Core.next = nextId
      /\ Core.pending = pending /\ Core.queue = queue /\ Core.obs = obs
      /\ Core.cells = cells /\ Core.worker = worker /\ Core.pasted = pasted
  BY CoreRecord DEF DeliveryInv
<1>2. worker[id] # None /\ worker[id].pc = pc /\ worker[id] \in Worker /\ cells[id] \in Cell
  BY <1>1 DEF At, TypeOK
<1>3. WorkersOnRecord(Core, events, presses)
  BY DEF DeliveryInv, Sound
<1> QED BY <1>1, <1>2, <1>3 DEF WorkersOnRecord

LEMMA MovesKeeps ==
  ASSUME DeliveryInv, NEW id \in Ids, NEW pc, At(id, pc), NEW to \in Pcs \ {"paste"},
         Moves(id, to), pc \in Unmarked <=> to \in Unmarked,
         pc \in Unreported <=> to \in Unreported, to \in Pressed => pc \in Pressed
  PROVE  DeliveryInv' /\ Kept(Core, Core')
<1>1. /\ TypeOK /\ worker[id] # None /\ worker[id].pc = pc /\ worker[id] \in Worker
      /\ cells[id].paste <=> pc \notin Unmarked
      /\ pc \in Pressed => presses[id] > 0
      /\ Core.dels = dels /\ Core.next = nextId
      /\ Core.pending = pending /\ Core.queue = queue /\ Core.obs = obs
      /\ Core.cells = cells /\ Core.worker = worker
  BY WorkerOnRecord
<1>2. /\ Goto(id, to) /\ UNCHANGED <<events, cells, pasted, presses>>
      /\ UNCHANGED <<dels, nextId, pending, deferred, queue, obs, clock, input, unsent>>
  BY DEF Moves, CoreUnchanged
<1>3. /\ worker' \in [Ids -> Worker \cup {None}]
      /\ worker'[id] # None /\ worker'[id].pc = to
      /\ worker'[id].sub = worker[id].sub /\ worker'[id].session = worker[id].session
      /\ worker'[id].epoch = worker[id].epoch
      /\ \A j \in Ids \ {id} : worker'[j] = worker[j]
  BY <1>1, <1>2, GotoFields
<1>4. TypeOK'
  BY <1>1, <1>2, <1>3 DEF TypeOK
<1>5. /\ Core'.dels = dels' /\ Core'.next = nextId' /\ Core'.pending = pending'
      /\ Core'.queue = queue' /\ Core'.obs = obs'
      /\ Core'.cells = cells' /\ Core'.worker = worker'
  BY <1>4, CorePrime
<1>6. presses \in [Ids -> Nat]
  BY <1>1 DEF TypeOK
<1>7. Reported(Core, id, events, events', presses')
  BY <1>2 DEF Reported
<1>8. WorkerActs(Core, Core', id, events, events', presses, presses')
  BY <1>1, <1>2, <1>3, <1>5, <1>6, <1>7 DEF WorkerActs
<1> QED BY <1>2, <1>3, <1>4, <1>8, PlainKeeps

LEMMA EndsKeeps ==
  ASSUME DeliveryInv, NEW id \in Ids, NEW pc, At(id, pc),
         NEW outcome \in Outcomes \ {"Submitted", "SubmitRetried"},
         NEW failure \in Failures, NEW diag \in BOOLEAN,
         Ends(id, outcome, failure, diag), pc \in Unreported => outcome \in Deciding
  PROVE  DeliveryInv' /\ Kept(Core, Core')
<1> DEFINE e == Event(id, outcome, failure, diag)
<1>1. /\ TypeOK /\ worker[id] # None /\ worker[id].pc = pc /\ worker[id] \in Worker
      /\ Core.dels = dels /\ Core.next = nextId
      /\ Core.pending = pending /\ Core.queue = queue /\ Core.obs = obs
      /\ Core.cells = cells /\ Core.worker = worker
  BY WorkerOnRecord
<1>2. /\ events' = Append(events, e) /\ Stop(id) /\ UNCHANGED <<cells, pasted, presses>>
      /\ UNCHANGED <<dels, nextId, pending, deferred, queue, obs, clock, input, unsent>>
  BY DEF Ends, Send, CoreUnchanged
<1>3. /\ e \in TransportEvent /\ e.id = id /\ e.session = worker[id].session
      /\ e.epoch = worker[id].epoch /\ e.outcome = outcome /\ ~e.receipt
  BY <1>1, EventFields
<1> HIDE DEF e
<1>4. /\ worker' \in [Ids -> Worker \cup {None}] /\ worker'[id] = None
      /\ \A j \in Ids \ {id} : worker'[j] = worker[j]
  BY <1>1, <1>2, StopFields
<1>5. presses \in [Ids -> Nat] /\ events \in Seq(TransportEvent)
  BY <1>1 DEF TypeOK
<1>6. events' \in Seq(TransportEvent) /\ events' # events
  BY <1>2, <1>3, <1>5, AppendEvents
<1>7. TypeOK'
  BY <1>1, <1>2, <1>4, <1>6 DEF TypeOK
<1>8. /\ Core'.dels = dels' /\ Core'.next = nextId' /\ Core'.pending = pending'
      /\ Core'.queue = queue' /\ Core'.obs = obs'
      /\ Core'.cells = cells' /\ Core'.worker = worker'
  BY <1>7, CorePrime
<1>9. Reported(Core, id, events, events', presses')
  BY <1>1, <1>2, <1>3 DEF Reported
<1>10. WorkerActs(Core, Core', id, events, events', presses, presses')
  BY <1>1, <1>2, <1>4, <1>5, <1>6, <1>8, <1>9 DEF WorkerActs
<1> QED BY <1>2, <1>4, <1>7, <1>10, PlainKeeps

LEMMA QuitsKeeps ==
  ASSUME DeliveryInv, NEW id \in Ids, NEW pc, At(id, pc), Quits(id), pc \notin Unreported
  PROVE  DeliveryInv' /\ Kept(Core, Core')
<1>1. /\ TypeOK /\ worker[id] # None /\ worker[id].pc = pc
      /\ Core.dels = dels /\ Core.next = nextId
      /\ Core.pending = pending /\ Core.queue = queue /\ Core.obs = obs
      /\ Core.cells = cells /\ Core.worker = worker
  BY WorkerOnRecord
<1>2. /\ Stop(id) /\ UNCHANGED <<events, cells, pasted, presses>>
      /\ UNCHANGED <<dels, nextId, pending, deferred, queue, obs, clock, input, unsent>>
  BY DEF Quits, CoreUnchanged
<1>3. /\ worker' \in [Ids -> Worker \cup {None}] /\ worker'[id] = None
      /\ \A j \in Ids \ {id} : worker'[j] = worker[j]
  BY <1>1, <1>2, StopFields
<1>4. TypeOK' /\ presses \in [Ids -> Nat]
  BY <1>1, <1>2, <1>3 DEF TypeOK
<1>5. /\ Core'.dels = dels' /\ Core'.next = nextId' /\ Core'.pending = pending'
      /\ Core'.queue = queue' /\ Core'.obs = obs'
      /\ Core'.cells = cells' /\ Core'.worker = worker'
  BY <1>4, CorePrime
<1>6. Reported(Core, id, events, events', presses')
  BY <1>2 DEF Reported
<1>7. WorkerActs(Core, Core', id, events, events', presses, presses')
  BY <1>1, <1>2, <1>3, <1>4, <1>5, <1>6 DEF WorkerActs
<1> QED BY <1>2, <1>3, <1>4, <1>7, PlainKeeps

LEMMA PressKeeps ==
  ASSUME DeliveryInv, NEW id \in Ids, NEW pc, NEW to \in Pcs \ {"paste"}, Press(id, pc, to),
         pc \in Unmarked <=> to \in Unmarked, pc \in Unreported <=> to \in Unreported
  PROVE  DeliveryInv' /\ Kept(Core, Core')
<1>1. At(id, pc)
  BY DEF Press
<1>2. /\ TypeOK /\ worker[id] # None /\ worker[id].pc = pc
      /\ cells[id].paste <=> pc \notin Unmarked
      /\ Core.dels = dels /\ Core.next = nextId
      /\ Core.pending = pending /\ Core.queue = queue /\ Core.obs = obs
      /\ Core.cells = cells /\ Core.worker = worker
  BY <1>1, WorkerOnRecord
<1>3. /\ Goto(id, to) /\ UNCHANGED <<events, cells, pasted>>
      /\ presses' = [presses EXCEPT ![id] = @ + 1]
      /\ UNCHANGED <<dels, nextId, pending, deferred, queue, obs, clock, input, unsent>>
  BY DEF Press, CoreUnchanged
<1>4. /\ worker' \in [Ids -> Worker \cup {None}]
      /\ worker'[id] # None /\ worker'[id].pc = to
      /\ worker'[id].sub = worker[id].sub /\ worker'[id].session = worker[id].session
      /\ worker'[id].epoch = worker[id].epoch
      /\ \A j \in Ids \ {id} : worker'[j] = worker[j]
  BY <1>2, <1>3, GotoFields
<1>5. presses \in [Ids -> Nat]
  BY <1>2 DEF TypeOK
<1>6. presses' \in [Ids -> Nat] /\ presses'[id] > 0 /\ \A j \in Ids : presses'[j] >= presses[j]
  BY <1>3, <1>5
<1>7. TypeOK'
  BY <1>2, <1>3, <1>4, <1>6 DEF TypeOK
<1>8. /\ Core'.dels = dels' /\ Core'.next = nextId' /\ Core'.pending = pending'
      /\ Core'.queue = queue' /\ Core'.obs = obs'
      /\ Core'.cells = cells' /\ Core'.worker = worker'
  BY <1>7, CorePrime
<1>9. Reported(Core, id, events, events', presses')
  BY <1>3 DEF Reported
<1>10. WorkerActs(Core, Core', id, events, events', presses, presses')
  BY <1>2, <1>3, <1>4, <1>6, <1>8, <1>9 DEF WorkerActs
<1> QED BY <1>3, <1>4, <1>7, <1>10, PlainKeeps

\* The receipt of an Enter, and the event that carries it, if one does.
LEMMA ReceiptKeeps ==
  ASSUME DeliveryInv, NEW id \in Ids, NEW pc \in {"submitted", "resubmitted"}, At(id, pc),
         NEW to \in {"report", "again"}, pc = "submitted" <=> to = "report",
         cells' = [cells EXCEPT ![id].receipt = TRUE], Goto(id, to),
         pc = "submitted" => events' = events,
         pc = "resubmitted" =>
           events' = Append(events, Event(id, "SubmitRetried", "none", TRUE)),
         UNCHANGED <<pasted, presses>>, CoreUnchanged
  PROVE  DeliveryInv' /\ Kept(Core, Core')
<1>1. /\ TypeOK /\ worker[id] # None /\ worker[id].pc = pc /\ cells[id] \in Cell
      /\ cells[id].paste <=> pc \notin Unmarked
      /\ pc \in Pressed => presses[id] > 0
      /\ Core.dels = dels /\ Core.next = nextId
      /\ Core.pending = pending /\ Core.queue = queue /\ Core.obs = obs
      /\ Core.cells = cells /\ Core.worker = worker
  BY WorkerOnRecord
<1>2. UNCHANGED <<dels, nextId, pending, deferred, queue, obs, clock, input, unsent>>
  BY DEF CoreUnchanged
<1>3. presses[id] > 0 /\ cells[id].paste
  BY <1>1 DEF Pressed, Unmarked
<1>4. /\ worker' \in [Ids -> Worker \cup {None}]
      /\ worker'[id] # None /\ worker'[id].pc = to
      /\ worker'[id].sub = worker[id].sub /\ worker'[id].session = worker[id].session
      /\ worker'[id].epoch = worker[id].epoch
      /\ \A j \in Ids \ {id} : worker'[j] = worker[j]
  BY <1>1, GotoFields DEF Pcs
<1>5. /\ cells' \in [Ids -> Cell]
      /\ cells'[id].sub = cells[id].sub /\ cells'[id].paste = cells[id].paste
      /\ cells'[id].cancel = cells[id].cancel /\ cells'[id].forgotten = cells[id].forgotten
      /\ \A j \in Ids \ {id} : cells'[j] = cells[j]
  <2> DEFINE c == [cells[id] EXCEPT !.receipt = TRUE]
  <2>1. /\ c \in Cell /\ c.sub = cells[id].sub /\ c.paste = cells[id].paste
        /\ c.cancel = cells[id].cancel /\ c.forgotten = cells[id].forgotten
    BY <1>1 DEF Cell
  <2>2. cells' = [cells EXCEPT ![id] = c] /\ cells \in [Ids -> Cell]
    BY <1>1 DEF TypeOK
  <2> HIDE DEF c
  <2> QED BY <2>1, <2>2
<1>6. presses \in [Ids -> Nat] /\ events \in Seq(TransportEvent)
  BY <1>1 DEF TypeOK
<1>7. /\ events' \in Seq(TransportEvent) /\ Reported(Core, id, events, events', presses')
      /\ pc = "resubmitted" => events' # events
  <2>1. CASE pc = "submitted"
    BY <1>6, <2>1 DEF Reported
  <2>2. CASE pc = "resubmitted"
    <3> DEFINE e == Event(id, "SubmitRetried", "none", TRUE)
    <3>1. /\ e \in TransportEvent /\ e.id = id /\ e.session = worker[id].session
          /\ e.epoch = worker[id].epoch
      <4>1. "SubmitRetried" \in Outcomes /\ "none" \in Failures
        BY DEF Outcomes, Failures
      <4> DEFINE t == TRUE
                 f == Event(id, "SubmitRetried", "none", t)
      <4>2. t \in BOOLEAN /\ e = f
        OBVIOUS
      <4> HIDE DEF t, e
      <4>3. /\ f \in TransportEvent /\ f.id = id /\ f.session = worker[id].session
            /\ f.epoch = worker[id].epoch
        BY <1>1, <4>1, <4>2, EventFields
      <4> HIDE DEF f
      <4> QED BY <4>2, <4>3
    <3>2. events' = Append(events, e)
      BY <2>2
    <3> HIDE DEF e
    <3>3. events' \in Seq(TransportEvent) /\ events' # events
      BY <1>6, <3>1, <3>2, AppendEvents
    <3>4. Core.worker[id].pc \notin Unreported
      BY <1>1, <2>2 DEF Unreported, Unmarked
    <3>5. Reported(Core, id, events, events', presses')
      BY <1>1, <1>3, <3>1, <3>2, <3>4 DEF Reported
    <3> QED BY <3>3, <3>5
  <2> QED BY <2>1, <2>2
<1>8. TypeOK'
  BY <1>1, <1>2, <1>4, <1>5, <1>7 DEF TypeOK
<1>9. /\ Core'.dels = dels' /\ Core'.next = nextId' /\ Core'.pending = pending'
      /\ Core'.queue = queue' /\ Core'.obs = obs'
      /\ Core'.cells = cells' /\ Core'.worker = worker'
  BY <1>8, CorePrime
<1>10. /\ to \notin Unmarked /\ (to \in Unreported => to = "report")
       /\ (pc \in Unreported => pc = "submitted") /\ ("submitted" \in Unreported)
       /\ "report" \in Unreported
  BY DEF Unreported, Unmarked
<1>11. WorkerActs(Core, Core', id, events, events', presses, presses')
  BY <1>1, <1>2, <1>3, <1>4, <1>5, <1>6, <1>7, <1>9, <1>10 DEF WorkerActs
<1> QED BY <1>2, <1>4, <1>5, <1>8, <1>11, PlainKeeps

LEMMA ReportKeeps ==
  ASSUME DeliveryInv, NEW id \in Ids, Report(id)
  PROVE  DeliveryInv' /\ Kept(Core, Core')
<1> DEFINE e == Event(id, "Submitted", "none", TRUE)
<1>1. At(id, "report")
  BY DEF Report
<1>2. /\ TypeOK /\ worker[id] # None /\ worker[id].pc = "report" /\ cells[id] \in Cell
      /\ cells[id].paste <=> "report" \notin Unmarked
      /\ "report" \in Pressed => presses[id] > 0
      /\ Core.dels = dels /\ Core.next = nextId
      /\ Core.pending = pending /\ Core.queue = queue /\ Core.obs = obs
      /\ Core.cells = cells /\ Core.worker = worker
  BY <1>1, WorkerOnRecord
<1>3. presses[id] > 0 /\ cells[id].paste
  BY <1>2 DEF Pressed, Unmarked
<1>4. /\ events' = Append(events, e) /\ UNCHANGED <<cells, pasted, presses>>
      /\ UNCHANGED <<dels, nextId, pending, deferred, queue, obs, clock, input, unsent>>
      /\ Stop(id) \/ Goto(id, "ack")
  BY DEF Report, Send, CoreUnchanged
<1>5. /\ e \in TransportEvent /\ e.id = id /\ e.session = worker[id].session
      /\ e.epoch = worker[id].epoch /\ e.outcome = "Submitted"
  <2>1. "Submitted" \in Outcomes /\ "none" \in Failures
    BY DEF Outcomes, Failures
  <2> DEFINE t == TRUE
             f == Event(id, "Submitted", "none", t)
  <2>2. t \in BOOLEAN /\ e = f
    OBVIOUS
  <2> HIDE DEF t, e
  <2>3. /\ f \in TransportEvent /\ f.id = id /\ f.session = worker[id].session
        /\ f.epoch = worker[id].epoch /\ f.outcome = "Submitted"
    BY <1>2, <2>1, <2>2, EventFields
  <2> HIDE DEF f
  <2> QED BY <2>2, <2>3
<1> HIDE DEF e
<1>6. /\ worker' \in [Ids -> Worker \cup {None}]
      /\ \A j \in Ids \ {id} : worker'[j] = worker[j]
      /\ worker'[id] # None =>
           /\ worker'[id].pc = "ack"
           /\ worker'[id].sub = worker[id].sub /\ worker'[id].session = worker[id].session
           /\ worker'[id].epoch = worker[id].epoch
  <2>1. CASE Stop(id)
    BY <1>2, <2>1, StopFields
  <2>2. CASE Goto(id, "ack")
    BY <1>2, <2>2, GotoFields DEF Pcs
  <2> QED BY <1>4, <2>1, <2>2
<1>7. presses \in [Ids -> Nat] /\ events \in Seq(TransportEvent)
  BY <1>2 DEF TypeOK
<1>8. events' \in Seq(TransportEvent) /\ events' # events
  BY <1>4, <1>5, <1>7, AppendEvents
<1>9. TypeOK'
  BY <1>2, <1>4, <1>6, <1>8 DEF TypeOK
<1>10. /\ Core'.dels = dels' /\ Core'.next = nextId' /\ Core'.pending = pending'
       /\ Core'.queue = queue' /\ Core'.obs = obs'
       /\ Core'.cells = cells' /\ Core'.worker = worker'
  BY <1>9, CorePrime
<1>11. Reported(Core, id, events, events', presses')
  BY <1>2, <1>3, <1>4, <1>5 DEF Reported, Deciding
<1>12. "ack" \notin Unmarked /\ "ack" \notin Unreported
  BY DEF Unmarked, Unreported
<1>13. WorkerActs(Core, Core', id, events, events', presses, presses')
  BY <1>2, <1>3, <1>4, <1>6, <1>7, <1>8, <1>10, <1>11, <1>12 DEF WorkerActs
<1>14. worker'[id] = None \/ worker'[id].pc # "paste"
  BY <1>6
<1> QED BY <1>4, <1>9, <1>13, <1>14, PlainKeeps

\* The worker marks its paste.  Unless it was cancelled, its delivery is the session's,
\* for the pending submission, which nobody wrote before.
LEMMA MarkCounts ==
  ASSUME NEW k \in CoreState, NEW n \in CoreState, NEW id \in Ids, NEW ev, NEW pr, NEW un,
         Sound(k, ev, pr, un), WritesKnown(k),
         n.dels = k.dels, n.pending = k.pending, n.pasted = k.pasted,
         k.worker[id] # None, k.worker[id].pc \in Unmarked,
         \A j \in Ids \ {id} : n.worker[j] = k.worker[j] /\ n.cells[j] = k.cells[j],
         n.cells[id].sub = k.cells[id].sub, n.cells[id].paste,
         n.cells[id].forgotten <=> k.cells[id].forgotten \/ k.cells[id].cancel
  PROVE  PastesCounted(n) /\ WritesKnown(n)
<1> DEFINE w == k.worker[id]
           sub == w.sub
           s == w.session
<1>1. w \in Worker
  BY DEF CoreState
<1>2. s \in Sessions /\ sub \in Submissions /\ sub = k.cells[id].sub /\ ~k.cells[id].paste
  BY <1>1 DEF Worker, Sound, WorkersOnRecord
<1>3. \A j \in Ids : \A x : Wrote(n, j, x) <=> Wrote(k, j, x) \/ (j = id /\ x = sub)
  BY <1>2 DEF Wrote
<1>4. \A x : Forgotten(k, x) => Forgotten(n, x)
  BY DEF Forgotten
<1>5. \A x : x # sub /\ Forgotten(n, x) => Forgotten(k, x)
  BY <1>2 DEF Forgotten
<1>6. ~Forgotten(n, sub) =>
        /\ ~k.cells[id].cancel /\ k.dels[s] # None /\ k.dels[s].id = id
        /\ k.dels[s].state = "WritingPaste" /\ k.pending[s] = sub
  BY <1>2 DEF Forgotten, Sound, Serves
<1>7. ~Forgotten(n, sub) => \A j \in Ids : ~Wrote(k, j, sub)
  <2> SUFFICES ASSUME ~Forgotten(n, sub), NEW j \in Ids, Wrote(k, j, sub) PROVE FALSE
    OBVIOUS
  <2>1. sub # None
    BY <1>2, NoneAssumption
  <2>2. Wrote(k, k.dels[s].id, sub)
    BY <1>2, <1>4, <1>6, <2>1 DEF WritesKnown, Known
  <2> QED BY <1>2, <1>6, <2>2 DEF Wrote
<1>8. PastesCounted(k)
  BY DEF Sound
<1>9. PastesCounted(n)
  <2>1. ASSUME NEW x \in Submissions, n.pasted[x] > 0 PROVE \E j \in Ids : Wrote(n, j, x)
    BY <1>3, <1>8, <2>1 DEF PastesCounted
  <2>2. ASSUME NEW x \in Submissions, NEW i \in Ids, NEW j \in Ids, Wrote(n, i, x),
               Wrote(n, j, x), i # j
        PROVE  Forgotten(n, x)
    <3>1. CASE x = sub
      BY <1>3, <1>7, <2>2, <3>1
    <3>2. CASE x # sub
      BY <1>3, <1>4, <1>8, <2>2, <3>2 DEF PastesCounted
    <3> QED BY <3>1, <3>2
  <2>3. ASSUME NEW x \in Submissions, NEW j \in Ids, Wrote(n, j, x), ~Forgotten(n, x)
        PROVE  /\ n.pasted[x] <= 1
               /\ n.worker[j] # None /\ n.worker[j].pc = "paste" => n.pasted[x] = 0
    <3>1. CASE x = sub
      <4>1. ~(k.pasted[sub] > 0)
        BY <1>2, <1>7, <1>8, <2>3, <3>1 DEF PastesCounted
      <4>2. k.pasted[sub] \in Nat
        BY <1>2 DEF CoreState
      <4> QED BY <3>1, <4>1, <4>2
    <3>2. CASE x # sub
      <4>1. j # id /\ Wrote(k, j, x) /\ ~Forgotten(k, x)
        BY <1>2, <1>3, <1>4, <2>3, <3>2 DEF Wrote
      <4> QED BY <1>8, <4>1 DEF PastesCounted
    <3> QED BY <3>1, <3>2
  <2> QED BY <2>1, <2>2, <2>3 DEF PastesCounted
<1>10. WritesKnown(n)
  <2> SUFFICES ASSUME NEW t \in Sessions, n.pending[t] # None, ~Forgotten(n, n.pending[t]),
                      NEW j \in Ids, Wrote(n, j, n.pending[t])
               PROVE  /\ n.dels[t] # None /\ Wrote(n, n.dels[t].id, n.pending[t])
                      /\ n.dels[t].state \notin AcceptsReplacement
    BY DEF WritesKnown, Known
  <2>1. CASE n.pending[t] = sub
    <3>1. t = s
      BY <1>2, <1>6, <2>1 DEF Sound, OnePlace
    <3> QED BY <1>2, <1>3, <1>6, <2>1, <3>1 DEF AcceptsReplacement
  <2>2. CASE n.pending[t] # sub
    <3>1. Wrote(k, j, k.pending[t]) /\ ~Forgotten(k, k.pending[t]) /\ k.pending[t] # None
      BY <1>3, <1>4, <2>2
    <3>2. /\ k.dels[t] # None /\ Wrote(k, k.dels[t].id, k.pending[t])
          /\ k.dels[t].state \notin AcceptsReplacement
      BY <3>1 DEF WritesKnown, Known
    <3>3. k.dels[t].id \in Ids
      BY <3>2 DEF CoreState, Delivery
    <3> QED BY <1>3, <3>2, <3>3
  <2> QED BY <2>1, <2>2
<1> QED BY <1>9, <1>10

LEMMA MarkPasteKeeps ==
  ASSUME DeliveryInv, NEW id \in Ids, At(id, "mark"),
         cells' = [cells EXCEPT ![id].paste = TRUE,
                                ![id].forgotten = @ \/ cells[id].cancel],
         Goto(id, "paste"), UNCHANGED <<events, pasted, presses>>, CoreUnchanged
  PROVE  DeliveryInv' /\ Kept(Core, Core')
<1>1. /\ TypeOK /\ worker[id] # None /\ worker[id].pc = "mark" /\ cells[id] \in Cell
      /\ Core \in CoreState /\ Core.dels = dels /\ Core.next = nextId
      /\ Core.pending = pending /\ Core.queue = queue /\ Core.obs = obs
      /\ Core.cells = cells /\ Core.worker = worker /\ Core.pasted = pasted
  BY WorkerOnRecord
<1>2. UNCHANGED <<dels, nextId, pending, deferred, queue, obs, clock, input, unsent>>
  BY DEF CoreUnchanged
<1>3. /\ worker' \in [Ids -> Worker \cup {None}]
      /\ worker'[id] # None /\ worker'[id].pc = "paste"
      /\ worker'[id].sub = worker[id].sub /\ worker'[id].session = worker[id].session
      /\ worker'[id].epoch = worker[id].epoch
      /\ \A j \in Ids \ {id} : worker'[j] = worker[j]
  BY <1>1, GotoFields DEF Pcs
<1>4. /\ cells' \in [Ids -> Cell]
      /\ cells'[id].sub = cells[id].sub /\ cells'[id].paste
      /\ cells'[id].cancel = cells[id].cancel /\ cells'[id].receipt = cells[id].receipt
      /\ cells'[id].forgotten <=> cells[id].forgotten \/ cells[id].cancel
      /\ \A j \in Ids \ {id} : cells'[j] = cells[j]
  <2> DEFINE f == cells[id].forgotten \/ cells[id].cancel
             c == [cells[id] EXCEPT !.paste = TRUE, !.forgotten = f]
  <2>1. f \in BOOLEAN
    OBVIOUS
  <2>2. cells' = [cells EXCEPT ![id] = c] /\ cells \in [Ids -> Cell]
    BY <1>1 DEF TypeOK
  <2>3. /\ c \in Cell /\ c.sub = cells[id].sub /\ c.paste = TRUE
        /\ c.cancel = cells[id].cancel /\ c.receipt = cells[id].receipt
        /\ c.forgotten = f
    <3> HIDE DEF f
    <3> QED BY <1>1, <2>1 DEF Cell
  <2> HIDE DEF c
  <2> QED BY <2>1, <2>2, <2>3
<1>5. presses \in [Ids -> Nat]
  BY <1>1 DEF TypeOK
<1>6. TypeOK'
  BY <1>1, <1>2, <1>3, <1>4 DEF TypeOK
<1>7. /\ Core' \in CoreState /\ Core'.dels = dels' /\ Core'.next = nextId'
      /\ Core'.pending = pending' /\ Core'.queue = queue' /\ Core'.obs = obs'
      /\ Core'.cells = cells' /\ Core'.worker = worker' /\ Core'.pasted = pasted'
  BY <1>6, CorePrime
<1>8. Reported(Core, id, events, events', presses')
  BY DEF Reported
<1>9. /\ "mark" \in Unmarked /\ "paste" \notin Unmarked /\ "mark" \in Unreported
      /\ "paste" \in Unreported /\ "paste" \notin Pressed
  BY DEF Unmarked, Unreported, Pressed
<1>10. WorkerActs(Core, Core', id, events, events', presses, presses')
  BY <1>1, <1>2, <1>3, <1>4, <1>5, <1>7, <1>8, <1>9 DEF WorkerActs
<1>11. Sound(Core, events, presses, unsent) /\ WritesKnown(Core)
  BY DEF DeliveryInv
<1>12. PastesCounted(Core') /\ WritesKnown(Core')
  <2>1. /\ Core'.dels = Core.dels /\ Core'.pending = Core.pending
        /\ Core'.pasted = Core.pasted
        /\ Core.worker[id] # None /\ Core.worker[id].pc \in Unmarked
        /\ \A j \in Ids \ {id} : /\ Core'.worker[j] = Core.worker[j]
                                 /\ Core'.cells[j] = Core.cells[j]
        /\ Core'.cells[id].sub = Core.cells[id].sub /\ Core'.cells[id].paste
        /\ Core'.cells[id].forgotten <=> Core.cells[id].forgotten \/ Core.cells[id].cancel
    BY <1>1, <1>2, <1>3, <1>4, <1>7, <1>9
  <2> QED BY <1>1, <1>7, <1>11, <2>1, MarkCounts
<1> QED BY <1>2, <1>6, <1>10, <1>12, WorkerKeeps

\* The marked paste is written.
LEMMA PasteCounts ==
  ASSUME NEW k \in CoreState, NEW n \in CoreState, NEW id \in Ids,
         PastesCounted(k), WritesKnown(k),
         n.dels = k.dels, n.pending = k.pending, n.cells = k.cells,
         k.worker[id] # None, k.worker[id].pc = "paste", k.cells[id].paste,
         k.worker[id].sub = k.cells[id].sub, k.worker[id].sub \in Submissions,
         n.worker[id] = None \/ n.worker[id].pc # "paste",
         \A j \in Ids \ {id} : n.worker[j] = k.worker[j],
         n.pasted[k.worker[id].sub] = k.pasted[k.worker[id].sub] + 1,
         \A x \in Submissions \ {k.worker[id].sub} : n.pasted[x] = k.pasted[x]
  PROVE  PastesCounted(n) /\ WritesKnown(n)
<1> DEFINE sub == k.worker[id].sub
<1>1. /\ \A j \in Ids : \A x : Wrote(n, j, x) <=> Wrote(k, j, x)
      /\ \A x : Forgotten(n, x) <=> Forgotten(k, x)
  BY DEF Wrote, Forgotten
<1>2. Wrote(k, id, sub)
  BY DEF Wrote
<1>3. PastesCounted(n)
  <2>1. ASSUME NEW x \in Submissions, n.pasted[x] > 0 PROVE \E j \in Ids : Wrote(n, j, x)
    BY <1>1, <1>2, <2>1 DEF PastesCounted
  <2>2. ASSUME NEW x \in Submissions, NEW i \in Ids, NEW j \in Ids, Wrote(n, i, x),
               Wrote(n, j, x), i # j
        PROVE  Forgotten(n, x)
    BY <1>1, <2>2 DEF PastesCounted
  <2>3. ASSUME NEW x \in Submissions, NEW j \in Ids, Wrote(n, j, x), ~Forgotten(n, x)
        PROVE  /\ n.pasted[x] <= 1
               /\ n.worker[j] # None /\ n.worker[j].pc = "paste" => n.pasted[x] = 0
    <3>1. CASE x = sub
      <4>1. j = id
        BY <1>1, <1>2, <2>3, <3>1 DEF PastesCounted
      <4>2. k.pasted[sub] = 0
        BY <1>1, <1>2, <2>3, <3>1 DEF PastesCounted
      <4> QED BY <3>1, <4>1, <4>2
    <3>2. CASE x # sub
      <4>1. j # id
        BY <1>1, <2>3, <3>2 DEF Wrote
      <4> QED BY <1>1, <2>3, <3>2, <4>1 DEF PastesCounted
    <3> QED BY <3>1, <3>2
  <2> QED BY <2>1, <2>2, <2>3 DEF PastesCounted
<1>4. WritesKnown(n)
  BY DEF WritesKnown, Known, Wrote, Forgotten
<1> QED BY <1>3, <1>4

LEMMA PasteKeeps ==
  ASSUME DeliveryInv, NEW id \in Ids, At(id, "paste"),
         pasted' = [pasted EXCEPT ![worker[id].sub] = @ + 1], Goto(id, "receipt"),
         UNCHANGED <<events, cells, presses>>, CoreUnchanged
  PROVE  DeliveryInv' /\ Kept(Core, Core')
<1>1. /\ TypeOK /\ worker[id] # None /\ worker[id].pc = "paste" /\ worker[id] \in Worker
      /\ worker[id].sub = cells[id].sub
      /\ cells[id].paste <=> "paste" \notin Unmarked
      /\ Core \in CoreState /\ Core.dels = dels /\ Core.next = nextId
      /\ Core.pending = pending /\ Core.queue = queue /\ Core.obs = obs
      /\ Core.cells = cells /\ Core.worker = worker /\ Core.pasted = pasted
  BY WorkerOnRecord
<1>2. UNCHANGED <<dels, nextId, pending, deferred, queue, obs, clock, input, unsent>>
  BY DEF CoreUnchanged
<1>3. /\ worker' \in [Ids -> Worker \cup {None}]
      /\ worker'[id] # None /\ worker'[id].pc = "receipt"
      /\ worker'[id].sub = worker[id].sub /\ worker'[id].session = worker[id].session
      /\ worker'[id].epoch = worker[id].epoch
      /\ \A j \in Ids \ {id} : worker'[j] = worker[j]
  BY <1>1, GotoFields DEF Pcs
<1>4. presses \in [Ids -> Nat] /\ pasted \in [Submissions -> Nat] /\ worker[id].sub \in Submissions
  BY <1>1 DEF TypeOK, Worker
<1>5. /\ pasted' \in [Submissions -> Nat]
      /\ pasted'[worker[id].sub] = pasted[worker[id].sub] + 1
      /\ \A x \in Submissions \ {worker[id].sub} : pasted'[x] = pasted[x]
  BY <1>4
<1>6. TypeOK'
  BY <1>1, <1>2, <1>3, <1>5 DEF TypeOK
<1>7. /\ Core' \in CoreState /\ Core'.dels = dels' /\ Core'.next = nextId'
      /\ Core'.pending = pending' /\ Core'.queue = queue' /\ Core'.obs = obs'
      /\ Core'.cells = cells' /\ Core'.worker = worker' /\ Core'.pasted = pasted'
  BY <1>6, CorePrime
<1>8. Reported(Core, id, events, events', presses')
  BY DEF Reported
<1>9. /\ "receipt" \notin Unmarked /\ "paste" \notin Unmarked /\ "paste" \in Unreported
      /\ "receipt" \in Unreported /\ "receipt" \notin Pressed
  BY DEF Unmarked, Unreported, Pressed
<1>10. WorkerActs(Core, Core', id, events, events', presses, presses')
  BY <1>1, <1>2, <1>3, <1>4, <1>7, <1>8, <1>9 DEF WorkerActs
<1>11. PastesCounted(Core) /\ WritesKnown(Core)
  BY DEF DeliveryInv, Sound
<1>12. PastesCounted(Core') /\ WritesKnown(Core')
  <2>1. /\ Core'.dels = Core.dels /\ Core'.pending = Core.pending
        /\ Core'.cells = Core.cells
        /\ Core.worker[id] # None /\ Core.worker[id].pc = "paste" /\ Core.cells[id].paste
        /\ Core.worker[id].sub = Core.cells[id].sub /\ Core.worker[id].sub \in Submissions
        /\ Core'.worker[id].pc # "paste"
        /\ \A j \in Ids \ {id} : Core'.worker[j] = Core.worker[j]
        /\ Core'.pasted[Core.worker[id].sub] = Core.pasted[Core.worker[id].sub] + 1
        /\ \A x \in Submissions \ {Core.worker[id].sub} : Core'.pasted[x] = Core.pasted[x]
    BY <1>1, <1>2, <1>3, <1>4, <1>5, <1>7, <1>9
  <2> QED BY <1>1, <1>7, <1>11, <2>1, PasteCounts
<1> QED BY <1>2, <1>6, <1>10, <1>12, WorkerKeeps

LEMMA WorkerStepKeeps ==
  ASSUME DeliveryInv, NEW id \in Ids, WorkerStep(id)
  PROVE  DeliveryInv' /\ Kept(Core, Core')
<1> USE DEF Pcs, Outcomes, Failures, Unmarked, Unreported, Pressed, Deciding
<1>2. CASE ComposerShows(id)
  BY <1>2, MovesKeeps DEF ComposerShows
<1>3. CASE ReadinessFails(id)
  BY <1>3, EndsKeeps DEF ReadinessFails
<1>4. CASE PasteGate(id)
  BY <1>4, EndsKeeps, MovesKeeps DEF PasteGate
<1>5. CASE MarkPaste(id)
  BY <1>5, EndsKeeps, MarkPasteKeeps DEF MarkPaste
<1>6. CASE Paste(id)
  BY <1>6, EndsKeeps, PasteKeeps DEF Paste
<1>7. CASE PasteReceipted(id)
  <2>1. CASE Ends(id, "Blocked", "ComposerUnavailable", TRUE)
    BY <1>7, <2>1, EndsKeeps DEF PasteReceipted
  <2>2. CASE Ends(id, "Failed", "Terminal", FALSE)
    BY <1>7, <2>2, EndsKeeps DEF PasteReceipted
  <2>3. CASE Moves(id, "settle")
    BY <1>7, <2>3, MovesKeeps DEF PasteReceipted
  <2> QED BY <1>7, <2>1, <2>2, <2>3 DEF PasteReceipted
<1>8. CASE Settle(id)
  <2>1. CASE Ends(id, "Blocked", "ComposerUnavailable", TRUE)
    BY <1>8, <2>1, EndsKeeps DEF Settle
  <2>2. CASE Ends(id, "Blocked", "Recoverable", TRUE)
    BY <1>8, <2>2, EndsKeeps DEF Settle
  <2>3. CASE Ends(id, "Failed", "Terminal", TRUE)
    BY <1>8, <2>3, EndsKeeps DEF Settle
  <2>4. CASE Moves(id, "enter")
    BY <1>8, <2>4, MovesKeeps DEF Settle
  <2> QED BY <1>8, <2>1, <2>2, <2>3, <2>4 DEF Settle
<1>9. CASE PressEnter(id)
  BY <1>9, PressKeeps DEF PressEnter
<1>10. CASE EnterFails(id)
  BY <1>10, EndsKeeps DEF EnterFails
<1>11. CASE EnterReceipted(id)
  BY <1>11, ReceiptKeeps DEF EnterReceipted
<1>12. CASE EnterUnreceipted(id)
  BY <1>12, EndsKeeps DEF EnterUnreceipted
<1>13. CASE Report(id)
  BY <1>13, ReportKeeps
<1>14. CASE Acknowledged(id)
  BY <1>14, QuitsKeeps DEF Acknowledged
<1>15. CASE AckTimesOut(id)
  <2>1. CASE Quits(id)
    BY <1>15, <2>1, QuitsKeeps DEF AckTimesOut
  <2>2. CASE Ends(id, "ProviderAckTimedOut", "Terminal", FALSE)
    <3>1. /\ At(id, "ack") /\ "ack" \notin Unreported /\ "Terminal" \in Failures
          /\ "ProviderAckTimedOut" \in Outcomes \ {"Submitted", "SubmitRetried"}
      BY <1>15 DEF AckTimesOut
    <3> HIDE DEF Pcs, Outcomes, Failures, Unmarked, Unreported, Pressed, Deciding
    <3> QED BY <2>2, <3>1, EndsKeeps
  <2>3. CASE Moves(id, "loop")
    BY <1>15, <2>3, MovesKeeps DEF AckTimesOut
  <2> QED BY <1>15, <2>1, <2>2, <2>3 DEF AckTimesOut
<1>16. CASE RetryHead(id)
  BY <1>16, QuitsKeeps, EndsKeeps, MovesKeeps DEF RetryHead
<1>17. CASE PressAgain(id)
  BY <1>17, PressKeeps DEF PressAgain
<1>18. CASE RetryFails(id)
  <2>1. PICK pc \in {"retry", "resubmitted"} : At(id, pc)
    BY <1>18 DEF RetryFails
  <2>2. CASE Ends(id, "SubmitRetryFailed", "Recoverable", TRUE)
    BY <2>1, <2>2, EndsKeeps
  <2>3. CASE Ends(id, "SubmitRetryFailed", "Terminal", TRUE)
    BY <2>1, <2>3, EndsKeeps
  <2> QED BY <1>18, <2>2, <2>3 DEF RetryFails
<1>19. CASE RetryReceipted(id)
  BY <1>19, ReceiptKeeps DEF RetryReceipted, Send
<1>20. CASE RetryTimesOut(id)
  <2>1. CASE Ends(id, "ProviderAckTimedOut", "Terminal", FALSE)
    <3>1. /\ At(id, "again") /\ "again" \notin Unreported /\ "Terminal" \in Failures
          /\ "ProviderAckTimedOut" \in Outcomes \ {"Submitted", "SubmitRetried"}
      BY <1>20 DEF RetryTimesOut
    <3> HIDE DEF Pcs, Outcomes, Failures, Unmarked, Unreported, Pressed, Deciding
    <3> QED BY <2>1, <3>1, EndsKeeps
  <2>2. CASE Moves(id, "loop")
    BY <1>20, <2>2, MovesKeeps DEF RetryTimesOut
  <2> QED BY <1>20, <2>1, <2>2 DEF RetryTimesOut
<1> QED BY <1>2, <1>3, <1>4, <1>5, <1>6, <1>7, <1>8, <1>9, <1>10, <1>11, <1>12, <1>13,
           <1>14, <1>15, <1>16, <1>17, <1>18, <1>19, <1>20 DEF WorkerStep

-----------------------------------------------------------------------------
(* The theorems *)

LEMMA InitDelivery ==
  ASSUME Init
  PROVE  DeliveryInv
<1>1. FreshCells \in Cell /\ NoQueue \in [epoch : Nat, subs : Seq(Submissions)]
      /\ NoQueue.epoch = 0 /\ NoQueue.subs = <<>>
      /\ ~FreshCells.paste /\ ~FreshCells.receipt /\ FreshCells.sub = None
  BY DEF FreshCells, Cell, NoQueue
<1>2. TypeOK
  <2>1. obs \in [Sessions -> Observation]
    <3> DEFINE no == {FALSE}
               o == [epoch : {0, 1}, state : {"None"}, seq : {0}, progress : no,
                     composer : AgentKinds]
    <3>1. AgentKinds \subseteq BOOLEAN /\ no \subseteq BOOLEAN
      BY DeliveryBounds
    <3>2. obs \in [Sessions -> o]
      BY DEF Init
    <3>3. \A x \in o : x \in Observation
      <4> HIDE DEF no
      <4>1. {0, 1} \subseteq Nat /\ {"None"} \subseteq AgentStates /\ {0} \subseteq Nat
        BY DEF AgentStates
      <4> QED BY <3>1, <4>1 DEF Observation
    <3> HIDE DEF o
    <3> QED BY <3>2, <3>3
  <2>2. input \in [Sessions -> Input]
    BY DEF Init, Input
  <2>3. queue \in [Sessions -> [epoch : Nat, subs : Seq(Submissions)]]
    BY <1>1 DEF Init
  <2>4. events \in Seq(TransportEvent)
    BY DEF Init
  <2> QED BY <1>1, <2>1, <2>2, <2>3, <2>4 DEF Init, TypeOK
<1> DEFINE k == Core
<1>3. /\ k \in CoreState /\ k.next = 1
      /\ k.dels = [s \in Sessions |-> None] /\ k.pending = [s \in Sessions |-> None]
      /\ k.queue = [s \in Sessions |-> NoQueue] /\ k.obs = obs
      /\ k.cells = [id \in Ids |-> FreshCells] /\ k.worker = [id \in Ids |-> None]
      /\ k.pasted = [sub \in Submissions |-> 0]
  BY <1>2, CoreRecord DEF Init
<1> HIDE DEF k
<1>4. events = <<>> /\ unsent = Submissions
  BY DEF Init
<1>5. IdsOnRecord(k, events) /\ WorkersOnRecord(k, events, presses)
  BY <1>1, <1>3, <1>4 DEF IdsOnRecord, WorkersOnRecord
<1>6. AfterEnter(k, presses) /\ Driven(k, events) /\ Serves(k)
  BY <1>3 DEF AfterEnter, Driven, Serves
<1>7. QueueCovered(k)
  <2>1. \A s \in Sessions : k.obs[s].epoch \in Nat
    BY <1>3 DEF CoreState, Observation
  <2> QED BY <1>1, <1>3, <2>1 DEF QueueCovered
<1>8. OnePlace(k, unsent)
  BY <1>1, <1>3, <1>4, NoneAssumption DEF OnePlace
<1>9. PastesCounted(k) /\ WritesKnown(k)
  BY <1>1, <1>3 DEF PastesCounted, WritesKnown, Known, Wrote
<1> QED BY <1>2, <1>5, <1>6, <1>7, <1>8, <1>9 DEF DeliveryInv, Sound, k

LEMMA NextKeeps ==
  ASSUME DeliveryInv, [Next]_vars
  PROVE  DeliveryInv' /\ (Kept(Core, Core') \/ UNCHANGED vars)
<1>1. CASE CoreStep
  BY <1>1, RecordEventKeeps, SubmitKeeps, SignalKeeps, HookRespondedKeeps, RestartKeeps,
     RetireKeeps, ClientInputKeeps DEF CoreStep
<1>2. CASE \E id \in Ids : WorkerStep(id)
  BY <1>2, WorkerStepKeeps
<1>3. CASE UNCHANGED vars
  <2>1. Core' = Core
    BY <1>3 DEF vars, Core
  <2> QED BY <1>3, <2>1 DEF vars, DeliveryInv, TypeOK
<1> QED BY <1>1, <1>2, <1>3 DEF Next

\* The inductive invariant: where workers, events, records, the queue and the pending
\* submission of a session stand to each other, in every reachable state.
THEOREM DeliveryInvariant == Spec => []DeliveryInv
<1>1. Init => DeliveryInv
  BY InitDelivery
<1>2. DeliveryInv /\ [Next]_vars => DeliveryInv'
  BY NextKeeps
<1> QED BY <1>1, <1>2, PTL DEF Spec

\* Every variable of the delivery model keeps its type, whatever the limits are.
THEOREM DeliveryTypes == Spec => []TypeOK
<1>1. DeliveryInv => TypeOK
  BY DEF DeliveryInv
<1> QED BY <1>1, DeliveryInvariant, PTL

\* Content is pasted a second time only after Core lost its knowledge of the first
\* paste: by cancelling a worker past its last look at cancel_submit, or by evicting
\* the record at the limit of deliveries.
THEOREM PastedOnce == Spec => []PastedOnceUnlessForgotten
<1>1. DeliveryInv => PastedOnceUnlessForgotten
  <2> SUFFICES ASSUME DeliveryInv, NEW sub \in Submissions, pasted[sub] > 1
               PROVE  \E id \in Ids : cells[id].sub = sub /\ cells[id].forgotten
    BY DEF PastedOnceUnlessForgotten
  <2> DEFINE k == Core
  <2>1. k \in CoreState /\ k.pasted = pasted /\ k.cells = cells /\ PastesCounted(k)
    BY CoreRecord DEF DeliveryInv, Sound
  <2> HIDE DEF k
  <2>2. pasted[sub] \in Nat
    BY <2>1 DEF CoreState
  <2>3. PICK id \in Ids : Wrote(k, id, sub)
    BY <2>1, <2>2 DEF PastesCounted
  <2>4. Forgotten(k, sub)
    BY <2>1, <2>2, <2>3 DEF PastesCounted
  <2> QED BY <2>1, <2>4 DEF Forgotten
<1> QED BY <1>1, DeliveryInvariant, PTL

\* A delivery awaits its acknowledgement, or is confirmed by progress, only after its
\* own worker pressed Enter: no event of a replaced delivery and no progress of the
\* running turn advances it.
THEOREM AdvancesOnlyAfterEnter == Spec => []AdvancesAfterEnter
<1>1. DeliveryInv => AdvancesAfterEnter
  <2> SUFFICES ASSUME DeliveryInv PROVE AdvancesAfterEnter
    OBVIOUS
  <2>1. Core.dels = dels /\ AfterEnter(Core, presses)
    BY CoreRecord DEF DeliveryInv, Sound
  <2> QED BY <2>1 DEF AfterEnter, AdvancesAfterEnter, AwaitingMeansPressed,
                      ProgressConfirmsAfterEnter
<1> QED BY <1>1, DeliveryInvariant, PTL

\* A queue has something in front of it whose end promotes it, and a delivery that is
\* being written has its worker or its worker's last report.
THEOREM NobodyStranded == Spec => []NothingStranded
<1>1. DeliveryInv => NothingStranded
  <2> SUFFICES ASSUME DeliveryInv PROVE NothingStranded
    OBVIOUS
  <2> DEFINE k == Core
  <2>1. /\ k.dels = dels /\ k.queue = queue /\ k.obs = obs /\ k.pending = pending
        /\ k.worker = worker
    BY CoreRecord DEF DeliveryInv
  <2>2. Driven(k, events) /\ QueueCovered(k)
    BY DEF DeliveryInv, Sound
  <2>3. NoStrandedQueue
    BY <2>1, <2>2 DEF NoStrandedQueue, QueueCovered
  <2> HIDE DEF k
  <2>4. WritingIsDriven
    BY <2>1, <2>2 DEF WritingIsDriven, Driven, DrivenBy
  <2> QED BY <2>3, <2>4 DEF NothingStranded
<1> QED BY <1>1, DeliveryInvariant, PTL

\* No late failure, timeout, restart or replacement reopens a delivery the provider
\* acknowledged: its record stays Confirmed, goes, or gives way to one with a new id.
THEOREM ConfirmedStays == Spec => ConfirmedIsFinal
<1>1. DeliveryInv /\ [Next]_vars =>
        [\A s \in Sessions :
          dels[s] # None /\ dels[s].state = "Confirmed"
            => \/ dels'[s] = None
               \/ dels'[s].id # dels[s].id
               \/ dels'[s].state = "Confirmed"]_vars
  <2> SUFFICES ASSUME DeliveryInv, [Next]_vars, ~UNCHANGED vars, NEW s \in Sessions,
                      dels[s] # None, dels[s].state = "Confirmed"
               PROVE  \/ dels'[s] = None
                      \/ dels'[s].id # dels[s].id
                      \/ dels'[s].state = "Confirmed"
    OBVIOUS
  <2>1. Kept(Core, Core') /\ DeliveryInv'
    BY NextKeeps
  <2>2. Core.dels = dels /\ Core.next = nextId /\ Core \in CoreState
        /\ IdsOnRecord(Core, events)
    BY CoreRecord DEF DeliveryInv, Sound
  <2>3. Core'.dels = dels'
    BY <2>1, CorePrime DEF DeliveryInv
  <2>4. dels[s].id \in Ids /\ dels[s].id < nextId /\ nextId \in Nat
    BY <2>2, RecordAt, NextNat
  <2>5. dels'[s] # None => dels'[s].id \in Nat
    <3>1. dels' \in [Sessions -> Delivery \cup {None}]
      BY <2>1 DEF DeliveryInv, TypeOK
    <3> QED BY <3>1, IdsNat DEF Delivery
  <2> QED BY <2>1, <2>2, <2>3, <2>4, <2>5, IdsNat DEF Kept
<1> QED BY <1>1, DeliveryInvariant, PTL DEF Spec, ConfirmedIsFinal

=============================================================================
