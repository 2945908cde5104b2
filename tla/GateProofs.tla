----------------------------- MODULE GateProofs -----------------------------
(* What the admission gates guarantee for any number of calls and projects.     *)
EXTENDS Gates, Sequences, TLAPS, FiniteSetTheorems

-----------------------------------------------------------------------------
(* Sequences without repetition *)

In(s, e) == \E i \in 1..Len(s) : s[i] = e
Distinct(s) == \A i, j \in 1..Len(s) : s[i] = s[j] => i = j

\* An element is added at the end.
LEMMA Appended ==
  ASSUME NEW S, NEW s \in Seq(S), NEW e \in S
  PROVE  /\ Append(s, e) \in Seq(S) /\ Append(s, e) # <<>>
         /\ \A x : In(Append(s, e), x) <=> In(s, x) \/ x = e
         /\ Distinct(s) /\ ~In(s, e) => Distinct(Append(s, e))
<1> DEFINE t == Append(s, e)
<1>1. t \in Seq(S) /\ Len(t) = Len(s) + 1 /\ t[Len(s) + 1] = e
      /\ \A i \in 1..Len(s) : t[i] = s[i]
  OBVIOUS
<1>2. Len(s) \in Nat
  OBVIOUS
<1>3. t # <<>>
  BY <1>1, <1>2
<1> HIDE DEF t
<1>4. ASSUME NEW x PROVE In(t, x) <=> In(s, x) \/ x = e
  BY <1>1, <1>2 DEF In
<1>5. Distinct(s) /\ ~In(s, e) => Distinct(t)
  BY <1>1, <1>2 DEF In, Distinct
<1> QED BY <1>1, <1>3, <1>4, <1>5 DEF t

\* The first element is taken.
LEMMA Tailed ==
  ASSUME NEW S, NEW s \in Seq(S), s # <<>>
  PROVE  /\ Head(s) \in S /\ Tail(s) \in Seq(S) /\ In(s, Head(s))
         /\ Len(Tail(s)) = Len(s) - 1
         /\ \A x : In(s, x) <=> In(Tail(s), x) \/ x = Head(s)
         /\ Distinct(s) => Distinct(Tail(s)) /\ ~In(Tail(s), Head(s))
<1> DEFINE t == Tail(s)
<1>1. t \in Seq(S) /\ Len(t) = Len(s) - 1 /\ Len(s) >= 1 /\ Len(s) \in Nat
      /\ \A i \in 1..Len(t) : t[i] = s[i + 1]
  OBVIOUS
<1>2. Head(s) = s[1] /\ Head(s) \in S
  OBVIOUS
<1> HIDE DEF t
<1>3. In(s, Head(s))
  BY <1>1, <1>2 DEF In
<1>4. ASSUME NEW x PROVE In(s, x) <=> In(t, x) \/ x = Head(s)
  <2>1. In(t, x) => In(s, x)
    BY <1>1 DEF In
  <2>2. ASSUME In(s, x), x # Head(s) PROVE In(t, x)
    <3>1. PICK i \in 1..Len(s) : s[i] = x
      BY <2>2 DEF In
    <3>2. i # 1
      BY <3>1, <2>2, <1>2
    <3>3. i - 1 \in 1..Len(t) /\ t[i - 1] = s[i]
      BY <3>1, <3>2, <1>1
    <3> QED BY <3>1, <3>3 DEF In
  <2> QED BY <2>1, <2>2, <1>3
<1>5. ASSUME Distinct(s) PROVE Distinct(t) /\ ~In(t, Head(s))
  <2>1. Distinct(t)
    BY <1>1, <1>5 DEF Distinct
  <2>2. ASSUME NEW i \in 1..Len(t), t[i] = Head(s) PROVE FALSE
    <3>1. s[i + 1] = s[1] /\ i + 1 \in 1..Len(s) /\ 1 \in 1..Len(s) /\ i + 1 # 1
      BY <2>2, <1>1, <1>2
    <3> QED BY <3>1, <1>5 DEF Distinct
  <2> QED BY <2>1, <2>2 DEF In
<1> QED BY <1>1, <1>2, <1>3, <1>4, <1>5 DEF t

\* A sequence is empty when nothing is in it.
LEMMA Emptiness ==
  ASSUME NEW S, NEW s \in Seq(S)
  PROVE  /\ s # <<>> <=> \E x \in S : In(s, x)
         /\ \A x : In(s, x) => x \in S
<1>1. s # <<>> <=> Len(s) > 0
  OBVIOUS
<1>2. Len(s) > 0 => s[1] \in S /\ In(s, s[1])
  BY DEF In
<1>3. \A x : In(s, x) => x \in S /\ Len(s) > 0
  BY DEF In
<1> QED BY <1>1, <1>2, <1>3

LEMMA EmptySequence == Distinct(<<>>) /\ \A x : ~In(<<>>, x)
  BY DEF In, Distinct

\* The first element goes to the end.
LEMMA Rotated ==
  ASSUME NEW S, NEW s \in Seq(S), s # <<>>
  PROVE  LET t == Append(Tail(s), Head(s)) IN
         /\ t \in Seq(S) /\ \A x : In(t, x) <=> In(s, x)
         /\ Distinct(s) => Distinct(t)
<1>1. /\ Tail(s) \in Seq(S) /\ Head(s) \in S
      /\ \A x : In(s, x) <=> In(Tail(s), x) \/ x = Head(s)
      /\ Distinct(s) => Distinct(Tail(s)) /\ ~In(Tail(s), Head(s))
  BY Tailed
<1> QED BY <1>1, Appended

-----------------------------------------------------------------------------
(* The queue of a project in the observation gate *)

WaitingLists == [explicit : Seq(Requests), background : Seq(Requests)]
InList(q, r) == In(q.explicit, r) \/ In(q.background, r)
Once(q) ==
  /\ Distinct(q.explicit) /\ Distinct(q.background)
  /\ \A r \in Requests : ~(In(q.explicit, r) /\ In(q.background, r))

\* A call is added to a list it is not in.
LEMMA ListAdd ==
  ASSUME NEW q \in WaitingLists, NEW r \in Requests
  PROVE  LET n == Observation!Enqueued(q, r) IN
         /\ n \in WaitingLists /\ Observation!NonEmpty(n)
         /\ \A x : InList(n, x) <=> InList(q, x) \/ x = r
         /\ Once(q) /\ ~InList(q, r) => Once(n)
<1>1. q.explicit \in Seq(Requests) /\ q.background \in Seq(Requests)
  BY DEF WaitingLists
<1> DEFINE n == Observation!Enqueued(q, r)
<1>2. /\ Append(q.explicit, r) \in Seq(Requests) /\ Append(q.explicit, r) # <<>>
      /\ \A x : In(Append(q.explicit, r), x) <=> In(q.explicit, x) \/ x = r
      /\ Distinct(q.explicit) /\ ~In(q.explicit, r) => Distinct(Append(q.explicit, r))
  BY <1>1, Appended
<1>3. /\ Append(q.background, r) \in Seq(Requests) /\ Append(q.background, r) # <<>>
      /\ \A x : In(Append(q.background, r), x) <=> In(q.background, x) \/ x = r
      /\ Distinct(q.background) /\ ~In(q.background, r)
           => Distinct(Append(q.background, r))
  BY <1>1, Appended
<1>4. CASE r \in explicit
  <2>1. n.explicit = Append(q.explicit, r) /\ n.background = q.background
        /\ n \in WaitingLists
    BY <1>4, <1>1, <1>2 DEF Observation!Enqueued, WaitingLists
  <2> HIDE DEF n
  <2> QED BY <2>1, <1>2 DEF InList, Once, Observation!NonEmpty, n
<1>5. CASE r \notin explicit
  <2>1. n.background = Append(q.background, r) /\ n.explicit = q.explicit
        /\ n \in WaitingLists
    BY <1>5, <1>1, <1>3 DEF Observation!Enqueued, WaitingLists
  <2> HIDE DEF n
  <2> QED BY <2>1, <1>3 DEF InList, Once, Observation!NonEmpty, n
<1> QED BY <1>4, <1>5

\* The next call of a project is taken.
LEMMA ListTake ==
  ASSUME NEW q \in WaitingLists, Observation!NonEmpty(q), Once(q)
  PROVE  LET n == Observation!WithoutNext(q)
             r == Observation!NextOf(q)
         IN  /\ n \in WaitingLists /\ r \in Requests /\ InList(q, r) /\ Once(n)
             /\ \A x : InList(n, x) <=> InList(q, x) /\ x # r
<1>1. q.explicit \in Seq(Requests) /\ q.background \in Seq(Requests)
  BY DEF WaitingLists
<1>a. \A x : InList(q, x) => x \in Requests
  BY <1>1, Emptiness DEF InList
<1> DEFINE n == Observation!WithoutNext(q)
           r == Observation!NextOf(q)
<1>2. CASE q.explicit # <<>>
  <2>1. n.explicit = Tail(q.explicit) /\ n.background = q.background /\ n \in WaitingLists
        /\ r = Head(q.explicit)
    BY <1>2, <1>1 DEF Observation!WithoutNext, Observation!NextOf, WaitingLists
  <2>2. /\ r \in Requests /\ In(q.explicit, r)
        /\ \A x : In(q.explicit, x) <=> In(n.explicit, x) \/ x = r
        /\ Distinct(q.explicit) => Distinct(n.explicit) /\ ~In(n.explicit, r)
    BY <2>1, <1>1, <1>2, Tailed
  <2> HIDE DEF n, r
  <2>3. \A x : InList(n, x) <=> InList(q, x) /\ x # r
    BY <2>1, <2>2 DEF InList, Once
  <2> QED BY <2>1, <2>2, <2>3 DEF InList, Once, n, r
<1>3. CASE q.explicit = <<>>
  <2>0. q.background # <<>>
    BY <1>3 DEF Observation!NonEmpty
  <2>1. n.background = Tail(q.background) /\ n.explicit = q.explicit /\ n \in WaitingLists
        /\ r = Head(q.background)
    BY <2>0, <1>3, <1>1 DEF Observation!WithoutNext, Observation!NextOf, WaitingLists
  <2>2. /\ r \in Requests /\ In(q.background, r)
        /\ \A x : In(q.background, x) <=> In(n.background, x) \/ x = r
        /\ Distinct(q.background) => Distinct(n.background) /\ ~In(n.background, r)
    BY <2>0, <2>1, <1>1, Tailed
  <2> HIDE DEF n, r
  <2>3. \A x : InList(n, x) <=> InList(q, x) /\ x # r
    BY <2>1, <2>2 DEF InList, Once
  <2> QED BY <2>1, <2>2, <2>3 DEF InList, Once, n, r
<1> QED BY <1>2, <1>3

LEMMA ListEmptiness ==
  ASSUME NEW q \in WaitingLists
  PROVE  Observation!NonEmpty(q) <=> \E r \in Requests : InList(q, r)
<1>1. q.explicit \in Seq(Requests) /\ q.background \in Seq(Requests)
  BY DEF WaitingLists
<1> QED BY <1>1, Emptiness DEF InList, Observation!NonEmpty

-----------------------------------------------------------------------------
(* The observation gate *)

Acquires(r) == [kind |-> "acquire", req |-> r]
Releases(r) == [kind |-> "release", req |-> r]

ObservationTypes ==
  /\ project \in [Requests -> Projects] /\ phase \in [Requests -> Observation!Phases]
  /\ answered \in SUBSET Requests /\ commands \in Seq(Observation!Command)
  /\ queue \in [Projects -> WaitingLists] /\ projects \in Seq(Projects)
  /\ active \in Nat /\ activeProjects \in SUBSET Projects /\ turns \in Nat

\* A call is in one place: new, on its way to the gate, queued there or answered; and
\* only what is over is released, once.
ObservationPlaces ==
  /\ Distinct(commands)
  /\ \A r \in Requests : In(commands, Releases(r)) => phase[r] = "done"
  /\ \A r \in Requests : In(commands, Acquires(r)) =>
       /\ phase[r] # "new" /\ r \notin answered
       /\ \A p \in Projects : ~InList(queue[p], r)
  /\ \A p \in Projects : Once(queue[p])
  /\ \A p \in Projects, r \in Requests : InList(queue[p], r) =>
       phase[r] # "new" /\ r \notin answered /\ project[r] = p
  /\ \A r \in Requests : phase[r] = "new" => r \notin answered
  /\ \A r \in Requests : phase[r] \in {"holding", "done"} => r \in answered

IsCharged(r) == (r \in answered /\ phase[r] # "done") \/ In(commands, Releases(r))

\* The counters agree with the permits that are out, and a turn has a slot.
ObservationAccounts ==
  LET charged == {r \in Requests : IsCharged(r)} IN
  /\ IsFiniteSet(charged) /\ active = Cardinality(charged)
  /\ activeProjects = {project[r] : r \in charged}
  /\ \A r, s \in charged : project[r] = project[s] => r = s
  /\ active <= Slots /\ (turns > 0 => active < Slots)

\* The projects that have calls are listed, once.
ObservationTurns ==
  /\ Distinct(projects)
  /\ \A p \in Projects : In(projects, p) <=> \E r \in Requests : InList(queue[p], r)

ObservationInv ==
  ObservationTypes /\ ObservationPlaces /\ ObservationAccounts /\ ObservationTurns

LEMMA CommandForm ==
  ASSUME NEW c \in Observation!Command
  PROVE  /\ c.req \in Requests
         /\ c.kind = "acquire" => c = Acquires(c.req)
         /\ c.kind = "release" => c = Releases(c.req)
         /\ c.kind \in {"acquire", "release"}
  BY DEF Observation!Command, Acquires, Releases

LEMMA CommandsDiffer ==
  ASSUME NEW r, NEW s
  PROVE  /\ Acquires(r) # Releases(s) /\ Releases(s) # Acquires(r)
         /\ Acquires(r) = Acquires(s) => r = s
         /\ Releases(r) = Releases(s) => r = s
<1>1. Acquires(r).kind = "acquire" /\ Releases(s).kind = "release"
      /\ Acquires(r).req = r /\ Acquires(s).req = s
      /\ Releases(r).req = r /\ Releases(s).req = s
  BY DEF Acquires, Releases
<1> QED BY <1>1

LEMMA CommandsTyped ==
  ASSUME NEW r \in Requests
  PROVE  Acquires(r) \in Observation!Command /\ Releases(r) \in Observation!Command
  BY DEF Acquires, Releases, Observation!Command

LEMMA ObservationStarts == Observation!Init => ObservationInv
<1> SUFFICES ASSUME Observation!Init PROVE ObservationInv
  OBVIOUS
<1> USE DEF Observation!Init
<1>1. \A p \in Projects : queue[p] = [explicit |-> <<>>, background |-> <<>>]
  OBVIOUS
<1>2. \A p \in Projects : \A r : ~InList(queue[p], r)
  <2> SUFFICES ASSUME NEW p \in Projects, NEW r PROVE ~InList(queue[p], r)
    OBVIOUS
  <2>1. queue[p].explicit = <<>> /\ queue[p].background = <<>>
    BY <1>1
  <2> QED BY <2>1, EmptySequence DEF InList
<1>3. \A p \in Projects : Once(queue[p])
  BY <1>1, EmptySequence DEF Once
<1>4. ObservationTypes
  <2>1. [explicit |-> <<>>, background |-> <<>>] \in WaitingLists
    BY DEF WaitingLists
  <2> QED BY <2>1 DEF ObservationTypes, Observation!Phases
<1>5. \A x : ~In(commands, x) /\ ~In(projects, x)
  BY EmptySequence
<1>6. Distinct(commands) /\ Distinct(projects)
  BY EmptySequence
<1>7. {r \in Requests : IsCharged(r)} = {}
  BY <1>5 DEF IsCharged
<1>8. ObservationAccounts
  <2>1. active = 0 /\ activeProjects = {} /\ turns = 0
    OBVIOUS
  <2> QED BY <2>1, <1>7, FS_EmptySet, GateBounds DEF ObservationAccounts
<1>9. \A r \in Requests : phase[r] = "new" /\ r \notin answered
  OBVIOUS
<1> QED BY <1>2, <1>3, <1>4, <1>5, <1>6, <1>8, <1>9
         DEF ObservationInv, ObservationPlaces, ObservationTurns

\* A step that changes no permit keeps the accounts.
LEMMA SameCharges ==
  ASSUME ObservationAccounts, UNCHANGED <<project, active, activeProjects>>,
         \A r \in Requests : IsCharged(r)' <=> IsCharged(r),
         turns' > 0 => active < Slots
  PROVE  ObservationAccounts'
<1>1. {r \in Requests : IsCharged(r)'} = {r \in Requests : IsCharged(r)}
  OBVIOUS
<1> QED BY <1>1 DEF ObservationAccounts

\* The steps of a caller that neither send nor change who is charged.
LEMMA CallerWaits ==
  ASSUME ObservationInv, NEW r \in Requests,
         Observation!Admitted(r) \/ Observation!Expire(r) \/ Observation!DropReceiver(r)
  PROVE  ObservationInv'
<1>1. /\ UNCHANGED <<project, answered, commands, queue, projects, active, activeProjects, turns>>
      /\ \E x \in {"holding", "expired", "gone"} :
           /\ phase' = [phase EXCEPT ![r] = x]
           /\ x = "holding" => r \in answered
      /\ phase[r] \in {"waiting", "expired"}
  BY DEF Observation!Admitted, Observation!Expire, Observation!DropReceiver, Observation!gate
<1>2. PICK x \in {"holding", "expired", "gone"} :
        phase' = [phase EXCEPT ![r] = x] /\ (x = "holding" => r \in answered)
  BY <1>1
<1>t. ObservationTypes
  BY DEF ObservationInv
<1>3. phase'[r] = x /\ \A s \in Requests \ {r} : phase'[s] = phase[s]
  BY <1>2, <1>t DEF ObservationTypes
<1>4. ObservationTypes'
  BY <1>1, <1>2, <1>t DEF ObservationTypes, Observation!Phases
<1>5. \A s \in Requests : IsCharged(s)' <=> IsCharged(s)
  BY <1>1, <1>3 DEF IsCharged
<1>6. ObservationAccounts'
  <2>1. ObservationAccounts /\ (turns' > 0 => active < Slots)
    BY <1>1 DEF ObservationInv, ObservationAccounts
  <2> QED BY <2>1, <1>1, <1>5, SameCharges
<1>7. ObservationPlaces'
  <2>1. ObservationPlaces
    BY DEF ObservationInv
  <2>2. \A s \in Requests : /\ phase'[s] = "new" <=> phase[s] = "new"
                            /\ phase[s] = "done" <=> phase'[s] = "done"
                            /\ phase'[s] = "holding" => s \in answered
    BY <1>1, <1>2, <1>3, <2>1 DEF ObservationPlaces
  <2> QED BY <2>1, <2>2, <1>1 DEF ObservationPlaces
<1>8. ObservationTurns'
  BY <1>1 DEF ObservationInv, ObservationTurns
<1> QED BY <1>4, <1>6, <1>7, <1>8 DEF ObservationInv

\* A call is sent to the gate.
LEMMA CallerAcquires ==
  ASSUME ObservationInv, NEW r \in Requests, Observation!Acquire(r)
  PROVE  ObservationInv'
<1>1. /\ UNCHANGED <<project, answered, queue, projects, active, activeProjects, turns>>
      /\ phase' = [phase EXCEPT ![r] = "waiting"] /\ phase[r] = "new"
      /\ commands' = Append(commands, Acquires(r))
  BY DEF Observation!Acquire, Observation!gate, Observation!Send, Acquires
<1>t. ObservationTypes /\ ObservationPlaces /\ ObservationAccounts /\ ObservationTurns
  BY DEF ObservationInv
<1>3. phase'[r] = "waiting" /\ \A s \in Requests \ {r} : phase'[s] = phase[s]
  BY <1>1, <1>t DEF ObservationTypes
<1>4. ~In(commands, Acquires(r)) /\ ~In(commands, Releases(r)) /\ r \notin answered
      /\ \A p \in Projects : ~InList(queue[p], r)
  BY <1>1, <1>t DEF ObservationPlaces
<1>5. /\ commands' \in Seq(Observation!Command) /\ Distinct(commands')
      /\ \A s : In(commands', Acquires(s)) <=> In(commands, Acquires(s)) \/ s = r
      /\ \A s : In(commands', Releases(s)) <=> In(commands, Releases(s))
  <2>1. Acquires(r) \in Observation!Command /\ commands \in Seq(Observation!Command)
        /\ Distinct(commands)
    BY <1>t, CommandsTyped DEF ObservationTypes, ObservationPlaces
  <2>2. /\ commands' \in Seq(Observation!Command) /\ Distinct(commands')
        /\ \A x : In(commands', x) <=> In(commands, x) \/ x = Acquires(r)
    BY <2>1, <1>1, <1>4, Appended
  <2> QED BY <2>2, CommandsDiffer
<1>6. ObservationTypes'
  BY <1>1, <1>5, <1>t DEF ObservationTypes, Observation!Phases
<1>7. \A s \in Requests : IsCharged(s)' <=> IsCharged(s)
  BY <1>1, <1>3, <1>4, <1>5 DEF IsCharged
<1>8. ObservationAccounts'
  <2>1. turns' > 0 => active < Slots
    BY <1>1, <1>t DEF ObservationAccounts
  <2> QED BY <2>1, <1>1, <1>7, <1>t, SameCharges
<1>9. ObservationPlaces'
  <2>1. \A s \in Requests : In(commands', Releases(s)) => phase'[s] = "done"
    BY <1>3, <1>4, <1>5, <1>t DEF ObservationPlaces
  <2>2. \A s \in Requests : In(commands', Acquires(s)) =>
          /\ phase'[s] # "new" /\ s \notin answered'
          /\ \A p \in Projects : ~InList(queue'[p], s)
    BY <1>1, <1>3, <1>4, <1>5, <1>t DEF ObservationPlaces
  <2>3. \A p \in Projects, s \in Requests : InList(queue'[p], s) =>
          phase'[s] # "new" /\ s \notin answered' /\ project'[s] = p
    BY <1>1, <1>3, <1>4, <1>t DEF ObservationPlaces
  <2>4. \A s \in Requests : /\ phase'[s] = "new" => s \notin answered'
                            /\ phase'[s] \in {"holding", "done"} => s \in answered'
    BY <1>1, <1>3, <1>t DEF ObservationPlaces
  <2>5. \A p \in Projects : Once(queue'[p])
    BY <1>1, <1>t DEF ObservationPlaces
  <2> QED BY <2>1, <2>2, <2>3, <2>4, <2>5, <1>5 DEF ObservationPlaces
<1>10. ObservationTurns'
  BY <1>1, <1>t DEF ObservationTurns
<1> QED BY <1>6, <1>8, <1>9, <1>10 DEF ObservationInv

\* A permit is dropped: its release is on its way.
LEMMA CallerDrops ==
  ASSUME ObservationInv, NEW r \in Requests, Observation!DropPermit(r)
  PROVE  ObservationInv'
<1>1. /\ UNCHANGED <<project, answered, queue, projects, active, activeProjects, turns>>
      /\ phase' = [phase EXCEPT ![r] = "done"] /\ phase[r] = "holding"
      /\ commands' = Append(commands, Releases(r))
  BY DEF Observation!DropPermit, Observation!gate, Observation!Send, Releases
<1>t. ObservationTypes /\ ObservationPlaces /\ ObservationAccounts /\ ObservationTurns
  BY DEF ObservationInv
<1>3. phase'[r] = "done" /\ \A s \in Requests \ {r} : phase'[s] = phase[s]
  BY <1>1, <1>t DEF ObservationTypes
<1>4. r \in answered /\ ~In(commands, Releases(r))
  BY <1>1, <1>t DEF ObservationPlaces
<1>5. /\ commands' \in Seq(Observation!Command) /\ Distinct(commands')
      /\ \A s : In(commands', Releases(s)) <=> In(commands, Releases(s)) \/ s = r
      /\ \A s : In(commands', Acquires(s)) <=> In(commands, Acquires(s))
  <2>1. Releases(r) \in Observation!Command /\ commands \in Seq(Observation!Command)
        /\ Distinct(commands)
    BY <1>t, CommandsTyped DEF ObservationTypes, ObservationPlaces
  <2>2. /\ commands' \in Seq(Observation!Command) /\ Distinct(commands')
        /\ \A x : In(commands', x) <=> In(commands, x) \/ x = Releases(r)
    BY <2>1, <1>1, <1>4, Appended
  <2> QED BY <2>2, CommandsDiffer
<1>6. ObservationTypes'
  BY <1>1, <1>5, <1>t DEF ObservationTypes, Observation!Phases
<1>7. \A s \in Requests : IsCharged(s)' <=> IsCharged(s)
  BY <1>1, <1>3, <1>4, <1>5 DEF IsCharged
<1>8. ObservationAccounts'
  <2>1. turns' > 0 => active < Slots
    BY <1>1, <1>t DEF ObservationAccounts
  <2> QED BY <2>1, <1>1, <1>7, <1>t, SameCharges
<1>9. ObservationPlaces'
  <2>1. \A s \in Requests : In(commands', Releases(s)) => phase'[s] = "done"
    BY <1>3, <1>4, <1>5, <1>t DEF ObservationPlaces
  <2>2. \A s \in Requests : In(commands', Acquires(s)) =>
          /\ phase'[s] # "new" /\ s \notin answered'
          /\ \A p \in Projects : ~InList(queue'[p], s)
    BY <1>1, <1>3, <1>4, <1>5, <1>t DEF ObservationPlaces
  <2>3. \A p \in Projects, s \in Requests : InList(queue'[p], s) =>
          phase'[s] # "new" /\ s \notin answered' /\ project'[s] = p
    BY <1>1, <1>3, <1>4, <1>t DEF ObservationPlaces
  <2>4. \A s \in Requests : /\ phase'[s] = "new" => s \notin answered'
                            /\ phase'[s] \in {"holding", "done"} => s \in answered'
    BY <1>1, <1>3, <1>4, <1>t DEF ObservationPlaces
  <2>5. \A p \in Projects : Once(queue'[p])
    BY <1>1, <1>t DEF ObservationPlaces
  <2> QED BY <2>1, <2>2, <2>3, <2>4, <2>5, <1>5 DEF ObservationPlaces
<1>10. ObservationTurns'
  BY <1>1, <1>t DEF ObservationTurns
<1> QED BY <1>6, <1>8, <1>9, <1>10 DEF ObservationInv

\* The head project gives its next call, and is listed again if it has more.
LEMMA TurnTaken ==
  ASSUME ObservationInv, NEW p \in Projects, Observation!TakesTurn(p)
  PROVE  LET r == Observation!NextOf(queue[p]) IN
         /\ r \in Requests /\ InList(queue[p], r) /\ turns > 0 /\ p \notin activeProjects
         /\ queue' \in [Projects -> WaitingLists] /\ projects' \in Seq(Projects)
         /\ \A q \in Projects : Once(queue'[q])
         /\ \A q \in Projects, x \in Requests :
              InList(queue'[q], x) <=> InList(queue[q], x) /\ x # r
         /\ ObservationTurns'
         /\ projects' = Observation!Relisted(queue[p])
<1> DEFINE r == Observation!NextOf(queue[p])
           n == Observation!WithoutNext(queue[p])
<1>t. ObservationTypes /\ ObservationPlaces /\ ObservationTurns
  BY DEF ObservationInv
<1>1. /\ turns > 0 /\ projects # <<>> /\ p = Head(projects) /\ p \notin activeProjects
      /\ Observation!NonEmpty(queue[p])
      /\ queue' = [queue EXCEPT ![p] = n] /\ projects' = Observation!Relisted(queue[p])
  BY DEF Observation!TakesTurn
<1>2. queue[p] \in WaitingLists /\ Once(queue[p])
  BY <1>t DEF ObservationTypes, ObservationPlaces
<1>3. /\ n \in WaitingLists /\ r \in Requests /\ InList(queue[p], r) /\ Once(n)
      /\ \A x : InList(n, x) <=> InList(queue[p], x) /\ x # r
  BY <1>1, <1>2, ListTake
<1>n. Observation!NonEmpty(n) <=> \E x \in Requests : InList(n, x)
  BY <1>3, ListEmptiness
<1>l. projects' = IF Observation!NonEmpty(n) THEN Append(Tail(projects), Head(projects))
                                             ELSE Tail(projects)
  BY <1>1 DEF Observation!Relisted
<1> HIDE DEF n, r
<1>4. queue' \in [Projects -> WaitingLists] /\ queue'[p] = n
      /\ \A q \in Projects \ {p} : queue'[q] = queue[q]
  BY <1>1, <1>3, <1>t DEF ObservationTypes
<1>5. \A q \in Projects : Once(queue'[q])
  BY <1>3, <1>4, <1>t DEF ObservationPlaces
<1>6. ASSUME NEW q \in Projects, NEW x \in Requests
      PROVE  InList(queue'[q], x) <=> InList(queue[q], x) /\ x # r
  <2>1. CASE q = p
    BY <2>1, <1>3, <1>4
  <2>2. CASE q # p
    <3>1. ~InList(queue[q], r)
      BY <2>2, <1>3, <1>t DEF ObservationPlaces
    <3> QED BY <3>1, <2>2, <1>4
  <2> QED BY <2>1, <2>2
<1>7. projects' \in Seq(Projects) /\ ObservationTurns'
  <2>0. projects \in Seq(Projects) /\ Distinct(projects)
    BY <1>t DEF ObservationTypes, ObservationTurns
  <2>1. /\ Tail(projects) \in Seq(Projects) /\ Distinct(Tail(projects))
        /\ ~In(Tail(projects), p)
        /\ \A q : In(projects, q) <=> In(Tail(projects), q) \/ q = p
    BY <2>0, <1>1, Tailed
  <2>2. /\ Append(Tail(projects), p) \in Seq(Projects) /\ Distinct(Append(Tail(projects), p))
        /\ \A q : In(Append(Tail(projects), p), q) <=> In(Tail(projects), q) \/ q = p
    BY <2>1, Appended
  <2>3. \A q \in Projects : In(projects, q) <=> \E x \in Requests : InList(queue[q], x)
    BY <1>t DEF ObservationTurns
  <2>4. CASE Observation!NonEmpty(n)
    <3>1. projects' = Append(Tail(projects), p)
      BY <2>4, <1>l, <1>1
    <3>2. ASSUME NEW q \in Projects
          PROVE  In(projects', q) <=> \E x \in Requests : InList(queue'[q], x)
      <4>1. CASE q = p
        BY <4>1, <3>1, <2>2, <2>4, <1>n, <1>4
      <4>2. CASE q # p
        BY <4>2, <3>1, <2>1, <2>2, <2>3, <1>4
      <4> QED BY <4>1, <4>2
    <3> QED BY <3>1, <3>2, <2>2 DEF ObservationTurns
  <2>5. CASE ~Observation!NonEmpty(n)
    <3>1. projects' = Tail(projects)
      BY <2>5, <1>l
    <3>2. ASSUME NEW q \in Projects
          PROVE  In(projects', q) <=> \E x \in Requests : InList(queue'[q], x)
      <4>1. CASE q = p
        BY <4>1, <3>1, <2>1, <2>5, <1>n, <1>4
      <4>2. CASE q # p
        BY <4>2, <3>1, <2>1, <2>3, <1>4
      <4> QED BY <4>1, <4>2
    <3> QED BY <3>1, <3>2, <2>1 DEF ObservationTurns
  <2> QED BY <2>4, <2>5
<1> QED BY <1>1, <1>3, <1>4, <1>5, <1>6, <1>7 DEF r

\* The next call of the project has given up.
LEMMA GateSkipsGone ==
  ASSUME ObservationInv, NEW p \in Projects, Observation!SkipGone(p)
  PROVE  ObservationInv'
<1> DEFINE r == Observation!NextOf(queue[p])
<1>t. ObservationTypes /\ ObservationPlaces /\ ObservationAccounts
  BY DEF ObservationInv
<1>1. /\ UNCHANGED <<project, phase, answered, commands, active, activeProjects>>
      /\ turns' = turns - 1 /\ Observation!TakesTurn(p)
  BY DEF Observation!SkipGone, Observation!callers
<1>2. /\ r \in Requests /\ turns > 0
      /\ queue' \in [Projects -> WaitingLists] /\ projects' \in Seq(Projects)
      /\ \A q \in Projects : Once(queue'[q])
      /\ \A q \in Projects, x \in Requests :
           InList(queue'[q], x) <=> InList(queue[q], x) /\ x # r
      /\ ObservationTurns'
  BY <1>1, TurnTaken
<1> HIDE DEF r
<1>3. ObservationTypes'
  BY <1>1, <1>2, <1>t DEF ObservationTypes
<1>4. ObservationPlaces'
  BY <1>1, <1>2, <1>t DEF ObservationPlaces
<1>5. ObservationAccounts'
  <2>1. turns' > 0 => active < Slots
    BY <1>1, <1>2, <1>t DEF ObservationAccounts
  <2>2. \A s \in Requests : IsCharged(s)' <=> IsCharged(s)
    BY <1>1 DEF IsCharged
  <2> QED BY <2>1, <2>2, <1>1, <1>t, SameCharges
<1> QED BY <1>2, <1>3, <1>4, <1>5 DEF ObservationInv

\* The next call of the project is answered and takes a slot.
LEMMA GateGrants ==
  ASSUME ObservationInv, NEW p \in Projects, Observation!Grant(p)
  PROVE  ObservationInv'
<1> DEFINE r == Observation!NextOf(queue[p])
           charged == {s \in Requests : IsCharged(s)}
<1>t. ObservationTypes /\ ObservationPlaces /\ ObservationAccounts
  BY DEF ObservationInv
<1>1. /\ UNCHANGED <<project, phase, commands>> /\ Observation!TakesTurn(p)
      /\ phase[r] \in {"waiting", "expired"}
      /\ answered' = answered \cup {r} /\ active' = active + 1
      /\ activeProjects' = activeProjects \cup {p}
      /\ turns' = IF active + 1 < Slots THEN Len(Observation!Relisted(queue[p])) ELSE 0
  BY DEF Observation!Grant, Observation!Listening, Observation!StartTurns
<1>2. /\ r \in Requests /\ InList(queue[p], r) /\ turns > 0 /\ p \notin activeProjects
      /\ queue' \in [Projects -> WaitingLists] /\ projects' \in Seq(Projects)
      /\ \A q \in Projects : Once(queue'[q])
      /\ \A q \in Projects, x \in Requests :
           InList(queue'[q], x) <=> InList(queue[q], x) /\ x # r
      /\ ObservationTurns' /\ projects' = Observation!Relisted(queue[p])
  BY <1>1, TurnTaken
<1> HIDE DEF r
<1>a. turns' = IF active + 1 < Slots THEN Len(projects') ELSE 0
  BY <1>1, <1>2
<1>b. Len(projects') \in Nat
  BY <1>2
<1>3. ObservationTypes'
  BY <1>1, <1>2, <1>a, <1>b, <1>t DEF ObservationTypes
<1>4. project[r] = p /\ r \notin answered /\ phase[r] # "new" /\ ~In(commands, Acquires(r))
      /\ ~In(commands, Releases(r))
  BY <1>1, <1>2, <1>t DEF ObservationPlaces
<1>5. ObservationPlaces'
  BY <1>1, <1>2, <1>4, <1>t DEF ObservationPlaces
<1>6. r \notin charged /\ \A s \in charged : project[s] # p
  <2>1. activeProjects = {project[s] : s \in charged}
    BY <1>t DEF ObservationAccounts
  <2> QED BY <2>1, <1>2, <1>4
<1>7. {s \in Requests : IsCharged(s)'} = charged \cup {r}
  BY <1>1, <1>2 DEF IsCharged
<1>8. ObservationAccounts'
  <2>1. /\ IsFiniteSet(charged) /\ active = Cardinality(charged)
        /\ activeProjects = {project[s] : s \in charged}
        /\ \A x, y \in charged : project[x] = project[y] => x = y
        /\ active < Slots /\ active \in Nat
    BY <1>2, <1>t DEF ObservationAccounts, ObservationTypes
  <2> HIDE DEF charged
  <2>2. IsFiniteSet(charged \cup {r}) /\ Cardinality(charged \cup {r}) = active + 1
    BY <2>1, <1>6, FS_AddElement
  <2>3. activeProjects' = {project'[s] : s \in charged \cup {r}}
    BY <2>1, <1>1, <1>4
  <2>4. \A x, y \in charged \cup {r} : project'[x] = project'[y] => x = y
    BY <2>1, <1>1, <1>4, <1>6
  <2>5. active' <= Slots /\ (turns' > 0 => active' < Slots)
    BY <2>1, <1>1, <1>a, GateBounds
  <2> QED BY <2>2, <2>3, <2>4, <2>5, <1>1, <1>7 DEF ObservationAccounts
<1> QED BY <1>2, <1>3, <1>5, <1>8 DEF ObservationInv

\* The head project has an observation running.
LEMMA GateSkipsActive ==
  ASSUME ObservationInv, Observation!SkipActive
  PROVE  ObservationInv'
<1>t. ObservationTypes /\ ObservationPlaces /\ ObservationAccounts /\ ObservationTurns
  BY DEF ObservationInv
<1>1. /\ UNCHANGED <<project, phase, answered, commands, queue, active, activeProjects>>
      /\ turns' = turns - 1 /\ turns > 0 /\ projects # <<>>
      /\ projects' = Append(Tail(projects), Head(projects))
  BY DEF Observation!SkipActive, Observation!callers
<1>2. /\ projects' \in Seq(Projects) /\ \A x : In(projects', x) <=> In(projects, x)
      /\ Distinct(projects')
  <2>1. projects \in Seq(Projects) /\ Distinct(projects)
    BY <1>t DEF ObservationTypes, ObservationTurns
  <2> QED BY <2>1, <1>1, Rotated
<1>3. ObservationTypes'
  BY <1>1, <1>2, <1>t DEF ObservationTypes
<1>4. ObservationPlaces'
  BY <1>1, <1>t DEF ObservationPlaces
<1>5. ObservationAccounts'
  <2>1. turns' > 0 => active < Slots
    BY <1>1, <1>t DEF ObservationAccounts
  <2>2. \A s \in Requests : IsCharged(s)' <=> IsCharged(s)
    BY <1>1 DEF IsCharged
  <2> QED BY <2>1, <2>2, <1>1, <1>t, SameCharges
<1>6. ObservationTurns'
  BY <1>1, <1>2, <1>t DEF ObservationTurns
<1> QED BY <1>3, <1>4, <1>5, <1>6 DEF ObservationInv

\* What is left in the channel when its head is received.
LEMMA CommandTaken ==
  ASSUME ObservationTypes, Distinct(commands), commands # <<>>, commands' = Tail(commands)
  PROVE  LET c == Head(commands) IN
         /\ c \in Observation!Command /\ In(commands, c) /\ ~In(commands', c)
         /\ commands' \in Seq(Observation!Command) /\ Distinct(commands')
         /\ \A x : In(commands', x) <=> In(commands, x) /\ x # c
<1>1. commands \in Seq(Observation!Command)
  BY DEF ObservationTypes
<1>2. LET s == commands
          t == Tail(commands)
      IN  /\ Head(s) \in Observation!Command /\ t \in Seq(Observation!Command)
          /\ In(s, Head(s))
          /\ \A x : In(s, x) <=> In(t, x) \/ x = Head(s)
          /\ Distinct(t) /\ ~In(t, Head(s))
  BY <1>1, Tailed
<1> QED BY <1>2

\* A call is queued under its project.
LEMMA GateReceivesAcquire ==
  ASSUME ObservationInv, Observation!ReceiveAcquire
  PROVE  ObservationInv'
<1> DEFINE r == Head(commands).req
           p == project[r]
           n == Observation!Enqueued(queue[p], r)
<1>t. ObservationTypes /\ ObservationPlaces /\ ObservationAccounts /\ ObservationTurns
  BY DEF ObservationInv
<1>1. /\ UNCHANGED <<project, phase, answered, active, activeProjects>>
      /\ commands # <<>> /\ Head(commands).kind = "acquire"
      /\ commands' = Tail(commands) /\ queue' = [queue EXCEPT ![p] = n]
      /\ projects' = (IF Observation!Contains(projects, p) THEN projects
                                                           ELSE Append(projects, p))
      /\ turns' = IF active < Slots THEN Len(projects') ELSE 0
  BY DEF Observation!ReceiveAcquire, Observation!callers, Observation!StartTurns
<1>2. /\ Head(commands) \in Observation!Command
      /\ In(commands, Head(commands))
      /\ commands' \in Seq(Observation!Command) /\ Distinct(commands')
      /\ \A x : In(commands', x) <=> In(commands, x) /\ x # Head(commands)
  <2>1. Distinct(commands)
    BY <1>t DEF ObservationPlaces
  <2> QED BY <2>1, <1>1, <1>t, CommandTaken
<1>3. r \in Requests /\ Head(commands) = Acquires(r)
  BY <1>1, <1>2, CommandForm
<1>4. p \in Projects /\ queue[p] \in WaitingLists /\ Once(queue[p])
  BY <1>3, <1>t DEF ObservationTypes, ObservationPlaces
<1>5. /\ n \in WaitingLists /\ \A x : InList(n, x) <=> InList(queue[p], x) \/ x = r
      /\ ~InList(queue[p], r) => Once(n)
  BY <1>3, <1>4, ListAdd
<1>6. phase[r] # "new" /\ r \notin answered /\ \A q \in Projects : ~InList(queue[q], r)
  BY <1>2, <1>3, <1>t DEF ObservationPlaces
<1> HIDE DEF n
<1>7. queue' \in [Projects -> WaitingLists] /\ queue'[p] = n
      /\ \A q \in Projects \ {p} : queue'[q] = queue[q]
  BY <1>1, <1>4, <1>5, <1>t DEF ObservationTypes
<1>8. /\ projects' \in Seq(Projects) /\ Distinct(projects')
      /\ \A q : In(projects', q) <=> In(projects, q) \/ q = p
  <2>1. projects \in Seq(Projects) /\ Distinct(projects)
    BY <1>t DEF ObservationTypes, ObservationTurns
  <2>2. Observation!Contains(projects, p) <=> In(projects, p)
    BY DEF Observation!Contains, In
  <2>3. CASE In(projects, p)
    BY <2>1, <2>2, <2>3, <1>1
  <2>4. CASE ~In(projects, p)
    <3>1. projects' = Append(projects, p)
      BY <2>2, <2>4, <1>1
    <3> QED BY <3>1, <2>1, <2>4, <1>4, Appended
  <2> QED BY <2>3, <2>4
<1>9. ObservationTypes'
  <2>1. turns' \in Nat
    BY <1>1, <1>8
  <2> QED BY <2>1, <1>1, <1>2, <1>7, <1>8, <1>t DEF ObservationTypes
<1>10. \A s \in Requests : /\ In(commands', Releases(s)) <=> In(commands, Releases(s))
                           /\ In(commands', Acquires(s)) <=> In(commands, Acquires(s)) /\ s # r
  BY <1>2, <1>3, CommandsDiffer
<1>11. \A q \in Projects, x \in Requests :
         InList(queue'[q], x) <=> InList(queue[q], x) \/ (q = p /\ x = r)
  BY <1>5, <1>7
<1>12. ObservationPlaces'
  <2>1. \A q \in Projects : Once(queue'[q])
    BY <1>4, <1>5, <1>6, <1>7, <1>t DEF ObservationPlaces
  <2>2. \A s \in Requests : In(commands', Acquires(s)) =>
          /\ phase'[s] # "new" /\ s \notin answered'
          /\ \A q \in Projects : ~InList(queue'[q], s)
    BY <1>1, <1>10, <1>11, <1>t DEF ObservationPlaces
  <2>3. \A q \in Projects, s \in Requests : InList(queue'[q], s) =>
          phase'[s] # "new" /\ s \notin answered' /\ project'[s] = q
    BY <1>1, <1>6, <1>11, <1>t DEF ObservationPlaces
  <2> QED BY <2>1, <2>2, <2>3, <1>1, <1>2, <1>10, <1>t DEF ObservationPlaces
<1>13. ObservationAccounts'
  <2>1. turns' > 0 => active < Slots
    BY <1>1
  <2>2. \A s \in Requests : IsCharged(s)' <=> IsCharged(s)
    BY <1>1, <1>10 DEF IsCharged
  <2> QED BY <2>1, <2>2, <1>1, <1>t, SameCharges
<1>14. ObservationTurns'
  <2>1. ASSUME NEW q \in Projects
        PROVE  In(projects', q) <=> \E x \in Requests : InList(queue'[q], x)
    <3>1. In(projects, q) <=> \E x \in Requests : InList(queue[q], x)
      BY <1>t DEF ObservationTurns
    <3> HIDE DEF p, r
    <3> QED BY <3>1, <1>8, <1>11, <1>3
  <2> QED BY <2>1, <1>8 DEF ObservationTurns
<1> QED BY <1>9, <1>12, <1>13, <1>14 DEF ObservationInv

\* A permit comes back.
LEMMA GateReceivesRelease ==
  ASSUME ObservationInv, Observation!ReceiveRelease
  PROVE  ObservationInv'
<1> DEFINE r == Head(commands).req
           freed == IF active = 0 THEN 0 ELSE active - 1
           charged == {s \in Requests : IsCharged(s)}
<1>t. ObservationTypes /\ ObservationPlaces /\ ObservationAccounts /\ ObservationTurns
  BY DEF ObservationInv
<1>1. /\ UNCHANGED <<project, phase, answered, queue, projects>>
      /\ commands # <<>> /\ Head(commands).kind = "release"
      /\ commands' = Tail(commands) /\ active' = freed
      /\ activeProjects' = activeProjects \ {project[r]}
      /\ turns' = IF freed < Slots THEN Len(projects) ELSE 0
  BY DEF Observation!ReceiveRelease, Observation!callers, Observation!StartTurns
<1>2. /\ Head(commands) \in Observation!Command
      /\ In(commands, Head(commands))
      /\ commands' \in Seq(Observation!Command) /\ Distinct(commands')
      /\ \A x : In(commands', x) <=> In(commands, x) /\ x # Head(commands)
  <2>1. Distinct(commands)
    BY <1>t DEF ObservationPlaces
  <2> QED BY <2>1, <1>1, <1>t, CommandTaken
<1>3. r \in Requests /\ Head(commands) = Releases(r)
  BY <1>1, <1>2, CommandForm
<1>4. phase[r] = "done" /\ IsCharged(r)
  BY <1>2, <1>3, <1>t DEF ObservationPlaces, IsCharged
<1>5. \A s \in Requests : /\ In(commands', Releases(s)) <=> In(commands, Releases(s)) /\ s # r
                          /\ In(commands', Acquires(s)) <=> In(commands, Acquires(s))
  BY <1>2, <1>3, CommandsDiffer
<1> HIDE DEF r
<1>6. {s \in Requests : IsCharged(s)'} = charged \ {r}
  BY <1>1, <1>4, <1>5 DEF IsCharged
<1>7. ObservationAccounts' /\ active' \in Nat /\ turns' \in Nat
  <2>1. /\ IsFiniteSet(charged) /\ active = Cardinality(charged)
        /\ activeProjects = {project[s] : s \in charged}
        /\ \A x, y \in charged : project[x] = project[y] => x = y
        /\ active <= Slots /\ active \in Nat /\ Len(projects) \in Nat
    BY <1>t DEF ObservationAccounts, ObservationTypes
  <2>2. r \in charged
    BY <1>3, <1>4
  <2> HIDE DEF charged
  <2>3. IsFiniteSet(charged \ {r}) /\ Cardinality(charged \ {r}) = active - 1
        /\ Cardinality(charged \ {r}) \in Nat
    BY <2>1, <2>2, FS_RemoveElement, FS_CardinalityType
  <2>4. active' = active - 1 /\ active' \in Nat
    BY <2>1, <2>3, <1>1
  <2>5. activeProjects' = {project'[s] : s \in charged \ {r}}
    BY <2>1, <2>2, <1>1
  <2>6. \A x, y \in charged \ {r} : project'[x] = project'[y] => x = y
    BY <2>1, <1>1
  <2>7. active' <= Slots /\ (turns' > 0 => active' < Slots) /\ turns' \in Nat
    BY <2>1, <2>4, <1>1, GateBounds
  <2> QED BY <2>3, <2>4, <2>5, <2>6, <2>7, <1>6 DEF ObservationAccounts
<1>8. ObservationTypes'
  BY <1>1, <1>2, <1>7, <1>t DEF ObservationTypes
<1>9. ObservationPlaces'
  BY <1>1, <1>2, <1>5, <1>t DEF ObservationPlaces
<1>10. ObservationTurns'
  BY <1>1, <1>t DEF ObservationTurns
<1> QED BY <1>7, <1>8, <1>9, <1>10 DEF ObservationInv

LEMMA ObservationPreserved == ObservationInv /\ Observation!Next => ObservationInv'
<1> SUFFICES ASSUME ObservationInv, Observation!Next PROVE ObservationInv'
  OBVIOUS
<1>1. CASE Observation!ReceiveAcquire
  BY <1>1, GateReceivesAcquire
<1>2. CASE Observation!ReceiveRelease
  BY <1>2, GateReceivesRelease
<1>3. CASE Observation!SkipActive
  BY <1>3, GateSkipsActive
<1>4. ASSUME NEW p \in Projects, Observation!Grant(p) PROVE ObservationInv'
  BY <1>4, GateGrants
<1>5. ASSUME NEW p \in Projects, Observation!SkipGone(p) PROVE ObservationInv'
  BY <1>5, GateSkipsGone
<1>6. ASSUME NEW r \in Requests, Observation!Acquire(r) PROVE ObservationInv'
  BY <1>6, CallerAcquires
<1>7. ASSUME NEW r \in Requests, Observation!DropPermit(r) PROVE ObservationInv'
  BY <1>7, CallerDrops
<1>8. ASSUME NEW r \in Requests,
             Observation!Admitted(r) \/ Observation!Expire(r) \/ Observation!DropReceiver(r)
      PROVE  ObservationInv'
  BY <1>8, CallerWaits
<1> QED BY <1>1, <1>2, <1>3, <1>4, <1>5, <1>6, <1>7, <1>8
         DEF Observation!Next, Observation!GateStep, Observation!CallerStep

LEMMA SameCardinality ==
  \A S : Observation!Cardinality(S) = Cardinality(S) /\ Resume!Cardinality(S) = Cardinality(S)
  BY DEF Observation!Cardinality, Resume!Cardinality, Cardinality

\* What the invariant says in the words of the module.
LEMMA ObservationSound ==
  ASSUME ObservationInv
  PROVE  /\ Observation!ObservationsBounded /\ Observation!CountsMatchPermits
         /\ Observation!EveryQueueListed
<1> DEFINE charged == {r \in Requests : IsCharged(r)}
<1>t. ObservationTypes /\ ObservationPlaces /\ ObservationAccounts /\ ObservationTurns
  BY DEF ObservationInv
<1>1. /\ Observation!Permits \cup Observation!Leaked = charged
      /\ Observation!Permits \cap Observation!Leaked = {}
  <2>1. \A r \in Requests : In(commands, Releases(r)) <=>
          \E i \in DOMAIN commands : commands[i] = [kind |-> "release", req |-> r]
    <3>1. DOMAIN commands = 1..Len(commands)
      BY <1>t DEF ObservationTypes
    <3> QED BY <3>1 DEF In, Releases
  <2>2. answered \in SUBSET Requests
    BY <1>t DEF ObservationTypes
  <2>3. \A r \in answered :
          phase[r] # "done" <=> phase[r] \in {"waiting", "holding", "expired", "gone"}
    BY <2>2, <1>t DEF ObservationTypes, ObservationPlaces, Observation!Phases
  <2>4. \A r \in Requests : In(commands, Releases(r)) => phase[r] = "done"
    BY <1>t DEF ObservationPlaces
  <2>5. Observation!Permits \cup Observation!Leaked = charged
    BY <2>1, <2>2, <2>3 DEF Observation!Permits, Observation!Leaked, IsCharged
  <2>6. Observation!Permits \cap Observation!Leaked = {}
    BY <2>1, <2>2, <2>4 DEF Observation!Permits, Observation!Leaked
  <2> QED BY <2>5, <2>6
<1>2. /\ IsFiniteSet(charged) /\ active = Cardinality(charged)
      /\ activeProjects = {project[r] : r \in charged}
      /\ \A r, s \in charged : project[r] = project[s] => r = s
      /\ active <= Slots /\ active \in Nat
  BY <1>t DEF ObservationAccounts, ObservationTypes
<1>3. Observation!Holders \in SUBSET charged
  BY <1>t DEF Observation!Holders, IsCharged, ObservationPlaces
<1> HIDE DEF charged
<1>4. Cardinality(Observation!Holders) <= Slots
  <2>1. /\ Cardinality(Observation!Holders) <= active
        /\ Cardinality(Observation!Holders) \in Nat
    BY <1>2, <1>3, FS_Subset, FS_CardinalityType
  <2> QED BY <2>1, <1>2, GateBounds
<1>5. Observation!ObservationsBounded
  BY <1>2, <1>3, <1>4, SameCardinality DEF Observation!ObservationsBounded
<1>6. Observation!CountsMatchPermits
  <2>1. /\ IsFiniteSet(Observation!Permits) /\ IsFiniteSet(Observation!Leaked)
        /\ Cardinality(Observation!Permits) \in Nat /\ Cardinality(Observation!Leaked) \in Nat
    BY <1>1, <1>2, FS_Subset, FS_CardinalityType
  <2>2. Cardinality(charged) =
          Cardinality(Observation!Permits) + Cardinality(Observation!Leaked)
    BY <2>1, <1>1, FS_Union, FS_EmptySet
  <2> QED BY <2>2, <1>1, <1>2, SameCardinality DEF Observation!CountsMatchPermits
<1>7. Observation!EveryQueueListed
  <2>1. \A p \in Projects : Observation!NonEmpty(queue[p]) <=> Observation!Contains(projects, p)
    <3> SUFFICES ASSUME NEW p \in Projects
                 PROVE  Observation!NonEmpty(queue[p]) <=> Observation!Contains(projects, p)
      OBVIOUS
    <3>1. queue[p] \in WaitingLists
      BY <1>t DEF ObservationTypes
    <3>2. Observation!Contains(projects, p) <=> In(projects, p)
      BY DEF Observation!Contains, In
    <3> QED BY <3>1, <3>2, <1>t, ListEmptiness DEF ObservationTurns
  <2>2. DOMAIN projects = 1..Len(projects)
    BY <1>t DEF ObservationTypes
  <2>3. \A i, j \in DOMAIN projects : projects[i] = projects[j] => i = j
    BY <2>2, <1>t DEF ObservationTurns, Distinct
  <2> QED BY <2>1, <2>3 DEF Observation!EveryQueueListed
<1> QED BY <1>5, <1>6, <1>7

-----------------------------------------------------------------------------
(* The resume gate *)

Stops == [kind |-> "shutdown"]

ResumeTypes ==
  /\ admitted \in Nat /\ stopped \in BOOLEAN /\ commands \in Seq(Resume!Command)
  /\ project \in [Requests -> Projects] /\ phase \in [Requests -> Resume!Phases]
  /\ answer \in [Requests -> {"none", "ready", "dropped"}]
  /\ queue \in [Projects -> Seq(Requests)] /\ projects \in Seq(Projects) /\ active \in Nat

\* An attempt is in one place: on its way to the gate, queued there or answered; and only
\* what is over is released, once.
ResumePlaces ==
  /\ Distinct(commands)
  /\ In(commands, Stops) => shutdown \in {"waiting", "returned"}
  /\ \A r \in Requests : In(commands, Releases(r)) => phase[r] = "done"
  /\ \A r \in Requests : In(commands, Acquires(r)) =>
       /\ phase[r] \in {"waiting", "gone"} /\ answer[r] = "none"
       /\ \A p \in Projects : ~In(queue[p], r)
  /\ \A p \in Projects : Distinct(queue[p])
  /\ \A p \in Projects, r \in Requests : In(queue[p], r) =>
       phase[r] \in {"waiting", "gone"} /\ answer[r] = "none" /\ project[r] = p
  /\ \A r \in Requests : phase[r] \in {"new", "checked", "counted"} => answer[r] = "none"
  /\ \A r \in Requests : phase[r] \in {"holding", "done"} => answer[r] = "ready"

IsQueued(r) == \E p \in Projects : In(queue[p], r)
HasSlot(r) == (answer[r] = "ready" /\ phase[r] # "done") \/ In(commands, Releases(r))
IsCounted(r) ==
  phase[r] = "counted" \/ In(commands, Acquires(r)) \/ IsQueued(r) \/ HasSlot(r)

\* The counters agree with the attempts.
ResumeAccounts ==
  LET counted == {r \in Requests : IsCounted(r)}
      slots == {r \in Requests : HasSlot(r)}
  IN  /\ IsFiniteSet(counted) /\ admitted = Cardinality(counted)
      /\ IsFiniteSet(slots) /\ active = Cardinality(slots) /\ active <= MaxActive

\* The projects that have attempts are listed, once.
ResumeTurns ==
  /\ Distinct(projects)
  /\ \A p \in Projects : In(projects, p) <=> \E r \in Requests : In(queue[p], r)

\* Once shutdown() has returned nothing has a slot, and the gate stays stopped.
ResumeStopped ==
  shutdown = "returned" =>
    stopped /\ \A r \in Requests : answer[r] = "ready" => phase[r] = "done"

ResumeInv == ResumeTypes /\ ResumePlaces /\ ResumeAccounts /\ ResumeTurns /\ ResumeStopped

LEMMA ResumeCommandForm ==
  ASSUME NEW c \in Resume!Command
  PROVE  /\ c.kind = "acquire" => c.req \in Requests /\ c = Acquires(c.req)
         /\ c.kind = "release" => c.req \in Requests /\ c = Releases(c.req)
         /\ c.kind = "shutdown" => c = Stops
         /\ c.kind \in {"acquire", "release", "shutdown"}
<1>1. CASE c \in [kind : {"acquire", "release"}, req : Requests]
  BY <1>1 DEF Acquires, Releases
<1>2. CASE c = [kind |-> "shutdown"]
  BY <1>2 DEF Stops
<1> QED BY <1>1, <1>2 DEF Resume!Command

LEMMA StopsDiffers ==
  ASSUME NEW r
  PROVE  Acquires(r) # Stops /\ Releases(r) # Stops /\ Stops # Acquires(r) /\ Stops # Releases(r)
<1>1. Acquires(r).kind = "acquire" /\ Releases(r).kind = "release" /\ Stops.kind = "shutdown"
  BY DEF Acquires, Releases, Stops
<1> QED BY <1>1

LEMMA ResumeCommandsTyped ==
  /\ \A r \in Requests : Acquires(r) \in Resume!Command /\ Releases(r) \in Resume!Command
  /\ Stops \in Resume!Command
  BY DEF Acquires, Releases, Stops, Resume!Command

LEMMA ResumeStarts == Resume!Init => ResumeInv
<1> SUFFICES ASSUME Resume!Init PROVE ResumeInv
  OBVIOUS
<1>0. /\ admitted = 0 /\ commands = <<>> /\ project \in [Requests -> Projects]
      /\ phase = [r \in Requests |-> "new"] /\ answer = [r \in Requests |-> "none"]
      /\ shutdown = "no" /\ queue = [p \in Projects |-> <<>>] /\ projects = <<>> /\ active = 0
  BY DEF Resume!Init
<1>a. stopped \in BOOLEAN
  BY Zenon DEF Resume!Init
<1>1. \A p \in Projects : \A r : ~In(queue[p], r)
  BY <1>0, EmptySequence
<1>2. \A p \in Projects : Distinct(queue[p])
  BY <1>0, EmptySequence
<1>3. \A x : ~In(commands, x) /\ ~In(projects, x)
  BY <1>0, EmptySequence
<1>4. Distinct(commands) /\ Distinct(projects)
  BY <1>0, EmptySequence
<1>5. ResumeTypes
  BY <1>0, <1>a DEF ResumeTypes, Resume!Phases
<1>6. \A r \in Requests : phase[r] = "new" /\ answer[r] = "none"
  BY <1>0
<1>7. \A r \in Requests : ~HasSlot(r) /\ ~IsCounted(r)
  BY <1>1, <1>3, <1>6 DEF HasSlot, IsCounted, IsQueued
<1>8. ResumeAccounts
  <2>1. {r \in Requests : IsCounted(r)} = {} /\ {r \in Requests : HasSlot(r)} = {}
    BY <1>7
  <2>2. admitted = 0 /\ active = 0 /\ active <= MaxActive
    BY <1>0, GateBounds
  <2>3. IsFiniteSet({}) /\ Cardinality({}) = 0
    BY FS_EmptySet
  <2> QED BY <2>1, <2>2, <2>3 DEF ResumeAccounts
<1>9. ResumePlaces
  BY <1>0, <1>1, <1>2, <1>3, <1>4, <1>6 DEF ResumePlaces
<1>10. ResumeTurns
  BY <1>1, <1>3, <1>4 DEF ResumeTurns
<1>11. ResumeStopped
  BY <1>0 DEF ResumeStopped
<1> QED BY <1>5, <1>8, <1>9, <1>10, <1>11 DEF ResumeInv

\* A step that changes neither who is counted nor who has a slot keeps the accounts.
LEMMA SameCounts ==
  ASSUME ResumeAccounts, UNCHANGED <<admitted, active>>,
         \A r \in Requests : IsCounted(r)' <=> IsCounted(r),
         \A r \in Requests : HasSlot(r)' <=> HasSlot(r)
  PROVE  ResumeAccounts'
<1>1. {r \in Requests : IsCounted(r)'} = {r \in Requests : IsCounted(r)}
      /\ {r \in Requests : HasSlot(r)'} = {r \in Requests : HasSlot(r)}
  OBVIOUS
<1> QED BY <1>1 DEF ResumeAccounts

\* One attempt more or less is counted.
LEMMA OneMoreCounted ==
  ASSUME ResumeAccounts, NEW r \in Requests, ~IsCounted(r),
         admitted' = admitted + 1, UNCHANGED active,
         \A s \in Requests : IsCounted(s)' <=> IsCounted(s) \/ s = r,
         \A s \in Requests : HasSlot(s)' <=> HasSlot(s)
  PROVE  ResumeAccounts'
<1> DEFINE counted == {s \in Requests : IsCounted(s)}
<1>1. {s \in Requests : IsCounted(s)'} = counted \cup {r}
      /\ {s \in Requests : HasSlot(s)'} = {s \in Requests : HasSlot(s)}
  OBVIOUS
<1>2. r \notin counted /\ IsFiniteSet(counted) /\ admitted = Cardinality(counted)
  BY DEF ResumeAccounts
<1> HIDE DEF counted
<1>3. IsFiniteSet(counted \cup {r}) /\ Cardinality(counted \cup {r}) = admitted + 1
  BY <1>2, FS_AddElement
<1> QED BY <1>1, <1>3 DEF ResumeAccounts

LEMMA OneLessCounted ==
  ASSUME ResumeAccounts, NEW r \in Requests, IsCounted(r), ~HasSlot(r),
         admitted' = Resume!Less(admitted, 1), UNCHANGED active,
         \A s \in Requests : IsCounted(s)' <=> IsCounted(s) /\ s # r,
         \A s \in Requests : HasSlot(s)' <=> HasSlot(s)
  PROVE  ResumeAccounts' /\ admitted' \in Nat
<1> DEFINE counted == {s \in Requests : IsCounted(s)}
<1>1. {s \in Requests : IsCounted(s)'} = counted \ {r}
      /\ {s \in Requests : HasSlot(s)'} = {s \in Requests : HasSlot(s)}
  OBVIOUS
<1>2. r \in counted /\ IsFiniteSet(counted) /\ admitted = Cardinality(counted)
  BY DEF ResumeAccounts
<1> HIDE DEF counted
<1>3. IsFiniteSet(counted \ {r}) /\ Cardinality(counted \ {r}) = admitted - 1
      /\ Cardinality(counted \ {r}) \in Nat /\ admitted \in Nat
  BY <1>2, FS_RemoveElement, FS_CardinalityType
<1>4. admitted' = admitted - 1
  BY <1>3 DEF Resume!Less
<1> QED BY <1>1, <1>3, <1>4 DEF ResumeAccounts

\* An attempt goes on by itself: it is refused, holds its permit or gives up.
LEMMA AttemptMoves ==
  ASSUME ResumeInv, NEW r \in Requests, NEW x,
         phase' = [phase EXCEPT ![r] = x],
         UNCHANGED <<admitted, stopped, commands, project, answer, shutdown, queue, projects,
                     active>>,
         \/ phase[r] = "new" /\ x \in {"checked", "refused"}
         \/ phase[r] = "checked" /\ x = "refused"
         \/ phase[r] = "waiting" /\ answer[r] = "ready" /\ x = "holding"
         \/ phase[r] = "waiting" /\ answer[r] = "dropped" /\ x = "refused"
         \/ phase[r] = "waiting" /\ x = "gone"
  PROVE  ResumeInv'
<1>t. ResumeTypes /\ ResumePlaces /\ ResumeAccounts /\ ResumeTurns /\ ResumeStopped
  BY DEF ResumeInv
<1>1. phase'[r] = x /\ \A s \in Requests \ {r} : phase'[s] = phase[s]
  BY <1>t DEF ResumeTypes
<1>2. x \in Resume!Phases
  BY DEF Resume!Phases
<1>3. ResumeTypes'
  BY <1>2, <1>t DEF ResumeTypes
<1>4. phase[r] # "done" /\ x # "done" /\ phase[r] # "counted" /\ x # "counted"
  OBVIOUS
<1>5. \A s \in Requests : HasSlot(s)' <=> HasSlot(s)
  BY <1>1, <1>4 DEF HasSlot
<1>6. \A s \in Requests : IsCounted(s)' <=> IsCounted(s)
  BY <1>1, <1>4, <1>5 DEF IsCounted, IsQueued
<1>7. ResumeAccounts'
  BY <1>5, <1>6, <1>t, SameCounts
<1>8. ResumePlaces'
  <2>1. \A s \in Requests : In(commands, Releases(s)) => phase'[s] = "done"
    BY <1>1, <1>4, <1>t DEF ResumePlaces
  <2>2. In(commands, Acquires(r)) \/ IsQueued(r) =>
          phase[r] = "waiting" /\ answer[r] = "none" /\ x = "gone"
    BY <1>t DEF ResumePlaces, IsQueued
  <2>3. \A s \in Requests : In(commands, Acquires(s)) =>
          /\ phase'[s] \in {"waiting", "gone"} /\ answer[s] = "none"
          /\ \A p \in Projects : ~In(queue[p], s)
    BY <1>1, <2>2, <1>t DEF ResumePlaces
  <2>4. \A p \in Projects, s \in Requests : In(queue[p], s) =>
          phase'[s] \in {"waiting", "gone"} /\ answer[s] = "none" /\ project[s] = p
    BY <1>1, <2>2, <1>t DEF ResumePlaces, IsQueued
  <2>5. \A s \in Requests : /\ phase'[s] \in {"new", "checked", "counted"} => answer[s] = "none"
                            /\ phase'[s] \in {"holding", "done"} => answer[s] = "ready"
    BY <1>1, <1>t DEF ResumePlaces
  <2> QED BY <2>1, <2>3, <2>4, <2>5, <1>t DEF ResumePlaces
<1>9. ResumeTurns'
  BY <1>t DEF ResumeTurns
<1>10. ResumeStopped'
  BY <1>1, <1>4, <1>t DEF ResumeStopped
<1> QED BY <1>3, <1>7, <1>8, <1>9, <1>10 DEF ResumeInv

LEMMA AttemptProceeds ==
  ASSUME ResumeInv, NEW r \in Requests,
         Resume!LoadStopped(r) \/ Resume!Polled(r) \/ Resume!GiveUp(r)
  PROVE  ResumeInv'
<1>t. stopped \in BOOLEAN /\ answer[r] \in {"none", "ready", "dropped"}
  BY DEF ResumeInv, ResumeTypes
<1> USE DEF Resume!MoveTo, Resume!gate
<1>1. CASE Resume!LoadStopped(r)
  <2>1. \E x \in {"checked", "refused"} : phase' = [phase EXCEPT ![r] = x]
    BY <1>1 DEF Resume!LoadStopped
  <2> QED BY <1>1, <2>1, AttemptMoves DEF Resume!LoadStopped
<1>2. CASE Resume!Polled(r)
  <2>1. CASE answer[r] = "ready"
    <3>1. phase' = [phase EXCEPT ![r] = "holding"]
      BY <1>2, <2>1 DEF Resume!Polled
    <3> QED BY <1>2, <2>1, <3>1, AttemptMoves DEF Resume!Polled
  <2>2. CASE answer[r] = "dropped"
    <3>1. phase' = [phase EXCEPT ![r] = "refused"]
      BY <1>2, <2>2 DEF Resume!Polled
    <3> QED BY <1>2, <2>2, <3>1, AttemptMoves DEF Resume!Polled
  <2> QED BY <1>2, <1>t, <2>1, <2>2 DEF Resume!Polled
<1>3. CASE Resume!GiveUp(r)
  BY <1>3, AttemptMoves DEF Resume!GiveUp
<1> QED BY <1>1, <1>2, <1>3

\* fetch_update counts the attempt, or refuses it.
LEMMA AttemptCounts ==
  ASSUME ResumeInv, NEW r \in Requests, Resume!CountAdmission(r)
  PROVE  ResumeInv'
<1>t. ResumeTypes /\ ResumePlaces /\ ResumeAccounts /\ ResumeTurns /\ ResumeStopped
  BY DEF ResumeInv
<1>0. /\ UNCHANGED <<stopped, commands, project, answer, shutdown, queue, projects, active>>
      /\ phase[r] = "checked"
  BY DEF Resume!CountAdmission, Resume!gate
<1>1. CASE phase' = [phase EXCEPT ![r] = "refused"] /\ UNCHANGED admitted
  BY <1>0, <1>1, AttemptMoves
<1>2. CASE admitted' = admitted + 1 /\ phase' = [phase EXCEPT ![r] = "counted"]
  <2>1. phase'[r] = "counted" /\ \A s \in Requests \ {r} : phase'[s] = phase[s]
    BY <1>2, <1>t DEF ResumeTypes
  <2>2. ResumeTypes'
    BY <1>0, <1>2, <1>t DEF ResumeTypes, Resume!Phases
  <2>3. /\ answer[r] = "none" /\ ~In(commands, Acquires(r)) /\ ~In(commands, Releases(r))
        /\ \A p \in Projects : ~In(queue[p], r)
    BY <1>0, <1>t DEF ResumePlaces
  <2>4. ~IsCounted(r) /\ ~HasSlot(r) /\ ~HasSlot(r)'
    BY <1>0, <2>1, <2>3 DEF IsCounted, HasSlot, IsQueued
  <2>5. \A s \in Requests : HasSlot(s)' <=> HasSlot(s)
    BY <1>0, <2>1, <2>4 DEF HasSlot
  <2>6. \A s \in Requests : IsCounted(s)' <=> IsCounted(s) \/ s = r
    BY <1>0, <2>1, <2>5 DEF IsCounted, IsQueued
  <2>7. ResumeAccounts'
    BY <1>0, <1>2, <2>4, <2>5, <2>6, <1>t, OneMoreCounted
  <2>8. ResumePlaces'
    BY <1>0, <2>1, <2>3, <1>t DEF ResumePlaces
  <2>9. ResumeTurns' /\ ResumeStopped'
    BY <1>0, <2>1, <2>3, <1>t DEF ResumeTurns, ResumeStopped
  <2> QED BY <2>2, <2>7, <2>8, <2>9 DEF ResumeInv
<1> QED BY <1>1, <1>2 DEF Resume!CountAdmission, Resume!MoveTo

\* A command joins the channel.
LEMMA CommandSent ==
  ASSUME commands \in Seq(Resume!Command), Distinct(commands), NEW c \in Resume!Command,
         ~In(commands, c), commands' = Append(commands, c)
  PROVE  /\ commands' \in Seq(Resume!Command) /\ Distinct(commands')
         /\ \A x : In(commands', x) <=> In(commands, x) \/ x = c
<1> DEFINE s == commands
<1>1. s \in Seq(Resume!Command) /\ Distinct(s) /\ ~In(s, c)
  OBVIOUS
<1>2. LET t == Append(s, c) IN
      /\ t \in Seq(Resume!Command) /\ Distinct(t) /\ \A x : In(t, x) <=> In(s, x) \/ x = c
  BY <1>1, Appended
<1> QED BY <1>2

LEMMA AttemptSends ==
  ASSUME ResumeInv, NEW r \in Requests, Resume!SendAcquire(r)
  PROVE  ResumeInv'
<1>t. ResumeTypes /\ ResumePlaces /\ ResumeAccounts /\ ResumeTurns /\ ResumeStopped
  BY DEF ResumeInv
<1>1. /\ UNCHANGED <<admitted, stopped, project, answer, shutdown, queue, projects, active>>
      /\ phase[r] = "counted" /\ phase' = [phase EXCEPT ![r] = "waiting"]
      /\ commands' = Append(commands, Acquires(r))
  BY DEF Resume!SendAcquire, Resume!gate, Resume!MoveTo, Resume!Send, Acquires
<1>2. phase'[r] = "waiting" /\ \A s \in Requests \ {r} : phase'[s] = phase[s]
  BY <1>1, <1>t DEF ResumeTypes
<1>3. /\ answer[r] = "none" /\ ~In(commands, Acquires(r)) /\ ~In(commands, Releases(r))
      /\ \A p \in Projects : ~In(queue[p], r)
  BY <1>1, <1>t DEF ResumePlaces
<1>4. /\ commands' \in Seq(Resume!Command) /\ Distinct(commands')
      /\ \A c : In(commands', c) <=> In(commands, c) \/ c = Acquires(r)
  <2>1. commands \in Seq(Resume!Command) /\ Distinct(commands) /\ Acquires(r) \in Resume!Command
    BY <1>t, ResumeCommandsTyped DEF ResumeTypes, ResumePlaces
  <2> QED BY <2>1, <1>1, <1>3, CommandSent
<1>5. /\ \A s : In(commands', Acquires(s)) <=> In(commands, Acquires(s)) \/ s = r
      /\ \A s : In(commands', Releases(s)) <=> In(commands, Releases(s))
      /\ In(commands', Stops) <=> In(commands, Stops)
  BY <1>4, CommandsDiffer, StopsDiffers
<1>6. ResumeTypes'
  BY <1>1, <1>4, <1>t DEF ResumeTypes, Resume!Phases
<1>7. \A s \in Requests : HasSlot(s)' <=> HasSlot(s)
  BY <1>1, <1>2, <1>3, <1>5 DEF HasSlot
<1>8. \A s \in Requests : IsCounted(s)' <=> IsCounted(s)
  BY <1>1, <1>2, <1>5, <1>7 DEF IsCounted, IsQueued
<1>9. ResumeAccounts'
  BY <1>1, <1>7, <1>8, <1>t, SameCounts
<1>10. ResumePlaces'
  <2>1. \A s \in Requests : In(commands', Releases(s)) => phase'[s] = "done"
    BY <1>2, <1>3, <1>5, <1>t DEF ResumePlaces
  <2>2. \A s \in Requests : In(commands', Acquires(s)) =>
          /\ phase'[s] \in {"waiting", "gone"} /\ answer'[s] = "none"
          /\ \A p \in Projects : ~In(queue'[p], s)
    BY <1>1, <1>2, <1>3, <1>5, <1>t DEF ResumePlaces
  <2>3. \A p \in Projects, s \in Requests : In(queue'[p], s) =>
          phase'[s] \in {"waiting", "gone"} /\ answer'[s] = "none" /\ project'[s] = p
    BY <1>1, <1>2, <1>3, <1>t DEF ResumePlaces
  <2>4. \A s \in Requests : /\ phase'[s] \in {"new", "checked", "counted"} => answer'[s] = "none"
                            /\ phase'[s] \in {"holding", "done"} => answer'[s] = "ready"
    BY <1>1, <1>2, <1>t DEF ResumePlaces
  <2> QED BY <2>1, <2>2, <2>3, <2>4, <1>1, <1>4, <1>5, <1>t DEF ResumePlaces
<1>11. ResumeTurns' /\ ResumeStopped'
  BY <1>1, <1>2, <1>3, <1>t DEF ResumeTurns, ResumeStopped
<1> QED BY <1>6, <1>9, <1>10, <1>11 DEF ResumeInv

LEMMA AttemptEnds ==
  ASSUME ResumeInv, NEW r \in Requests, Resume!DropPermit(r)
  PROVE  ResumeInv'
<1>t. ResumeTypes /\ ResumePlaces /\ ResumeAccounts /\ ResumeTurns /\ ResumeStopped
  BY DEF ResumeInv
<1>1. /\ UNCHANGED <<admitted, stopped, project, answer, shutdown, queue, projects, active>>
      /\ phase[r] = "holding" /\ phase' = [phase EXCEPT ![r] = "done"]
      /\ commands' = Append(commands, Releases(r))
  BY DEF Resume!DropPermit, Resume!gate, Resume!MoveTo, Resume!Send, Releases
<1>2. phase'[r] = "done" /\ \A s \in Requests \ {r} : phase'[s] = phase[s]
  BY <1>1, <1>t DEF ResumeTypes
<1>3. /\ answer[r] = "ready" /\ ~In(commands, Acquires(r)) /\ ~In(commands, Releases(r))
      /\ \A p \in Projects : ~In(queue[p], r)
  BY <1>1, <1>t DEF ResumePlaces
<1>4. /\ commands' \in Seq(Resume!Command) /\ Distinct(commands')
      /\ \A c : In(commands', c) <=> In(commands, c) \/ c = Releases(r)
  <2>1. commands \in Seq(Resume!Command) /\ Distinct(commands) /\ Releases(r) \in Resume!Command
    BY <1>t, ResumeCommandsTyped DEF ResumeTypes, ResumePlaces
  <2> QED BY <2>1, <1>1, <1>3, CommandSent
<1>5. /\ \A s : In(commands', Releases(s)) <=> In(commands, Releases(s)) \/ s = r
      /\ \A s : In(commands', Acquires(s)) <=> In(commands, Acquires(s))
      /\ In(commands', Stops) <=> In(commands, Stops)
  BY <1>4, CommandsDiffer, StopsDiffers
<1>6. ResumeTypes'
  BY <1>1, <1>4, <1>t DEF ResumeTypes, Resume!Phases
<1>7. \A s \in Requests : HasSlot(s)' <=> HasSlot(s)
  BY <1>1, <1>2, <1>3, <1>5 DEF HasSlot
<1>8. \A s \in Requests : IsCounted(s)' <=> IsCounted(s)
  BY <1>1, <1>2, <1>5, <1>7 DEF IsCounted, IsQueued
<1>9. ResumeAccounts'
  BY <1>1, <1>7, <1>8, <1>t, SameCounts
<1>10. ResumePlaces'
  <2>1. \A s \in Requests : In(commands', Releases(s)) => phase'[s] = "done"
    BY <1>2, <1>3, <1>5, <1>t DEF ResumePlaces
  <2>2. \A s \in Requests : In(commands', Acquires(s)) =>
          /\ phase'[s] \in {"waiting", "gone"} /\ answer'[s] = "none"
          /\ \A p \in Projects : ~In(queue'[p], s)
    BY <1>1, <1>2, <1>3, <1>5, <1>t DEF ResumePlaces
  <2>3. \A p \in Projects, s \in Requests : In(queue'[p], s) =>
          phase'[s] \in {"waiting", "gone"} /\ answer'[s] = "none" /\ project'[s] = p
    BY <1>1, <1>2, <1>3, <1>t DEF ResumePlaces
  <2>4. \A s \in Requests : /\ phase'[s] \in {"new", "checked", "counted"} => answer'[s] = "none"
                            /\ phase'[s] \in {"holding", "done"} => answer'[s] = "ready"
    BY <1>1, <1>2, <1>3, <1>t DEF ResumePlaces
  <2> QED BY <2>1, <2>2, <2>3, <2>4, <1>1, <1>4, <1>5, <1>t DEF ResumePlaces
<1>11. ResumeTurns' /\ ResumeStopped'
  BY <1>1, <1>2, <1>t DEF ResumeTurns, ResumeStopped
<1> QED BY <1>6, <1>9, <1>10, <1>11 DEF ResumeInv

\* shutdown() up to its await.
LEMMA ShutdownCalled ==
  ASSUME ResumeInv, Resume!StoreStopped \/ Resume!SendShutdown
  PROVE  ResumeInv'
<1>t. ResumeTypes /\ ResumePlaces /\ ResumeAccounts /\ ResumeTurns /\ ResumeStopped
  BY DEF ResumeInv
<1>1. UNCHANGED <<admitted, project, phase, answer, queue, projects, active>>
  BY DEF Resume!StoreStopped, Resume!SendShutdown, Resume!gate
<1>2. /\ commands' \in Seq(Resume!Command) /\ Distinct(commands')
      /\ \A r : In(commands', Acquires(r)) <=> In(commands, Acquires(r))
      /\ \A r : In(commands', Releases(r)) <=> In(commands, Releases(r))
      /\ In(commands', Stops) => shutdown' \in {"waiting", "returned"}
      /\ shutdown' # "returned"
  <2>0. commands \in Seq(Resume!Command) /\ Distinct(commands) /\ Stops \in Resume!Command
    BY <1>t, ResumeCommandsTyped DEF ResumeTypes, ResumePlaces
  <2>1. CASE Resume!StoreStopped
    <3>1. UNCHANGED commands /\ shutdown = "no" /\ shutdown' = "storing"
      BY <2>1 DEF Resume!StoreStopped
    <3> QED BY <3>1, <2>0, <1>t DEF ResumePlaces
  <2>2. CASE Resume!SendShutdown
    <3>1. commands' = Append(commands, Stops) /\ shutdown = "storing" /\ shutdown' = "waiting"
      BY <2>2 DEF Resume!SendShutdown, Stops
    <3>2. ~In(commands, Stops)
      BY <3>1, <1>t DEF ResumePlaces
    <3>3. /\ commands' \in Seq(Resume!Command) /\ Distinct(commands')
          /\ \A c : In(commands', c) <=> In(commands, c) \/ c = Stops
      BY <3>1, <3>2, <2>0, CommandSent
    <3> QED BY <3>1, <3>3, StopsDiffers
  <2> QED BY <2>1, <2>2
<1>3. stopped' \in BOOLEAN
  <2>1. stopped \in BOOLEAN
    BY <1>t DEF ResumeTypes
  <2> QED BY <2>1, Zenon DEF Resume!StoreStopped, Resume!SendShutdown
<1>4. ResumeTypes'
  BY <1>1, <1>2, <1>3, <1>t DEF ResumeTypes
<1>5. ResumePlaces'
  BY <1>1, <1>2, <1>t DEF ResumePlaces
<1>6. \A s \in Requests : HasSlot(s)' <=> HasSlot(s)
  BY <1>1, <1>2 DEF HasSlot
<1>7. \A s \in Requests : IsCounted(s)' <=> IsCounted(s)
  BY <1>1, <1>2, <1>6 DEF IsCounted, IsQueued
<1>8. ResumeAccounts'
  BY <1>1, <1>6, <1>7, <1>t, SameCounts
<1>9. ResumeTurns' /\ ResumeStopped'
  BY <1>1, <1>2, <1>t DEF ResumeTurns, ResumeStopped
<1> QED BY <1>4, <1>5, <1>8, <1>9 DEF ResumeInv

\* What is left in the channel when its head is received.
LEMMA CommandReceived ==
  ASSUME ResumeInv, NEW kind, Resume!Receives(kind)
  PROVE  LET c == Head(commands) IN
         /\ c \in Resume!Command /\ c.kind = kind /\ In(commands, c)
         /\ commands' \in Seq(Resume!Command) /\ Distinct(commands')
         /\ \A x : In(commands', x) <=> In(commands, x) /\ x # c
<1>1. commands \in Seq(Resume!Command) /\ Distinct(commands)
  BY DEF ResumeInv, ResumeTypes, ResumePlaces
<1>2. commands # <<>> /\ Head(commands).kind = kind /\ commands' = Tail(commands)
  BY DEF Resume!Receives
<1>3. LET s == commands
          t == Tail(commands)
      IN  /\ Head(s) \in Resume!Command /\ t \in Seq(Resume!Command)
          /\ In(s, Head(s))
          /\ \A x : In(s, x) <=> In(t, x) \/ x = Head(s)
          /\ Distinct(t) /\ ~In(t, Head(s))
  BY <1>1, <1>2, Tailed
<1> QED BY <1>2, <1>3

\* An attempt is queued under its project, or dropped by a stopped gate.
LEMMA GateReceivesAttempt ==
  ASSUME ResumeInv, Resume!ReceiveAcquire
  PROVE  ResumeInv'
<1>t. ResumeTypes /\ ResumePlaces /\ ResumeAccounts /\ ResumeTurns /\ ResumeStopped
  BY DEF ResumeInv
<1>a. Resume!Receives("acquire")
  BY DEF Resume!ReceiveAcquire
<1>2. /\ Head(commands) \in Resume!Command /\ Head(commands).kind = "acquire"
      /\ In(commands, Head(commands))
      /\ commands' \in Seq(Resume!Command) /\ Distinct(commands')
      /\ \A x : In(commands', x) <=> In(commands, x) /\ x # Head(commands)
  BY <1>a, CommandReceived
<1>b. Head(commands).req \in Requests /\ Head(commands) = Acquires(Head(commands).req)
  BY <1>2, ResumeCommandForm
<1>c. PICK r \in Requests : r = Head(commands).req
  BY <1>b
<1>d. PICK p \in Projects : p = project[r]
  BY <1>t DEF ResumeTypes
<1>1. /\ UNCHANGED <<stopped, project, phase, shutdown, active>>
      /\ \/ /\ stopped /\ admitted' = Resume!Less(admitted, 1)
            /\ answer' = [answer EXCEPT ![r] = "dropped"] /\ UNCHANGED <<queue, projects>>
         \/ /\ ~stopped /\ queue' = [queue EXCEPT ![p] = Append(queue[p], r)]
            /\ projects' = (IF Resume!Contains(projects, p) THEN projects
                                                            ELSE Append(projects, p))
            /\ UNCHANGED <<admitted, answer>>
  BY <1>c, <1>d DEF Resume!ReceiveAcquire
<1>3. r \in Requests /\ Head(commands) = Acquires(r)
  BY <1>b, <1>c
<1>4. /\ \A s \in Requests : In(commands', Acquires(s)) <=> In(commands, Acquires(s)) /\ s # r
      /\ \A s \in Requests : In(commands', Releases(s)) <=> In(commands, Releases(s))
      /\ In(commands', Stops) <=> In(commands, Stops)
  BY <1>2, <1>3, CommandsDiffer, StopsDiffers
<1>5. /\ phase[r] \in {"waiting", "gone"} /\ answer[r] = "none" /\ In(commands, Acquires(r))
      /\ \A q \in Projects : ~In(queue[q], r)
      /\ ~In(commands, Releases(r)) /\ p \in Projects
  BY <1>2, <1>3, <1>t DEF ResumePlaces, ResumeTypes
<1>6. IsCounted(r) /\ ~HasSlot(r)
  BY <1>5 DEF IsCounted, HasSlot
<1>7. CASE /\ admitted' = Resume!Less(admitted, 1)
           /\ answer' = [answer EXCEPT ![r] = "dropped"] /\ UNCHANGED <<queue, projects>>
  <2>1. answer'[r] = "dropped" /\ \A s \in Requests \ {r} : answer'[s] = answer[s]
    BY <1>3, <1>7, <1>t DEF ResumeTypes
  <2>2. \A s \in Requests : HasSlot(s)' <=> HasSlot(s)
    BY <1>1, <1>4, <1>5, <2>1 DEF HasSlot
  <2>3. \A s \in Requests : IsCounted(s)' <=> IsCounted(s) /\ s # r
    <3>1. ~IsCounted(r)'
      BY <1>1, <1>3, <1>4, <1>5, <1>6, <1>7, <2>2 DEF IsCounted, IsQueued
    <3> QED BY <3>1, <1>1, <1>4, <1>7, <2>2 DEF IsCounted, IsQueued
  <2>4. ResumeAccounts' /\ admitted' \in Nat
    BY <1>1, <1>3, <1>6, <1>7, <1>t, <2>2, <2>3, OneLessCounted
  <2>5. ResumeTypes'
    BY <1>1, <1>2, <1>7, <2>4, <1>t DEF ResumeTypes
  <2>6. ResumePlaces'
    BY <1>1, <1>2, <1>4, <1>5, <1>7, <2>1, <1>t DEF ResumePlaces
  <2>7. ResumeTurns' /\ ResumeStopped'
    BY <1>1, <1>7, <2>1, <1>t DEF ResumeTurns, ResumeStopped
  <2> QED BY <2>4, <2>5, <2>6, <2>7 DEF ResumeInv
<1>8. CASE /\ queue' = [queue EXCEPT ![p] = Append(queue[p], r)]
           /\ projects' = (IF Resume!Contains(projects, p) THEN projects
                                                           ELSE Append(projects, p))
           /\ UNCHANGED <<admitted, answer>>
  <2>1. queue[p] \in Seq(Requests) /\ Distinct(queue[p]) /\ ~In(queue[p], r)
    BY <1>5, <1>t DEF ResumeTypes, ResumePlaces
  <2>2. /\ Append(queue[p], r) \in Seq(Requests) /\ Distinct(Append(queue[p], r))
        /\ \A x : In(Append(queue[p], r), x) <=> In(queue[p], x) \/ x = r
    BY <1>3, <2>1, Appended
  <2>3. /\ queue' \in [Projects -> Seq(Requests)] /\ queue'[p] = Append(queue[p], r)
        /\ \A q \in Projects \ {p} : queue'[q] = queue[q]
    BY <1>5, <1>8, <2>2, <1>t DEF ResumeTypes
  <2>4. ASSUME NEW q \in Projects
        PROVE  /\ Distinct(queue'[q])
               /\ \A x : In(queue'[q], x) <=> In(queue[q], x) \/ (q = p /\ x = r)
    <3>1. CASE q = p
      BY <3>1, <2>2, <2>3
    <3>2. CASE q # p
      BY <3>2, <2>3, <1>t DEF ResumePlaces
    <3> QED BY <3>1, <3>2
  <2>5. /\ projects' \in Seq(Projects) /\ Distinct(projects')
        /\ \A q : In(projects', q) <=> In(projects, q) \/ q = p
    <3>1. projects \in Seq(Projects) /\ Distinct(projects)
      BY <1>t DEF ResumeTypes, ResumeTurns
    <3>2. Resume!Contains(projects, p) <=> In(projects, p)
      BY DEF Resume!Contains, In
    <3>3. CASE In(projects, p)
      BY <3>1, <3>2, <3>3, <1>8
    <3>4. CASE ~In(projects, p)
      <4>1. projects' = Append(projects, p)
        BY <3>2, <3>4, <1>8
      <4> QED BY <4>1, <3>1, <3>4, <1>5, Appended
    <3> QED BY <3>3, <3>4
  <2>6. ResumeTypes'
    BY <1>1, <1>2, <1>8, <2>3, <2>5, <1>t DEF ResumeTypes
  <2>7. ResumePlaces'
    <3>1. \A s \in Requests : In(commands', Acquires(s)) =>
            /\ phase'[s] \in {"waiting", "gone"} /\ answer'[s] = "none"
            /\ \A q \in Projects : ~In(queue'[q], s)
      <4> SUFFICES ASSUME NEW s \in Requests, In(commands', Acquires(s))
                   PROVE  /\ phase'[s] \in {"waiting", "gone"} /\ answer'[s] = "none"
                          /\ \A q \in Projects : ~In(queue'[q], s)
        OBVIOUS
      <4>1. In(commands, Acquires(s)) /\ s # r
        BY <1>4
      <4>2. /\ phase[s] \in {"waiting", "gone"} /\ answer[s] = "none"
            /\ \A q \in Projects : ~In(queue[q], s)
        BY <4>1, <1>t DEF ResumePlaces
      <4> QED BY <4>1, <4>2, <2>4, <1>1, <1>8
    <3>2. \A q \in Projects, s \in Requests : In(queue'[q], s) =>
            phase'[s] \in {"waiting", "gone"} /\ answer'[s] = "none" /\ project'[s] = q
      <4> SUFFICES ASSUME NEW q \in Projects, NEW s \in Requests, In(queue'[q], s)
                   PROVE  /\ phase[s] \in {"waiting", "gone"} /\ answer[s] = "none"
                          /\ project[s] = q
        BY <1>1, <1>8
      <4>1. CASE In(queue[q], s)
        BY <4>1, <1>t DEF ResumePlaces
      <4>2. CASE q = p /\ s = r
        BY <4>2, <1>d, <1>5
      <4> QED BY <4>1, <4>2, <2>4
    <3> QED BY <3>1, <3>2, <1>1, <1>2, <1>4, <1>8, <2>4, <1>t DEF ResumePlaces
  <2>8. \A s \in Requests : HasSlot(s)' <=> HasSlot(s)
    BY <1>1, <1>4, <1>8 DEF HasSlot
  <2>9. \A s \in Requests : IsCounted(s)' <=> IsCounted(s)
    <3>1. \A s \in Requests : IsQueued(s)' <=> IsQueued(s) \/ s = r
      BY <1>5, <2>4 DEF IsQueued
    <3> QED BY <3>1, <1>1, <1>4, <1>6, <2>8 DEF IsCounted
  <2>10. ResumeAccounts'
    BY <1>1, <1>8, <2>8, <2>9, <1>t, SameCounts
  <2>11. ResumeTurns'
    <3>1. ASSUME NEW q \in Projects
          PROVE  In(projects', q) <=> \E x \in Requests : In(queue'[q], x)
      <4>1. In(projects, q) <=> \E x \in Requests : In(queue[q], x)
        BY <1>t DEF ResumeTurns
      <4> QED BY <4>1, <1>3, <2>4, <2>5
    <3> QED BY <3>1, <2>5 DEF ResumeTurns
  <2>12. ResumeStopped'
    BY <1>1, <1>8, <1>t DEF ResumeStopped
  <2> QED BY <2>6, <2>7, <2>10, <2>11, <2>12 DEF ResumeInv
<1> QED BY <1>1, <1>7, <1>8

\* An attempt that is over gives its slot back.
LEMMA GateReceivesEnd ==
  ASSUME ResumeInv, Resume!ReceiveRelease
  PROVE  ResumeInv'
<1>t. ResumeTypes /\ ResumePlaces /\ ResumeAccounts /\ ResumeTurns /\ ResumeStopped
  BY DEF ResumeInv
<1>a. Resume!Receives("release")
  BY DEF Resume!ReceiveRelease
<1>2. /\ Head(commands) \in Resume!Command /\ Head(commands).kind = "release"
      /\ In(commands, Head(commands))
      /\ commands' \in Seq(Resume!Command) /\ Distinct(commands')
      /\ \A x : In(commands', x) <=> In(commands, x) /\ x # Head(commands)
  BY <1>a, CommandReceived
<1>b. Head(commands).req \in Requests /\ Head(commands) = Releases(Head(commands).req)
  BY <1>2, ResumeCommandForm
<1>c. PICK r \in Requests : r = Head(commands).req
  BY <1>b
<1>1. /\ UNCHANGED <<stopped, project, phase, answer, shutdown, queue, projects>>
      /\ active' = Resume!Less(active, 1)
      /\ admitted' = (IF active > 0 THEN Resume!Less(admitted, 1) ELSE admitted)
  BY DEF Resume!ReceiveRelease
<1>3. Head(commands) = Releases(r)
  BY <1>b, <1>c
<1>4. /\ \A s \in Requests : In(commands', Releases(s)) <=> In(commands, Releases(s)) /\ s # r
      /\ \A s \in Requests : In(commands', Acquires(s)) <=> In(commands, Acquires(s))
      /\ In(commands', Stops) <=> In(commands, Stops)
  BY <1>2, <1>3, CommandsDiffer, StopsDiffers
<1>5. In(commands, Releases(r)) /\ phase[r] = "done"
  BY <1>2, <1>3, <1>t DEF ResumePlaces
<1>6. ~In(commands, Acquires(r)) /\ ~IsQueued(r)
  BY <1>5, <1>t DEF ResumePlaces, IsQueued
<1>7. \A s \in Requests : HasSlot(s)' <=> HasSlot(s) /\ s # r
  BY <1>1, <1>4, <1>5 DEF HasSlot
<1>8. \A s \in Requests : IsCounted(s)' <=> IsCounted(s) /\ s # r
  BY <1>1, <1>4, <1>5, <1>6, <1>7 DEF IsCounted, IsQueued
<1>9. HasSlot(r) /\ IsCounted(r)
  BY <1>5 DEF HasSlot, IsCounted
<1>10. ResumeAccounts' /\ admitted' \in Nat /\ active' \in Nat
  <2> DEFINE counted == {s \in Requests : IsCounted(s)}
             slots == {s \in Requests : HasSlot(s)}
  <2>1. {s \in Requests : IsCounted(s)'} = counted \ {r}
        /\ {s \in Requests : HasSlot(s)'} = slots \ {r}
    BY <1>7, <1>8
  <2>2. /\ r \in counted /\ IsFiniteSet(counted) /\ admitted = Cardinality(counted)
        /\ r \in slots /\ IsFiniteSet(slots) /\ active = Cardinality(slots)
        /\ active <= MaxActive
    BY <1>9, <1>t DEF ResumeAccounts
  <2> HIDE DEF counted, slots
  <2>3. /\ IsFiniteSet(counted \ {r}) /\ Cardinality(counted \ {r}) = admitted - 1
        /\ Cardinality(counted \ {r}) \in Nat /\ admitted \in Nat
    BY <2>2, FS_RemoveElement, FS_CardinalityType
  <2>4. /\ IsFiniteSet(slots \ {r}) /\ Cardinality(slots \ {r}) = active - 1
        /\ Cardinality(slots \ {r}) \in Nat /\ active \in Nat
    BY <2>2, FS_RemoveElement, FS_CardinalityType
  <2>5. active' = active - 1 /\ admitted' = admitted - 1 /\ active' <= MaxActive
    BY <2>2, <2>3, <2>4, <1>1, GateBounds DEF Resume!Less
  <2> QED BY <2>1, <2>3, <2>4, <2>5 DEF ResumeAccounts
<1>11. ResumeTypes'
  BY <1>1, <1>2, <1>10, <1>t DEF ResumeTypes
<1>12. ResumePlaces'
  BY <1>1, <1>2, <1>4, <1>t DEF ResumePlaces
<1>13. ResumeTurns' /\ ResumeStopped'
  BY <1>1, <1>t DEF ResumeTurns, ResumeStopped
<1> QED BY <1>10, <1>11, <1>12, <1>13 DEF ResumeInv

LEMMA QueuedOnes == ResumeTypes => Resume!AllQueued = {r \in Requests : IsQueued(r)}
<1> SUFFICES ASSUME ResumeTypes PROVE Resume!AllQueued = {r \in Requests : IsQueued(r)}
  OBVIOUS
<1>1. \A p \in Projects, r \in Requests : Resume!Contains(queue[p], r) <=> In(queue[p], r)
  BY DEF Resume!Contains, In
<1> QED BY <1>1 DEF Resume!AllQueued, IsQueued

\* A shutdown drops the queued attempts and the gate takes no more.
LEMMA GateReceivesShutdown ==
  ASSUME ResumeInv, Resume!ReceiveShutdown
  PROVE  ResumeInv'
<1>t. ResumeTypes /\ ResumePlaces /\ ResumeAccounts /\ ResumeTurns /\ ResumeStopped
  BY DEF ResumeInv
<1>a. Resume!Receives("shutdown")
  BY DEF Resume!ReceiveShutdown
<1>2. /\ Head(commands) \in Resume!Command /\ Head(commands).kind = "shutdown"
      /\ In(commands, Head(commands))
      /\ commands' \in Seq(Resume!Command) /\ Distinct(commands')
      /\ \A x : In(commands', x) <=> In(commands, x) /\ x # Head(commands)
  BY <1>a, CommandReceived
<1>3. Head(commands) = Stops
  BY <1>2, ResumeCommandForm
<1>4. /\ \A s \in Requests : In(commands', Releases(s)) <=> In(commands, Releases(s))
      /\ \A s \in Requests : In(commands', Acquires(s)) <=> In(commands, Acquires(s))
      /\ ~In(commands', Stops)
  BY <1>2, <1>3, StopsDiffers
<1> DEFINE queued == {s \in Requests : IsQueued(s)}
<1>5. Resume!AllQueued = queued
  BY <1>t, QueuedOnes
<1>1. /\ UNCHANGED <<project, phase, shutdown, active>>
      /\ queue' = [p \in Projects |-> <<>>] /\ projects' = <<>>
      /\ answer' = [s \in Requests |-> IF s \in queued THEN "dropped" ELSE answer[s]]
      /\ admitted' = Resume!Less(admitted, Cardinality(queued))
  BY <1>5, SameCardinality DEF Resume!ReceiveShutdown
<1>s. stopped' \in BOOLEAN /\ stopped'
  BY Zenon DEF Resume!ReceiveShutdown
<1>6. \A s \in Requests : answer'[s] = IF IsQueued(s) THEN "dropped" ELSE answer[s]
  BY <1>1
<1>7. \A s \in Requests : IsQueued(s) => answer[s] = "none" /\ phase[s] \in {"waiting", "gone"}
                                         /\ ~In(commands, Acquires(s)) /\ ~In(commands, Releases(s))
  BY <1>t DEF ResumePlaces, IsQueued
<1>8. \A p \in Projects : \A x : ~In(queue'[p], x)
  BY <1>1, EmptySequence
<1>9. \A p \in Projects : Distinct(queue'[p])
  BY <1>1, EmptySequence
<1>10. \A s \in Requests : HasSlot(s)' <=> HasSlot(s)
  BY <1>1, <1>4, <1>6, <1>7 DEF HasSlot
<1>11. \A s \in Requests : IsQueued(s) => IsCounted(s) /\ ~HasSlot(s)
  BY <1>7 DEF IsCounted, HasSlot
<1>12. \A s \in Requests : IsCounted(s)' <=> IsCounted(s) /\ ~IsQueued(s)
  <2>1. \A s \in Requests : ~IsQueued(s)'
    BY <1>8 DEF IsQueued
  <2> QED BY <2>1, <1>1, <1>4, <1>7, <1>10, <1>11 DEF IsCounted
<1>13. ResumeAccounts' /\ admitted' \in Nat
  <2> DEFINE counted == {s \in Requests : IsCounted(s)}
  <2>1. {s \in Requests : IsCounted(s)'} = counted \ queued
        /\ {s \in Requests : HasSlot(s)'} = {s \in Requests : HasSlot(s)}
    BY <1>10, <1>12
  <2>2. IsFiniteSet(counted) /\ admitted = Cardinality(counted) /\ admitted \in Nat
    BY <1>t DEF ResumeAccounts, ResumeTypes
  <2>3. queued \in SUBSET counted /\ counted \cap queued = queued
    BY <1>11
  <2> HIDE DEF counted, queued
  <2>4. /\ IsFiniteSet(counted \ queued)
        /\ Cardinality(counted \ queued) = admitted - Cardinality(queued)
    BY <2>2, <2>3, FS_Difference
  <2>5. Cardinality(queued) <= admitted /\ Cardinality(queued) \in Nat
    BY <2>2, <2>3, FS_Subset, FS_CardinalityType
  <2>6. admitted' = admitted - Cardinality(queued) /\ admitted' \in Nat
    BY <2>2, <2>5, <1>1 DEF Resume!Less
  <2> QED BY <2>1, <2>4, <2>6, <1>1, <1>t DEF ResumeAccounts
<1>14. ResumeTypes'
  <2>1. answer' \in [Requests -> {"none", "ready", "dropped"}]
    BY <1>1, <1>t DEF ResumeTypes
  <2>2. queue' \in [Projects -> Seq(Requests)] /\ projects' \in Seq(Projects)
    BY <1>1
  <2> HIDE DEF queued
  <2> QED BY <2>1, <2>2, <1>1, <1>2, <1>s, <1>13, <1>t DEF ResumeTypes
<1>15. ResumePlaces'
  <2> HIDE DEF queued
  <2>1. \A s \in Requests : In(commands', Releases(s)) => phase'[s] = "done"
    BY <1>1, <1>4, <1>t DEF ResumePlaces
  <2>2. \A s \in Requests : In(commands', Acquires(s)) =>
          phase'[s] \in {"waiting", "gone"} /\ answer'[s] = "none"
    BY <1>1, <1>4, <1>6, <1>7, <1>t DEF ResumePlaces
  <2>3. \A s \in Requests : /\ phase'[s] \in {"new", "checked", "counted"} => answer'[s] = "none"
                            /\ phase'[s] \in {"holding", "done"} => answer'[s] = "ready"
    BY <1>1, <1>6, <1>7, <1>t DEF ResumePlaces
  <2> QED BY <2>1, <2>2, <2>3, <1>2, <1>4, <1>8, <1>9 DEF ResumePlaces
<1>16. ResumeTurns'
  BY <1>1, <1>8, EmptySequence DEF ResumeTurns
<1>17. ResumeStopped'
  <2> HIDE DEF queued
  <2> QED BY <1>1, <1>6, <1>s, <1>t DEF ResumeStopped
<1> QED BY <1>13, <1>14, <1>15, <1>16, <1>17 DEF ResumeInv

\* The head project gives its oldest attempt, and is listed again while it has more.
LEMMA AttemptTaken ==
  ASSUME ResumeInv, Resume!Admit
  PROVE  \E p \in Projects : \E r \in Requests :
         /\ p = Head(projects) /\ r = Head(queue[p]) /\ In(queue[p], r)
         /\ queue' \in [Projects -> Seq(Requests)] /\ projects' \in Seq(Projects)
         /\ \A q \in Projects : Distinct(queue'[q])
         /\ \A q \in Projects, x \in Requests : In(queue'[q], x) <=> In(queue[q], x) /\ x # r
         /\ ResumeTurns'
<1>t. ResumeTypes /\ ResumePlaces /\ ResumeTurns
  BY DEF ResumeInv
<1>0. projects \in Seq(Projects) /\ Distinct(projects) /\ projects # <<>>
  BY <1>t DEF ResumeTypes, ResumeTurns, Resume!Admit, Resume!MayAdmit
<1>a. /\ Head(projects) \in Projects /\ In(projects, Head(projects))
      /\ Tail(projects) \in Seq(Projects) /\ Distinct(Tail(projects))
      /\ ~In(Tail(projects), Head(projects))
      /\ \A q : In(projects, q) <=> In(Tail(projects), q) \/ q = Head(projects)
  BY <1>0, Tailed
<1>b. PICK p \in Projects : p = Head(projects)
  BY <1>a
<1>1. queue[p] \in Seq(Requests) /\ Distinct(queue[p]) /\ queue[p] # <<>>
  <2>1. queue[p] \in Seq(Requests) /\ \E x \in Requests : In(queue[p], x)
    BY <1>a, <1>b, <1>t DEF ResumeTypes, ResumeTurns
  <2> QED BY <2>1, <1>t, Emptiness DEF ResumePlaces
<1>2. /\ Head(queue[p]) \in Requests /\ In(queue[p], Head(queue[p]))
      /\ Tail(queue[p]) \in Seq(Requests) /\ Distinct(Tail(queue[p]))
      /\ ~In(Tail(queue[p]), Head(queue[p]))
      /\ \A x : In(queue[p], x) <=> In(Tail(queue[p]), x) \/ x = Head(queue[p])
  BY <1>1, Tailed
<1>c. PICK r \in Requests : r = Head(queue[p])
  BY <1>2
<1>d. PICK n \in Seq(Requests) : n = Tail(queue[p])
  BY <1>2
<1>3. /\ In(queue[p], r) /\ Distinct(n) /\ \A x : In(n, x) <=> In(queue[p], x) /\ x # r
  BY <1>2, <1>c, <1>d
<1>4. n # <<>> <=> \E x \in Requests : In(n, x)
  BY <1>d, Emptiness
<1>5. /\ queue' = [queue EXCEPT ![p] = n]
      /\ projects' = (IF n = <<>> THEN Tail(projects) ELSE Append(Tail(projects), p))
  BY <1>b, <1>d DEF Resume!Admit
<1>6. queue' \in [Projects -> Seq(Requests)] /\ queue'[p] = n
      /\ \A q \in Projects \ {p} : queue'[q] = queue[q]
  BY <1>5, <1>t DEF ResumeTypes
<1>7. ASSUME NEW q \in Projects PROVE Distinct(queue'[q])
  BY <1>3, <1>6, <1>t DEF ResumePlaces
<1>8. ASSUME NEW q \in Projects, NEW x \in Requests
      PROVE  In(queue'[q], x) <=> In(queue[q], x) /\ x # r
  <2>1. CASE q = p
    BY <2>1, <1>3, <1>6
  <2>2. CASE q # p
    <3>1. ~In(queue[q], r)
      BY <2>2, <1>3, <1>t DEF ResumePlaces
    <3> QED BY <3>1, <2>2, <1>6
  <2> QED BY <2>1, <2>2
<1>9. projects' \in Seq(Projects) /\ ResumeTurns'
  <2>1. /\ Append(Tail(projects), p) \in Seq(Projects) /\ Distinct(Append(Tail(projects), p))
        /\ \A q : In(Append(Tail(projects), p), q) <=> In(Tail(projects), q) \/ q = p
    BY <1>a, <1>b, Appended
  <2>2. \A q \in Projects : In(projects, q) <=> \E x \in Requests : In(queue[q], x)
    BY <1>t DEF ResumeTurns
  <2>3. CASE n # <<>>
    <3>1. projects' = Append(Tail(projects), p)
      BY <2>3, <1>5
    <3>2. ASSUME NEW q \in Projects
          PROVE  In(projects', q) <=> \E x \in Requests : In(queue'[q], x)
      <4>1. CASE q = p
        BY <4>1, <3>1, <2>1, <2>3, <1>4, <1>6
      <4>2. CASE q # p
        BY <4>2, <3>1, <2>1, <2>2, <1>a, <1>b, <1>6
      <4> QED BY <4>1, <4>2
    <3> QED BY <3>1, <3>2, <2>1 DEF ResumeTurns
  <2>4. CASE n = <<>>
    <3>1. projects' = Tail(projects)
      BY <2>4, <1>5
    <3>2. ASSUME NEW q \in Projects
          PROVE  In(projects', q) <=> \E x \in Requests : In(queue'[q], x)
      <4>1. CASE q = p
        BY <4>1, <3>1, <2>4, <1>a, <1>b, <1>4, <1>6
      <4>2. CASE q # p
        BY <4>2, <3>1, <2>2, <1>a, <1>b, <1>6
      <4> QED BY <4>1, <4>2
    <3> QED BY <3>1, <3>2, <1>a DEF ResumeTurns
  <2> QED BY <2>3, <2>4
<1> QED BY <1>b, <1>c, <1>3, <1>6, <1>7, <1>8, <1>9

\* The attempt at the head of the turn gets a slot, or was given up and is not counted
\* any more.
LEMMA GateAdmits ==
  ASSUME ResumeInv, Resume!Admit
  PROVE  ResumeInv'
<1>t. ResumeTypes /\ ResumePlaces /\ ResumeAccounts /\ ResumeTurns /\ ResumeStopped
  BY DEF ResumeInv
<1>a. PICK p \in Projects : \E x \in Requests :
         /\ p = Head(projects) /\ x = Head(queue[p]) /\ In(queue[p], x)
         /\ queue' \in [Projects -> Seq(Requests)] /\ projects' \in Seq(Projects)
         /\ \A q \in Projects : Distinct(queue'[q])
         /\ \A q \in Projects, y \in Requests : In(queue'[q], y) <=> In(queue[q], y) /\ y # x
         /\ ResumeTurns'
  BY AttemptTaken
<1>b. PICK r \in Requests :
         /\ p = Head(projects) /\ r = Head(queue[p]) /\ In(queue[p], r)
         /\ queue' \in [Projects -> Seq(Requests)] /\ projects' \in Seq(Projects)
         /\ \A q \in Projects : Distinct(queue'[q])
         /\ \A q \in Projects, y \in Requests : In(queue'[q], y) <=> In(queue[q], y) /\ y # r
         /\ ResumeTurns'
  BY <1>a
<1>1. /\ UNCHANGED <<stopped, commands, project, phase, shutdown>>
      /\ ~stopped /\ active < MaxActive
      /\ \/ /\ phase[r] = "waiting" /\ answer' = [answer EXCEPT ![r] = "ready"]
            /\ active' = active + 1 /\ UNCHANGED admitted
         \/ /\ phase[r] # "waiting" /\ admitted' = Resume!Less(admitted, 1)
            /\ UNCHANGED <<answer, active>>
  BY <1>b DEF Resume!Admit, Resume!MayAdmit
<1>2. /\ phase[r] \in {"waiting", "gone"} /\ answer[r] = "none" /\ IsQueued(r)
      /\ ~In(commands, Acquires(r)) /\ ~In(commands, Releases(r))
  BY <1>b, <1>t DEF ResumePlaces, IsQueued
<1>3. IsCounted(r) /\ ~HasSlot(r)
  BY <1>2 DEF IsCounted, HasSlot
<1>4. \A s \in Requests : IsQueued(s)' <=> IsQueued(s) /\ s # r
  BY <1>b DEF IsQueued
<1>5. ResumeStopped'
  BY <1>1, <1>t DEF ResumeStopped
<1>6. CASE /\ phase[r] = "waiting" /\ answer' = [answer EXCEPT ![r] = "ready"]
           /\ active' = active + 1 /\ UNCHANGED admitted
  <2>1. answer'[r] = "ready" /\ \A s \in Requests \ {r} : answer'[s] = answer[s]
    BY <1>6, <1>t DEF ResumeTypes
  <2>2. \A s \in Requests : HasSlot(s)' <=> HasSlot(s) \/ s = r
    BY <2>1, <1>1, <1>6 DEF HasSlot
  <2>3. \A s \in Requests : IsCounted(s)' <=> IsCounted(s)
    BY <2>2, <1>1, <1>3, <1>4 DEF IsCounted
  <2>4. ResumeAccounts' /\ active' \in Nat
    <3> DEFINE slots == {s \in Requests : HasSlot(s)}
    <3>1. {s \in Requests : HasSlot(s)'} = slots \cup {r}
          /\ {s \in Requests : IsCounted(s)'} = {s \in Requests : IsCounted(s)}
      BY <2>2, <2>3
    <3>2. /\ r \notin slots /\ IsFiniteSet(slots) /\ active = Cardinality(slots)
          /\ active \in Nat
      BY <1>3, <1>t DEF ResumeAccounts, ResumeTypes
    <3> HIDE DEF slots
    <3>3. IsFiniteSet(slots \cup {r}) /\ Cardinality(slots \cup {r}) = active + 1
      BY <3>2, FS_AddElement
    <3>4. active + 1 <= MaxActive /\ active + 1 \in Nat
      BY <3>2, <1>1, GateBounds
    <3> QED BY <3>1, <3>3, <3>4, <1>6, <1>t DEF ResumeAccounts
  <2>5. ResumeTypes'
    BY <2>4, <1>b, <1>1, <1>6, <1>t DEF ResumeTypes
  <2>6. ResumePlaces'
    <3>1. \A s \in Requests : In(commands', Acquires(s)) =>
            /\ phase'[s] \in {"waiting", "gone"} /\ answer'[s] = "none"
            /\ \A q \in Projects : ~In(queue'[q], s)
      BY <2>1, <1>b, <1>1, <1>2, <1>t DEF ResumePlaces
    <3>2. \A q \in Projects, s \in Requests : In(queue'[q], s) =>
            phase'[s] \in {"waiting", "gone"} /\ answer'[s] = "none" /\ project'[s] = q
      BY <2>1, <1>b, <1>1, <1>t DEF ResumePlaces
    <3>3. \A s \in Requests : /\ phase'[s] \in {"new", "checked", "counted"} => answer'[s] = "none"
                              /\ phase'[s] \in {"holding", "done"} => answer'[s] = "ready"
      BY <2>1, <1>1, <1>2, <1>t DEF ResumePlaces
    <3> QED BY <3>1, <3>2, <3>3, <1>b, <1>1, <1>t DEF ResumePlaces
  <2> QED BY <2>4, <2>5, <2>6, <1>b, <1>5 DEF ResumeInv
<1>7. CASE /\ phase[r] # "waiting" /\ admitted' = Resume!Less(admitted, 1)
           /\ UNCHANGED <<answer, active>>
  <2>1. \A s \in Requests : HasSlot(s)' <=> HasSlot(s)
    BY <1>1, <1>7 DEF HasSlot
  <2>2. \A s \in Requests : IsCounted(s)' <=> IsCounted(s) /\ s # r
    <3>1. ~IsCounted(r)'
      BY <2>1, <1>1, <1>2, <1>3, <1>4 DEF IsCounted
    <3> QED BY <3>1, <2>1, <1>1, <1>4 DEF IsCounted
  <2>3. ResumeAccounts' /\ admitted' \in Nat
    BY <2>1, <2>2, <1>3, <1>7, <1>t, OneLessCounted
  <2>4. ResumeTypes'
    BY <2>3, <1>b, <1>1, <1>7, <1>t DEF ResumeTypes
  <2>5. ResumePlaces'
    <3>1. \A s \in Requests : In(commands', Acquires(s)) =>
            /\ phase'[s] \in {"waiting", "gone"} /\ answer'[s] = "none"
            /\ \A q \in Projects : ~In(queue'[q], s)
      BY <1>b, <1>1, <1>7, <1>t DEF ResumePlaces
    <3>2. \A q \in Projects, s \in Requests : In(queue'[q], s) =>
            phase'[s] \in {"waiting", "gone"} /\ answer'[s] = "none" /\ project'[s] = q
      BY <1>b, <1>1, <1>7, <1>t DEF ResumePlaces
    <3> QED BY <3>1, <3>2, <1>b, <1>1, <1>7, <1>t DEF ResumePlaces
  <2> QED BY <2>3, <2>4, <2>5, <1>b, <1>5 DEF ResumeInv
<1> QED BY <1>1, <1>6, <1>7

\* shutdown() returns when the last slot is free.
LEMMA GateRests ==
  ASSUME ResumeInv, Resume!StopPumping
  PROVE  ResumeInv'
<1>t. ResumeTypes /\ ResumePlaces /\ ResumeAccounts /\ ResumeTurns /\ ResumeStopped
  BY DEF ResumeInv
<1>1. UNCHANGED <<admitted, stopped, commands, project, phase, answer, queue, projects, active>>
  BY DEF Resume!StopPumping
<1>2. \/ stopped /\ active = 0 /\ shutdown' = "returned"
      \/ UNCHANGED shutdown
  BY DEF Resume!StopPumping
<1>3. ResumeStopped'
  <2>1. CASE stopped /\ active = 0 /\ shutdown' = "returned"
    <3> DEFINE slots == {s \in Requests : HasSlot(s)}
    <3>1. IsFiniteSet(slots) /\ Cardinality(slots) = 0
      BY <2>1, <1>t DEF ResumeAccounts
    <3>2. slots = {}
      <4> HIDE DEF slots
      <4> QED BY <3>1, FS_EmptySet
    <3>3. \A s \in Requests : ~HasSlot(s)
      BY <3>2
    <3>4. \A s \in Requests : answer[s] = "ready" => phase[s] = "done"
      BY <3>3 DEF HasSlot
    <3> QED BY <3>4, <2>1, <1>1 DEF ResumeStopped
  <2>2. CASE UNCHANGED shutdown
    BY <2>2, <1>1, <1>t DEF ResumeStopped
  <2> QED BY <2>1, <2>2, <1>2
<1>4. ResumeTypes' /\ ResumeTurns'
  BY <1>1, <1>t DEF ResumeTypes, ResumeTurns
<1>5. ResumePlaces'
  BY <1>1, <1>2, <1>t DEF ResumePlaces
<1>6. \A s \in Requests : HasSlot(s)' <=> HasSlot(s)
  BY <1>1 DEF HasSlot
<1>7. \A s \in Requests : IsCounted(s)' <=> IsCounted(s)
  BY <1>1, <1>6 DEF IsCounted, IsQueued
<1>8. ResumeAccounts'
  BY <1>1, <1>6, <1>7, <1>t, SameCounts
<1> QED BY <1>3, <1>4, <1>5, <1>8 DEF ResumeInv

LEMMA ResumePreserved == ResumeInv /\ Resume!Next => ResumeInv'
<1> SUFFICES ASSUME ResumeInv, Resume!Next PROVE ResumeInv'
  OBVIOUS
<1>1. CASE Resume!ReceiveAcquire
  BY <1>1, GateReceivesAttempt
<1>2. CASE Resume!ReceiveRelease
  BY <1>2, GateReceivesEnd
<1>3. CASE Resume!ReceiveShutdown
  BY <1>3, GateReceivesShutdown
<1>4. CASE Resume!Admit
  BY <1>4, GateAdmits
<1>5. CASE Resume!StopPumping
  BY <1>5, GateRests
<1>6. CASE Resume!StoreStopped \/ Resume!SendShutdown
  BY <1>6, ShutdownCalled
<1>7. ASSUME NEW r \in Requests, Resume!CountAdmission(r) PROVE ResumeInv'
  BY <1>7, AttemptCounts
<1>8. ASSUME NEW r \in Requests, Resume!SendAcquire(r) PROVE ResumeInv'
  BY <1>8, AttemptSends
<1>9. ASSUME NEW r \in Requests, Resume!DropPermit(r) PROVE ResumeInv'
  BY <1>9, AttemptEnds
<1>10. ASSUME NEW r \in Requests,
              Resume!LoadStopped(r) \/ Resume!Polled(r) \/ Resume!GiveUp(r)
       PROVE  ResumeInv'
  BY <1>10, AttemptProceeds
<1> QED BY <1>1, <1>2, <1>3, <1>4, <1>5, <1>6, <1>7, <1>8, <1>9, <1>10
         DEF Resume!Next, Resume!GateStep, Resume!Proceeds

\* What the invariant says in the words of the module.
LEMMA ResumeSound ==
  ASSUME ResumeInv
  PROVE  /\ Resume!AttemptsBounded /\ Resume!AdmissionsCounted
         /\ Resume!ShutdownWaitsForAttempts
<1> DEFINE counted == {r \in Requests : IsCounted(r)}
           slots == {r \in Requests : HasSlot(r)}
<1>t. ResumeTypes /\ ResumePlaces /\ ResumeAccounts /\ ResumeTurns /\ ResumeStopped
  BY DEF ResumeInv
<1>1. /\ IsFiniteSet(counted) /\ admitted = Cardinality(counted)
      /\ IsFiniteSet(slots) /\ active = Cardinality(slots) /\ active <= MaxActive
      /\ active \in Nat
  BY <1>t DEF ResumeAccounts, ResumeTypes
<1>2. DOMAIN commands = 1..Len(commands) /\ \A i \in 1..Len(commands) : commands[i] \in Resume!Command
  BY <1>t DEF ResumeTypes
<1>3. Resume!InChannel("acquire") = {r \in Requests : In(commands, Acquires(r))}
  <2>1. ASSUME NEW r \in Requests, NEW i \in 1..Len(commands)
        PROVE  commands[i].kind = "acquire" /\ commands[i].req = r <=> commands[i] = Acquires(r)
    <3>1. Acquires(r).kind = "acquire" /\ Acquires(r).req = r
      BY DEF Acquires
    <3> QED BY <3>1, <1>2, ResumeCommandForm
  <2> QED BY <2>1, <1>2 DEF Resume!InChannel, In
<1>4. Resume!InChannel("release") = {r \in Requests : In(commands, Releases(r))}
  <2>1. ASSUME NEW r \in Requests, NEW i \in 1..Len(commands)
        PROVE  commands[i].kind = "release" /\ commands[i].req = r <=> commands[i] = Releases(r)
    <3>1. Releases(r).kind = "release" /\ Releases(r).req = r
      BY DEF Releases
    <3> QED BY <3>1, <1>2, ResumeCommandForm
  <2> QED BY <2>1, <1>2 DEF Resume!InChannel, In
<1>5. Resume!Charged = slots
  BY <1>4 DEF Resume!Charged, HasSlot
<1>6. {r \in Requests : phase[r] = "counted"} \cup Resume!InChannel("acquire")
        \cup Resume!AllQueued \cup Resume!Charged = counted
  BY <1>3, <1>5, <1>t, QueuedOnes DEF IsCounted
<1>7. Resume!Holders \in SUBSET slots
  BY <1>t DEF Resume!Holders, HasSlot, ResumePlaces
<1>8. Resume!AdmissionsCounted
  BY <1>1, <1>6, SameCardinality DEF Resume!AdmissionsCounted
<1> HIDE DEF counted, slots
<1>9. Cardinality(Resume!Holders) <= MaxActive
  <2>1. Cardinality(Resume!Holders) <= active /\ Cardinality(Resume!Holders) \in Nat
    BY <1>1, <1>7, FS_Subset, FS_CardinalityType
  <2> QED BY <2>1, <1>1, GateBounds
<1>10. Resume!AttemptsBounded
  BY <1>9, SameCardinality DEF Resume!AttemptsBounded
<1>11. Resume!ShutdownWaitsForAttempts
  BY <1>t DEF ResumeStopped, Resume!ShutdownWaitsForAttempts
<1> QED BY <1>8, <1>10, <1>11

-----------------------------------------------------------------------------
(* The gates *)

\* The gate that is looked at satisfies its invariant.
GateInv ==
  /\ gate \in {"observation", "resume", "host"}
  /\ gate = "observation" => ObservationInv
  /\ gate = "resume" => ResumeInv

LEMMA GateStarts == Init => GateInv
<1> SUFFICES ASSUME Init PROVE GateInv
  OBVIOUS
<1>1. CASE gate = "observation" /\ Observation!Init
  BY <1>1, ObservationStarts DEF GateInv
<1>2. CASE gate = "resume" /\ Resume!Init
  BY <1>2, ResumeStarts DEF GateInv
<1>3. CASE gate = "host"
  BY <1>3 DEF GateInv
<1> QED BY <1>1, <1>2, <1>3 DEF Init

LEMMA GatePreserved == GateInv /\ [Next]_vars => GateInv'
<1> SUFFICES ASSUME GateInv, [Next]_vars PROVE GateInv'
  OBVIOUS
<1>1. CASE AtObservation(Observation!Next)
  <2>1. gate = "observation" /\ Observation!Next /\ UNCHANGED gate
    BY <1>1 DEF AtObservation
  <2> QED BY <2>1, ObservationPreserved DEF GateInv
<1>2. CASE AtResume(Resume!Next)
  <2>1. gate = "resume" /\ Resume!Next /\ UNCHANGED gate
    BY <1>2 DEF AtResume
  <2> QED BY <2>1, ResumePreserved DEF GateInv
<1>3. CASE AtHost(Host!Next)
  BY <1>3 DEF AtHost, GateInv
<1>4. CASE UNCHANGED vars
  <2>1. UNCHANGED <<gate, project, phase, commands, queue, projects, active, answered,
                    activeProjects, turns, admitted, stopped, answer, shutdown>>
    BY <1>4 DEF vars, shared, observationOnly, resumeOnly
  <2>2. ObservationInv => ObservationInv'
    BY <2>1 DEF ObservationInv, ObservationTypes, ObservationPlaces, ObservationAccounts,
                ObservationTurns, IsCharged
  <2>3. ResumeInv => ResumeInv'
    BY <2>1 DEF ResumeInv, ResumeTypes, ResumePlaces, ResumeAccounts, ResumeTurns,
                ResumeStopped, HasSlot, IsCounted, IsQueued
  <2> QED BY <2>1, <2>2, <2>3 DEF GateInv
<1> QED BY <1>1, <1>2, <1>3, <1>4 DEF Next

\* Whatever the number of observations, projects and slots, the actor of
\* FairObservationGate never runs more observations than it has slots nor two of one
\* project, its counters are those of the permits that are out, and a project with a
\* waiting call is listed for a turn, once.
THEOREM ObservationsKept == Spec => []ObservationsAccounted
<1>1. GateInv => ObservationsAccounted
  BY ObservationSound DEF GateInv, ObservationsAccounted
<1> QED BY <1>1, GateStarts, GatePreserved, PTL DEF Spec

\* Whatever the number of resume attempts and the limits, FairResumeGate never runs more
\* attempts than it has slots, the counter its callers race on is exact through refusals,
\* abandoned calls and a shutdown, and shutdown() returns only when no attempt has a slot
\* and none will get one.
THEOREM AttemptsKept == Spec => []AttemptsAccounted
<1>1. GateInv => AttemptsAccounted
  BY ResumeSound DEF GateInv, AttemptsAccounted
<1> QED BY <1>1, GateStarts, GatePreserved, PTL DEF Spec

=============================================================================
