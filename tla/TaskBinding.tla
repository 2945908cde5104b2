----------------------------- MODULE TaskBinding -----------------------------
(***************************************************************************)
(* What the worktree sagas promise to everything that reads a Task: a Task *)
(* holds at most one worktree; binding one starts a new generation, which  *)
(* no earlier holder of the binding can mistake for its own; releasing it  *)
(* is recorded for exactly that generation; and neither a path nor a       *)
(* branch is ever bound to two Tasks.                                      *)
(***************************************************************************)
EXTENDS Naturals

CONSTANTS Tasks, Paths, Branches, None

VARIABLES
  branch,     \* the branch each Task is bound to
  worktree,   \* the worktree each Task is bound to
  gen,        \* the generation of its latest worktree
  released    \* the latest generation whose release is on record

bindingVars == <<branch, worktree, gen, released>>

BindingInit ==
  /\ branch = [t \in Tasks |-> None]
  /\ worktree = [t \in Tasks |-> None]
  /\ gen = [t \in Tasks |-> 0]
  /\ released = [t \in Tasks |-> 0]

FreeBranch(t, b) == \A u \in Tasks \ {t} : branch[u] # b
FreePath(t, p) == \A u \in Tasks \ {t} : worktree[u] # p

\* A Task takes up a branch without a checkout, or gives it back.
ChangeBranch(t) ==
  /\ worktree[t] = None
  /\ \/ \E b \in Branches : /\ branch[t] = None /\ FreeBranch(t, b)
                            /\ branch' = [branch EXCEPT ![t] = b]
     \/ branch' = [branch EXCEPT ![t] = None]
  /\ UNCHANGED <<worktree, gen, released>>

Bind(t, b, p) ==
  /\ worktree[t] = None /\ released[t] = gen[t]
  /\ branch[t] \in {None, b}
  /\ FreeBranch(t, b) /\ FreePath(t, p)
  /\ branch' = [branch EXCEPT ![t] = b]
  /\ worktree' = [worktree EXCEPT ![t] = p]
  /\ gen' = [gen EXCEPT ![t] = @ + 1]
  /\ UNCHANGED released

Release(t) ==
  /\ worktree[t] # None
  /\ worktree' = [worktree EXCEPT ![t] = None]
  /\ released' = [released EXCEPT ![t] = gen[t]]
  /\ UNCHANGED <<branch, gen>>

BindingNext ==
  \E t \in Tasks :
    \/ ChangeBranch(t) \/ Release(t)
    \/ \E b \in Branches, p \in Paths : Bind(t, b, p)

BindingSpec == BindingInit /\ [][BindingNext]_bindingVars

=============================================================================
