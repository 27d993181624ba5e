---------------------------- MODULE PriorityLock ----------------------------
(***************************************************************************)
(* What the locks of coroutines.cpp promise their users: a lock has at     *)
(* most one owner, and when it is free it goes to one of the tasks that    *)
(* want it and that no task of a higher priority wants it with.            *)
(***************************************************************************)
EXTENDS Integers

CONSTANTS
  Lock, Task,
  NoTask,      \* not a task
  Prio         \* Prio[t]: a number, the priority of t

VARIABLES owner, waiters

vars == <<owner, waiters>>

Init ==
  /\ owner = [l \in Lock |-> NoTask]
  /\ waiters = [l \in Lock |-> {}]

Request(t, l) ==
  /\ owner[l] # t /\ t \notin waiters[l]
  /\ waiters' = [waiters EXCEPT ![l] = @ \cup {t}]
  /\ UNCHANGED owner

Grant(t, l) ==
  /\ owner[l] = NoTask
  /\ t \in waiters[l]
  /\ \A u \in waiters[l] : Prio[u] <= Prio[t]
  /\ owner' = [owner EXCEPT ![l] = t]
  /\ waiters' = [waiters EXCEPT ![l] = @ \ {t}]

Release(t, l) ==
  /\ owner[l] = t
  /\ owner' = [owner EXCEPT ![l] = NoTask]
  /\ UNCHANGED waiters

Next == \E t \in Task, l \in Lock : Request(t, l) \/ Grant(t, l) \/ Release(t, l)

Spec == Init /\ [][Next]_vars
=============================================================================
