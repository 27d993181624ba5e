------------------------------- MODULE Locks -------------------------------
(***************************************************************************)
(* The coroutines of module Tasks with the locks of the second half of     *)
(* support/coroutines.cpp.                                                 *)
(*                                                                         *)
(* A lock hands out tokens: lock_enter() takes the next one (enter) and    *)
(* waits until it is the one being served (leave), lock_leave() serves the *)
(* next one and wakes everybody who waits.  So that a task of a high       *)
(* priority does not wait its turn, it swaps its token with the one that   *)
(* is next; so that it does not wait for an owner that is not run, it      *)
(* raises the owner's priority to its own until the owner leaves.          *)
(***************************************************************************)
EXTENDS Tasks

CONSTANTS
  LockUsers,   \* LockUsers[l]: the tasks that use lock l
  NoPrioInv,   \* the tasks created with CTF_NO_PRIO_INV
  MaxToken     \* bound of the model: tokens taken before the lock is free again

AllLockUsers == UNION {LockUsers[l] : l \in Lock}

(* A task that others may remove uses no lock: TaskRemove() does not take  *)
(* a task that waits off the lock's list of users.                         *)
ASSUME LocksAssumption ==
  /\ LockUsers \in [Lock -> SUBSET Task]
  /\ AllLockUsers \cap Removable = {}
  /\ NoPrioInv \subseteq Task
  /\ MaxToken \in Nat

(* The only task that calls TaskMinRun(), WSPR_Deco(), uses no lock that   *)
(* others wait for: one that went on running after lock_leave() could take *)
(* the lock again before a faster task that has been woken.                *)
ASSUME MinRunAssumption == AllLockUsers \cap MinRun = {}

VARIABLES
  enter, leave, owner, users, \* lock_t.enter, .leave, .owner, .users
  token, waiting,             \* TASK.lock.token, TASK.lock.waiting
  want                        \* the argument of the lock_enter() t is in

lockVars == <<enter, leave, owner, users, token, waiting, want>>
vars == <<schedVars, pc, hold, wait, lockVars>>

----------------------------------------------------------------------------
(* lock_enter() takes the next token ...                                   *)
LockEnter(l) ==
  /\ AppRuns
  /\ cur \in LockUsers[l]
  /\ hold[cur] = NoLock
  /\ enter[l] < MaxToken
  /\ users' = [users EXCEPT ![l] = @ \cup {cur}]
  /\ token' = [token EXCEPT ![cur] = enter[l]]
  /\ enter' = [enter EXCEPT ![l] = @ + 1]
  /\ want' = [want EXCEPT ![cur] = l]
  /\ pc' = [pc EXCEPT ![cur] = "lock"]
  /\ UNCHANGED <<schedVars, hold, wait, leave, owner, waiting>>

(* ... and repeats until that token is served.  lowest_token is the one    *)
(* that is served next, lp its holder.                                     *)
InLockLoop(l) == mode = "run" /\ pc[cur] = "lock" /\ want[cur] = l

LowestToken_Served(l) == leave[l]
LowestToken(l) == leave[l] + (IF owner[l] # NoTask THEN 1 ELSE 0)
LowestUsers(l) == {t \in users[l] : token[t] = LowestToken(l)}

Overtakes_Never(t, lp) == FALSE
Overtakes_Equals(t, lp) == task[t].priority >= task[lp].priority
Overtakes(t, lp) == task[t].priority > task[lp].priority

MyTurn_OneAhead(l) == token[cur] <= leave[l] + 1
MyTurn(l) == token[cur] <= leave[l]

Acquire(l) ==
  /\ InLockLoop(l)
  /\ MyTurn(l)
  /\ owner' = [owner EXCEPT ![l] = cur]
  /\ hold' = [hold EXCEPT ![cur] = l]
  /\ wait' = [wait EXCEPT ![cur] = NoLock]
  /\ want' = [want EXCEPT ![cur] = NoLock]
  /\ pc' = [pc EXCEPT ![cur] = "app"]
  /\ UNCHANGED <<schedVars, enter, leave, users, token, waiting>>

SwapToken(l) ==
  /\ InLockLoop(l)
  /\ ~MyTurn(l)
  /\ \E lp \in LowestUsers(l) :
       /\ Overtakes(cur, lp)
       /\ token' = [token EXCEPT ![lp] = token[cur], ![cur] = LowestToken(l)]
  /\ UNCHANGED <<schedVars, pc, hold, wait, enter, leave, owner, users, waiting, want>>

(* The owner is queued at the priority of the task that starts to wait,    *)
(* once: a second waiter of a yet higher priority leaves it where it is.   *)
Boosts_Late(l) ==
  /\ owner[l] # NoTask
  /\ task[cur].priority > task[owner[l]].priority + 1
  /\ owner[l] \notin NoPrioInv
  /\ ~task[owner[l]].boosted

Boosts(l) ==
  /\ owner[l] # NoTask
  /\ task[cur].priority > task[owner[l]].priority
  /\ owner[l] \notin NoPrioInv
  /\ ~task[owner[l]].boosted

Wait(l) ==
  LET o == owner[l]
      p == task[cur].priority
      stopped == [task EXCEPT ![cur].stopped = TRUE]
  IN
  /\ InLockLoop(l)
  /\ ~MyTurn(l)
  /\ \A lp \in LowestUsers(l) : ~Overtakes(cur, lp)
  /\ wait' = [wait EXCEPT ![cur] = l]
  /\ waiting' = [waiting EXCEPT ![cur] = TRUE]
  /\ \/ /\ Boosts(l)
        /\ taskQ' = TenQ(TdeQ(taskQ, o, task[o].priority), o, p)
        /\ NextTask([stopped EXCEPT ![o] =
                       [@ EXCEPT !.saved = task[o].priority,
                                 !.priority = p, !.boosted = TRUE]],
                    TdeQLast(lastRun, o, task[o].priority), "none")
     \/ /\ ~Boosts(l)
        /\ NextTask(stopped, lastRun, "none")
        /\ UNCHANGED taskQ
  /\ UNCHANGED <<cur, pc, hold, enter, leave, owner, users, token, want>>

----------------------------------------------------------------------------
(* lock_leave().  The tables once the owner is back in its own queue:      *)
Lowered_KeepsFlag ==
  IF task[cur].boosted
  THEN [task EXCEPT ![cur] =
          [@ EXCEPT !.priority = task[cur].saved, !.saved = 0]]
  ELSE task

Lowered ==
  IF task[cur].boosted
  THEN [task EXCEPT ![cur] =
          [@ EXCEPT !.priority = task[cur].saved, !.saved = 0, !.boosted = FALSE]]
  ELSE task

LoweredQ ==
  IF task[cur].boosted
  THEN TenQ(TdeQ(taskQ, cur, task[cur].priority), cur, task[cur].saved)
  ELSE taskQ

LoweredLast ==
  IF task[cur].boosted
  THEN TdeQLast(lastRun, cur, task[cur].priority)
  ELSE lastRun

Woken_Higher(l) ==
  {t \in users[l] \ {cur} : waiting[t] /\ task[t].priority > task[cur].priority}
Woken(l) == {t \in users[l] \ {cur} : waiting[t]}

PendingDone_Not(tk) == tk
PendingDone(tk) == [tk EXCEPT ![cur].pending = "no"]

LockLeave(l) ==
  LET woken == Woken(l)
      tk == [t \in Task |-> IF t \in woken THEN [task[t] EXCEPT !.stopped = FALSE]
                                           ELSE Lowered[t]]
      higher == \E t \in woken : tk[t].priority > tk[cur].priority
      last == enter[l] = leave[l] + 1
      kind == task[cur].pending
  IN
  /\ AppRuns
  /\ hold[cur] = l
  /\ hold' = [hold EXCEPT ![cur] = NoLock]
  /\ token' = [token EXCEPT ![cur] = 0]
  /\ users' = [users EXCEPT ![l] = @ \ {cur}]
  /\ waiting' = [t \in Task |-> waiting[t] /\ t \notin woken]
  /\ owner' = [owner EXCEPT ![l] = NoTask]
  /\ enter' = [enter EXCEPT ![l] = IF last THEN 0 ELSE @]
  /\ leave' = [leave EXCEPT ![l] = IF last THEN 0 ELSE @ + 1]
  /\ taskQ' = LoweredQ
  /\ \/ /\ kind # "no"            \* somebody did TaskSleepID() on us meanwhile
        /\ NextTask(SleepSetup(PendingDone(tk), cur, kind),
                    LoweredLast, "none")
        /\ pc' = [pc EXCEPT ![cur] = "sleep"]
     \/ /\ kind = "no" /\ higher
        /\ NextTask(tk, LoweredLast, "none")
        /\ UNCHANGED pc
     \/ /\ kind = "no" /\ ~higher
        /\ task' = tk /\ lastRun' = LoweredLast
        /\ UNCHANGED <<mode, noRunSame, pc>>
  /\ UNCHANGED <<cur, wait, want>>

----------------------------------------------------------------------------
Init ==
  /\ TasksInit
  /\ enter = [l \in Lock |-> 0]
  /\ leave = [l \in Lock |-> 0]
  /\ owner = [l \in Lock |-> NoTask]
  /\ users = [l \in Lock |-> {}]
  /\ token = [t \in Task |-> 0]
  /\ waiting = [t \in Task |-> FALSE]
  /\ want = [t \in Task |-> NoLock]

LockNext(l) ==
  LockEnter(l) \/ Acquire(l) \/ SwapToken(l) \/ Wait(l) \/ LockLeave(l)

Next ==
  \/ TasksNext /\ UNCHANGED lockVars
  \/ \E l \in Lock : LockNext(l)

Spec == Init /\ [][Next]_vars

(* Fairness.  The CPU does not stop: a task resumed inside TaskSleep() or  *)
(* lock_enter() goes on.  App code that runs again and again goes to sleep *)
(* at some point, and leaves the lock it holds.  A task that the search    *)
(* loop could choose again and again is chosen: timers expire, and the     *)
(* tasks of the higher priorities leave some time to those of the lower    *)
(* ones; between tasks of one priority this says nothing, the round robin  *)
(* alone decides.                                                          *)
Continue ==
  \/ SleepLoop /\ UNCHANGED lockVars
  \/ \E l \in Lock : Acquire(l) \/ SwapToken(l) \/ Wait(l)

Fairness ==
  /\ WF_vars(Continue)
  /\ \A t \in Task : SF_vars(cur = t /\ TaskSleep("timed") /\ UNCHANGED lockVars)
  /\ \A l \in Lock : SF_vars(LockLeave(l))
  /\ \A t \in Task : SF_vars(Dispatch /\ UNCHANGED lockVars /\ cur' = t)

FairSpec == Spec /\ Fairness

----------------------------------------------------------------------------
(* Type invariant: the variables have the types of the structures of       *)
(* coroutines.cpp and coroutines.h.                                        *)
TypeOK ==
  /\ cur \in Task
  /\ mode \in {"run", "sched"}
  /\ noRunSame \in BOOLEAN
  /\ task \in [Task -> TaskRecord]
  /\ taskQ \in [Priority -> Seq(Task)]
  /\ lastRun \in [Priority -> Task \cup {NoTask}]
  /\ pc \in [Task -> {"app", "sleep", "lock"}]
  /\ hold \in [Task -> Lock \cup {NoLock}]
  /\ wait \in [Task -> Lock \cup {NoLock}]
  /\ enter \in [Lock -> Nat]
  /\ leave \in [Lock -> Nat]
  /\ owner \in [Lock -> Task \cup {NoTask}]
  /\ users \in [Lock -> SUBSET Task]
  /\ token \in [Task -> Nat]
  /\ waiting \in [Task -> BOOLEAN]
  /\ want \in [Task -> Lock \cup {NoLock}]

(* At most one task is between lock_enter() and lock_leave() of a lock,    *)
(* and it is the owner that the lock names: what the other users compare   *)
(* priorities with, raise and hand their tokens past.                      *)
MutualExclusion ==
  \A l \in Lock : \A t \in Task : hold[t] = l <=> owner[l] = t

(* The users list of a lock is right: it names the tasks that hold the     *)
(* lock or are inside its lock_enter(), and those still exist.  A task is  *)
(* a user of one lock at a time, and only a task that exists runs.  (What  *)
(* lock_leave() walks; TaskRemove() does not look at the list.)            *)
UsersKnown ==
  /\ \A l \in Lock : \A t \in Task :
       /\ t \in users[l] <=> hold[t] = l \/ want[t] = l
       /\ t \in users[l] => task[t].valid /\ t \in LockUsers[l]
  /\ \A t \in Task :
       /\ pc[t] = "lock" <=> want[t] # NoLock
       /\ want[t] # NoLock => hold[t] = NoLock
       /\ wait[t] # NoLock => wait[t] = want[t]
  /\ mode = "run" => task[cur].valid

TokensOf(l) ==
  /\ leave[l] <= enter[l]
  /\ \A t \in users[l] : token[t] \in leave[l] .. enter[l] - 1
  /\ \A t, u \in users[l] : token[t] = token[u] => t = u
  /\ \A k \in leave[l] .. enter[l] - 1 : \E t \in users[l] : token[t] = k
  /\ owner[l] # NoTask => owner[l] \in users[l] /\ token[owner[l]] = leave[l]

(* The tokens of a lock's users are exactly the numbers from the one being *)
(* served to the last one given out, each once, and the owner has the one  *)
(* being served.  Swapping must not lose, repeat or skip one: lock_enter() *)
(* asserts that the user with the lowest token exists, and a skipped token *)
(* would never be served.                                                  *)
TokensServed == \A l \in Lock : TokensOf(l)

(* A lock that nobody owns but somebody wants is never forgotten: the task *)
(* whose token is served is ready to run, so that the wakeup of            *)
(* lock_leave() reached it, whatever swaps, spurious wakeups and           *)
(* TaskSleepID() calls came after.  (lock_check() panics when this lasts.) *)
FreeLockIsWanted ==
  \A l \in Lock :
    owner[l] = NoTask /\ users[l] # {} =>
      \E t \in users[l] : /\ token[t] = leave[l]
                          /\ task[t].valid /\ ~task[t].stopped

(* "A lock waiter should never be sleeping" (asserted by lock_enter() and  *)
(* lock_leave()): neither TaskSleepID() nor a sleep of its own puts a task *)
(* that waits to sleep.  All users but the owner and a task that is just   *)
(* entering wait (asserted by lock_leave()).                               *)
WaiterNeverSleeps ==
  \A l \in Lock : \A t \in users[l] :
    /\ wait[t] = l => ~task[t].sleeping
    /\ wait[t] = l \/ hold[t] = l \/ (t = cur /\ mode = "run" /\ pc[t] = "lock")

(* A task that is stopped sleeps or waits for a lock (asserted by          *)
(* TaskWakeup()), and one that sleeps has not been woken (asserted for     *)
(* TWF_CHECK_WAKING): nobody is stopped with nothing left to restart it.   *)
StoppedHasReason ==
  \A t \in Task : task[t].valid =>
    /\ task[t].stopped => task[t].sleeping \/ wait[t] # NoLock
    /\ task[t].sleeping => task[t].stopped /\ ~task[t].wakeup

(* A raised priority belongs to a task that holds a lock and ends with     *)
(* it: every other task is at the priority it was created with.            *)
BoostEnds ==
  \A t \in Task : task[t].valid =>
    IF task[t].boosted
    THEN hold[t] # NoLock /\ task[t].saved = Prio[t] /\ task[t].priority > Prio[t]
    ELSE task[t].priority = Prio[t]

(* A task of a higher priority that waits for a lock has raised its owner  *)
(* above the owner's own priority, unless the owner was created with       *)
(* CTF_NO_PRIO_INV: swapping and the order of wakeups never leave a slow   *)
(* owner in front of a faster waiter unnoticed.                            *)
OwnerInherits ==
  \A l \in Lock :
    \A t \in users[l] :
      owner[l] \in Task \ NoPrioInv /\ wait[t] = l /\ Prio[t] > Prio[owner[l]]
        => task[owner[l]].boosted

(* Every task is in the queue of its priority, once, and in no other, and  *)
(* the round robin mark of a queue is one of its tasks: creation, removal  *)
(* and changes of priority keep the scheduler's lists and the tasks' own   *)
(* fields together.                                                        *)
QueuesConsistent ==
  \A p \in Priority :
    LET InQ(t) == \E i \in 1 .. Len(taskQ[p]) : taskQ[p][i] = t IN
    /\ \A i, j \in 1 .. Len(taskQ[p]) : taskQ[p][i] = taskQ[p][j] => i = j
    /\ \A t \in Task : InQ(t) <=> task[t].valid /\ task[t].priority = p
    /\ lastRun[p] # NoTask => InQ(lastRun[p])

(* The locks implement PriorityLock: a lock never goes to a task while one *)
(* of a higher priority waits for it, although lock_leave() only serves    *)
(* the next token and it is swapping and the scheduler that see to it.     *)
PL == INSTANCE PriorityLock
        WITH waiters <- [l \in Lock |-> users[l] \ {owner[l]}]

ImplementsPriorityLock == PL!Spec

(* Every task that enters a lock gets it, unless faster ones take the lock *)
(* again and again: they swap their tokens for its own.  Among equals the  *)
(* tokens and the round robin let nobody wait for ever.                    *)
WaiterIsServed ==
  \A l \in Lock : \A t \in LockUsers[l] :
    \/ (pc[t] = "lock" /\ want[t] = l) ~> (hold[t] = l)
    \/ []<>(\E u \in LockUsers[l] : Prio[u] > Prio[t] /\ hold[u] = l)

(* A sleep that TaskSleepID() asks of a task busy with a lock is not lost: *)
(* it is taken when the lock is left, unless a TaskWakeup() cancels it.    *)
PendingSleepHappens ==
  \A t \in Task : (task[t].pending # "no") ~> (task[t].pending = "no")
=============================================================================
