------------------------------- MODULE Tasks -------------------------------
(***************************************************************************)
(* The task table and the scheduler of support/coroutines.cpp: a set of    *)
(* coroutines on one CPU, eight (here MaxPriority + 1) priority queues     *)
(* served round robin, sleeping with a deadline, with a wakeup test or     *)
(* until woken, TaskSleepID() that puts another task to sleep, and         *)
(* creation and removal of tasks.                                          *)
(*                                                                         *)
(* A task gives up the CPU only by calling NextTask(), so what it does     *)
(* between two such calls is one step.  A call of NextTask() is two: the   *)
(* caller's step ends with mode = "sched", and Dispatch, the search loop   *)
(* of NextTask(), chooses the task that runs next.  pc[t] says where the   *)
(* NextTask() that t is suspended in returns to: "app" code, the loop of   *)
(* TaskSleep() or the loop of lock_enter().                                *)
(*                                                                         *)
(* Time is read only inside that loop, so a deadline that has passed, a    *)
(* wakeup test that has become true and an interrupt that has been raised  *)
(* are choices Dispatch makes.                                             *)
(***************************************************************************)
EXTENDS Integers, Sequences, FiniteSets

CONSTANTS
  NTasks,        \* task slots (MAX_TASKS)
  MaxPriority,   \* HIGHEST_PRIORITY; LOWEST_PRIORITY is 0
  Prio,          \* Prio[t]: priority of the task created in slot t
  InitQ,         \* the task queues when the model starts
  ITask,         \* the task created with CTF_POLL_INTR, or NoTask
  BusyHelper,    \* the task created with CTF_BUSY_HELPER, or NoTask
  MinRun,        \* tasks that have called TaskMinRun()
  SleepKinds,    \* SleepKinds[t]: the ways in which t goes to sleep
  SleepIDTargets,\* tasks that others put to sleep with TaskSleepID()
  WakeTargets,   \* tasks that others wake with TaskWakeup()
  Removable,     \* tasks that another task may remove
  Creators,      \* tasks that create and remove tasks
  Params,        \* Params[t]: the parameters t gives NextTask()
  Lock, NoLock   \* the locks (module Locks); NoLock stands for NULL

Task == 0 .. NTasks - 1
TID_MAIN == 0
NoTask == -1
Priority == 0 .. MaxPriority
InitTasks == UNION {{InitQ[p][i] : i \in 1 .. Len(InitQ[p])} : p \in Priority}
Kind == {"event", "timed", "test"}
Param == {"none", "busy_wait", "long_run", "fast_check"}

ASSUME TasksAssumption ==
  /\ NTasks \in Nat \ {0}
  /\ MaxPriority \in Nat
  /\ Prio \in [Task -> Priority]
  /\ InitQ \in [Priority -> Seq(Task)]
  /\ \A p \in Priority : \A i, j \in 1 .. Len(InitQ[p]) :
       /\ Prio[InitQ[p][i]] = p
       /\ InitQ[p][i] = InitQ[p][j] => i = j
  /\ TID_MAIN \in InitTasks
  /\ ITask \in Task \cup {NoTask} /\ BusyHelper \in Task \cup {NoTask}
  /\ SleepKinds \in [Task -> SUBSET Kind]
  /\ Params \in [Task -> SUBSET Param]
  /\ SleepIDTargets \subseteq Task /\ WakeTargets \subseteq Task
  /\ Removable \subseteq Task \ {TID_MAIN, ITask, BusyHelper}
  /\ Creators \subseteq Task /\ MinRun \subseteq Task
  /\ NoLock \notin Lock

VARIABLES
  cur,       \* cur_task
  mode,      \* "run": cur executes; "sched": in the search loop of NextTask()
  noRunSame, \* no_run_same of that call of NextTask()
  task,      \* the TASK structures, without their lock part
  taskQ,     \* TaskQ[p].tll, from its head
  lastRun,   \* TaskQ[p].last_run
  pc,        \* where a suspended task continues
  hold, wait \* TASK.lock.hold, TASK.lock.wait

schedVars == <<cur, mode, noRunSame, task, taskQ, lastRun>>

TaskRecord ==
  [valid : BOOLEAN, init : BOOLEAN,         \* init: ctx->init, its stack is ready
   priority : Priority, saved : Priority,
   boosted : BOOLEAN,                       \* CTF_PRIO_INVERSION
   stopped : BOOLEAN, sleeping : BOOLEAN, wakeup : BOOLEAN,
   deadline : BOOLEAN, test : BOOLEAN,      \* deadline > 0, wakeup_test # NULL
   busy_wait : BOOLEAN, long_run : BOOLEAN,
   pending : {"no", "event", "timed"}]      \* pending_sleep with pending_usec

----------------------------------------------------------------------------
(* The task queues *)

TenQ(q, t, p) == [q EXCEPT ![p] = <<t>> \o @]

(* s without t, one of its elements *)
Without(s, t) ==
  LET i == CHOOSE i \in 1 .. Len(s) : s[i] = t
  IN  [j \in 1 .. Len(s) - 1 |-> IF j < i THEN s[j] ELSE s[j + 1]]

TdeQ(q, t, p) == [q EXCEPT ![p] = Without(@, t)]
TdeQLast_Keeps(lr, t, p) == lr
TdeQLast(lr, t, p) == [lr EXCEPT ![p] = IF @ = t THEN NoTask ELSE @]

(* RUNNABLE_YES on every task of S; RUNNABLE_NO, with the deadline or the  *)
(* wakeup test of taskSleepSetup().                                        *)
RunnableYes_Sleeping(tk, S) ==
  [t \in Task |->
     IF t \in S THEN [tk[t] EXCEPT !.stopped = FALSE, !.wakeup = TRUE] ELSE tk[t]]

RunnableYes(tk, S) ==
  [t \in Task |->
     IF t \in S
     THEN [tk[t] EXCEPT !.stopped = FALSE, !.sleeping = FALSE, !.wakeup = TRUE]
     ELSE tk[t]]

SleepSetup(tk, t, kind) ==
  [tk EXCEPT ![t] = [@ EXCEPT !.deadline = (kind = "timed"),
                              !.test = (kind = "test"),
                              !.stopped = TRUE, !.sleeping = TRUE,
                              !.wakeup = FALSE]]

----------------------------------------------------------------------------
(* NextTask() up to its search loop, called when the tables are tk and lr. *)
(* A task that is within its minimum run time, or that only checks whether *)
(* it has run for long, may return at once.  The second busy wait in a row *)
(* wakes the busy helper or, when there is none, asks that another task be *)
(* run.                                                                    *)
NextTask(tk, lr, param) ==
  \/ /\ cur \in MinRun \/ param = "fast_check"
     /\ mode' = mode
     /\ task' = tk
     /\ lastRun' = lr
     /\ noRunSame' = FALSE
  \/ LET again == param = "busy_wait" /\ tk[cur].busy_wait
         marked == [tk EXCEPT ![cur] =
                      [@ EXCEPT !.busy_wait = (param = "busy_wait" /\ ~again),
                                !.long_run = tk[cur].long_run \/ param = "long_run"]]
     IN  /\ mode' = "sched"
         /\ task' = RunnableYes(marked, {t \in Task : again /\ t = BusyHelper})
         /\ lastRun' = [lr EXCEPT ![tk[cur].priority] =
                                    IF tk[cur].valid THEN cur ELSE NoTask]
         /\ noRunSame' = (again /\ BusyHelper = NoTask)

(* The first member of S at or after the one that follows last_run, as a   *)
(* set: the search finds one because S is part of the queue.               *)
RoundRobin_Last(p, S) == {lastRun[p]}

RoundRobin(p, S) ==
  LET q == taskQ[p]
      n == Len(q)
      after == {i \in 1 .. n - 1 : q[i] = lastRun[p]}
      start == IF after = {} THEN 0 ELSE CHOOSE i \in after : TRUE
      At(k) == q[1 + ((start + k) % n)]
  IN  {t \in S : \E k \in 0 .. n - 1 :
                   At(k) = t /\ \A j \in 0 .. k - 1 : At(j) \notin S}

Highest(S) == CHOOSE p \in S : \A r \in S : r <= p

(* One pass of the search loop that finds a task.  due: the tasks whose    *)
(* deadline has passed or whose test is true; intr: the interrupt was      *)
(* raised; window: the data pump ran less than 4 ms ago, so that a task    *)
(* that announced a long run may start it (always so without a data pump). *)
(* Queues below the one served are not looked at: what is due there stays. *)
Alarmed == {t \in Task : task[t].valid /\ (task[t].deadline \/ task[t].test)}

Pass(due, intr, window) ==
  LET polled == {t \in Task : intr /\ t = ITask /\ task[t].sleeping}
      Runnable(p) == {t \in Task : /\ task[t].valid /\ task[t].priority = p
                                   /\ ~task[t].stopped \/ t \in due \cup polled}
      Eligible(p) == {t \in Runnable(p) : task[t].long_run => window}
      skipped == {p \in Priority : /\ noRunSame /\ p = task[cur].priority
                                   /\ Cardinality(Runnable(p)) = 1}
      levels == {p \in Priority : Eligible(p) # {}}
      found == levels \ skipped # {}
      p == Highest(IF found THEN levels \ skipped ELSE levels)
      woken == {t \in due : found => task[t].priority >= p}
      awake == RunnableYes(task, woken \cup polled)
  IN  /\ levels # {}
      /\ cur' \in RoundRobin(p, Eligible(p))
      /\ task' = [t \in Task |->
                    [awake[t] EXCEPT !.deadline = awake[t].deadline /\ t \notin woken,
                                     !.test = awake[t].test /\ t \notin woken,
                                     !.long_run = awake[t].long_run /\ t # cur']]

Dispatch ==
  /\ mode = "sched"
  /\ \E due \in SUBSET Alarmed, intr \in BOOLEAN, window \in BOOLEAN :
        /\ ITask = NoTask => window /\ ~intr
        /\ Pass(due, intr, window)
  /\ mode' = "run"
  /\ noRunSame' = FALSE
  /\ UNCHANGED <<taskQ, lastRun, pc, hold, wait>>

----------------------------------------------------------------------------
(* What the running task does between two calls of NextTask().  mode is    *)
(* "run" before each of these steps and pc[cur] is "app" but in SleepLoop. *)

AppRuns == mode = "run" /\ pc[cur] = "app"

(* NextTask(), for instance while spi_get() waits for the eCPU             *)
Yield(param) ==
  /\ AppRuns
  /\ param \in Params[cur]
  /\ NextTask(task, lastRun, param)
  /\ UNCHANGED <<cur, taskQ, pc, hold, wait>>

(* TaskSleep(), TaskSleepUsec(), TaskSleepWakeupTest() *)
TaskSleep(kind) ==
  /\ AppRuns
  /\ kind \in SleepKinds[cur]
  /\ NextTask(SleepSetup(task, cur, kind), lastRun, "none")
  /\ pc' = [pc EXCEPT ![cur] = "sleep"]
  /\ UNCHANGED <<cur, taskQ, hold, wait>>

(* ... and their loop: back to sleep unless somebody said wakeup           *)
SleepLoop ==
  /\ mode = "run" /\ pc[cur] = "sleep"
  /\ \/ /\ ~task[cur].wakeup
        /\ NextTask(task, lastRun, "none")
        /\ pc' = pc
     \/ /\ task[cur].wakeup
        /\ task' = [task EXCEPT ![cur] =
                      [@ EXCEPT !.deadline = FALSE, !.stopped = FALSE,
                                !.sleeping = FALSE, !.wakeup = FALSE]]
        /\ pc' = [pc EXCEPT ![cur] = "app"]
        /\ UNCHANGED <<mode, noRunSame, lastRun>>
  /\ UNCHANGED <<cur, taskQ, hold, wait>>

UsesLock_Holds(t) == hold[t] # NoLock
UsesLock(t) == hold[t] # NoLock \/ wait[t] # NoLock

(* Another task is put to sleep: at once, or, when it holds a lock or      *)
(* waits for one, once it has left that lock.                              *)
TaskSleepID(t, kind) ==
  /\ AppRuns
  /\ t \in SleepIDTargets \ {cur}
  /\ task[t].valid
  /\ kind \in {"event", "timed"} \cap SleepKinds[t]
  /\ task' = IF UsesLock(t)
             THEN [task EXCEPT ![t].pending = kind]
             ELSE SleepSetup(task, t, kind)
  /\ UNCHANGED <<cur, mode, noRunSame, taskQ, lastRun, pc, hold, wait>>

(* A task that sleeps for a time is left alone unless the caller cancels   *)
(* its deadline; one of a higher priority is run without delay.            *)
TaskWakeup(t, cancel) ==
  LET undead == [task EXCEPT ![t].deadline = FALSE]
      woken == RunnableYes(undead, {t})
  IN
  /\ AppRuns
  /\ t \in WakeTargets
  /\ task[t].valid
  /\ task[t].deadline => cancel
  /\ \/ /\ ~task[t].sleeping
        /\ task' = [undead EXCEPT ![t].pending = "no"]
        /\ UNCHANGED <<mode, noRunSame, lastRun>>
     \/ /\ task[t].sleeping /\ task[t].priority <= task[cur].priority
        /\ task' = woken
        /\ UNCHANGED <<mode, noRunSame, lastRun>>
     \/ /\ task[t].sleeping /\ task[t].priority > task[cur].priority
        /\ NextTask(woken, lastRun, "none")
  /\ UNCHANGED <<cur, taskQ, pc, hold, wait>>

(* _CreateTask() takes the first free slot whose stack is ready; task_init()*)
NewTask(t) ==
  [valid |-> TRUE, init |-> TRUE, priority |-> Prio[t], saved |-> 0,
   boosted |-> FALSE, stopped |-> FALSE, sleeping |-> FALSE, wakeup |-> FALSE,
   deadline |-> FALSE, test |-> FALSE, busy_wait |-> FALSE, long_run |-> FALSE,
   pending |-> "no"]

Free_Live == {t \in Task \ {TID_MAIN} : task[t].init}
Free == {t \in Task \ {TID_MAIN} : ~task[t].valid /\ task[t].init}

CreateTask ==
  /\ AppRuns
  /\ cur \in Creators
  /\ \E t \in Free :
       /\ \A u \in Free : t <= u
       /\ task' = [task EXCEPT ![t] = NewTask(t)]
       /\ taskQ' = TenQ(taskQ, t, Prio[t])
       /\ pc' = [pc EXCEPT ![t] = "app"]
  /\ UNCHANGED <<cur, mode, noRunSame, lastRun, hold, wait>>

(* A task removes itself, or one that others may remove; TaskRemove()      *)
(* panics when that task holds a lock or when NextTask() returns to it.    *)
TaskRemove(t) ==
  LET p == task[t].priority
      gone == [task EXCEPT ![t] = [@ EXCEPT !.stopped = TRUE, !.valid = FALSE,
                                            !.init = FALSE]]
  IN
  /\ AppRuns
  /\ cur \in Creators
  /\ task[t].valid /\ hold[t] = NoLock
  /\ IF t = cur THEN t \notin MinRun \cup {TID_MAIN, ITask, BusyHelper}
                ELSE t \in Removable
  /\ taskQ' = TdeQ(taskQ, t, p)
  /\ NextTask(gone, TdeQLast(lastRun, t, p), "none")
  /\ UNCHANGED <<cur, pc, hold, wait>>

(* The main loop makes the stacks of removed tasks ready for new ones      *)
TaskCollect ==
  /\ AppRuns
  /\ cur = TID_MAIN
  /\ \E t \in Task : ~task[t].init
  /\ task' = [t \in Task |-> [task[t] EXCEPT !.init = TRUE]]
  /\ UNCHANGED <<cur, mode, noRunSame, taskQ, lastRun, pc, hold, wait>>

----------------------------------------------------------------------------
(* The main task runs; the tasks that the program starts with are queued.  *)
EmptySlot(t) == [NewTask(t) EXCEPT !.valid = FALSE, !.priority = 0]

TasksInit ==
  /\ cur = TID_MAIN
  /\ mode = "run"
  /\ noRunSame = FALSE
  /\ task = [t \in Task |-> IF t \in InitTasks THEN NewTask(t) ELSE EmptySlot(t)]
  /\ taskQ = InitQ
  /\ lastRun = [p \in Priority |-> NoTask]
  /\ pc = [t \in Task |-> "app"]
  /\ hold = [t \in Task |-> NoLock]
  /\ wait = [t \in Task |-> NoLock]

TasksNext ==
  \/ Dispatch
  \/ SleepLoop
  \/ CreateTask
  \/ TaskCollect
  \/ \E param \in Param : Yield(param)
  \/ \E kind \in Kind : TaskSleep(kind)
  \/ \E t \in Task, kind \in Kind : TaskSleepID(t, kind)
  \/ \E t \in Task, cancel \in BOOLEAN : TaskWakeup(t, cancel)
  \/ \E t \in Task : TaskRemove(t)
=============================================================================
