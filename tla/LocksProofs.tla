---------------------------- MODULE LocksProofs ----------------------------
(***************************************************************************)
(* Proofs about modules Tasks and Locks, for any number of tasks, locks    *)
(* and priorities and any behaviour of the tasks' own code.                *)
(***************************************************************************)
EXTENDS Locks, TLAPS

----------------------------------------------------------------------------
(* The assumptions on the constants, as the proofs use them.               *)
LEMMA ConstantsType ==
  /\ TID_MAIN \in Task /\ NoTask \notin Task
  /\ 0 \in Priority /\ Prio \in [Task -> Priority]
  /\ InitQ \in [Priority -> Seq(Task)]
  /\ NoLock \notin Lock
<1>1. NTasks \in Nat \ {0} /\ MaxPriority \in Nat
  BY TasksAssumption
<1>2. TID_MAIN \in Task /\ NoTask \notin Task /\ 0 \in Priority
  BY <1>1 DEF TID_MAIN, NoTask, Task, Priority
<1> QED
  BY <1>2, TasksAssumption

LEMMA NoLockType == NoLock \notin Lock
BY TasksAssumption

(* What the operators on the task table and the queues return.             *)

(* Inserting a task into a queue leaves the queues queues of tasks. *)
LEMMA TenQType ==
  ASSUME NEW q \in [Priority -> Seq(Task)], NEW t \in Task, NEW p \in Priority
  PROVE  TenQ(q, t, p) \in [Priority -> Seq(Task)]
<1>1. <<t>> \o q[p] \in Seq(Task)
  OBVIOUS
<1> QED
  BY <1>1 DEF TenQ

(* Taking a task out leaves a queue of tasks, whether it was there or not. *)
LEMMA WithoutType ==
  ASSUME NEW s \in Seq(Task), NEW t
  PROVE  Without(s, t) \in Seq(Task)
<1> DEFINE i == CHOOSE k \in 1 .. Len(s) : s[k] = t
           n == IF Len(s) = 0 THEN 0 ELSE Len(s) - 1
           r == [j \in 1 .. Len(s) - 1 |-> IF j < i THEN s[j] ELSE s[j + 1]]
<1>1. n \in Nat /\ 1 .. Len(s) - 1 = 1 .. n
  OBVIOUS
<1>2. \A j \in 1 .. n : s[j] \in Task /\ s[j + 1] \in Task
  OBVIOUS
<1> HIDE DEF i, n
<1>3. r \in [1 .. n -> Task]
  BY <1>1, <1>2
<1>4. r \in Seq(Task)
  BY <1>1, <1>3
<1> QED
  BY <1>4 DEF Without, i

LEMMA TdeQType ==
  ASSUME NEW q \in [Priority -> Seq(Task)], NEW t, NEW p \in Priority
  PROVE  TdeQ(q, t, p) \in [Priority -> Seq(Task)]
<1>1. Without(q[p], t) \in Seq(Task)
  BY WithoutType
<1> QED
  BY <1>1 DEF TdeQ

LEMMA TdeQLastType ==
  ASSUME NEW lr \in [Priority -> Task \cup {NoTask}], NEW t, NEW p \in Priority
  PROVE  TdeQLast(lr, t, p) \in [Priority -> Task \cup {NoTask}]
BY DEF TdeQLast

(* RUNNABLE_YES and taskSleepSetup() keep the TASK structures well formed. *)
LEMMA RunnableYesType ==
  ASSUME NEW tk \in [Task -> TaskRecord], NEW S
  PROVE  RunnableYes(tk, S) \in [Task -> TaskRecord]
BY DEF RunnableYes, TaskRecord

LEMMA SleepSetupType ==
  ASSUME NEW tk \in [Task -> TaskRecord], NEW t \in Task, NEW kind \in Kind
  PROVE  SleepSetup(tk, t, kind) \in [Task -> TaskRecord]
<1> DEFINE r(a, b) == [tk[t] EXCEPT !.deadline = a, !.test = b,
                                    !.stopped = TRUE, !.sleeping = TRUE,
                                    !.wakeup = FALSE]
<1>1. \A a, b \in BOOLEAN : r(a, b) \in TaskRecord
  BY DEF TaskRecord
<1>2. (kind = "timed") \in BOOLEAN /\ (kind = "test") \in BOOLEAN
  BY Zenon
<1>3. r(kind = "timed", kind = "test") \in TaskRecord
  BY <1>1, <1>2, Zenon
<1> QED
  BY <1>3, Zenon DEF SleepSetup

(* NextTask() called with well formed tables leaves them so. *)
LEMMA NextTaskType ==
  ASSUME cur \in Task, mode \in {"run", "sched"},
         NEW tk \in [Task -> TaskRecord],
         NEW lr \in [Priority -> Task \cup {NoTask}],
         NEW param,
         NextTask(tk, lr, param)
  PROVE  /\ mode' \in {"run", "sched"}
         /\ noRunSame' \in BOOLEAN
         /\ task' \in [Task -> TaskRecord]
         /\ lastRun' \in [Priority -> Task \cup {NoTask}]
<1> DEFINE again == param = "busy_wait" /\ tk[cur].busy_wait
           mark(a, b) == [tk[cur] EXCEPT !.busy_wait = a, !.long_run = b]
           marked == [tk EXCEPT ![cur] =
                        [@ EXCEPT
                           !.busy_wait = (param = "busy_wait" /\ ~again),
                           !.long_run = tk[cur].long_run \/ param = "long_run"]]
           helper == {t \in Task : again /\ t = BusyHelper}
<1>1. CASE mode' = mode /\ task' = tk /\ lastRun' = lr /\ noRunSame' = FALSE
  BY <1>1
<1>2. CASE /\ mode' = "sched"
           /\ task' = RunnableYes(marked, helper)
           /\ lastRun' = [lr EXCEPT ![tk[cur].priority] =
                                      IF tk[cur].valid THEN cur ELSE NoTask]
           /\ noRunSame' = (again /\ BusyHelper = NoTask)
  <2>0. \A a, b \in BOOLEAN : mark(a, b) \in TaskRecord
    BY DEF TaskRecord
  <2>1. marked \in [Task -> TaskRecord]
    <3>1. /\ (param = "busy_wait" /\ ~again) \in BOOLEAN
          /\ (tk[cur].long_run \/ param = "long_run") \in BOOLEAN
      BY Zenon
    <3>2. mark(param = "busy_wait" /\ ~again,
               tk[cur].long_run \/ param = "long_run") \in TaskRecord
      BY <2>0, <3>1, Zenon
    <3> QED
      BY <3>2, Zenon
  <2>2. task' \in [Task -> TaskRecord]
    BY <1>2, <2>1, RunnableYesType
  <2>3. tk[cur].priority \in Priority
    BY DEF TaskRecord
  <2>4. lastRun' \in [Priority -> Task \cup {NoTask}]
    BY <1>2, <2>3
  <2>5. noRunSame' \in BOOLEAN
    BY <1>2, Zenon
  <2> QED
    BY <1>2, <2>2, <2>4, <2>5
<1> QED
  BY <1>1, <1>2 DEF NextTask

----------------------------------------------------------------------------
(* Type correctness                                                        *)

(* What the priority inversion code of lock_leave() makes of the tables. *)
LEMMA LoweredType ==
  ASSUME TypeOK
  PROVE  /\ Lowered \in [Task -> TaskRecord]
         /\ LoweredQ \in [Priority -> Seq(Task)]
         /\ LoweredLast \in [Priority -> Task \cup {NoTask}]
<1>0. task[cur] \in TaskRecord /\ 0 \in Priority
  BY ConstantsType DEF TypeOK
<1>1. task[cur].priority \in Priority /\ task[cur].saved \in Priority
  BY <1>0 DEF TaskRecord
<1>2. Lowered \in [Task -> TaskRecord]
  <2>1. [task[cur] EXCEPT !.priority = task[cur].saved, !.saved = 0,
                          !.boosted = FALSE] \in TaskRecord
    BY <1>0, <1>1 DEF TaskRecord
  <2> QED
    BY <2>1 DEF Lowered, TypeOK
<1>3. LoweredQ \in [Priority -> Seq(Task)]
  BY <1>1, TdeQType, TenQType DEF LoweredQ, TypeOK
<1>4. LoweredLast \in [Priority -> Task \cup {NoTask}]
  BY <1>1, TdeQLastType DEF LoweredLast, TypeOK
<1> QED
  BY <1>2, <1>3, <1>4

(* The structures of a new and of an unused task are well formed. *)
LEMMA NewTaskType ==
  ASSUME NEW t \in Task
  PROVE  NewTask(t) \in TaskRecord /\ EmptySlot(t) \in TaskRecord
BY ConstantsType DEF NewTask, EmptySlot, TaskRecord

LEMMA InitType == Init => TypeOK
<1> SUFFICES ASSUME Init PROVE TypeOK
  OBVIOUS
<1> USE DEF Init, TasksInit
<1>1. cur \in Task /\ mode \in {"run", "sched"} /\ noRunSame \in BOOLEAN
  BY ConstantsType
<1>2. task \in [Task -> TaskRecord]
  BY NewTaskType
<1>3. /\ taskQ \in [Priority -> Seq(Task)]
      /\ lastRun \in [Priority -> Task \cup {NoTask}]
      /\ pc \in [Task -> {"app", "sleep", "lock"}]
      /\ hold \in [Task -> Lock \cup {NoLock}]
      /\ wait \in [Task -> Lock \cup {NoLock}]
  BY TasksAssumption
<1>4. /\ enter \in [Lock -> Nat] /\ leave \in [Lock -> Nat]
      /\ owner \in [Lock -> Task \cup {NoTask}]
      /\ users \in [Lock -> SUBSET Task]
      /\ token \in [Task -> Nat] /\ waiting \in [Task -> BOOLEAN]
      /\ want \in [Task -> Lock \cup {NoLock}]
  OBVIOUS
<1> QED
  BY <1>1, <1>2, <1>3, <1>4 DEF TypeOK

(* What the search loop of NextTask() makes of the tables. *)
LEMMA DispatchType ==
  ASSUME TypeOK, Dispatch
  PROVE  /\ cur' \in Task /\ task[cur'].valid
         /\ task' \in [Task -> TaskRecord]
         /\ \A t \in Task : task'[t].valid = task[t].valid
<1>1. PICK due \in SUBSET Alarmed, intr \in BOOLEAN, window \in BOOLEAN :
        Pass(due, intr, window)
  BY DEF Dispatch
<1> DEFINE
      polled == {t \in Task : intr /\ t = ITask /\ task[t].sleeping}
      Runnable(p) == {t \in Task : /\ task[t].valid /\ task[t].priority = p
                                   /\ ~task[t].stopped \/ t \in due \cup polled}
      Eligible(p) == {t \in Runnable(p) : task[t].long_run => window}
      skipped == {p \in Priority : /\ noRunSame /\ p = task[cur].priority
                                   /\ Cardinality(Runnable(p)) = 1}
      levels == {p \in Priority : Eligible(p) # {}}
      found == levels \ skipped # {}
      top == Highest(IF found THEN levels \ skipped ELSE levels)
      woken == {t \in due : found => task[t].priority >= top}
      awake == RunnableYes(task, woken \cup polled)
<1>2. /\ cur' \in RoundRobin(top, Eligible(top))
      /\ task' = [t \in Task |->
                    [awake[t] EXCEPT !.deadline = awake[t].deadline /\ t \notin woken,
                                     !.test = awake[t].test /\ t \notin woken,
                                     !.long_run = awake[t].long_run /\ t # cur']]
  BY <1>1, Zenon DEF Pass
<1>3. cur' \in Task /\ task[cur'].valid
  <2> HIDE DEF top
  <2>1. cur' \in Eligible(top)
    BY <1>2, Zenon DEF RoundRobin
  <2> QED
    BY <2>1
<1>4. awake \in [Task -> TaskRecord]
  BY RunnableYesType DEF TypeOK
<1>5. \A t \in Task : awake[t].valid = task[t].valid
  BY DEF RunnableYes, TypeOK, TaskRecord
<1> HIDE DEF awake, woken
<1>6. ASSUME NEW t \in Task
      PROVE  task'[t] \in TaskRecord /\ task'[t].valid = task[t].valid
  <2> DEFINE r(a, b, c) == [awake[t] EXCEPT !.deadline = a, !.test = b,
                                            !.long_run = c]
  <2>1. \A a, b, c \in BOOLEAN :
          r(a, b, c) \in TaskRecord /\ r(a, b, c).valid = awake[t].valid
    BY <1>4 DEF TaskRecord
  <2> DEFINE a == awake[t].deadline /\ t \notin woken
             b == awake[t].test /\ t \notin woken
             c == awake[t].long_run /\ t # cur'
  <2>2. a \in BOOLEAN /\ b \in BOOLEAN /\ c \in BOOLEAN
    BY Zenon
  <2>3. task'[t] = r(a, b, c)
    BY <1>2, Zenon
  <2>4. r(a, b, c) \in TaskRecord /\ r(a, b, c).valid = awake[t].valid
    <3> HIDE DEF r, a, b, c
    <3> QED
      BY <2>1, <2>2, Zenon
  <2>5. awake[t].valid = task[t].valid
    BY <1>5
  <2> HIDE DEF r
  <2> QED
    BY <2>3, <2>4, <2>5, Zenon
<1> QED
  <2>1. task' = [t \in Task |-> task'[t]]
    BY <1>2, Zenon
  <2> QED
    BY <2>1, <1>3, <1>6, Zenon

(* The steps of module Tasks keep the types. *)
LEMMA TasksStepType ==
  ASSUME TypeOK, TasksNext, UNCHANGED lockVars
  PROVE  TypeOK'
<1> USE DEF lockVars
<1>0. cur \in Task /\ task \in [Task -> TaskRecord] /\ task[cur] \in TaskRecord
  BY DEF TypeOK
<1>1. CASE Dispatch
  BY <1>1, DispatchType DEF TypeOK, Dispatch
<1>2. CASE SleepLoop
  <2>1. CASE NextTask(task, lastRun, "none") /\ pc' = pc
    <3>1. /\ mode' \in {"run", "sched"} /\ noRunSame' \in BOOLEAN
          /\ task' \in [Task -> TaskRecord]
          /\ lastRun' \in [Priority -> Task \cup {NoTask}]
      BY <2>1, NextTaskType DEF TypeOK
    <3> QED
      BY <3>1, <2>1, <1>2 DEF SleepLoop, TypeOK
  <2>2. CASE /\ task' = [task EXCEPT ![cur] =
                           [@ EXCEPT !.deadline = FALSE, !.stopped = FALSE,
                                     !.sleeping = FALSE, !.wakeup = FALSE]]
             /\ pc' = [pc EXCEPT ![cur] = "app"]
             /\ UNCHANGED <<mode, noRunSame, lastRun>>
    <3>1. [task[cur] EXCEPT !.deadline = FALSE, !.stopped = FALSE,
                            !.sleeping = FALSE, !.wakeup = FALSE] \in TaskRecord
      BY <1>0 DEF TaskRecord
    <3>2. task' \in [Task -> TaskRecord]
      BY <3>1, <2>2, <1>0
    <3> QED
      BY <3>2, <2>2, <1>2 DEF SleepLoop, TypeOK
  <2> QED
    BY <2>1, <2>2, <1>2, Zenon DEF SleepLoop
<1>3. CASE CreateTask
  <2>1. PICK t \in Task :
          /\ task' = [task EXCEPT ![t] = NewTask(t)]
          /\ taskQ' = TenQ(taskQ, t, Prio[t])
          /\ pc' = [pc EXCEPT ![t] = "app"]
    BY <1>3 DEF CreateTask, Free
  <2>2. taskQ' \in [Priority -> Seq(Task)]
    BY <2>1, ConstantsType, TenQType DEF TypeOK
  <2>3. task' \in [Task -> TaskRecord]
    BY <2>1, <1>0, NewTaskType
  <2> QED
    BY <2>1, <2>2, <2>3, <1>3 DEF CreateTask, TypeOK
<1>4. CASE TaskCollect
  <2>1. \A t \in Task : [task[t] EXCEPT !.init = TRUE] \in TaskRecord
    BY <1>0 DEF TaskRecord
  <2>2. task' \in [Task -> TaskRecord]
    BY <2>1, <1>4 DEF TaskCollect
  <2> QED
    BY <2>2, <1>4 DEF TaskCollect, TypeOK
<1>5. ASSUME NEW param \in Param, Yield(param) PROVE TypeOK'
  <2>1. NextTask(task, lastRun, param)
    BY <1>5 DEF Yield
  <2>2. /\ mode' \in {"run", "sched"} /\ noRunSame' \in BOOLEAN
        /\ task' \in [Task -> TaskRecord]
        /\ lastRun' \in [Priority -> Task \cup {NoTask}]
    BY <2>1, NextTaskType DEF TypeOK
  <2> QED
    BY <2>2, <1>5 DEF Yield, TypeOK
<1>6. ASSUME NEW kind \in Kind, TaskSleep(kind) PROVE TypeOK'
  <2>1. SleepSetup(task, cur, kind) \in [Task -> TaskRecord]
    BY <1>0, SleepSetupType
  <2>2. NextTask(SleepSetup(task, cur, kind), lastRun, "none")
    BY <1>6 DEF TaskSleep
  <2>3. /\ mode' \in {"run", "sched"} /\ noRunSame' \in BOOLEAN
        /\ task' \in [Task -> TaskRecord]
        /\ lastRun' \in [Priority -> Task \cup {NoTask}]
    BY <2>1, <2>2, NextTaskType DEF TypeOK
  <2> QED
    BY <2>3, <1>6 DEF TaskSleep, TypeOK
<1>7. ASSUME NEW t \in Task, NEW kind \in Kind, TaskSleepID(t, kind)
      PROVE  TypeOK'
  <2>1. SleepSetup(task, t, kind) \in [Task -> TaskRecord]
    BY <1>0, SleepSetupType
  <2>2. [task[t] EXCEPT !.pending = kind] \in TaskRecord
    BY <1>0, <1>7 DEF TaskSleepID, TaskRecord
  <2>3. task' \in [Task -> TaskRecord]
    BY <2>1, <2>2, <1>0, <1>7 DEF TaskSleepID
  <2> QED
    BY <2>3, <1>7 DEF TaskSleepID, TypeOK
<1>8. ASSUME NEW t \in Task, NEW cancel \in BOOLEAN, TaskWakeup(t, cancel)
      PROVE  TypeOK'
  <2> DEFINE undead == [task EXCEPT ![t].deadline = FALSE]
             woken == RunnableYes(undead, {t})
  <2>1. undead \in [Task -> TaskRecord]
    <3>1. [task[t] EXCEPT !.deadline = FALSE] \in TaskRecord
      BY <1>0 DEF TaskRecord
    <3> QED
      BY <3>1, <1>0
  <2>2. woken \in [Task -> TaskRecord]
    BY <2>1, RunnableYesType
  <2>3. [undead EXCEPT ![t].pending = "no"] \in [Task -> TaskRecord]
    <3>1. [undead[t] EXCEPT !.pending = "no"] \in TaskRecord
      BY <2>1 DEF TaskRecord
    <3> QED
      BY <3>1, <2>1
  <2> HIDE DEF undead, woken
  <2>4. \/ task' \in [Task -> TaskRecord] /\ UNCHANGED <<mode, noRunSame, lastRun>>
        \/ NextTask(woken, lastRun, "none")
    BY <1>8, <2>2, <2>3, Zenon DEF TaskWakeup, undead, woken
  <2>5. /\ mode' \in {"run", "sched"} /\ noRunSame' \in BOOLEAN
        /\ task' \in [Task -> TaskRecord]
        /\ lastRun' \in [Priority -> Task \cup {NoTask}]
    BY <2>2, <2>4, NextTaskType DEF TypeOK
  <2> QED
    BY <2>5, <1>8 DEF TaskWakeup, TypeOK
<1>9. ASSUME NEW t \in Task, TaskRemove(t) PROVE TypeOK'
  <2> DEFINE gone == [task EXCEPT ![t] = [@ EXCEPT !.stopped = TRUE,
                                           !.valid = FALSE, !.init = FALSE]]
  <2>1. gone \in [Task -> TaskRecord] /\ task[t].priority \in Priority
    <3>1. [task[t] EXCEPT !.stopped = TRUE, !.valid = FALSE, !.init = FALSE]
            \in TaskRecord
      BY <1>0 DEF TaskRecord
    <3>2. task[t].priority \in Priority
      BY <1>0 DEF TaskRecord
    <3> QED
      BY <3>1, <3>2, <1>0
  <2>2. TdeQLast(lastRun, t, task[t].priority) \in [Priority -> Task \cup {NoTask}]
    BY <2>1, TdeQLastType DEF TypeOK
  <2>3. taskQ' \in [Priority -> Seq(Task)]
    BY <2>1, <1>9, TdeQType DEF TaskRemove, TypeOK
  <2>4. NextTask(gone, TdeQLast(lastRun, t, task[t].priority), "none")
    BY <1>9, Zenon DEF TaskRemove
  <2> HIDE DEF gone
  <2>5. /\ mode' \in {"run", "sched"} /\ noRunSame' \in BOOLEAN
        /\ task' \in [Task -> TaskRecord]
        /\ lastRun' \in [Priority -> Task \cup {NoTask}]
    BY <2>1, <2>2, <2>4, NextTaskType DEF TypeOK
  <2> QED
    BY <2>3, <2>5, <1>9 DEF TaskRemove, TypeOK
<1> QED
  BY <1>1, <1>2, <1>3, <1>4, <1>5, <1>6, <1>7, <1>8, <1>9, Zenon DEF TasksNext

(* The steps of lock_enter() and lock_leave() keep them too. *)
LEMMA LockStepType ==
  ASSUME TypeOK, NEW l \in Lock, LockNext(l)
  PROVE  TypeOK'
<1>0. cur \in Task /\ task \in [Task -> TaskRecord] /\ task[cur] \in TaskRecord
  BY DEF TypeOK
<1>1. CASE LockEnter(l)
  BY <1>1 DEF LockEnter, TypeOK, schedVars
<1>2. CASE Acquire(l)
  BY <1>2 DEF Acquire, TypeOK, schedVars
<1>3. CASE SwapToken(l)
  <2>1. PICK lp \in users[l] :
          token' = [token EXCEPT ![lp] = token[cur], ![cur] = LowestToken(l)]
    BY <1>3 DEF SwapToken, LowestUsers
  <2>2. LowestToken(l) \in Nat /\ lp \in Task
    BY DEF LowestToken, TypeOK
  <2>3. token' \in [Task -> Nat]
    BY <1>0, <2>1, <2>2 DEF TypeOK
  <2> QED
    BY <2>3, <1>3 DEF SwapToken, TypeOK, schedVars
<1>4. CASE Wait(l)
  <2> DEFINE o == owner[l]
             p == task[cur].priority
             stopped == [task EXCEPT ![cur].stopped = TRUE]
             raised == [stopped EXCEPT ![o] =
                          [@ EXCEPT !.saved = task[o].priority,
                                    !.priority = p, !.boosted = TRUE]]
  <2>1. stopped \in [Task -> TaskRecord]
    <3>1. [task[cur] EXCEPT !.stopped = TRUE] \in TaskRecord
      BY <1>0 DEF TaskRecord
    <3> QED
      BY <3>1, <1>0
  <2>2. wait' \in [Task -> Lock \cup {NoLock}] /\ waiting' \in [Task -> BOOLEAN]
    BY <1>0, <1>4 DEF Wait, TypeOK
  <2>3. CASE /\ Boosts(l)
             /\ taskQ' = TenQ(TdeQ(taskQ, o, task[o].priority), o, p)
             /\ NextTask(raised, TdeQLast(lastRun, o, task[o].priority), "none")
    <3>1. o \in Task /\ task[o] \in TaskRecord
      BY <2>3 DEF Boosts, TypeOK
    <3>2. p \in Priority /\ task[o].priority \in Priority
      BY <1>0, <3>1 DEF TaskRecord
    <3>3. [stopped[o] EXCEPT !.saved = task[o].priority,
                             !.priority = p, !.boosted = TRUE] \in TaskRecord
      <4>1. stopped[o] \in TaskRecord
        BY <2>1, <3>1
      <4> HIDE DEF p, stopped
      <4> QED
        BY <4>1, <3>2 DEF TaskRecord
    <3>4. raised \in [Task -> TaskRecord]
      <4> HIDE DEF p, stopped
      <4> QED
        BY <2>1, <3>3
    <3>5. taskQ' \in [Priority -> Seq(Task)]
      BY <2>3, <3>1, <3>2, TenQType, TdeQType DEF TypeOK
    <3>6. TdeQLast(lastRun, o, task[o].priority) \in [Priority -> Task \cup {NoTask}]
      BY <3>2, TdeQLastType DEF TypeOK
    <3> HIDE DEF raised
    <3>7. /\ mode' \in {"run", "sched"} /\ noRunSame' \in BOOLEAN
          /\ task' \in [Task -> TaskRecord]
          /\ lastRun' \in [Priority -> Task \cup {NoTask}]
      BY <2>3, <3>4, <3>6, NextTaskType DEF TypeOK
    <3> QED
      BY <2>2, <3>5, <3>7, <1>4 DEF Wait, TypeOK
  <2>4. CASE NextTask(stopped, lastRun, "none") /\ UNCHANGED taskQ
    <3> HIDE DEF stopped
    <3>1. /\ mode' \in {"run", "sched"} /\ noRunSame' \in BOOLEAN
          /\ task' \in [Task -> TaskRecord]
          /\ lastRun' \in [Priority -> Task \cup {NoTask}]
      BY <2>1, <2>4, NextTaskType DEF TypeOK
    <3> QED
      BY <2>2, <2>4, <3>1, <1>4 DEF Wait, TypeOK
  <2> QED
    BY <2>3, <2>4, <1>4, Zenon DEF Wait
<1>5. CASE LockLeave(l)
  <2> DEFINE tk == [t \in Task |-> IF t \in Woken(l)
                                   THEN [task[t] EXCEPT !.stopped = FALSE]
                                   ELSE Lowered[t]]
             kind == task[cur].pending
  <2>1. tk \in [Task -> TaskRecord]
    <3>1. \A t \in Task : [task[t] EXCEPT !.stopped = FALSE] \in TaskRecord
      BY <1>0 DEF TaskRecord
    <3> QED
      BY <3>1, LoweredType
  <2>2. PendingDone(tk) \in [Task -> TaskRecord]
    <3> HIDE DEF tk
    <3>1. [tk[cur] EXCEPT !.pending = "no"] \in TaskRecord
      BY <1>0, <2>1 DEF TaskRecord
    <3> QED
      BY <2>1, <3>1 DEF PendingDone
  <2>3. kind # "no" => kind \in Kind
    BY <1>0 DEF TaskRecord, Kind
  <2>4. /\ taskQ' \in [Priority -> Seq(Task)]
        /\ LoweredLast \in [Priority -> Task \cup {NoTask}]
    BY <1>5, LoweredType DEF LockLeave
  <2>5. /\ mode' \in {"run", "sched"} /\ noRunSame' \in BOOLEAN
        /\ task' \in [Task -> TaskRecord]
        /\ lastRun' \in [Priority -> Task \cup {NoTask}]
        /\ pc' \in [Task -> {"app", "sleep", "lock"}]
    <3>1. \/ /\ kind # "no"
             /\ NextTask(SleepSetup(PendingDone(tk), cur, kind), LoweredLast, "none")
             /\ pc' = [pc EXCEPT ![cur] = "sleep"]
          \/ NextTask(tk, LoweredLast, "none") /\ UNCHANGED pc
          \/ /\ task' = tk /\ lastRun' = LoweredLast
             /\ UNCHANGED <<mode, noRunSame, pc>>
      BY <1>5, Zenon DEF LockLeave
    <3> HIDE DEF tk, kind
    <3>2. kind # "no" =>
            SleepSetup(PendingDone(tk), cur, kind) \in [Task -> TaskRecord]
      BY <1>0, <2>2, <2>3, SleepSetupType
    <3>3. CASE /\ kind # "no"
               /\ NextTask(SleepSetup(PendingDone(tk), cur, kind), LoweredLast, "none")
               /\ pc' = [pc EXCEPT ![cur] = "sleep"]
      BY <1>0, <2>4, <3>2, <3>3, NextTaskType DEF TypeOK
    <3>4. CASE NextTask(tk, LoweredLast, "none") /\ UNCHANGED pc
      BY <1>0, <2>1, <2>4, <3>4, NextTaskType DEF TypeOK
    <3>5. CASE /\ task' = tk /\ lastRun' = LoweredLast
               /\ UNCHANGED <<mode, noRunSame, pc>>
      BY <2>1, <2>4, <3>5 DEF TypeOK
    <3> QED
      BY <3>1, <3>3, <3>4, <3>5, Zenon
  <2>6. /\ hold' \in [Task -> Lock \cup {NoLock}]
        /\ token' \in [Task -> Nat]
        /\ users' \in [Lock -> SUBSET Task]
        /\ owner' \in [Lock -> Task \cup {NoTask}]
        /\ enter' \in [Lock -> Nat] /\ leave' \in [Lock -> Nat]
    BY <1>5 DEF LockLeave, TypeOK
  <2>7. waiting' \in [Task -> BOOLEAN]
    BY <1>5, Zenon DEF LockLeave
  <2> QED
    BY <2>4, <2>5, <2>6, <2>7, <1>5 DEF LockLeave, TypeOK
<1> QED
  BY <1>1, <1>2, <1>3, <1>4, <1>5, Zenon DEF LockNext

LEMMA StepType == TypeOK /\ [Next]_vars => TypeOK'
<1> SUFFICES ASSUME TypeOK, [Next]_vars PROVE TypeOK'
  OBVIOUS
<1>1. CASE UNCHANGED vars
  BY <1>1 DEF vars, schedVars, lockVars, TypeOK
<1>2. CASE TasksNext /\ UNCHANGED lockVars
  BY <1>2, TasksStepType
<1>3. CASE \E l \in Lock : LockNext(l)
  BY <1>3, LockStepType
<1> QED
  BY <1>1, <1>2, <1>3, Zenon DEF Next

(* Type correctness: the variables of the scheduler and of the locks       *)
(* always have the types of the structures of coroutines.cpp; the search   *)
(* loop of NextTask() never leaves cur_task outside the task table.        *)
THEOREM TypeCorrect == Spec => []TypeOK
<1> QED
  BY InitType, StepType, PTL DEF Spec

----------------------------------------------------------------------------
(* Which tasks exist                                                       *)

SameValid(tk) == \A t \in Task : tk[t].valid = task[t].valid

LEMMA RunnableYesValid ==
  ASSUME NEW tk \in [Task -> TaskRecord], NEW S, NEW t \in Task
  PROVE  RunnableYes(tk, S)[t].valid = tk[t].valid
BY DEF RunnableYes, TaskRecord

LEMMA SleepSetupValid ==
  ASSUME NEW tk \in [Task -> TaskRecord], NEW u \in Task, NEW kind, NEW t \in Task
  PROVE  SleepSetup(tk, u, kind)[t].valid = tk[t].valid
BY DEF SleepSetup, TaskRecord

(* NextTask() creates and removes no task; it ends the turn of the caller  *)
(* or changes nothing.                                                     *)
LEMMA NextTaskValid ==
  ASSUME cur \in Task, NEW tk \in [Task -> TaskRecord], NEW lr, NEW param,
         NextTask(tk, lr, param)
  PROVE  /\ mode' = "sched" \/ mode' = mode
         /\ \A t \in Task : task'[t].valid = tk[t].valid
<1>1. CASE mode' = mode /\ task' = tk
  BY <1>1
<1> DEFINE marked(a, b) == [tk EXCEPT ![cur] =
                              [@ EXCEPT !.busy_wait = a, !.long_run = b]]
           again == param = "busy_wait" /\ tk[cur].busy_wait
           A == param = "busy_wait" /\ ~again
           B == tk[cur].long_run \/ param = "long_run"
           H == {t \in Task : again /\ t = BusyHelper}
<1>2. \A a, b, S : \A t \in Task :
        RunnableYes(marked(a, b), S)[t].valid = tk[t].valid
  BY DEF RunnableYes, TaskRecord
<1>3. CASE /\ mode' = "sched"
           /\ task' = RunnableYes(marked(A, B), H)
  <2> HIDE DEF marked, A, B, H
  <2> QED
    BY <1>2, <1>3
<1> QED
  BY <1>1, <1>3, Zenon DEF NextTask

(* A task that does not hold or want a lock may be created or removed;     *)
(* nothing else changes which tasks exist.  The running task exists.       *)
LEMMA TasksStepValid ==
  ASSUME TypeOK, UsersKnown, TasksNext, UNCHANGED lockVars
  PROVE  /\ mode' = "run" => task'[cur'].valid
         /\ \A t \in Task : task[t].valid /\ (hold[t] # NoLock \/ want[t] # NoLock)
              => task'[t].valid
<1>0. cur \in Task /\ task \in [Task -> TaskRecord] /\ task[cur] \in TaskRecord
  BY DEF TypeOK
<1>a. ASSUME SameValid(task'), cur' = cur, mode = "run"
      PROVE  /\ task'[cur'].valid
             /\ \A t \in Task : task[t].valid => task'[t].valid
  BY <1>0, <1>a DEF SameValid, UsersKnown
<1>1. CASE Dispatch
  BY <1>1, DispatchType
<1>2. CASE SleepLoop
  <2>1. SameValid(task')
    <3>1. CASE NextTask(task, lastRun, "none")
      BY <1>0, <3>1, NextTaskValid DEF SameValid
    <3>2. CASE task' = [task EXCEPT ![cur] =
                         [@ EXCEPT !.deadline = FALSE, !.stopped = FALSE,
                                   !.sleeping = FALSE, !.wakeup = FALSE]]
      BY <1>0, <3>2 DEF SameValid, TaskRecord
    <3> QED
      BY <1>2, <3>1, <3>2, Zenon DEF SleepLoop
  <2> QED
    BY <1>a, <2>1, <1>2 DEF SleepLoop
<1>3. CASE CreateTask
  BY <1>0, <1>3 DEF CreateTask, AppRuns, Free, NewTask, UsersKnown
<1>4. CASE TaskCollect
  <2>1. SameValid(task')
    BY <1>0, <1>4 DEF TaskCollect, SameValid, TaskRecord
  <2> QED
    BY <1>a, <2>1, <1>4 DEF TaskCollect, AppRuns
<1>5. ASSUME NEW param \in Param, Yield(param) PROVE SameValid(task')
  BY <1>0, <1>5, NextTaskValid DEF Yield, SameValid
<1>6. ASSUME NEW kind \in Kind, TaskSleep(kind) PROVE SameValid(task')
  <2> DEFINE tk == SleepSetup(task, cur, kind)
  <2>1. tk \in [Task -> TaskRecord] /\ SameValid(tk)
    BY <1>0, SleepSetupType, SleepSetupValid DEF SameValid
  <2>2. NextTask(tk, lastRun, "none")
    BY <1>6 DEF TaskSleep
  <2> HIDE DEF tk
  <2> QED
    BY <1>0, <2>1, <2>2, NextTaskValid DEF SameValid
<1>7. ASSUME NEW t \in Task, NEW kind \in Kind, TaskSleepID(t, kind)
      PROVE  SameValid(task')
  <2>1. CASE task' = [task EXCEPT ![t].pending = kind]
    BY <1>0, <2>1 DEF SameValid, TaskRecord
  <2>2. CASE task' = SleepSetup(task, t, kind)
    BY <1>0, <2>2, SleepSetupValid DEF SameValid
  <2> QED
    BY <1>7, <2>1, <2>2 DEF TaskSleepID
<1>8. ASSUME NEW t \in Task, NEW cancel \in BOOLEAN, TaskWakeup(t, cancel)
      PROVE  SameValid(task')
  <2> DEFINE undead == [task EXCEPT ![t].deadline = FALSE]
             woken == RunnableYes(undead, {t})
  <2>1. undead \in [Task -> TaskRecord] /\ SameValid(undead)
    <3>1. /\ [task[t] EXCEPT !.deadline = FALSE] \in TaskRecord
          /\ [task[t] EXCEPT !.deadline = FALSE].valid = task[t].valid
      BY <1>0 DEF TaskRecord
    <3> QED
      BY <3>1, <1>0 DEF SameValid
  <2>2. woken \in [Task -> TaskRecord] /\ SameValid(woken)
    BY <2>1, RunnableYesType, RunnableYesValid DEF SameValid
  <2>3. SameValid([undead EXCEPT ![t].pending = "no"])
    <3> HIDE DEF undead
    <3> QED
      BY <2>1 DEF SameValid, TaskRecord
  <2> HIDE DEF undead, woken
  <2>4. SameValid(task') \/ NextTask(woken, lastRun, "none")
    BY <1>8, <2>2, <2>3, Zenon DEF TaskWakeup, undead, woken
  <2> QED
    BY <1>0, <2>2, <2>4, NextTaskValid DEF SameValid
<1>9. ASSUME NEW u \in Task, TaskRemove(u)
      PROVE  /\ mode' = "run" => task'[cur'].valid
             /\ \A t \in Task : task[t].valid /\ (hold[t] # NoLock \/ want[t] # NoLock)
                  => task'[t].valid
  <2> DEFINE gone == [task EXCEPT ![u] = [@ EXCEPT !.stopped = TRUE,
                                           !.valid = FALSE, !.init = FALSE]]
             lr == TdeQLast(lastRun, u, task[u].priority)
  <2>1. gone \in [Task -> TaskRecord]
    <3>1. [task[u] EXCEPT !.stopped = TRUE, !.valid = FALSE, !.init = FALSE]
            \in TaskRecord
      BY <1>0 DEF TaskRecord
    <3> QED
      BY <3>1, <1>0
  <2>2. NextTask(gone, lr, "none")
    BY <1>9, Zenon DEF TaskRemove
  <2>3. \A t \in Task \ {u} : task'[t].valid = task[t].valid
    <3>1. \A t \in Task \ {u} : gone[t].valid = task[t].valid
      BY <1>0
    <3> HIDE DEF gone, lr
    <3> QED
      BY <3>1, <2>1, <2>2, <1>0, NextTaskValid
  <2>4. hold[u] = NoLock /\ want[u] = NoLock
    <3>1. CASE u = cur
      BY <3>1, <1>9 DEF TaskRemove, AppRuns, UsersKnown
    <3>2. CASE u # cur
      <4>1. u \in Removable
        BY <3>2, <1>9 DEF TaskRemove
      <4>2. \A l \in Lock : u \notin LockUsers[l]
        BY <4>1, LocksAssumption DEF AllLockUsers
      <4>3. want[u] \notin Lock
        BY <4>2 DEF UsersKnown
      <4> QED
        BY <4>3, <1>9 DEF TaskRemove, TypeOK
    <3> QED
      BY <3>1, <3>2
  <2>5. mode' = "run" => u # cur
    <3>1. u = cur => cur \notin MinRun
      BY <1>9 DEF TaskRemove
    <3>2. cur \notin MinRun => mode' = "sched"
      BY <2>2, Zenon DEF NextTask
    <3> QED
      BY <3>1, <3>2
  <2> QED
    BY <2>3, <2>4, <2>5, <1>0, <1>9 DEF TaskRemove, AppRuns, UsersKnown
<1> QED
  <2>1. CASE \E param \in Param : Yield(param)
    BY <2>1, <1>5, <1>a DEF Yield, AppRuns
  <2>2. CASE \E kind \in Kind : TaskSleep(kind)
    BY <2>2, <1>6, <1>a DEF TaskSleep, AppRuns
  <2>3. CASE \E t \in Task, kind \in Kind : TaskSleepID(t, kind)
    BY <2>3, <1>7, <1>a DEF TaskSleepID, AppRuns
  <2>4. CASE \E t \in Task, cancel \in BOOLEAN : TaskWakeup(t, cancel)
    BY <2>4, <1>8, <1>a DEF TaskWakeup, AppRuns
  <2> QED
    BY <1>1, <1>2, <1>3, <1>4, <1>9, <2>1, <2>2, <2>3, <2>4 DEF TasksNext

(* Locks create and remove no task. *)
LEMMA LockStepValid ==
  ASSUME TypeOK, NEW l \in Lock, LockNext(l)
  PROVE  SameValid(task') /\ cur' = cur /\ mode = "run"
<1>0. cur \in Task /\ task \in [Task -> TaskRecord] /\ task[cur] \in TaskRecord
  BY DEF TypeOK
<1>1. CASE LockEnter(l) \/ Acquire(l) \/ SwapToken(l)
  BY <1>1 DEF LockEnter, Acquire, SwapToken, AppRuns, InLockLoop, schedVars,
              SameValid
<1>2. CASE Wait(l)
  <2> DEFINE o == owner[l]
             p == task[cur].priority
             stopped == [task EXCEPT ![cur].stopped = TRUE]
             raised == [stopped EXCEPT ![o] =
                          [@ EXCEPT !.saved = task[o].priority,
                                    !.priority = p, !.boosted = TRUE]]
  <2>1. stopped \in [Task -> TaskRecord] /\ SameValid(stopped)
    <3>1. /\ [task[cur] EXCEPT !.stopped = TRUE] \in TaskRecord
          /\ [task[cur] EXCEPT !.stopped = TRUE].valid = task[cur].valid
      BY <1>0 DEF TaskRecord
    <3> QED
      BY <3>1, <1>0 DEF SameValid
  <2>2. o \in Task => raised \in [Task -> TaskRecord] /\ SameValid(raised)
    <3> HIDE DEF stopped
    <3> SUFFICES ASSUME o \in Task
                 PROVE  raised \in [Task -> TaskRecord] /\ SameValid(raised)
      OBVIOUS
    <3>1. stopped[o] \in TaskRecord /\ p \in Priority /\ task[o].priority \in Priority
      BY <1>0, <2>1 DEF TaskRecord
    <3>2. /\ [stopped[o] EXCEPT !.saved = task[o].priority, !.priority = p,
                                !.boosted = TRUE] \in TaskRecord
          /\ [stopped[o] EXCEPT !.saved = task[o].priority, !.priority = p,
                                !.boosted = TRUE].valid = stopped[o].valid
      <4> HIDE DEF p
      <4> QED
        BY <3>1 DEF TaskRecord
    <3> QED
      BY <2>1, <3>2 DEF SameValid
  <2> HIDE DEF stopped, raised
  <2>3. \/ o \in Task /\ \E lr : NextTask(raised, lr, "none")
        \/ NextTask(stopped, lastRun, "none")
    <3>1. Boosts(l) => o \in Task
      BY DEF Boosts, TypeOK
    <3> QED
      BY <3>1, <1>2, Zenon DEF Wait, stopped, raised
  <2>4. SameValid(task')
    BY <1>0, <2>1, <2>2, <2>3, NextTaskValid DEF SameValid
  <2> QED
    BY <2>4, <1>2 DEF Wait, InLockLoop
<1>3. CASE LockLeave(l)
  <2> DEFINE tk == [t \in Task |-> IF t \in Woken(l)
                                   THEN [task[t] EXCEPT !.stopped = FALSE]
                                   ELSE Lowered[t]]
             kind == task[cur].pending
             asleep == SleepSetup(PendingDone(tk), cur, kind)
  <2>1. tk \in [Task -> TaskRecord] /\ SameValid(tk)
    <3>1. \A t \in Task : /\ [task[t] EXCEPT !.stopped = FALSE] \in TaskRecord
                          /\ [task[t] EXCEPT !.stopped = FALSE].valid = task[t].valid
      BY <1>0 DEF TaskRecord
    <3>2. SameValid(Lowered)
      BY <1>0 DEF SameValid, Lowered, TaskRecord
    <3> QED
      BY <3>1, <3>2, LoweredType DEF SameValid
  <2> HIDE DEF tk
  <2>2. kind \in Kind =>
          asleep \in [Task -> TaskRecord] /\ SameValid(asleep)
    <3>1. PendingDone(tk) \in [Task -> TaskRecord] /\ SameValid(PendingDone(tk))
      <4>1. /\ [tk[cur] EXCEPT !.pending = "no"] \in TaskRecord
            /\ [tk[cur] EXCEPT !.pending = "no"].valid = tk[cur].valid
        BY <1>0, <2>1 DEF TaskRecord
      <4> QED
        BY <1>0, <2>1, <4>1 DEF PendingDone, SameValid
    <3> QED
      BY <1>0, <3>1, SleepSetupType, SleepSetupValid DEF SameValid
  <2>3. kind # "no" => kind \in Kind
    BY <1>0 DEF TaskRecord, Kind
  <2> HIDE DEF kind, asleep
  <2>4. \/ kind # "no" /\ NextTask(asleep, LoweredLast, "none")
        \/ NextTask(tk, LoweredLast, "none")
        \/ task' = tk
    BY <1>3, Zenon DEF LockLeave, tk, kind, asleep
  <2>5. SameValid(task')
    BY <1>0, <2>1, <2>2, <2>3, <2>4, NextTaskValid DEF SameValid
  <2> QED
    BY <2>5, <1>3 DEF LockLeave, AppRuns
<1> QED
  BY <1>1, <1>2, <1>3, Zenon DEF LockNext

----------------------------------------------------------------------------
(* Mutual exclusion.  The owner of a lock is the user whose token is being *)
(* served, and no two users have the same token: that is what lock_enter() *)
(* relies on when it compares its token with lock->leave and nothing else. *)

SafeInv ==
  /\ TypeOK
  /\ UsersKnown
  /\ MutualExclusion
  /\ TokensServed

LEMMA InitSafe == Init => SafeInv
<1> SUFFICES ASSUME Init PROVE SafeInv
  OBVIOUS
<1>1. TypeOK
  BY InitType
<1>2. UsersKnown
  <2>1. TID_MAIN \in InitTasks /\ TID_MAIN \in Task /\ NoLock \notin Lock
    BY ConstantsType, TasksAssumption
  <2>2. task[cur].valid
    BY <2>1 DEF Init, TasksInit, NewTask
  <2> QED
    BY <2>1, <2>2 DEF Init, TasksInit, UsersKnown
<1>3. MutualExclusion /\ TokensServed
  BY ConstantsType DEF Init, TasksInit, MutualExclusion, TokensServed, TokensOf
<1> QED
  BY <1>1, <1>2, <1>3 DEF SafeInv

LEMMA UsersKnownTasksStep ==
  ASSUME SafeInv, TasksNext, UNCHANGED lockVars
  PROVE  UsersKnown'
<1> USE DEF SafeInv
<1>1. UNCHANGED <<hold, wait, users, want>>
  BY DEF TasksNext, lockVars, Dispatch, SleepLoop, CreateTask, TaskCollect,
         Yield, TaskSleep, TaskSleepID, TaskWakeup, TaskRemove
<1>2. /\ mode' = "run" => task'[cur'].valid
      /\ \A t \in Task : task[t].valid /\ (hold[t] # NoLock \/ want[t] # NoLock)
           => task'[t].valid
  BY TasksStepValid
<1>3. \A t \in Task : pc'[t] = "lock" <=> pc[t] = "lock"
  <2>1. CASE SleepLoop
    BY <2>1 DEF SleepLoop, TypeOK
  <2>2. CASE CreateTask
    <3>1. PICK t \in Free : pc' = [pc EXCEPT ![t] = "app"]
      BY <2>2 DEF CreateTask
    <3>2. t \in Task /\ ~task[t].valid
      BY DEF Free
    <3>3. want[t] \notin Lock
      BY <3>2 DEF UsersKnown
    <3>4. pc[t] # "lock"
      BY <3>2, <3>3 DEF UsersKnown, TypeOK
    <3> QED
      BY <3>1, <3>2, <3>4 DEF TypeOK
  <2>3. CASE \E kind \in Kind : TaskSleep(kind)
    BY <2>3 DEF TaskSleep, AppRuns, TypeOK
  <2>4. CASE UNCHANGED pc
    BY <2>4
  <2> QED
    BY <2>1, <2>2, <2>3, <2>4
       DEF TasksNext, Dispatch, TaskCollect, Yield, TaskSleepID, TaskWakeup,
           TaskRemove
<1>4. \A t \in Task, l \in Lock : t \in users[l] => hold[t] # NoLock \/ want[t] # NoLock
  BY NoLockType DEF UsersKnown
<1> QED
  BY <1>1, <1>2, <1>3, <1>4 DEF UsersKnown, TypeOK

LEMMA UsersKnownLockStep ==
  ASSUME SafeInv, NEW l \in Lock, LockNext(l)
  PROVE  UsersKnown'
<1> USE DEF SafeInv
<1>1. SameValid(task') /\ cur' = cur /\ mode = "run" /\ TypeOK'
  BY LockStepValid, LockStepType
<1>2. \A t \in Task : task'[t].valid = task[t].valid
  BY <1>1 DEF SameValid
<1>3. cur \in Task /\ task[cur].valid /\ NoLock \notin Lock
  BY <1>1, NoLockType DEF TypeOK, UsersKnown
<1>4. CASE LockEnter(l)
  <2>1. want[cur] = NoLock /\ pc[cur] = "app" /\ hold[cur] = NoLock
    BY <1>3, <1>4 DEF LockEnter, AppRuns, UsersKnown
  <2>2. /\ pc' = [pc EXCEPT ![cur] = "lock"] /\ want' = [want EXCEPT ![cur] = l]
        /\ users' = [users EXCEPT ![l] = @ \cup {cur}]
        /\ UNCHANGED <<hold, wait>> /\ cur \in LockUsers[l]
    BY <1>4 DEF LockEnter
  <2>3. ASSUME NEW k \in Lock, NEW t \in Task
        PROVE  /\ t \in users'[k] <=> hold'[t] = k \/ want'[t] = k
               /\ t \in users'[k] => task'[t].valid /\ t \in LockUsers[k]
    <3>1. t \in users'[k] <=> t \in users[k] \/ (k = l /\ t = cur)
      BY <2>2 DEF TypeOK
    <3>2. want'[t] = (IF t = cur THEN l ELSE want[t]) /\ hold'[t] = hold[t]
      BY <2>2 DEF TypeOK
    <3> QED
      BY <3>1, <3>2, <2>1, <2>2, <1>2, <1>3 DEF UsersKnown
  <2>4. ASSUME NEW t \in Task
        PROVE  /\ pc'[t] = "lock" <=> want'[t] # NoLock
               /\ want'[t] # NoLock => hold'[t] = NoLock
               /\ wait'[t] # NoLock => wait'[t] = want'[t]
    BY <2>1, <2>2, <1>3 DEF UsersKnown, TypeOK
  <2> QED
    BY <2>3, <2>4, <1>1, <1>2, <1>3 DEF UsersKnown
<1>5. CASE Acquire(l)
  BY <1>1, <1>2, <1>3, <1>5 DEF Acquire, InLockLoop, UsersKnown, TypeOK
<1>6. CASE SwapToken(l)
  BY <1>1, <1>2, <1>3, <1>6 DEF SwapToken, UsersKnown, TypeOK
<1>7. CASE Wait(l)
  <2>1. /\ wait' = [wait EXCEPT ![cur] = l]
        /\ UNCHANGED <<pc, hold, users, want>>
        /\ want[cur] = l
    BY <1>7, Zenon DEF Wait, InLockLoop
  <2>2. \A t \in Task : wait'[t] = IF t = cur THEN l ELSE wait[t]
    BY <2>1 DEF TypeOK
  <2>3. \A t \in Task : wait'[t] # NoLock => wait'[t] = want[t]
    BY <2>1, <2>2 DEF UsersKnown
  <2> QED
    BY <2>1, <2>3, <1>1, <1>2, <1>3 DEF UsersKnown
<1>8. CASE LockLeave(l)
  <2>1. want[cur] = NoLock /\ pc[cur] = "app"
    BY <1>3, <1>8 DEF LockLeave, AppRuns, UsersKnown
  <2>2. \A t \in Task : pc'[t] = "lock" <=> pc[t] = "lock"
    BY <2>1, <1>8 DEF LockLeave, TypeOK
  <2>3. /\ hold' = [hold EXCEPT ![cur] = NoLock]
        /\ users' = [users EXCEPT ![l] = @ \ {cur}]
        /\ UNCHANGED <<cur, wait, want>>
        /\ hold[cur] = l
    BY <1>8, Zenon DEF LockLeave
  <2>4. ASSUME NEW k \in Lock, NEW t \in Task
        PROVE  /\ t \in users'[k] <=> hold'[t] = k \/ want'[t] = k
               /\ t \in users'[k] => task'[t].valid /\ t \in LockUsers[k]
    <3>1. t \in users'[k] <=> t \in users[k] /\ ~(k = l /\ t = cur)
      BY <2>3 DEF TypeOK
    <3>2. hold'[t] = (IF t = cur THEN NoLock ELSE hold[t]) /\ want'[t] = want[t]
      BY <2>3 DEF TypeOK
    <3> QED
      BY <3>1, <3>2, <2>1, <2>3, <1>2, <1>3 DEF UsersKnown
  <2>5. ASSUME NEW t \in Task
        PROVE  /\ pc'[t] = "lock" <=> want'[t] # NoLock
               /\ want'[t] # NoLock => hold'[t] = NoLock
               /\ wait'[t] # NoLock => wait'[t] = want'[t]
    BY <2>1, <2>2, <2>3, <1>3 DEF UsersKnown, TypeOK
  <2> QED
    BY <2>4, <2>5, <2>3, <1>1, <1>2, <1>3 DEF UsersKnown
<1> QED
  BY <1>4, <1>5, <1>6, <1>7, <1>8, Zenon DEF LockNext

(* The steps of the lock code keep the tokens right. *)
LEMMA TokensLockStep ==
  ASSUME SafeInv, NEW l \in Lock, LockNext(l)
  PROVE  MutualExclusion' /\ TokensServed'
<1> USE DEF SafeInv
<1>0. cur \in Task /\ NoLock \notin Lock /\ NoTask \notin Task
  BY ConstantsType DEF TypeOK
<1>a. /\ enter \in [Lock -> Nat] /\ leave \in [Lock -> Nat]
      /\ owner \in [Lock -> Task \cup {NoTask}]
      /\ users \in [Lock -> SUBSET Task]
      /\ token \in [Task -> Nat] /\ hold \in [Task -> Lock \cup {NoLock}]
  BY DEF TypeOK
<1>1. CASE LockEnter(l)
  <2>1. want[cur] = NoLock /\ hold[cur] = NoLock
    BY <1>0, <1>1 DEF LockEnter, AppRuns, UsersKnown
  <2>2. \A k \in Lock : cur \notin users[k]
    BY <1>0, <2>1 DEF UsersKnown
  <2>3. /\ \A t \in Task : token'[t] = IF t = cur THEN enter[l] ELSE token[t]
        /\ \A k \in Lock : enter'[k] = IF k = l THEN enter[k] + 1 ELSE enter[k]
        /\ \A k \in Lock : users'[k] = IF k = l THEN users[k] \cup {cur} ELSE users[k]
        /\ UNCHANGED <<hold, leave, owner>>
    BY <1>0, <1>1, <1>a DEF LockEnter
  <2>4. ASSUME NEW k \in Lock
        PROVE  TokensOf(k)'
    <3>1. TokensOf(k)
      BY DEF TokensServed
    <3>2. \A t \in users[k] : token'[t] = token[t]
      BY <1>a, <2>2, <2>3
    <3>3. CASE k # l
      <4>1. UNCHANGED <<enter[k], leave[k], users[k], owner[k]>>
        BY <3>3, <2>3
      <4> QED
        BY <3>1, <3>2, <4>1 DEF TokensOf
    <3>4. CASE k = l
      <4>1. /\ enter'[l] = enter[l] + 1 /\ users'[l] = users[l] \cup {cur}
            /\ leave'[l] = leave[l] /\ owner'[l] = owner[l]
            /\ token'[cur] = enter[l]
        BY <1>0, <2>3
      <4>2. \A t \in users[l] : token'[t] \in leave[l] .. enter[l] - 1
        BY <3>1, <3>2, <3>4 DEF TokensOf
      <4>3. \A n \in leave[l] .. enter[l] : \E t \in users'[l] : token'[t] = n
        BY <1>a, <3>1, <3>2, <3>4, <4>1 DEF TokensOf
      <4>4. \A t, u \in users'[l] : token'[t] = token'[u] => t = u
        BY <1>a, <3>1, <3>2, <3>4, <4>1, <4>2 DEF TokensOf
      <4>5. leave[l] <= enter[l] /\ enter[l] \in Nat /\ leave[l] \in Nat
        BY <1>a, <3>1, <3>4 DEF TokensOf
      <4>6. owner[l] # NoTask => owner[l] \in users[l] /\ token'[owner[l]] = leave[l]
        BY <3>1, <3>2, <3>4 DEF TokensOf
      <4>7. \A t \in users'[l] : token'[t] \in leave[l] .. enter[l]
        BY <4>1, <4>2, <4>5
      <4> QED
        BY <3>4, <4>1, <4>3, <4>4, <4>5, <4>6, <4>7 DEF TokensOf
    <3> QED
      BY <3>3, <3>4
  <2>5. MutualExclusion'
    BY <2>3, <1>a DEF MutualExclusion
  <2> QED
    BY <2>4, <2>5 DEF TokensServed, TokensOf
<1>2. CASE Acquire(l)
  <2>1. pc[cur] = "lock" /\ want[cur] = l /\ hold[cur] = NoLock /\ cur \in users[l]
    BY <1>0, <1>2 DEF Acquire, InLockLoop, UsersKnown
  <2>2. TokensOf(l)
    BY DEF TokensServed
  <2>3. token[cur] = leave[l]
    BY <1>0, <1>a, <1>2, <2>1, <2>2 DEF Acquire, MyTurn, TokensOf
  <2>4. owner[l] = NoTask
    BY <1>0, <1>a, <2>1, <2>2, <2>3 DEF TokensOf, MutualExclusion
  <2>5. /\ \A k \in Lock : owner'[k] = IF k = l THEN cur ELSE owner[k]
        /\ \A t \in Task : hold'[t] = IF t = cur THEN l ELSE hold[t]
        /\ UNCHANGED <<enter, leave, users, token>>
    BY <1>0, <1>a, <1>2 DEF Acquire
  <2>6. MutualExclusion'
    BY <1>0, <1>a, <2>1, <2>4, <2>5 DEF MutualExclusion
  <2>7. TokensServed'
    BY <2>1, <2>3, <2>5 DEF TokensServed, TokensOf
  <2> QED
    BY <2>6, <2>7
<1>3. CASE SwapToken(l)
  <2>1. want[cur] = l /\ hold[cur] = NoLock /\ cur \in users[l]
    BY <1>0, <1>3 DEF SwapToken, InLockLoop, UsersKnown
  <2>2. PICK lp \in LowestUsers(l) :
          /\ Overtakes(cur, lp)
          /\ token' = [token EXCEPT ![lp] = token[cur], ![cur] = LowestToken(l)]
    BY <1>3 DEF SwapToken
  <2>3. lp \in users[l] /\ token[lp] = LowestToken(l) /\ UNCHANGED <<enter, leave, owner, users, hold>>
    BY <1>3 DEF SwapToken, LowestUsers
  <2>4. \A t \in Task : token'[t] = IF t = cur THEN token[lp]
                                   ELSE IF t = lp THEN token[cur] ELSE token[t]
    BY <1>0, <1>a, <2>2, <2>3
  <2>5. \A k \in Lock \ {l} : cur \notin users[k] /\ lp \notin users[k]
    BY <1>0, <1>a, <2>1, <2>3 DEF UsersKnown
  <2>6. owner[l] # NoTask => owner[l] # cur /\ owner[l] # lp
    BY <1>0, <1>a, <2>1, <2>3 DEF LowestToken, MutualExclusion, TokensServed, TokensOf
  <2>7. ASSUME NEW k \in Lock
        PROVE  TokensOf(k)'
    <3>1. TokensOf(k)
      BY DEF TokensServed
    <3>2. CASE k # l
      BY <3>1, <3>2, <1>0, <1>a, <2>3, <2>4, <2>5 DEF TokensOf
    <3>3. CASE k = l
      BY <3>1, <3>3, <1>0, <1>a, <2>1, <2>3, <2>4, <2>6 DEF TokensOf
    <3> QED
      BY <3>2, <3>3
  <2> QED
    BY <2>3, <2>7 DEF TokensServed, MutualExclusion
<1>4. CASE Wait(l)
  BY <1>4 DEF Wait, TokensServed, TokensOf, MutualExclusion
<1>5. CASE LockLeave(l)
  <2>1. hold[cur] = l /\ owner[l] = cur /\ cur \in users[l]
    BY <1>0, <1>a, <1>5 DEF LockLeave, MutualExclusion, UsersKnown
  <2>2. TokensOf(l) /\ token[cur] = leave[l]
    BY <2>1, <1>0 DEF TokensServed, TokensOf
  <2>3. \A k \in Lock \ {l} : cur \notin users[k]
    BY <1>0, <2>1 DEF UsersKnown
  <2>4. /\ \A t \in Task : hold'[t] = IF t = cur THEN NoLock ELSE hold[t]
        /\ \A t \in Task : token'[t] = IF t = cur THEN 0 ELSE token[t]
        /\ \A k \in Lock : users'[k] = IF k = l THEN users[k] \ {cur} ELSE users[k]
        /\ \A k \in Lock : owner'[k] = IF k = l THEN NoTask ELSE owner[k]
    <3>1. /\ hold' = [hold EXCEPT ![cur] = NoLock]
          /\ token' = [token EXCEPT ![cur] = 0]
          /\ users' = [users EXCEPT ![l] = @ \ {cur}]
          /\ owner' = [owner EXCEPT ![l] = NoTask]
      BY <1>5, Zenon DEF LockLeave
    <3> QED
      BY <3>1, <1>0, <1>a
  <2>5. /\ \A k \in Lock \ {l} : enter'[k] = enter[k] /\ leave'[k] = leave[k]
        /\ enter[l] # leave[l] + 1 =>
             enter'[l] = enter[l] /\ leave'[l] = leave[l] + 1
        /\ enter[l] = leave[l] + 1 => enter'[l] = 0 /\ leave'[l] = 0
    <3>1. /\ enter' = [enter EXCEPT ![l] = IF enter[l] = leave[l] + 1 THEN 0 ELSE @]
          /\ leave' = [leave EXCEPT ![l] = IF enter[l] = leave[l] + 1 THEN 0 ELSE @ + 1]
      BY <1>5, Zenon DEF LockLeave
    <3> QED
      BY <3>1, <1>a
  <2>6. MutualExclusion'
    BY <1>0, <1>a, <2>1, <2>4 DEF MutualExclusion
  <2>7. ASSUME NEW k \in Lock
        PROVE  TokensOf(k)'
    <3>1. TokensOf(k)
      BY DEF TokensServed
    <3>2. CASE k # l
      <4>1. UNCHANGED <<enter[k], leave[k], users[k], owner[k]>>
        BY <3>2, <2>4, <2>5
      <4>2. \A t \in users[k] : token'[t] = token[t]
        BY <3>2, <1>a, <2>3, <2>4
      <4>3. owner[k] # NoTask => token'[owner[k]] = token[owner[k]]
        BY <3>1, <4>2 DEF TokensOf
      <4> QED
        BY <3>1, <4>1, <4>2, <4>3 DEF TokensOf
    <3>3. CASE k = l /\ enter[l] = leave[l] + 1
      <4>1. users'[l] = {}
        <5>1. \A t \in users[l] : token[t] = leave[l]
          BY <3>3, <1>a, <2>2 DEF TokensOf
        <5>2. \A t \in users[l] : t = cur
          BY <5>1, <2>1, <2>2 DEF TokensOf
        <5> QED
          BY <5>2, <2>4
      <4> QED
        BY <4>1, <3>3, <2>4, <2>5 DEF TokensOf
    <3>4. CASE k = l /\ enter[l] # leave[l] + 1
      <4>1. \A t \in users'[l] : t # cur /\ token'[t] = token[t] /\ t \in users[l]
        BY <2>4, <1>a
      <4>2. /\ enter'[l] = enter[l] /\ leave'[l] = leave[l] + 1
            /\ owner'[l] = NoTask /\ users'[l] = users[l] \ {cur}
            /\ enter[l] \in Nat /\ leave[l] \in Nat
        BY <3>4, <1>a, <2>4, <2>5
      <4>3. token[cur] = leave[l] /\ leave[l] + 1 <= enter[l]
        BY <4>2, <2>1, <2>2 DEF TokensOf
      <4>4. \A t \in users'[l] : token'[t] \in leave[l] + 1 .. enter[l] - 1
        <5>1. \A t \in users'[l] : token[t] # leave[l]
          BY <4>1, <4>3, <2>1, <2>2 DEF TokensOf
        <5> QED
          BY <5>1, <4>1, <4>2, <2>2 DEF TokensOf
      <4>5. \A t, u \in users'[l] : token'[t] = token'[u] => t = u
        BY <4>1, <2>2 DEF TokensOf
      <4>6. ASSUME NEW n \in leave[l] + 1 .. enter[l] - 1
            PROVE  \E t \in users'[l] : token'[t] = n
        <5>1. n \in leave[l] .. enter[l] - 1 /\ n # leave[l]
          BY <4>2
        <5>2. PICK t \in users[l] : token[t] = n
          BY <5>1, <2>2 DEF TokensOf
        <5>3. t \in users'[l]
          BY <5>1, <5>2, <4>2, <4>3
        <5> QED
          BY <5>2, <5>3, <4>1
      <4> QED
        BY <3>4, <4>2, <4>3, <4>4, <4>5, <4>6 DEF TokensOf
    <3> QED
      BY <3>2, <3>3, <3>4
  <2> QED
    BY <2>6, <2>7 DEF TokensServed, TokensOf
<1> QED
  BY <1>1, <1>2, <1>3, <1>4, <1>5, Zenon DEF LockNext

LEMMA StepSafe == SafeInv /\ [Next]_vars => SafeInv'
<1> SUFFICES ASSUME SafeInv, [Next]_vars PROVE SafeInv'
  OBVIOUS
<1>1. TypeOK'
  BY StepType DEF SafeInv
<1>2. CASE UNCHANGED vars
  BY <1>1, <1>2 DEF SafeInv, vars, schedVars, lockVars, UsersKnown,
                    MutualExclusion, TokensServed, TokensOf
<1>3. CASE TasksNext /\ UNCHANGED lockVars
  <2>1. UNCHANGED hold
    BY <1>3 DEF TasksNext, Dispatch, SleepLoop, CreateTask, TaskCollect, Yield,
                TaskSleep, TaskSleepID, TaskWakeup, TaskRemove
  <2>2. MutualExclusion' /\ TokensServed'
    BY <1>3, <2>1 DEF lockVars, SafeInv, MutualExclusion, TokensServed, TokensOf
  <2> QED
    BY <1>1, <1>3, <2>2, UsersKnownTasksStep DEF SafeInv
<1>4. CASE \E l \in Lock : LockNext(l)
  BY <1>1, <1>4, UsersKnownLockStep, TokensLockStep DEF SafeInv
<1> QED
  BY <1>2, <1>3, <1>4, Zenon DEF Next

(* The users list of every lock names exactly the tasks that hold it or    *)
(* are inside its lock_enter(), and they exist: neither the creation nor   *)
(* the removal of tasks leaves a dangling one in it.                       *)
THEOREM UsersAlwaysKnown == Spec => []UsersKnown
<1>1. SafeInv => UsersKnown
  BY DEF SafeInv
<1> QED
  BY <1>1, InitSafe, StepSafe, PTL DEF Spec

(* The tokens of the users of a lock are the numbers from the one being    *)
(* served to the last one given out, each once, whatever swaps happened.   *)
THEOREM TokensAlwaysServed == Spec => []TokensServed
<1>1. SafeInv => TokensServed
  BY DEF SafeInv
<1> QED
  BY <1>1, InitSafe, StepSafe, PTL DEF Spec

(* At most one task is between lock_enter() and lock_leave() of a lock.    *)
THEOREM MutualExclusionHolds == Spec => []MutualExclusion
<1>1. SafeInv => MutualExclusion
  BY DEF SafeInv
<1> QED
  BY <1>1, InitSafe, StepSafe, PTL DEF Spec
=============================================================================
