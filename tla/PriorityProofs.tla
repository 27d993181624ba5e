--------------------------- MODULE PriorityProofs ---------------------------
(***************************************************************************)
(* Proofs about modules Tasks and Locks, continued: the queues of the      *)
(* scheduler, who is stopped and why, and that a lock goes to a task of    *)
(* the highest priority that waits for it.                                 *)
(***************************************************************************)
EXTENDS LocksProofs, FiniteSetTheorems

----------------------------------------------------------------------------
(* The inductive invariants                                                *)

(* The task that runs is not stopped and has not announced a long run, nor *)
(* has one that is in lock_enter(), which does not sleep either.  If the   *)
(* search loop is to look for another task than the caller, the caller has *)
(* only yielded.                                                           *)
RunsInv ==
  /\ mode = "run" => ~task[cur].long_run
  /\ mode = "run" /\ pc[cur] = "app" => ~task[cur].stopped /\ ~task[cur].sleeping
  /\ \A t \in Task : want[t] # NoLock => ~task[t].long_run /\ ~task[t].sleeping
  /\ noRunSame => mode = "sched" /\ pc[cur] = "app"
                /\ task[cur].valid /\ ~task[cur].stopped

(* A task that is stopped in lock_enter() will be woken by lock_leave().   *)
(* Its token is not the one that is served; if the lock is free, the task  *)
(* that has that one is not slower.                                        *)
WakeInv ==
  \A l \in Lock : \A t \in users[l] : want[t] = l /\ task[t].stopped =>
    /\ wait[t] = l => waiting[t]
    /\ token[t] # leave[l]
    /\ \A u \in users[l] : owner[l] = NoTask /\ token[u] = leave[l]
                             => task[t].priority <= task[u].priority

WaitInv == SafeInv /\ StoppedHasReason /\ WaiterNeverSleeps /\ RunsInv /\ WakeInv

(* Whoever has raised an owner still waits, at that priority.              *)
RaisedInv ==
  \A l \in Lock : owner[l] # NoTask /\ task[owner[l]].boosted =>
    \E u \in users[l] : wait[u] = l /\ waiting[u] /\ task[u].priority = task[owner[l]].priority

BoostInv == WaitInv /\ BoostEnds /\ RaisedInv

(* A task does not run while a faster one could go on in lock_enter().     *)
FastestRuns ==
  mode = "run" =>
    \A l \in Lock : \A t \in users[l] :
      t # cur /\ wait[t] = l /\ ~task[t].stopped => task[t].priority <= task[cur].priority

PriorityInv == BoostInv /\ FastestRuns /\ OwnerInherits

----------------------------------------------------------------------------
(* What NextTask() and its search loop do                                  *)

(* The highest of some priorities is one of them.                          *)
LEMMA HighestOf ==
  ASSUME NEW S \in SUBSET Priority, S # {}
  PROVE  Highest(S) \in S /\ \A r \in S : r <= Highest(S)
<1> DEFINE above(p) == {r \in S : r > p}
           T == {above(p) : p \in S}
           R == StrictSubsetOrdering(Priority)
<1>0. MaxPriority \in Nat /\ Priority = 0 .. MaxPriority
  BY TasksAssumption DEF Priority
<1>1. IsWellFoundedOn(R, SUBSET Priority)
  <2>1. IsFiniteSet(Priority)
    BY <1>0, FS_Interval
  <2> QED
    BY <2>1, FS_FiniteSubsetsOfFinite, FS_StrictSubsetOrderingWellFounded, Zenon
<1>2. T \subseteq SUBSET Priority /\ T # {}
  OBVIOUS
<1>3. PICK x \in T : \A y \in T : ~(<<y, x>> \in R)
  <2> HIDE DEF T, R
  <2> QED
    BY <1>1, <1>2, WFMin, Zenon
<1>4. PICK p \in S : x = above(p)
  OBVIOUS
<1>5. \A r \in S : r <= p
  <2> SUFFICES ASSUME NEW r \in S, r > p PROVE FALSE
    BY <1>0
  <2>0. \A q \in S : q \in Int
    BY <1>0
  <2>1. above(r) \in T /\ above(r) \subseteq x /\ r \in x /\ r \notin above(r)
    <3>1. above(r) \in T
      OBVIOUS
    <3>2. \A q \in S : q > r => q > p
      BY <2>0
    <3>3. above(r) \subseteq above(p) /\ r \in above(p) /\ r \notin above(r)
      BY <2>0, <3>2
    <3> HIDE DEF above
    <3> QED
      BY <3>1, <3>3, <1>4
  <2>2. <<above(r), x>> \in R
    BY <1>2, <2>1 DEF StrictSubsetOrdering
  <2> QED
    BY <1>3, <2>1, <2>2
<1> QED
  BY <1>5, Zenon DEF Highest

(* Two states of a task that differ in neither of these fields, or not in  *)
(* how it rests; a task that has been woken.                               *)
SameTask(r, s) ==
  r.valid = s.valid /\ r.priority = s.priority /\ r.saved = s.saved /\ r.boosted = s.boosted
SameRest(r, s) ==
  r.stopped = s.stopped /\ r.sleeping = s.sleeping /\ r.wakeup = s.wakeup
Awake(r) == ~r.stopped /\ ~r.sleeping
Asleep(r) == r.stopped /\ r.sleeping /\ ~r.wakeup

(* RUNNABLE_YES wakes the tasks of S and does nothing else of interest.    *)
LEMMA RunnableYesFields ==
  ASSUME NEW tk \in [Task -> TaskRecord], NEW S, NEW t \in Task
  PROVE  /\ SameTask(RunnableYes(tk, S)[t], tk[t])
         /\ IF t \in S THEN Awake(RunnableYes(tk, S)[t]) ELSE RunnableYes(tk, S)[t] = tk[t]
         /\ RunnableYes(tk, S)[t].long_run = tk[t].long_run
BY DEF RunnableYes, TaskRecord, SameTask, Awake

LEMMA SleepSetupFields ==
  ASSUME NEW tk \in [Task -> TaskRecord], NEW u \in Task, NEW kind, NEW t \in Task
  PROVE  /\ SameTask(SleepSetup(tk, u, kind)[t], tk[t])
         /\ IF t = u THEN Asleep(SleepSetup(tk, u, kind)[t]) ELSE SleepSetup(tk, u, kind)[t] = tk[t]
         /\ SleepSetup(tk, u, kind)[t].long_run = tk[t].long_run
BY DEF SleepSetup, TaskRecord, SameTask, Asleep

(* NextTask() marks the caller, and may wake the busy helper.              *)
LEMMA NextTaskFields ==
  ASSUME cur \in Task, NEW tk \in [Task -> TaskRecord], NEW lr, NEW param,
         NextTask(tk, lr, param)
  PROVE  /\ \A t \in Task :
              /\ SameTask(task'[t], tk[t])
              /\ SameRest(task'[t], tk[t]) \/ (param = "busy_wait" /\ mode' = "sched" /\ Awake(task'[t]))
              /\ task'[t].long_run =>
                   tk[t].long_run \/ (t = cur /\ mode' = "sched" /\ param = "long_run")
         /\ \/ mode' = mode /\ lastRun' = lr /\ (cur \in MinRun \/ param = "fast_check")
            \/ /\ mode' = "sched"
               /\ lastRun' = [lr EXCEPT ![tk[cur].priority] = IF tk[cur].valid THEN cur ELSE NoTask]
         /\ noRunSame' \in BOOLEAN
         /\ noRunSame' => mode' = "sched" /\ param = "busy_wait"
<1> DEFINE again == param = "busy_wait" /\ tk[cur].busy_wait
           marked(a, b) == [tk EXCEPT ![cur] = [@ EXCEPT !.busy_wait = a, !.long_run = b]]
           A == param = "busy_wait" /\ ~again
           B == tk[cur].long_run \/ param = "long_run"
           H == {t \in Task : again /\ t = BusyHelper}
<1>1. CASE /\ cur \in MinRun \/ param = "fast_check"
           /\ mode' = mode /\ task' = tk /\ lastRun' = lr /\ noRunSame' = FALSE
  BY <1>1 DEF SameTask, SameRest
<1>2. CASE /\ mode' = "sched"
           /\ task' = RunnableYes(marked(A, B), H)
           /\ lastRun' = [lr EXCEPT ![tk[cur].priority] = IF tk[cur].valid THEN cur ELSE NoTask]
           /\ noRunSame' = (again /\ BusyHelper = NoTask)
  <2>1. A \in BOOLEAN /\ B \in BOOLEAN
    BY Zenon
  <2>2. \A t \in H : param = "busy_wait"
    OBVIOUS
  <2>3. B => tk[cur].long_run \/ param = "long_run"
    OBVIOUS
  <2>4. \A a, b \in BOOLEAN :
          /\ marked(a, b) \in [Task -> TaskRecord]
          /\ \A t \in Task : /\ SameTask(marked(a, b)[t], tk[t]) /\ SameRest(marked(a, b)[t], tk[t])
                             /\ marked(a, b)[t].long_run => tk[t].long_run \/ (t = cur /\ b)
    <3> TAKE a, b \in BOOLEAN
    <3> DEFINE mark == [tk[cur] EXCEPT !.busy_wait = a, !.long_run = b]
    <3>1. /\ mark \in TaskRecord /\ SameTask(mark, tk[cur]) /\ SameRest(mark, tk[cur])
          /\ mark.long_run = b
      BY DEF TaskRecord, SameTask, SameRest
    <3>2. marked(a, b) = [tk EXCEPT ![cur] = mark]
      OBVIOUS
    <3> HIDE DEF mark, marked
    <3> QED
      BY <3>1, <3>2 DEF SameTask, SameRest
  <2> HIDE DEF marked, A, B, H
  <2>5. /\ marked(A, B) \in [Task -> TaskRecord]
        /\ \A t \in Task : /\ SameTask(marked(A, B)[t], tk[t]) /\ SameRest(marked(A, B)[t], tk[t])
                           /\ marked(A, B)[t].long_run => tk[t].long_run \/ (t = cur /\ B)
    BY <2>1, <2>4, Zenon
  <2>6. ASSUME NEW t \in Task
        PROVE  /\ SameTask(task'[t], tk[t])
               /\ SameRest(task'[t], tk[t]) \/ (param = "busy_wait" /\ mode' = "sched" /\ Awake(task'[t]))
               /\ task'[t].long_run =>
                    tk[t].long_run \/ (t = cur /\ mode' = "sched" /\ param = "long_run")
    <3>1. /\ SameTask(task'[t], marked(A, B)[t])
          /\ IF t \in H THEN Awake(task'[t]) ELSE task'[t] = marked(A, B)[t]
          /\ task'[t].long_run = marked(A, B)[t].long_run
      BY <1>2, <2>5, RunnableYesFields
    <3> QED
      BY <1>2, <2>2, <2>3, <2>5, <3>1 DEF SameTask, SameRest
  <2>7. noRunSame' \in BOOLEAN /\ (noRunSame' => mode' = "sched" /\ param = "busy_wait")
    <3> HIDE DEF again
    <3>1. again => param = "busy_wait"
      BY DEF again
    <3>2. (again /\ BusyHelper = NoTask) \in BOOLEAN
      BY Zenon
    <3> QED
      BY <1>2, <3>1, <3>2, Zenon
  <2> QED
    BY <1>2, <2>6, <2>7, Zenon
<1> QED
  BY <1>1, <1>2, Zenon DEF NextTask

(* The search loop resumes a task that is ready; everybody else is as      *)
(* before or has been woken, and no task that is ready is faster, but one  *)
(* that waits for a long run, or the caller if it asked for another.       *)
LEMMA DispatchFields ==
  ASSUME TypeOK, Dispatch
  PROVE  /\ \A t \in Task : /\ SameTask(task'[t], task[t])
                            /\ SameRest(task'[t], task[t]) \/ Awake(task'[t])
                            /\ task'[t].long_run => task[t].long_run
         /\ cur' \in Task /\ ~task'[cur'].long_run /\ ~task'[cur'].stopped
         /\ task[cur'].stopped => ~task'[cur'].sleeping
         /\ \A t \in Task :
              /\ task[t].valid /\ ~task[t].long_run /\ ~task'[t].stopped
              /\ noRunSame => t # cur /\ task[cur].valid /\ ~task[cur].stopped
              => task[t].priority <= task[cur'].priority
<1>0. task \in [Task -> TaskRecord] /\ cur \in Task
  BY DEF TypeOK
<1>1. PICK due \in SUBSET Alarmed, intr \in BOOLEAN, window \in BOOLEAN :
        Pass(due, intr, window)
  BY DEF Dispatch
<1> DEFINE
      polled == {t \in Task : intr /\ t = ITask /\ task[t].sleeping}
      Runnable(p) == {t \in Task : /\ task[t].valid /\ task[t].priority = p
                                   /\ ~task[t].stopped \/ t \in due \cup polled}
      Eligible(p) == {t \in Runnable(p) : task[t].long_run => window}
      skipped == {p \in Priority : /\ noRunSame /\ p = task[cur].priority
                                   /\ Cardinality(Runnable(p)) = 1}
      levels == {p \in Priority : Eligible(p) # {}}
      found == levels \ skipped # {}
      from == IF found THEN levels \ skipped ELSE levels
      top == Highest(IF found THEN levels \ skipped ELSE levels)
      woken == {t \in due : found => task[t].priority >= top}
      awake == RunnableYes(task, woken \cup polled)
<1>2. /\ cur' \in RoundRobin(top, Eligible(top))
      /\ levels # {}
      /\ task' = [t \in Task |->
                    [awake[t] EXCEPT !.deadline = awake[t].deadline /\ t \notin woken,
                                     !.test = awake[t].test /\ t \notin woken,
                                     !.long_run = awake[t].long_run /\ t # cur']]
  BY <1>1, Zenon DEF Pass
<1>3. cur' \in Eligible(top)
  <2> HIDE DEF top, Eligible
  <2> QED
    BY <1>2, Zenon DEF RoundRobin
<1>4. cur' \in Task /\ task[cur'].priority = top /\ (~task[cur'].stopped \/ cur' \in due \cup polled)
  <2> HIDE DEF top
  <2> QED
    BY <1>3
<1>5. top \in levels /\ \A p \in levels \ skipped : p <= top
  <2>1. from \in SUBSET Priority /\ from # {}
    <3>1. levels \subseteq Priority
      OBVIOUS
    <3> HIDE DEF levels, skipped
    <3> QED
      BY <1>2, <3>1
  <2>2. Highest(from) \in from /\ \A r \in from : r <= Highest(from)
    <3> HIDE DEF from
    <3> QED
      BY <2>1, HighestOf
  <2>3. found => from = levels \ skipped
    OBVIOUS
  <2>4. ~found => from = levels /\ levels \ skipped = {}
    OBVIOUS
  <2>5. top = Highest(from)
    OBVIOUS
  <2> HIDE DEF from, top, found, levels, skipped
  <2> QED
    BY <2>2, <2>3, <2>4, <2>5
<1>6. cur' \in due => cur' \in woken
  <2>1. task[cur'].priority >= top
    <3>1. task[cur'].priority \in Priority
      BY <1>0, <1>4 DEF TaskRecord
    <3>2. task[cur'].priority \in Int
      BY <3>1, TasksAssumption DEF Priority
    <3> HIDE DEF top
    <3> QED
      BY <1>4, <3>2
  <2> HIDE DEF top, found
  <2> QED
    BY <2>1
<1> HIDE DEF woken
<1>7. awake \in [Task -> TaskRecord]
  BY <1>0, RunnableYesType
<1>8. \A t \in Task : /\ SameTask(awake[t], task[t])
                      /\ IF t \in woken \cup polled THEN Awake(awake[t]) ELSE awake[t] = task[t]
                      /\ awake[t].long_run = task[t].long_run
  BY <1>0, RunnableYesFields
<1> HIDE DEF awake
<1>9. ASSUME NEW t \in Task
      PROVE  /\ SameTask(task'[t], awake[t]) /\ SameRest(task'[t], awake[t])
             /\ task'[t].long_run => awake[t].long_run /\ t # cur'
  <2> DEFINE r(a, b, c) == [awake[t] EXCEPT !.deadline = a, !.test = b, !.long_run = c]
             a == awake[t].deadline /\ t \notin woken
             b == awake[t].test /\ t \notin woken
             c == awake[t].long_run /\ t # cur'
  <2>1. \A d, e, f \in BOOLEAN :
          /\ SameTask(r(d, e, f), awake[t]) /\ SameRest(r(d, e, f), awake[t])
          /\ r(d, e, f).long_run = f
    BY <1>7 DEF TaskRecord, SameTask, SameRest
  <2>2. a \in BOOLEAN /\ b \in BOOLEAN /\ c \in BOOLEAN
    BY Zenon
  <2>3. task'[t] = r(a, b, c)
    BY <1>2, Zenon
  <2>4. c => awake[t].long_run /\ t # cur'
    OBVIOUS
  <2> HIDE DEF r, a, b, c
  <2> QED
    BY <2>1, <2>2, <2>3, <2>4
<1>10. \A t \in Task : /\ SameTask(task'[t], task[t])
                       /\ IF t \in woken \cup polled THEN Awake(task'[t]) ELSE SameRest(task'[t], task[t])
                       /\ task'[t].long_run => task[t].long_run /\ t # cur'
  <2> HIDE DEF polled
  <2> QED
    BY <1>8, <1>9 DEF SameTask, SameRest, Awake
<1>11. /\ ~task'[cur'].long_run /\ ~task'[cur'].stopped
       /\ task[cur'].stopped => ~task'[cur'].sleeping
  <2> HIDE DEF polled
  <2> QED
    BY <1>4, <1>6, <1>10 DEF Awake, SameRest
<1>12. ASSUME NEW t \in Task, task[t].valid, ~task[t].long_run, ~task'[t].stopped,
              noRunSame => t # cur /\ task[cur].valid /\ ~task[cur].stopped
       PROVE  task[t].priority <= task[cur'].priority
  <2> DEFINE p == task[t].priority
  <2>1. p \in Priority
    BY <1>0 DEF TaskRecord
  <2>2. ~task[t].stopped \/ t \in due \cup polled
    <3>1. woken \subseteq due
      BY DEF woken
    <3> HIDE DEF polled
    <3> QED
      BY <1>10, <1>12, <3>1 DEF SameRest
  <2>3. t \in Runnable(p) /\ t \in Eligible(p)
    BY <1>12, <2>2
  <2>4. p \notin skipped
    <3> SUFFICES ASSUME noRunSame, p = task[cur].priority, Cardinality(Runnable(p)) = 1 PROVE FALSE
      OBVIOUS
    <3>1. cur \in Runnable(p) /\ t # cur
      BY <1>0, <1>12
    <3>2. IsFiniteSet(Runnable(p))
      <4>1. NTasks \in Nat /\ Task = 0 .. NTasks - 1
        BY TasksAssumption DEF Task
      <4>2. IsFiniteSet(Task)
        BY <4>1, FS_Interval
      <4>3. Runnable(p) \in SUBSET Task
        OBVIOUS
      <4> HIDE DEF Runnable
      <4> QED
        BY <4>2, <4>3, FS_Subset
    <3> HIDE DEF Runnable
    <3>3. PICK x : Runnable(p) = {x}
      BY <3>2, FS_Singleton, Zenon
    <3> QED
      BY <2>3, <3>1, <3>3
  <2>5. p \in levels
    <3> HIDE DEF Eligible, p
    <3> QED
      BY <2>1, <2>3
  <2> HIDE DEF levels, skipped, top
  <2> QED
    BY <1>4, <1>5, <2>4, <2>5
<1> QED
  <2> HIDE DEF polled
  <2>1. \A t \in Task : /\ SameTask(task'[t], task[t])
                        /\ SameRest(task'[t], task[t]) \/ Awake(task'[t])
                        /\ task'[t].long_run => task[t].long_run
    BY <1>10
  <2> QED
    BY <2>1, <1>4, <1>11, <1>12, Zenon

----------------------------------------------------------------------------
(* The queues                                                              *)

In(s, t) == \E i \in 1 .. Len(s) : s[i] = t
Once(s) == \A i, j \in 1 .. Len(s) : s[i] = s[j] => i = j

(* QueuesConsistent of any tables.                                         *)
QueuesOf(q, tk, lr) ==
  \A p \in Priority :
    /\ Once(q[p])
    /\ \A t \in Task : In(q[p], t) <=> tk[t].valid /\ tk[t].priority = p
    /\ lr[p] # NoTask => In(q[p], lr[p])

(* Two tables that name the same tasks, at the same priorities.            *)
SameQueues(tk, tl) ==
  \A t \in Task : tl[t].valid = tk[t].valid /\ tl[t].priority = tk[t].priority

LEMMA QueuesAre == QueuesConsistent <=> QueuesOf(taskQ, task, lastRun)
BY Zenon DEF QueuesConsistent, QueuesOf, Once, In

(* Taking a task out takes out nobody else.                                *)
LEMMA WithoutElements ==
  ASSUME NEW s \in Seq(Task), NEW t, In(s, t), Once(s)
  PROVE  /\ Once(Without(s, t))
         /\ \A u : In(Without(s, t), u) <=> In(s, u) /\ u # t
<1> DEFINE i == CHOOSE k \in 1 .. Len(s) : s[k] = t
           n == Len(s) - 1
           r == [j \in 1 .. n |-> IF j < i THEN s[j] ELSE s[j + 1]]
<1>1. i \in 1 .. Len(s) /\ s[i] = t
  BY DEF In
<1>2. r = Without(s, t)
  BY DEF Without
<1> HIDE DEF i
<1>3. Len(s) \in Nat /\ n \in Nat /\ Len(s) = n + 1 /\ i \in Nat
  BY <1>1
<1>4. Len(r) = n /\ DOMAIN r = 1 .. n
  <2>1. \A j \in 1 .. n : (IF j < i THEN s[j] ELSE s[j + 1]) \in Task
    BY <1>3
  <2>2. r \in [1 .. n -> Task]
    BY <2>1
  <2>3. r \in Seq(Task)
    BY <1>3, <2>2
  <2> QED
    BY <1>3, <2>2, <2>3
<1> DEFINE from(j) == IF j < i THEN j ELSE j + 1
<1>5. \A j \in 1 .. n : from(j) \in 1 .. Len(s) /\ from(j) # i /\ r[j] = s[from(j)]
  BY <1>1, <1>3
<1>6. \A j, k \in 1 .. n : from(j) = from(k) => j = k
  BY <1>1, <1>3
<1>7. \A k \in 1 .. Len(s) : k # i => \E j \in 1 .. n : from(j) = k
  <2> TAKE k \in 1 .. Len(s)
  <2> HAVE k # i
  <2> DEFINE j == IF k < i THEN k ELSE k - 1
  <2>1. j \in 1 .. n /\ from(j) = k
    BY <1>1, <1>3
  <2> QED
    BY <2>1
<1> HIDE DEF from, r, n
<1>8. Once(r)
  BY <1>4, <1>5, <1>6 DEF Once
<1>9. ASSUME NEW u PROVE In(r, u) <=> In(s, u) /\ u # t
  <2>1. ASSUME In(r, u) PROVE In(s, u) /\ u # t
    <3>1. PICK j \in 1 .. n : r[j] = u
      BY <1>4, <2>1 DEF In
    <3> QED
      BY <1>1, <1>5, <3>1 DEF In, Once
  <2>2. ASSUME In(s, u), u # t PROVE In(r, u)
    <3>1. PICK k \in 1 .. Len(s) : s[k] = u
      BY <2>2 DEF In
    <3>2. PICK j \in 1 .. n : from(j) = k
      BY <1>1, <1>7, <2>2, <3>1
    <3> QED
      BY <1>4, <1>5, <3>1, <3>2 DEF In
  <2> QED
    BY <2>1, <2>2
<1> QED
  BY <1>2, <1>8, <1>9

(* The queues after a task has left, and after another one has come.       *)
LEMMA QueuesTdeQ ==
  ASSUME NEW q \in [Priority -> Seq(Task)], NEW tk \in [Task -> TaskRecord],
         NEW lr \in [Priority -> Task \cup {NoTask}], QueuesOf(q, tk, lr),
         NEW t \in Task, tk[t].valid, NEW tl, ~tl[t].valid,
         \A u \in Task \ {t} : tl[u].valid = tk[u].valid /\ tl[u].priority = tk[u].priority
  PROVE  QueuesOf(TdeQ(q, t, tk[t].priority), tl, TdeQLast(lr, t, tk[t].priority))
<1> DEFINE k == tk[t].priority
           qq == TdeQ(q, t, k)
           ll == TdeQLast(lr, t, k)
<1>0. k \in Priority
  BY DEF TaskRecord
<1>1. In(q[k], t) /\ Once(q[k])
  BY <1>0 DEF QueuesOf
<1>2. /\ qq[k] = Without(q[k], t)
      /\ \A p \in Priority \ {k} : qq[p] = q[p] /\ ll[p] = lr[p]
      /\ ll[k] = IF lr[k] = t THEN NoTask ELSE lr[k]
  BY <1>0 DEF TdeQ, TdeQLast
<1>3. Once(qq[k]) /\ \A u : In(qq[k], u) <=> In(q[k], u) /\ u # t
  BY <1>0, <1>1, <1>2, WithoutElements
<1> SUFFICES ASSUME NEW p \in Priority
             PROVE  /\ Once(qq[p])
                    /\ \A u \in Task : In(qq[p], u) <=> tl[u].valid /\ tl[u].priority = p
                    /\ ll[p] # NoTask => In(qq[p], ll[p])
  BY Zenon DEF QueuesOf
<1>4. /\ Once(q[p])
      /\ \A u \in Task : In(q[p], u) <=> tk[u].valid /\ tk[u].priority = p
      /\ lr[p] # NoTask => In(q[p], lr[p])
  BY Zenon DEF QueuesOf
<1>5. CASE p = k
  <2>1. Once(qq[p])
    BY <1>3, <1>5, Zenon
  <2>2. \A u \in Task : u # t /\ tk[u].valid /\ tk[u].priority = p <=> tl[u].valid /\ tl[u].priority = p
    OBVIOUS
  <2>3. \A u \in Task : In(qq[p], u) <=> tl[u].valid /\ tl[u].priority = p
    <3> HIDE DEF qq, k
    <3> QED
      BY <1>3, <1>4, <1>5, <2>2, Zenon
  <2>4. ll[p] # NoTask => ll[p] = lr[p] /\ lr[p] # t
    BY <1>2, <1>5, Zenon
  <2>5. ll[p] # NoTask => In(qq[p], ll[p])
    <3> HIDE DEF qq, ll, k
    <3> QED
      BY <1>3, <1>4, <1>5, <2>4, Zenon
  <2> QED
    BY <2>1, <2>3, <2>5, Zenon
<1> HIDE DEF qq, ll, k
<1>6. CASE p # k
  BY <1>2, <1>4, <1>6 DEF k
<1> QED
  BY <1>5, <1>6

LEMMA QueuesTenQ ==
  ASSUME NEW q \in [Priority -> Seq(Task)], NEW tk, NEW lr, QueuesOf(q, tk, lr),
         NEW t \in Task, ~tk[t].valid, NEW tl, tl[t].valid,
         NEW k \in Priority, tl[t].priority = k,
         \A u \in Task \ {t} : tl[u].valid = tk[u].valid /\ tl[u].priority = tk[u].priority
  PROVE  QueuesOf(TenQ(q, t, k), tl, lr)
<1> DEFINE qq == TenQ(q, t, k)
           s == q[k]
           r == <<t>> \o s
<1>1. qq[k] = r /\ \A p \in Priority \ {k} : qq[p] = q[p]
  BY DEF TenQ
<1>2. ~In(s, t) /\ Once(s) /\ s \in Seq(Task)
  BY DEF QueuesOf
<1> HIDE DEF s
<1>3. /\ Len(r) = Len(s) + 1 /\ Len(s) \in Nat /\ r[1] = t
      /\ \A i \in 2 .. Len(r) : i - 1 \in 1 .. Len(s) /\ r[i] = s[i - 1]
  BY <1>2
<1> HIDE DEF r
<1>4. \A u : In(r, u) <=> u = t \/ In(s, u)
  <2> TAKE u
  <2>1. ASSUME In(r, u) PROVE u = t \/ In(s, u)
    <3>1. PICK i \in 1 .. Len(r) : r[i] = u
      BY <2>1 DEF In
    <3>2. i = 1 \/ i \in 2 .. Len(r)
      BY <1>3
    <3> QED
      BY <1>3, <3>1, <3>2 DEF In
  <2>2. ASSUME In(s, u) PROVE In(r, u)
    <3>1. PICK i \in 1 .. Len(s) : s[i] = u
      BY <2>2 DEF In
    <3>2. i + 1 \in 2 .. Len(r) /\ (i + 1) - 1 = i /\ i + 1 \in 1 .. Len(r)
      BY <1>3
    <3> QED
      BY <1>3, <3>1, <3>2 DEF In
  <2>3. 1 \in 1 .. Len(r)
    BY <1>3
  <2> QED
    BY <1>3, <2>1, <2>2, <2>3 DEF In
<1>5. Once(r)
  <2> SUFFICES ASSUME NEW i \in 1 .. Len(r), NEW j \in 1 .. Len(r), r[i] = r[j]
               PROVE  i = j
    BY DEF Once
  <2>1. (i = 1 \/ i \in 2 .. Len(r)) /\ (j = 1 \/ j \in 2 .. Len(r))
    BY <1>3
  <2>2. ~(i = 1 /\ j \in 2 .. Len(r)) /\ ~(j = 1 /\ i \in 2 .. Len(r))
    BY <1>2, <1>3 DEF In
  <2>3. CASE i \in 2 .. Len(r) /\ j \in 2 .. Len(r)
    <3>1. i - 1 = j - 1
      <4>1. /\ i - 1 \in 1 .. Len(s) /\ j - 1 \in 1 .. Len(s)
            /\ s[i - 1] = s[j - 1]
        BY <1>3, <2>3
      <4> QED
        BY <4>1, <1>2 DEF Once
    <3> QED
      BY <3>1
  <2> QED
    BY <2>1, <2>2, <2>3
<1> SUFFICES ASSUME NEW p \in Priority
             PROVE  /\ Once(qq[p])
                    /\ \A u \in Task : In(qq[p], u) <=> tl[u].valid /\ tl[u].priority = p
                    /\ lr[p] # NoTask => In(qq[p], lr[p])
  BY Zenon DEF QueuesOf
<1>6. /\ Once(q[p])
      /\ \A u \in Task : In(q[p], u) <=> tk[u].valid /\ tk[u].priority = p
      /\ lr[p] # NoTask => In(q[p], lr[p])
  BY Zenon DEF QueuesOf
<1> HIDE DEF qq
<1>7. CASE p = k
  BY <1>1, <1>4, <1>5, <1>6, <1>7 DEF s
<1>8. CASE p # k
  BY <1>1, <1>6, <1>8
<1> QED
  BY <1>7, <1>8

(* A task changes its queue, as its priority is raised or lowered.         *)
LEMMA QueuesMove ==
  ASSUME NEW q \in [Priority -> Seq(Task)], NEW tk \in [Task -> TaskRecord],
         NEW lr \in [Priority -> Task \cup {NoTask}], QueuesOf(q, tk, lr),
         NEW t \in Task, tk[t].valid, NEW k \in Priority, NEW tl,
         tl[t].valid, tl[t].priority = k,
         \A u \in Task \ {t} : tl[u].valid = tk[u].valid /\ tl[u].priority = tk[u].priority
  PROVE  QueuesOf(TenQ(TdeQ(q, t, tk[t].priority), t, k), tl, TdeQLast(lr, t, tk[t].priority))
<1> DEFINE gone == [tk EXCEPT ![t] = [@ EXCEPT !.valid = FALSE]]
           p == tk[t].priority
<1>1. /\ ~gone[t].valid
      /\ \A u \in Task \ {t} : gone[u].valid = tk[u].valid /\ gone[u].priority = tk[u].priority
  BY DEF TaskRecord
<1> HIDE DEF gone
<1>2. QueuesOf(TdeQ(q, t, p), gone, TdeQLast(lr, t, p))
  BY <1>1, QueuesTdeQ
<1>3. TdeQ(q, t, p) \in [Priority -> Seq(Task)]
  <2>1. p \in Priority
    BY DEF TaskRecord
  <2> HIDE DEF p
  <2> QED
    BY <2>1, TdeQType
<1> HIDE DEF p
<1>4. \A u \in Task \ {t} : tl[u].valid = gone[u].valid /\ tl[u].priority = gone[u].priority
  BY <1>1
<1> QED
  BY <1>1, <1>2, <1>3, <1>4, QueuesTenQ DEF p

LEMMA QueuesSame ==
  ASSUME NEW q, NEW tk, NEW lr, QueuesOf(q, tk, lr), NEW tl, SameQueues(tk, tl)
  PROVE  QueuesOf(q, tl, lr)
BY DEF QueuesOf, SameQueues

(* The mark of the round robin is set to the caller, who is in the queue.  *)
LEMMA QueuesNextTask ==
  ASSUME cur \in Task, NEW tk \in [Task -> TaskRecord], NEW q,
         NEW lr \in [Priority -> Task \cup {NoTask}], QueuesOf(q, tk, lr),
         NEW param, NextTask(tk, lr, param)
  PROVE  QueuesOf(q, task', lastRun')
<1>1. /\ \A t \in Task : SameTask(task'[t], tk[t])
      /\ \/ lastRun' = lr
         \/ lastRun' = [lr EXCEPT ![tk[cur].priority] = IF tk[cur].valid THEN cur ELSE NoTask]
  BY NextTaskFields
<1>2. SameQueues(tk, task')
  BY <1>1 DEF SameQueues, SameTask
<1>3. QueuesOf(q, tk, lastRun')
  <2>1. CASE lastRun' = [lr EXCEPT ![tk[cur].priority] = IF tk[cur].valid THEN cur ELSE NoTask]
    <3>1. tk[cur].priority \in Priority
      BY DEF TaskRecord
    <3>2. tk[cur].valid => In(q[tk[cur].priority], cur)
      BY <3>1 DEF QueuesOf
    <3>3. \A p \in Priority : lastRun'[p] = IF p = tk[cur].priority
                                            THEN IF tk[cur].valid THEN cur ELSE NoTask
                                            ELSE lr[p]
      BY <2>1, <3>1
    <3> QED
      BY <3>2, <3>3 DEF QueuesOf
  <2> QED
    BY <1>1, <2>1
<1> QED
  BY <1>2, <1>3, QueuesSame

----------------------------------------------------------------------------
(* What the steps of module Tasks do to a task                             *)

(* It is left alone, or woken; put to sleep, when it is not busy with a    *)
(* lock; created, or removed.                                              *)
Left(t) ==
  /\ SameTask(task'[t], task[t])
  /\ \/ SameRest(task'[t], task[t])
     \/ Awake(task'[t]) /\ (t = cur \/ task[t].sleeping \/ mode' = "sched")
PutToSleep(t) ==
  /\ SameTask(task'[t], task[t]) /\ Asleep(task'[t])
  /\ want[t] = NoLock
  /\ t = cur => pc'[cur] = "sleep"
Created(t) == ~task[t].valid /\ task'[t] = NewTask(t)
Removed(t) ==
  /\ ~task'[t].valid
  /\ hold[t] = NoLock /\ want[t] = NoLock
  /\ t = cur => mode' = "sched"

Outcome(t) == Left(t) \/ PutToSleep(t) \/ Created(t) \/ Removed(t)

(* Only a task that calls NextTask() in its own code announces a long run  *)
(* or asks for another task to be run.                                     *)
LongRunStep ==
  \A t \in Task : task'[t].long_run =>
    task[t].long_run \/ (t = cur /\ pc[cur] = "app" /\ mode' = "sched")

NoRunSameStep ==
  noRunSame' => noRunSame \/ (/\ mode' = "sched" /\ pc[cur] = "app" /\ pc'[cur] = "app"
                              /\ task'[cur].valid = task[cur].valid
                              /\ task'[cur].stopped => task[cur].stopped)

QueuesStep == QueuesOf(taskQ, task, lastRun) => QueuesOf(taskQ', task', lastRun')

AppStep ==
  /\ \A t \in Task : Outcome(t)
  /\ LongRunStep
  /\ NoRunSameStep
  /\ pc'[cur] = "app" => pc[cur] = "app" \/ Awake(task'[cur])
  /\ QueuesStep

(* A step that changes the table to tk and calls NextTask(), or does not.  *)
Turns(tk, lr) ==
  \/ NextTask(tk, lr, "none")
  \/ task' = tk /\ lastRun' = lr /\ UNCHANGED <<mode, noRunSame>>

LEMMA TurnsFields ==
  ASSUME cur \in Task, NEW tk \in [Task -> TaskRecord], NEW lr, Turns(tk, lr)
  PROVE  /\ \A t \in Task : /\ SameTask(task'[t], tk[t]) /\ SameRest(task'[t], tk[t])
                            /\ task'[t].long_run => tk[t].long_run
         /\ mode' = mode \/ mode' = "sched"
         /\ noRunSame' => noRunSame
<1>1. CASE task' = tk /\ UNCHANGED <<mode, noRunSame>>
  BY <1>1 DEF SameTask, SameRest
<1>2. CASE NextTask(tk, lr, "none")
  BY <1>2, NextTaskFields
<1> QED
  BY <1>1, <1>2 DEF Turns

LEMMA QueuesTurns ==
  ASSUME cur \in Task, NEW tk \in [Task -> TaskRecord], NEW q,
         NEW lr \in [Priority -> Task \cup {NoTask}], QueuesOf(q, tk, lr), Turns(tk, lr)
  PROVE  QueuesOf(q, task', lastRun')
BY QueuesNextTask DEF Turns

LEMMA SleepLoopStep ==
  ASSUME TypeOK, SleepLoop
  PROVE  AppStep
<1>0. cur \in Task /\ task \in [Task -> TaskRecord] /\ lastRun \in [Priority -> Task \cup {NoTask}]
  BY DEF TypeOK
<1>1. CASE NextTask(task, lastRun, "none") /\ pc' = pc
  <2>1. Turns(task, lastRun) /\ pc'[cur] # "app"
    BY <1>1 DEF Turns, SleepLoop
  <2>2. (\A t \in Task : Left(t)) /\ LongRunStep /\ NoRunSameStep
    BY <1>0, <2>1, TurnsFields DEF Left, LongRunStep, NoRunSameStep
  <2>3. QueuesStep
    BY <1>0, <2>1, QueuesTurns DEF QueuesStep, SleepLoop
  <2> QED
    BY <2>1, <2>2, <2>3 DEF AppStep, Outcome
<1>2. CASE /\ task' = [task EXCEPT ![cur] =
                         [@ EXCEPT !.deadline = FALSE, !.stopped = FALSE,
                                   !.sleeping = FALSE, !.wakeup = FALSE]]
           /\ UNCHANGED <<mode, noRunSame, lastRun>>
  <2> DEFINE r == [task[cur] EXCEPT !.deadline = FALSE, !.stopped = FALSE,
                                    !.sleeping = FALSE, !.wakeup = FALSE]
  <2>1. SameTask(r, task[cur]) /\ Awake(r) /\ r.long_run = task[cur].long_run
    BY <1>0 DEF TaskRecord, SameTask, Awake
  <2>2. task' = [task EXCEPT ![cur] = r]
    BY <1>2
  <2> HIDE DEF r
  <2>3. /\ \A t \in Task : Left(t)
        /\ SameQueues(task, task') /\ Awake(task'[cur]) /\ LongRunStep /\ NoRunSameStep
    BY <1>0, <1>2, <2>1, <2>2
       DEF Left, SameTask, SameRest, SameQueues, LongRunStep, NoRunSameStep
  <2>4. QueuesStep
    BY <1>2, <2>3, QueuesSame DEF QueuesStep, SleepLoop
  <2> QED
    BY <2>3, <2>4 DEF AppStep, Outcome
<1> QED
  BY <1>1, <1>2, Zenon DEF SleepLoop

LEMMA CreateTaskStep ==
  ASSUME TypeOK, UsersKnown, CreateTask
  PROVE  AppStep
<1>0. /\ cur \in Task /\ task \in [Task -> TaskRecord] /\ taskQ \in [Priority -> Seq(Task)]
      /\ Prio \in [Task -> Priority]
  BY ConstantsType DEF TypeOK
<1>1. PICK t \in Free : /\ task' = [task EXCEPT ![t] = NewTask(t)]
                        /\ taskQ' = TenQ(taskQ, t, Prio[t])
                        /\ pc' = [pc EXCEPT ![t] = "app"]
  BY DEF CreateTask
<1>2. t \in Task /\ ~task[t].valid /\ t # cur /\ NewTask(t).valid
  BY DEF Free, UsersKnown, CreateTask, AppRuns, NewTask
<1>3. task'[t] = NewTask(t) /\ \A u \in Task \ {t} : task'[u] = task[u]
  BY <1>0, <1>1, <1>2
<1>4. ASSUME NEW u \in Task PROVE Outcome(u)
  BY <1>2, <1>3 DEF Outcome, Left, Created, SameTask, SameRest
<1>5. LongRunStep
  BY <1>3 DEF LongRunStep, NewTask
<1>6. QueuesStep
  <2>1. NewTask(t).priority = Prio[t] /\ Prio[t] \in Priority
    BY <1>0, <1>2 DEF NewTask
  <2> SUFFICES ASSUME QueuesOf(taskQ, task, lastRun)
               PROVE  QueuesOf(TenQ(taskQ, t, Prio[t]), task', lastRun)
    BY <1>1 DEF QueuesStep, CreateTask
  <2> QED
    BY <1>0, <1>2, <1>3, <2>1, QueuesTenQ
<1> QED
  BY <1>4, <1>5, <1>6 DEF AppStep, NoRunSameStep, CreateTask, AppRuns

LEMMA TaskCollectStep ==
  ASSUME TypeOK, TaskCollect
  PROVE  AppStep
<1>0. task \in [Task -> TaskRecord]
  BY DEF TypeOK
<1>1. \A t \in Task : task'[t] = [task[t] EXCEPT !.init = TRUE]
  BY DEF TaskCollect
<1>2. ASSUME NEW t \in Task
      PROVE  /\ SameTask(task'[t], task[t]) /\ SameRest(task'[t], task[t])
             /\ task'[t].long_run = task[t].long_run
  <2>1. task[t] \in TaskRecord /\ task'[t] = [task[t] EXCEPT !.init = TRUE]
    BY <1>0, <1>1
  <2> QED
    BY <2>1 DEF TaskRecord, SameTask, SameRest
<1>3. (\A t \in Task : Left(t)) /\ SameQueues(task, task') /\ LongRunStep
  BY <1>2 DEF Left, SameTask, SameQueues, LongRunStep
<1>4. QueuesStep
  BY <1>3, QueuesSame DEF QueuesStep, TaskCollect
<1> QED
  BY <1>3, <1>4 DEF AppStep, Outcome, NoRunSameStep, TaskCollect, AppRuns

LEMMA YieldStep ==
  ASSUME TypeOK, RunsInv, NEW param \in Param, Yield(param)
  PROVE  AppStep
<1>0. /\ cur \in Task /\ task \in [Task -> TaskRecord] /\ lastRun \in [Priority -> Task \cup {NoTask}]
      /\ mode = "run" /\ pc[cur] = "app" /\ pc' = pc /\ taskQ' = taskQ
      /\ NextTask(task, lastRun, param)
  BY DEF TypeOK, Yield, AppRuns
<1>1. \A t \in Task :
        /\ SameTask(task'[t], task[t])
        /\ SameRest(task'[t], task[t]) \/ (mode' = "sched" /\ Awake(task'[t]))
        /\ task'[t].long_run => task[t].long_run \/ (t = cur /\ mode' = "sched")
  BY <1>0, NextTaskFields
<1>2. noRunSame' => mode' = "sched"
  BY <1>0, NextTaskFields
<1>3. (\A t \in Task : Left(t)) /\ LongRunStep
  BY <1>0, <1>1 DEF Left, LongRunStep
<1>4. NoRunSameStep
  BY <1>0, <1>1, <1>2 DEF NoRunSameStep, SameTask, SameRest, Awake
<1>5. QueuesStep
  BY <1>0, QueuesNextTask DEF QueuesStep
<1> QED
  BY <1>0, <1>3, <1>4, <1>5 DEF AppStep, Outcome

LEMMA TaskSleepStep ==
  ASSUME TypeOK, UsersKnown, NEW kind \in Kind, TaskSleep(kind)
  PROVE  AppStep
<1> DEFINE tk == SleepSetup(task, cur, kind)
<1>0. /\ cur \in Task /\ task \in [Task -> TaskRecord] /\ lastRun \in [Priority -> Task \cup {NoTask}]
      /\ pc[cur] = "app" /\ want[cur] = NoLock /\ pc'[cur] = "sleep" /\ taskQ' = taskQ
      /\ Turns(tk, lastRun)
  BY DEF TypeOK, TaskSleep, AppRuns, UsersKnown, Turns
<1>1. /\ tk \in [Task -> TaskRecord]
      /\ \A t \in Task : /\ SameTask(tk[t], task[t])
                         /\ IF t = cur THEN Asleep(tk[t]) ELSE tk[t] = task[t]
                         /\ tk[t].long_run = task[t].long_run
  BY <1>0, SleepSetupType, SleepSetupFields
<1> HIDE DEF tk
<1>2. /\ \A t \in Task : /\ SameTask(task'[t], tk[t]) /\ SameRest(task'[t], tk[t])
                         /\ task'[t].long_run => tk[t].long_run
      /\ noRunSame' => noRunSame
  BY <1>0, <1>1, TurnsFields
<1>3. ASSUME NEW t \in Task PROVE Outcome(t)
  <2>1. SameTask(task'[t], task[t])
    BY <1>1, <1>2 DEF SameTask
  <2>2. CASE t = cur
    BY <1>0, <1>1, <1>2, <2>1, <2>2 DEF Outcome, PutToSleep, SameRest, Asleep
  <2>3. CASE t # cur
    BY <1>1, <1>2, <2>1, <2>3 DEF Outcome, Left
  <2> QED
    BY <2>2, <2>3
<1>4. LongRunStep /\ NoRunSameStep
  BY <1>1, <1>2 DEF LongRunStep, NoRunSameStep
<1>5. QueuesStep
  <2>1. SameQueues(task, tk)
    BY <1>1 DEF SameQueues, SameTask
  <2> QED
    BY <1>0, <1>1, <2>1, QueuesSame, QueuesTurns DEF QueuesStep
<1> QED
  BY <1>0, <1>3, <1>4, <1>5 DEF AppStep

LEMMA TaskSleepIDStep ==
  ASSUME TypeOK, UsersKnown, WaiterNeverSleeps,
         NEW t \in Task, NEW kind \in Kind, TaskSleepID(t, kind)
  PROVE  AppStep
<1>0. /\ cur \in Task /\ task \in [Task -> TaskRecord] /\ t # cur
      /\ pc[cur] = "app" /\ pc' = pc
      /\ UNCHANGED <<mode, noRunSame, taskQ, lastRun>>
  BY DEF TypeOK, TaskSleepID, AppRuns
<1>1. CASE task' = [task EXCEPT ![t].pending = kind]
  <2> DEFINE r == [task[t] EXCEPT !.pending = kind]
  <2>1. SameTask(r, task[t]) /\ SameRest(r, task[t]) /\ r.long_run = task[t].long_run
    BY <1>0 DEF TaskRecord, SameTask, SameRest
  <2>2. task' = [task EXCEPT ![t] = r]
    BY <1>1
  <2> HIDE DEF r
  <2>3. (\A u \in Task : Left(u)) /\ SameQueues(task, task') /\ LongRunStep
    BY <1>0, <2>1, <2>2 DEF Left, SameTask, SameRest, SameQueues, LongRunStep
  <2>4. QueuesStep
    BY <1>0, <2>3, QueuesSame DEF QueuesStep
  <2> QED
    BY <1>0, <2>3, <2>4 DEF AppStep, Outcome, NoRunSameStep
<1>2. CASE task' = SleepSetup(task, t, kind) /\ ~UsesLock(t)
  <2>1. want[t] = NoLock
    <3> SUFFICES ASSUME want[t] # NoLock PROVE FALSE
      OBVIOUS
    <3>1. want[t] \in Lock /\ t \in users[want[t]] /\ hold[t] = NoLock /\ wait[t] = NoLock
      BY <1>2 DEF TypeOK, UsersKnown, UsesLock
    <3> QED
      BY <1>0, <3>1, NoLockType DEF WaiterNeverSleeps
  <2>2. \A u \in Task : /\ SameTask(task'[u], task[u])
                        /\ IF u = t THEN Asleep(task'[u]) ELSE task'[u] = task[u]
                        /\ task'[u].long_run = task[u].long_run
    BY <1>0, <1>2, SleepSetupFields
  <2>3. ASSUME NEW u \in Task PROVE Outcome(u)
    BY <1>0, <2>1, <2>2 DEF Outcome, Left, PutToSleep, SameRest
  <2>4. SameQueues(task, task') /\ LongRunStep
    BY <2>2 DEF SameTask, SameQueues, LongRunStep
  <2>5. QueuesStep
    BY <1>0, <2>4, QueuesSame DEF QueuesStep
  <2> QED
    BY <1>0, <2>3, <2>4, <2>5 DEF AppStep, NoRunSameStep
<1> QED
  BY <1>1, <1>2, Zenon DEF TaskSleepID

LEMMA TaskWakeupStep ==
  ASSUME TypeOK, NEW t \in Task, NEW cancel \in BOOLEAN, TaskWakeup(t, cancel)
  PROVE  AppStep
<1> DEFINE undead == [task EXCEPT ![t].deadline = FALSE]
           woken == RunnableYes(undead, {t})
           spared == [undead EXCEPT ![t].pending = "no"]
<1>0. /\ cur \in Task /\ task \in [Task -> TaskRecord] /\ lastRun \in [Priority -> Task \cup {NoTask}]
      /\ pc[cur] = "app" /\ pc' = pc /\ taskQ' = taskQ
  BY DEF TypeOK, TaskWakeup, AppRuns
<1>1. /\ undead \in [Task -> TaskRecord]
      /\ \A u \in Task : /\ SameTask(undead[u], task[u]) /\ SameRest(undead[u], task[u])
                         /\ undead[u].long_run = task[u].long_run
  <2> DEFINE r == [task[t] EXCEPT !.deadline = FALSE]
  <2>1. /\ r \in TaskRecord /\ SameTask(r, task[t]) /\ SameRest(r, task[t])
        /\ r.long_run = task[t].long_run
    BY <1>0 DEF TaskRecord, SameTask, SameRest
  <2>2. undead = [task EXCEPT ![t] = r]
    OBVIOUS
  <2> HIDE DEF r, undead
  <2> QED
    BY <1>0, <2>1, <2>2 DEF SameTask, SameRest
<1> HIDE DEF undead
<1>2. /\ spared \in [Task -> TaskRecord]
      /\ \A u \in Task : /\ SameTask(spared[u], task[u]) /\ SameRest(spared[u], task[u])
                         /\ spared[u].long_run = task[u].long_run
  <2> DEFINE r == [undead[t] EXCEPT !.pending = "no"]
  <2>1. /\ r \in TaskRecord /\ SameTask(r, undead[t]) /\ SameRest(r, undead[t])
        /\ r.long_run = undead[t].long_run
    BY <1>1 DEF TaskRecord, SameTask, SameRest
  <2>2. spared = [undead EXCEPT ![t] = r]
    OBVIOUS
  <2> HIDE DEF r, spared
  <2> QED
    BY <1>1, <2>1, <2>2 DEF SameTask, SameRest
<1>3. /\ woken \in [Task -> TaskRecord]
      /\ \A u \in Task : /\ SameTask(woken[u], task[u])
                         /\ IF u = t THEN Awake(woken[u]) ELSE SameRest(woken[u], task[u])
                         /\ woken[u].long_run = task[u].long_run
  <2>1. \A u \in Task : /\ SameTask(woken[u], undead[u])
                        /\ IF u \in {t} THEN Awake(woken[u]) ELSE woken[u] = undead[u]
                        /\ woken[u].long_run = undead[u].long_run
    BY <1>1, RunnableYesFields
  <2>2. woken \in [Task -> TaskRecord]
    BY <1>1, RunnableYesType
  <2> HIDE DEF woken
  <2> QED
    BY <1>1, <2>1, <2>2 DEF SameTask, SameRest
<1>4. \/ Turns(spared, lastRun)
      \/ Turns(woken, lastRun) /\ task[t].sleeping
  BY Zenon DEF TaskWakeup, Turns, undead
<1> HIDE DEF woken, spared
<1> DEFINE Fine(tk) ==
             \A u \in Task : /\ SameTask(tk[u], task[u])
                             /\ SameRest(tk[u], task[u]) \/ (Awake(tk[u]) /\ task[u].sleeping)
                             /\ tk[u].long_run = task[u].long_run
<1>5. ASSUME NEW tk \in [Task -> TaskRecord], Fine(tk), Turns(tk, lastRun)
      PROVE  AppStep
  <2>0. \A u \in Task : /\ SameTask(tk[u], task[u])
                        /\ SameRest(tk[u], task[u]) \/ (Awake(tk[u]) /\ task[u].sleeping)
                        /\ tk[u].long_run = task[u].long_run
    BY <1>5
  <2>1. /\ \A u \in Task : /\ SameTask(task'[u], tk[u]) /\ SameRest(task'[u], tk[u])
                           /\ task'[u].long_run => tk[u].long_run
        /\ noRunSame' => noRunSame
    BY <1>0, <1>5, TurnsFields
  <2>2. \A u \in Task : Left(u)
    BY <2>0, <2>1 DEF Left, SameTask, SameRest, Awake
  <2>3. LongRunStep /\ NoRunSameStep
    BY <2>0, <2>1 DEF LongRunStep, NoRunSameStep
  <2>4. QueuesStep
    <3>1. SameQueues(task, tk)
      BY <2>0 DEF SameQueues, SameTask
    <3> QED
      BY <1>0, <1>5, <3>1, QueuesSame, QueuesTurns DEF QueuesStep
  <2> QED
    BY <1>0, <2>2, <2>3, <2>4 DEF AppStep, Outcome
<1>6. Fine(spared) /\ (task[t].sleeping => Fine(woken))
  BY <1>2, <1>3
<1> HIDE DEF Fine
<1> QED
  BY <1>2, <1>3, <1>4, <1>5, <1>6

LEMMA TaskRemoveStep ==
  ASSUME TypeOK, UsersKnown, NEW t \in Task, TaskRemove(t)
  PROVE  AppStep
<1> DEFINE gone == [task EXCEPT ![t] = [@ EXCEPT !.stopped = TRUE, !.valid = FALSE,
                                                  !.init = FALSE]]
           p == task[t].priority
           lr == TdeQLast(lastRun, t, p)
<1>0. /\ cur \in Task /\ task \in [Task -> TaskRecord] /\ lastRun \in [Priority -> Task \cup {NoTask}]
      /\ taskQ \in [Priority -> Seq(Task)]
      /\ mode = "run" /\ pc[cur] = "app" /\ pc' = pc /\ taskQ' = TdeQ(taskQ, t, p)
      /\ task[t].valid /\ hold[t] = NoLock
  BY DEF TypeOK, TaskRemove, AppRuns
<1>1. NextTask(gone, lr, "none")
  BY Zenon DEF TaskRemove
<1>2. /\ gone \in [Task -> TaskRecord] /\ ~gone[t].valid
      /\ \A u \in Task \ {t} : gone[u] = task[u]
      /\ gone[t].long_run = task[t].long_run
  <2> DEFINE r == [task[t] EXCEPT !.stopped = TRUE, !.valid = FALSE, !.init = FALSE]
  <2>1. r \in TaskRecord /\ ~r.valid /\ r.long_run = task[t].long_run
    BY <1>0 DEF TaskRecord
  <2>2. gone = [task EXCEPT ![t] = r]
    OBVIOUS
  <2> HIDE DEF r, gone
  <2> QED
    BY <1>0, <2>1, <2>2
<1>3. p \in Priority /\ lr \in [Priority -> Task \cup {NoTask}]
  <2>1. p \in Priority
    BY <1>0 DEF TaskRecord
  <2> HIDE DEF p
  <2> QED
    BY <1>0, <2>1, TdeQLastType
<1> HIDE DEF gone, lr
<1>4. /\ \A u \in Task : /\ SameTask(task'[u], gone[u]) /\ SameRest(task'[u], gone[u])
                         /\ task'[u].long_run => gone[u].long_run
      /\ noRunSame' => noRunSame
  <2>1. Turns(gone, lr)
    BY <1>1 DEF Turns
  <2> QED
    BY <1>0, <1>2, <2>1, TurnsFields
<1>5. want[t] = NoLock /\ (t = cur => mode' = "sched")
  <2>1. CASE t = cur
    <3>1. cur \notin MinRun
      BY <2>1 DEF TaskRemove
    <3>2. mode' = "sched"
      BY <1>1, <3>1, Zenon DEF NextTask
    <3> QED
      BY <1>0, <2>1, <3>2 DEF UsersKnown
  <2>2. CASE t # cur
    <3>1. t \in Removable
      BY <2>2 DEF TaskRemove
    <3>2. \A l \in Lock : t \notin LockUsers[l]
      BY <3>1, LocksAssumption DEF AllLockUsers
    <3>3. want[t] \notin Lock
      BY <3>2 DEF UsersKnown
    <3> QED
      BY <2>2, <3>3 DEF TypeOK
  <2> QED
    BY <2>1, <2>2
<1>6. ASSUME NEW u \in Task PROVE Outcome(u)
  <2>1. CASE u = t
    BY <1>0, <1>2, <1>4, <1>5, <2>1 DEF Outcome, Removed, SameTask
  <2>2. CASE u # t
    BY <1>2, <1>4, <2>2 DEF Outcome, Left
  <2> QED
    BY <2>1, <2>2
<1>7. LongRunStep /\ NoRunSameStep
  BY <1>2, <1>4 DEF LongRunStep, NoRunSameStep
<1>8. QueuesStep
  <2> SUFFICES ASSUME QueuesOf(taskQ, task, lastRun) PROVE QueuesOf(taskQ', task', lastRun')
    BY DEF QueuesStep
  <2>1. QueuesOf(TdeQ(taskQ, t, p), gone, lr)
    BY <1>0, <1>2, QueuesTdeQ DEF lr
  <2> HIDE DEF p
  <2> QED
    BY <1>0, <1>1, <1>2, <1>3, <2>1, QueuesNextTask
<1> QED
  BY <1>0, <1>6, <1>7, <1>8 DEF AppStep

(* All of them but the search loop.                                        *)
LEMMA TasksAppStep ==
  ASSUME TypeOK, UsersKnown, RunsInv, WaiterNeverSleeps, TasksNext, mode = "run"
  PROVE  AppStep /\ cur' = cur /\ pc[cur] # "lock" /\ UNCHANGED <<hold, wait>>
         /\ mode' \in {"run", "sched"}
<1>1. ~Dispatch
  BY DEF Dispatch
<1>2. AppStep
  BY <1>1, SleepLoopStep, CreateTaskStep, TaskCollectStep, YieldStep, TaskSleepStep,
     TaskSleepIDStep, TaskWakeupStep, TaskRemoveStep, Zenon DEF TasksNext
<1>3. cur' = cur /\ pc[cur] # "lock" /\ UNCHANGED <<hold, wait>>
  BY <1>1 DEF TasksNext, SleepLoop, CreateTask, TaskCollect, Yield, TaskSleep, TaskSleepID,
              TaskWakeup, TaskRemove, AppRuns
<1>4. mode' \in {"run", "sched"}
  BY <1>1 DEF TasksNext, SleepLoop, CreateTask, TaskCollect, Yield, TaskSleep, TaskSleepID,
              TaskWakeup, TaskRemove, AppRuns, NextTask
<1> QED
  BY <1>2, <1>3, <1>4

----------------------------------------------------------------------------
(* What lock_enter() and lock_leave() do to a task                         *)

(* A task that starts to wait stops, and may raise the owner.              *)
WaitStep(l) ==
  /\ \A t \in Task :
       /\ task'[t].valid = task[t].valid
       /\ IF Boosts(l) /\ t = owner[l]
          THEN /\ task'[t].priority = task[cur].priority
               /\ task'[t].saved = task[t].priority
               /\ task'[t].boosted
          ELSE SameTask(task'[t], task[t])
       /\ IF t = cur
          THEN /\ task'[t].stopped
               /\ task'[t].sleeping = task[t].sleeping /\ task'[t].wakeup = task[t].wakeup
          ELSE SameRest(task'[t], task[t])
       /\ task'[t].long_run => task[t].long_run
  /\ noRunSame' => noRunSame
  /\ (mode' = mode /\ cur \in MinRun) \/ mode' = "sched"

LEMMA WaitFields ==
  ASSUME TypeOK, NEW l \in Lock, Wait(l)
  PROVE  /\ WaitStep(l)
         /\ (owner[l] # NoTask => task[owner[l]].valid) => QueuesStep
<1> DEFINE o == owner[l]
           p == task[cur].priority
           stopped == [task EXCEPT ![cur].stopped = TRUE]
           raised == [stopped EXCEPT ![o] =
                        [@ EXCEPT !.saved = task[o].priority,
                                  !.priority = p, !.boosted = TRUE]]
           lr == TdeQLast(lastRun, o, task[o].priority)
<1>0. /\ cur \in Task /\ task \in [Task -> TaskRecord] /\ lastRun \in [Priority -> Task \cup {NoTask}]
      /\ taskQ \in [Priority -> Seq(Task)]
  BY DEF TypeOK
<1>1. /\ stopped \in [Task -> TaskRecord]
      /\ \A t \in Task :
           /\ SameTask(stopped[t], task[t])
           /\ IF t = cur
              THEN /\ stopped[t].stopped
                   /\ stopped[t].sleeping = task[t].sleeping /\ stopped[t].wakeup = task[t].wakeup
              ELSE SameRest(stopped[t], task[t])
           /\ stopped[t].long_run = task[t].long_run
  <2> DEFINE r == [task[cur] EXCEPT !.stopped = TRUE]
  <2>1. /\ r \in TaskRecord /\ SameTask(r, task[cur]) /\ r.stopped
        /\ r.sleeping = task[cur].sleeping /\ r.wakeup = task[cur].wakeup
        /\ r.long_run = task[cur].long_run
    BY <1>0 DEF TaskRecord, SameTask
  <2>2. stopped = [task EXCEPT ![cur] = r]
    OBVIOUS
  <2> HIDE DEF r, stopped
  <2> QED
    BY <1>0, <2>1, <2>2 DEF SameTask, SameRest
<1> HIDE DEF stopped
<1>2. ASSUME Boosts(l)
      PROVE  /\ o \in Task /\ p \in Priority
             /\ raised \in [Task -> TaskRecord]
             /\ \A t \in Task \ {o} : raised[t] = stopped[t]
             /\ raised[o].valid = stopped[o].valid
             /\ raised[o].priority = p /\ raised[o].saved = task[o].priority /\ raised[o].boosted
             /\ SameRest(raised[o], stopped[o]) /\ raised[o].long_run = stopped[o].long_run
  <2> DEFINE r(a, b) == [stopped[o] EXCEPT !.saved = a, !.priority = b, !.boosted = TRUE]
             a == task[o].priority
  <2>1. o \in Task
    BY <1>2 DEF Boosts, TypeOK
  <2>2. p \in Priority /\ a \in Priority /\ stopped[o] \in TaskRecord
    BY <1>0, <1>1, <2>1 DEF TaskRecord
  <2>3. raised = [stopped EXCEPT ![o] = r(a, p)]
    OBVIOUS
  <2> HIDE DEF raised, p, a
  <2>4. /\ r(a, p) \in TaskRecord
        /\ r(a, p).valid = stopped[o].valid /\ r(a, p).priority = p /\ r(a, p).saved = a
        /\ r(a, p).boosted /\ SameRest(r(a, p), stopped[o])
        /\ r(a, p).long_run = stopped[o].long_run
    BY <2>2 DEF TaskRecord, SameRest
  <2> HIDE DEF r, o
  <2> QED
    BY <1>1, <2>1, <2>2, <2>3, <2>4 DEF a
<1>3. (mode' = mode /\ cur \in MinRun) \/ mode' = "sched"
  <2>1. \/ NextTask(raised, lr, "none")
        \/ NextTask(stopped, lastRun, "none")
    BY Zenon DEF Wait, stopped
  <2> QED
    BY <2>1, Zenon DEF NextTask
<1>4. CASE /\ Boosts(l)
           /\ taskQ' = TenQ(TdeQ(taskQ, o, task[o].priority), o, p)
           /\ NextTask(raised, lr, "none")
  <2> HIDE DEF raised
  <2>1. /\ \A t \in Task : /\ SameTask(task'[t], raised[t]) /\ SameRest(task'[t], raised[t])
                           /\ task'[t].long_run => raised[t].long_run
        /\ noRunSame' => noRunSame
    BY <1>0, <1>2, <1>4, TurnsFields DEF Turns
  <2>2. WaitStep(l)
    <3>1. ASSUME NEW t \in Task, t # o
          PROVE  /\ SameTask(task'[t], task[t])
                 /\ IF t = cur
                    THEN /\ task'[t].stopped
                         /\ task'[t].sleeping = task[t].sleeping /\ task'[t].wakeup = task[t].wakeup
                    ELSE SameRest(task'[t], task[t])
                 /\ task'[t].long_run => task[t].long_run
      <4>1. raised[t] = stopped[t]
        BY <1>2, <1>4, <3>1
      <4> QED
        BY <1>1, <2>1, <4>1 DEF SameTask, SameRest
    <3>2. /\ task'[o].valid = task[o].valid /\ task'[o].priority = p
          /\ task'[o].saved = task[o].priority /\ task'[o].boosted
          /\ task'[o].long_run => task[o].long_run
          /\ IF o = cur
             THEN /\ task'[o].stopped
                  /\ task'[o].sleeping = task[o].sleeping /\ task'[o].wakeup = task[o].wakeup
             ELSE SameRest(task'[o], task[o])
      BY <1>1, <1>2, <1>4, <2>1 DEF SameTask, SameRest
    <3>3. \A t \in Task : SameTask(task'[t], task[t]) => task'[t].valid = task[t].valid
      BY DEF SameTask
    <3> QED
      BY <1>2, <1>3, <1>4, <2>1, <3>1, <3>2, <3>3 DEF WaitStep
  <2>3. ASSUME task[o].valid, QueuesOf(taskQ, task, lastRun)
        PROVE  QueuesOf(taskQ', task', lastRun')
    <3>1. task[o].priority \in Priority
      BY <1>0, <1>2, <1>4 DEF TaskRecord
    <3>2. lr \in [Priority -> Task \cup {NoTask}]
      BY <1>0, <3>1, TdeQLastType
    <3>3. QueuesOf(taskQ', raised, lr)
      <4>1. /\ o \in Task /\ raised[o].valid /\ raised[o].priority = p /\ p \in Priority
            /\ \A u \in Task \ {o} : raised[u].valid = task[u].valid /\ raised[u].priority = task[u].priority
        BY <1>1, <1>2, <1>4, <2>3 DEF SameTask
      <4>2. QueuesOf(TenQ(TdeQ(taskQ, o, task[o].priority), o, p), raised, TdeQLast(lastRun, o, task[o].priority))
        <5> HIDE DEF o, p
        <5> QED
          BY <1>0, <2>3, <4>1, QueuesMove
      <4> QED
        BY <1>4, <4>2
    <3> HIDE DEF lr
    <3> QED
      BY <1>0, <1>2, <1>4, <3>2, <3>3, QueuesNextTask
  <2>4. o # NoTask
    BY <1>4 DEF Boosts
  <2> QED
    BY <2>2, <2>3, <2>4 DEF QueuesStep
<1>5. CASE ~Boosts(l) /\ NextTask(stopped, lastRun, "none") /\ UNCHANGED taskQ
  <2>1. /\ \A t \in Task : /\ SameTask(task'[t], stopped[t]) /\ SameRest(task'[t], stopped[t])
                           /\ task'[t].long_run => stopped[t].long_run
        /\ noRunSame' => noRunSame
    BY <1>0, <1>1, <1>5, TurnsFields DEF Turns
  <2>2. \A t \in Task : /\ SameTask(task'[t], task[t]) /\ task'[t].valid = task[t].valid
                        /\ IF t = cur
                           THEN /\ task'[t].stopped
                                /\ task'[t].sleeping = task[t].sleeping /\ task'[t].wakeup = task[t].wakeup
                           ELSE SameRest(task'[t], task[t])
                        /\ task'[t].long_run => task[t].long_run
    BY <1>1, <2>1 DEF SameTask, SameRest
  <2>3. WaitStep(l)
    BY <1>3, <1>5, <2>1, <2>2 DEF WaitStep
  <2>4. SameQueues(task, stopped)
    BY <1>1 DEF SameQueues, SameTask
  <2> QED
    BY <1>0, <1>1, <1>5, <2>3, <2>4, QueuesSame, QueuesNextTask DEF QueuesStep
<1> QED
  BY <1>4, <1>5, Zenon DEF Wait, stopped

(* The owner that leaves goes back to its own priority, wakes those that   *)
(* wait, and goes to sleep if somebody has asked for that meanwhile.       *)
LeaveStep(l) ==
  /\ \A t \in Task :
       /\ task'[t].valid = task[t].valid
       /\ IF t = cur /\ task[cur].boosted
          THEN task'[t].priority = task[t].saved /\ ~task'[t].boosted
          ELSE SameTask(task'[t], task[t])
       /\ IF t \in Woken(l)
          THEN /\ ~task'[t].stopped
               /\ task'[t].sleeping = task[t].sleeping /\ task'[t].wakeup = task[t].wakeup
          ELSE SameRest(task'[t], task[t]) \/ (t = cur /\ Asleep(task'[t]) /\ pc'[cur] = "sleep")
       /\ task'[t].long_run => task[t].long_run
  /\ noRunSame' => noRunSame
  /\ \/ mode' = "sched"
     \/ mode' = mode /\ cur \in MinRun
     \/ mode' = mode /\ \A t \in Woken(l) : task[t].priority <= task'[cur].priority

LEMMA LoweredFields ==
  ASSUME TypeOK
  PROVE  \A t \in Task :
           /\ Lowered[t].valid = task[t].valid
           /\ IF t = cur /\ task[cur].boosted
              THEN Lowered[t].priority = task[t].saved /\ ~Lowered[t].boosted
              ELSE SameTask(Lowered[t], task[t])
           /\ SameRest(Lowered[t], task[t])
           /\ Lowered[t].long_run = task[t].long_run
<1> DEFINE r(a) == [task[cur] EXCEPT !.priority = a, !.saved = 0, !.boosted = FALSE]
           s == task[cur].saved
<1>0. cur \in Task /\ task \in [Task -> TaskRecord] /\ 0 \in Priority
  BY ConstantsType DEF TypeOK
<1>1. s \in Priority /\ task[cur] \in TaskRecord
  BY <1>0 DEF TaskRecord
<1>2. Lowered = IF task[cur].boosted THEN [task EXCEPT ![cur] = r(s)] ELSE task
  BY DEF Lowered
<1> HIDE DEF s
<1>3. /\ r(s).valid = task[cur].valid /\ r(s).priority = s /\ ~r(s).boosted
      /\ SameRest(r(s), task[cur]) /\ r(s).long_run = task[cur].long_run
  BY <1>1 DEF TaskRecord, SameRest
<1> HIDE DEF r
<1>4. CASE task[cur].boosted
  <2>1. Lowered[cur] = r(s) /\ \A t \in Task \ {cur} : Lowered[t] = task[t]
    BY <1>0, <1>2, <1>4
  <2> QED
    BY <1>3, <1>4, <2>1 DEF SameTask, SameRest, s
<1>5. CASE ~task[cur].boosted
  BY <1>2, <1>5 DEF SameTask, SameRest
<1> QED
  BY <1>4, <1>5

LEMMA LeaveFields ==
  ASSUME TypeOK, NEW l \in Lock, LockLeave(l)
  PROVE  LeaveStep(l) /\ (task[cur].valid => QueuesStep)
<1> DEFINE woken == Woken(l)
           tk == [t \in Task |-> IF t \in Woken(l) THEN [task[t] EXCEPT !.stopped = FALSE]
                                                   ELSE Lowered[t]]
           done == PendingDone(tk)
           kind == task[cur].pending
           asleep == SleepSetup(done, cur, kind)
           higher == \E t \in Woken(l) : tk[t].priority > tk[cur].priority
<1>0. /\ cur \in Task /\ task \in [Task -> TaskRecord] /\ lastRun \in [Priority -> Task \cup {NoTask}]
      /\ taskQ \in [Priority -> Seq(Task)]
      /\ LoweredLast \in [Priority -> Task \cup {NoTask}] /\ Lowered \in [Task -> TaskRecord]
  BY LoweredType DEF TypeOK
<1>1. /\ tk \in [Task -> TaskRecord]
      /\ \A t \in Task :
           /\ tk[t].valid = task[t].valid
           /\ IF t = cur /\ task[cur].boosted
              THEN tk[t].priority = task[t].saved /\ ~tk[t].boosted
              ELSE SameTask(tk[t], task[t])
           /\ IF t \in Woken(l)
              THEN /\ ~tk[t].stopped
                   /\ tk[t].sleeping = task[t].sleeping /\ tk[t].wakeup = task[t].wakeup
              ELSE SameRest(tk[t], task[t])
           /\ tk[t].long_run = task[t].long_run
  <2> DEFINE r(t) == [task[t] EXCEPT !.stopped = FALSE]
  <2>1. \A t \in Task : /\ r(t) \in TaskRecord /\ SameTask(r(t), task[t]) /\ ~r(t).stopped
                        /\ r(t).sleeping = task[t].sleeping /\ r(t).wakeup = task[t].wakeup
                        /\ r(t).long_run = task[t].long_run
    <3> TAKE t \in Task
    <3>1. task[t] \in TaskRecord
      BY <1>0
    <3> QED
      BY <3>1 DEF TaskRecord, SameTask
  <2>2. \A t \in Task : tk[t] = IF t \in Woken(l) THEN r(t) ELSE Lowered[t]
    OBVIOUS
  <2>3. cur \notin Woken(l)
    BY DEF Woken
  <2>4. tk \in [Task -> TaskRecord]
    <3>1. \A t \in Task : (IF t \in Woken(l) THEN r(t) ELSE Lowered[t]) \in TaskRecord
      <4> HIDE DEF r
      <4> QED
        BY <1>0, <2>1
    <3>2. tk = [t \in Task |-> IF t \in Woken(l) THEN r(t) ELSE Lowered[t]]
      OBVIOUS
    <3> HIDE DEF r, tk
    <3> QED
      BY <3>1, <3>2
  <2> HIDE DEF r, tk
  <2>5. ASSUME NEW t \in Task
        PROVE  /\ tk[t].valid = task[t].valid
               /\ IF t = cur /\ task[cur].boosted
                  THEN tk[t].priority = task[t].saved /\ ~tk[t].boosted
                  ELSE SameTask(tk[t], task[t])
               /\ IF t \in Woken(l)
                  THEN /\ ~tk[t].stopped
                       /\ tk[t].sleeping = task[t].sleeping /\ tk[t].wakeup = task[t].wakeup
                  ELSE SameRest(tk[t], task[t])
               /\ tk[t].long_run = task[t].long_run
    <3>1. CASE t \in Woken(l)
      <4>1. tk[t] = r(t) /\ t # cur
        BY <2>2, <2>3, <3>1
      <4> QED
        BY <2>1, <3>1, <4>1 DEF SameTask
    <3>2. CASE t \notin Woken(l)
      <4>1. tk[t] = Lowered[t]
        BY <2>2, <3>2
      <4> QED
        BY <3>2, <4>1, LoweredFields
    <3> QED
      BY <3>1, <3>2
  <2> QED
    BY <2>4, <2>5
<1> HIDE DEF tk
<1>2. /\ done \in [Task -> TaskRecord]
      /\ \A t \in Task : /\ SameTask(done[t], tk[t]) /\ SameRest(done[t], tk[t])
                         /\ done[t].long_run = tk[t].long_run
  <2> DEFINE r == [tk[cur] EXCEPT !.pending = "no"]
  <2>0. tk[cur] \in TaskRecord
    BY <1>0, <1>1
  <2>1. /\ r \in TaskRecord /\ SameTask(r, tk[cur]) /\ SameRest(r, tk[cur])
        /\ r.long_run = tk[cur].long_run
    BY <2>0 DEF TaskRecord, SameTask, SameRest
  <2>2. done = [tk EXCEPT ![cur] = r]
    BY DEF PendingDone
  <2> HIDE DEF r, done
  <2> QED
    BY <1>0, <1>1, <2>1, <2>2 DEF SameTask, SameRest
<1> HIDE DEF done
<1>3. kind # "no" =>
        /\ asleep \in [Task -> TaskRecord]
        /\ \A t \in Task : /\ SameTask(asleep[t], done[t])
                           /\ IF t = cur THEN Asleep(asleep[t]) ELSE asleep[t] = done[t]
                           /\ asleep[t].long_run = done[t].long_run
  <2>1. kind # "no" => kind \in Kind
    BY <1>0 DEF TaskRecord, Kind
  <2> HIDE DEF kind
  <2> QED
    BY <1>0, <1>2, <2>1, SleepSetupType, SleepSetupFields
<1>4. \/ /\ kind # "no"
         /\ Turns(asleep, LoweredLast)
         /\ pc' = [pc EXCEPT ![cur] = "sleep"]
      \/ Turns(tk, LoweredLast)
  BY Zenon DEF LockLeave, Turns, tk, done
<1>5. taskQ' = LoweredQ
  BY DEF LockLeave
<1>6. \/ mode' = "sched"
      \/ mode' = mode /\ cur \in MinRun
      \/ mode' = mode /\ ~higher /\ task' = tk
  <2>1. \/ NextTask(asleep, LoweredLast, "none")
        \/ NextTask(tk, LoweredLast, "none")
        \/ mode' = mode /\ ~higher /\ task' = tk
    BY Zenon DEF LockLeave, tk, done
  <2> QED
    BY <2>1, Zenon DEF NextTask
<1> HIDE DEF kind
<1>7. pc'[cur] = "sleep" \/ Turns(tk, LoweredLast)
  BY <1>0, <1>4 DEF TypeOK
<1> HIDE DEF asleep
<1> DEFINE Fine(tl) ==
             \A t \in Task :
               /\ SameTask(tl[t], tk[t])
               /\ SameRest(tl[t], tk[t]) \/ (t = cur /\ Asleep(tl[t]) /\ pc'[cur] = "sleep")
               /\ tl[t].long_run = tk[t].long_run
<1>8. ASSUME NEW tl \in [Task -> TaskRecord], Fine(tl), Turns(tl, LoweredLast)
      PROVE  LeaveStep(l) /\ (task[cur].valid => QueuesStep)
  <2>0. \A t \in Task :
          /\ SameTask(tl[t], tk[t])
          /\ SameRest(tl[t], tk[t]) \/ (t = cur /\ Asleep(tl[t]) /\ pc'[cur] = "sleep")
          /\ tl[t].long_run = tk[t].long_run
    BY <1>8
  <2> HIDE DEF Fine
  <2>1. /\ \A t \in Task : /\ SameTask(task'[t], tl[t]) /\ SameRest(task'[t], tl[t])
                           /\ task'[t].long_run => tl[t].long_run
        /\ noRunSame' => noRunSame
    BY <1>0, <1>8, TurnsFields
  <2>2. \A t \in Task :
          /\ SameTask(task'[t], tk[t])
          /\ SameRest(task'[t], tk[t]) \/ (t = cur /\ Asleep(task'[t]) /\ pc'[cur] = "sleep")
          /\ task'[t].long_run => tk[t].long_run
    BY <2>0, <2>1 DEF SameTask, SameRest, Asleep
  <2>3. cur \notin Woken(l)
    BY DEF Woken
  <2>4. ASSUME NEW t \in Task
        PROVE  /\ task'[t].valid = task[t].valid
               /\ IF t = cur /\ task[cur].boosted
                  THEN task'[t].priority = task[t].saved /\ ~task'[t].boosted
                  ELSE SameTask(task'[t], task[t])
               /\ IF t \in Woken(l)
                  THEN /\ ~task'[t].stopped
                       /\ task'[t].sleeping = task[t].sleeping /\ task'[t].wakeup = task[t].wakeup
                  ELSE SameRest(task'[t], task[t]) \/ (t = cur /\ Asleep(task'[t]) /\ pc'[cur] = "sleep")
               /\ task'[t].long_run => task[t].long_run
    BY <1>1, <2>2, <2>3 DEF SameTask, SameRest
  <2>5. ~higher /\ task' = tk => \A t \in Woken(l) : task[t].priority <= task'[cur].priority
    <3> SUFFICES ASSUME ~higher, task' = tk, NEW t \in Woken(l)
                 PROVE  task[t].priority <= task'[cur].priority
      OBVIOUS
    <3>1. t \in Task /\ t # cur /\ tk[t].priority = task[t].priority
      BY <1>1 DEF Woken, TypeOK, SameTask
    <3>2. tk[t] \in TaskRecord /\ tk[cur] \in TaskRecord
      BY <1>0, <1>1, <3>1
    <3>3. tk[t].priority \in Priority /\ tk[cur].priority \in Priority
      BY <3>2 DEF TaskRecord
    <3>4. tk[t].priority \in Int /\ tk[cur].priority \in Int
      BY <3>3, TasksAssumption DEF Priority
    <3> QED
      BY <3>1, <3>4
  <2>6. LeaveStep(l)
    BY <1>6, <2>1, <2>4, <2>5 DEF LeaveStep
  <2>7. ASSUME task[cur].valid, QueuesOf(taskQ, task, lastRun)
        PROVE  QueuesOf(taskQ', task', lastRun')
    <3>1. QueuesOf(LoweredQ, tl, LoweredLast)
      <4>1. \A t \in Task \ {cur} : tl[t].valid = task[t].valid /\ tl[t].priority = task[t].priority
        BY <1>1, <2>0 DEF SameTask
      <4>2. CASE task[cur].boosted
        <5>1. tl[cur].valid /\ tl[cur].priority = task[cur].saved
          BY <1>0, <1>1, <2>0, <2>7, <4>2 DEF SameTask
        <5>2. task[cur].saved \in Priority
          BY <1>0 DEF TaskRecord
        <5>3. QueuesOf(TenQ(TdeQ(taskQ, cur, task[cur].priority), cur, task[cur].saved), tl,
                       TdeQLast(lastRun, cur, task[cur].priority))
          BY <1>0, <2>7, <4>1, <5>1, <5>2, QueuesMove
        <5> QED
          BY <4>2, <5>3 DEF LoweredQ, LoweredLast
      <4>3. CASE ~task[cur].boosted
        <5>1. SameQueues(task, tl)
          BY <1>1, <2>0, <4>3 DEF SameQueues, SameTask
        <5> QED
          BY <2>7, <4>3, <5>1, QueuesSame DEF LoweredQ, LoweredLast
      <4> QED
        BY <4>2, <4>3
    <3> QED
      BY <1>0, <1>5, <1>8, <3>1, QueuesTurns
  <2> QED
    BY <2>6, <2>7 DEF QueuesStep
<1>9. Fine(tk)
  BY DEF SameTask, SameRest
<1>10. kind # "no" /\ pc'[cur] = "sleep" => Fine(asleep)
  <2>1. ASSUME kind # "no", pc'[cur] = "sleep", NEW t \in Task
        PROVE  /\ SameTask(asleep[t], tk[t])
               /\ SameRest(asleep[t], tk[t]) \/ (t = cur /\ Asleep(asleep[t]) /\ pc'[cur] = "sleep")
               /\ asleep[t].long_run = tk[t].long_run
    BY <1>2, <1>3, <2>1 DEF SameTask, SameRest
  <2> QED
    BY <2>1
<1>11. \/ kind # "no" /\ Turns(asleep, LoweredLast) /\ pc'[cur] = "sleep"
       \/ Turns(tk, LoweredLast)
  BY <1>0, <1>4 DEF TypeOK
<1> HIDE DEF Fine
<1> QED
  BY <1>1, <1>3, <1>8, <1>9, <1>10, <1>11

----------------------------------------------------------------------------
(* Who is stopped, and why                                                 *)

LEMMA InitWait == Init => WaitInv
<1> SUFFICES ASSUME Init PROVE WaitInv
  OBVIOUS
<1>1. SafeInv
  BY InitSafe
<1>2. \A t \in Task : ~task[t].stopped /\ ~task[t].sleeping /\ ~task[t].long_run
  <2>1. \A t \in Task : task[t] = NewTask(t) \/ task[t] = EmptySlot(t)
    BY DEF Init, TasksInit
  <2>2. \A t \in Task : EmptySlot(t) = [NewTask(t) EXCEPT !.valid = FALSE, !.priority = 0]
    BY DEF EmptySlot
  <2>3. \A t \in Task : /\ ~NewTask(t).stopped /\ ~NewTask(t).sleeping /\ ~NewTask(t).long_run
                        /\ ~EmptySlot(t).stopped /\ ~EmptySlot(t).sleeping
                        /\ ~EmptySlot(t).long_run
    BY <2>2 DEF NewTask
  <2> QED
    BY <2>1, <2>3
<1>3. /\ users = [l \in Lock |-> {}] /\ want = [t \in Task |-> NoLock] /\ cur \in Task
      /\ noRunSame = FALSE
  BY ConstantsType DEF Init, TasksInit
<1> QED
  BY <1>1, <1>2, <1>3
     DEF WaitInv, StoppedHasReason, WaiterNeverSleeps, RunsInv, WakeInv

(* A task that wants or holds a lock exists, and it uses that lock.        *)
LEMMA UsersAre ==
  ASSUME SafeInv
  PROVE  /\ cur \in Task /\ NoLock \notin Lock /\ NoTask \notin Task
         /\ \A t \in Task : want[t] # NoLock =>
              /\ want[t] \in Lock /\ t \in users[want[t]]
              /\ task[t].valid /\ hold[t] = NoLock /\ pc[t] = "lock"
         /\ \A l \in Lock : \A t \in users[l] :
              /\ t \in Task /\ task[t].valid /\ t \in LockUsers[l]
              /\ want[t] = l \/ (hold[t] = l /\ want[t] = NoLock)
         /\ \A l, k \in Lock : \A t \in users[l] : t \in users[k] => k = l
         /\ mode = "run" => task[cur].valid
<1>0. TypeOK /\ UsersKnown /\ NoLock \notin Lock /\ NoTask \notin Task
  BY ConstantsType DEF SafeInv
<1>1. /\ cur \in Task /\ want \in [Task -> Lock \cup {NoLock}] /\ hold \in [Task -> Lock \cup {NoLock}]
      /\ users \in [Lock -> SUBSET Task]
  BY <1>0 DEF TypeOK
<1> QED
  BY <1>0, <1>1 DEF UsersKnown

(* Tasks that are busy with a lock are left alone by the other tasks.      *)
LEMMA BusyIsLeft ==
  ASSUME WaitInv, TasksNext, mode = "run"
  PROVE  /\ AppStep /\ cur' = cur /\ pc[cur] # "lock" /\ UNCHANGED <<hold, wait>>
         /\ \A t \in Task : want[t] # NoLock \/ (hold[t] # NoLock /\ task[t].valid) =>
              /\ SameTask(task'[t], task[t])
              /\ want[t] # NoLock => Left(t) /\ t # cur
         /\ SameTask(task'[cur], task[cur]) \/ mode' = "sched"
         /\ mode' \in {"run", "sched"}
<1>0. TypeOK /\ UsersKnown /\ RunsInv /\ WaiterNeverSleeps /\ SafeInv
  BY DEF WaitInv, SafeInv
<1>1. /\ AppStep /\ cur' = cur /\ pc[cur] # "lock" /\ UNCHANGED <<hold, wait>>
      /\ mode' \in {"run", "sched"}
  BY <1>0, TasksAppStep
<1>2. \A t \in Task : Outcome(t)
  BY <1>1 DEF AppStep
<1>3. ASSUME NEW t \in Task, want[t] # NoLock \/ (hold[t] # NoLock /\ task[t].valid)
      PROVE  /\ SameTask(task'[t], task[t])
             /\ want[t] # NoLock => Left(t) /\ t # cur
  <2>1. task[t].valid /\ (want[t] # NoLock => pc[t] = "lock")
    BY <1>0, <1>3, UsersAre
  <2>2. Outcome(t)
    BY <1>2
  <2> QED
    BY <1>1, <1>3, <2>1, <2>2 DEF Outcome, Left, PutToSleep, Created, Removed
<1>4. SameTask(task'[cur], task[cur]) \/ mode' = "sched"
  <2>1. cur \in Task /\ task[cur].valid
    BY <1>0, UsersAre
  <2>2. Outcome(cur)
    BY <1>2, <2>1
  <2> QED
    BY <2>1, <2>2 DEF Outcome, Left, PutToSleep, Created, Removed
<1> QED
  BY <1>1, <1>3, <1>4

LEMMA WaitAppStep ==
  ASSUME WaitInv, TasksNext, mode = "run", UNCHANGED lockVars
  PROVE  StoppedHasReason' /\ WaiterNeverSleeps' /\ RunsInv' /\ WakeInv'
<1>0. /\ TypeOK /\ UsersKnown /\ RunsInv /\ WaiterNeverSleeps /\ StoppedHasReason /\ WakeInv /\ SafeInv
      /\ task \in [Task -> TaskRecord]
      /\ UNCHANGED <<enter, leave, owner, users, token, waiting, want>>
  BY DEF WaitInv, SafeInv, TypeOK, lockVars
<1>1. /\ AppStep /\ cur' = cur /\ pc[cur] # "lock" /\ UNCHANGED <<hold, wait>>
      /\ \A t \in Task : want[t] # NoLock => Left(t) /\ t # cur
  BY BusyIsLeft
<1>2. /\ cur \in Task /\ task[cur].valid
      /\ \A l \in Lock : \A t \in users[l] : t \in Task
  BY <1>0, UsersAre
<1>3. StoppedHasReason'
  <2> SUFFICES ASSUME NEW t \in Task, task'[t].valid
               PROVE  /\ task'[t].stopped => task'[t].sleeping \/ wait'[t] # NoLock
                      /\ task'[t].sleeping => task'[t].stopped /\ ~task'[t].wakeup
    BY DEF StoppedHasReason
  <2>1. Outcome(t)
    BY <1>1 DEF AppStep
  <2>2. CASE Left(t)
    BY <1>0, <1>1, <2>2 DEF Left, SameTask, SameRest, Awake, StoppedHasReason
  <2>3. CASE PutToSleep(t)
    BY <2>3 DEF PutToSleep, Asleep
  <2>4. CASE Created(t)
    BY <2>4 DEF Created, NewTask
  <2> QED
    BY <2>1, <2>2, <2>3, <2>4 DEF Outcome, Removed
<1>4. RunsInv'
  <2>1. LongRunStep /\ NoRunSameStep
    BY <1>1 DEF AppStep
  <2>2. mode' = "run" => ~task'[cur].long_run
    BY <1>0, <1>2, <2>1 DEF LongRunStep, RunsInv
  <2>3. ASSUME mode' = "run", pc'[cur] = "app" PROVE ~task'[cur].stopped /\ ~task'[cur].sleeping
    <3>1. pc[cur] = "app" \/ Awake(task'[cur])
      BY <1>1, <2>3 DEF AppStep
    <3>2. CASE pc[cur] = "app"
      <4>1. ~task[cur].stopped /\ ~task[cur].sleeping
        BY <1>0, <3>2 DEF RunsInv
      <4>2. Outcome(cur)
        BY <1>1, <1>2 DEF AppStep
      <4> QED
        BY <1>2, <2>3, <4>1, <4>2
           DEF Outcome, Left, PutToSleep, Created, Removed, SameRest, Awake
    <3> QED
      BY <3>1, <3>2 DEF Awake
  <2>4. ASSUME NEW t \in Task, want[t] # NoLock PROVE ~task'[t].long_run /\ ~task'[t].sleeping
    <3>1. Left(t) /\ t # cur
      BY <1>1, <2>4
    <3>2. ~task[t].long_run /\ ~task[t].sleeping
      BY <1>0, <2>4 DEF RunsInv
    <3> QED
      BY <2>1, <3>1, <3>2 DEF LongRunStep, Left, SameRest, Awake
  <2>5. noRunSame' => /\ mode' = "sched" /\ pc'[cur] = "app"
                      /\ task'[cur].valid /\ ~task'[cur].stopped
    BY <1>0, <1>2, <2>1 DEF NoRunSameStep, RunsInv
  <2> QED
    BY <1>0, <1>1, <2>2, <2>3, <2>4, <2>5 DEF RunsInv
<1>5. WaiterNeverSleeps'
  <2> SUFFICES ASSUME NEW l \in Lock, NEW t \in users[l]
               PROVE  /\ wait[t] = l => ~task'[t].sleeping
                      /\ wait[t] = l \/ hold[t] = l
    BY <1>0, <1>1 DEF WaiterNeverSleeps
  <2>1. wait[t] = l \/ hold[t] = l
    BY <1>0, <1>1 DEF WaiterNeverSleeps
  <2>2. wait[t] = l => want[t] # NoLock
    BY <1>0, <1>2, NoLockType DEF UsersKnown
  <2>3. want[t] # NoLock => ~task'[t].sleeping
    BY <1>0, <1>2, <1>4 DEF RunsInv
  <2> QED
    BY <2>1, <2>2, <2>3
<1>6. WakeInv'
  <2> SUFFICES ASSUME NEW l \in Lock, NEW t \in users[l], want[t] = l, task'[t].stopped
               PROVE  /\ wait[t] = l => waiting[t]
                      /\ token[t] # leave[l]
                      /\ \A u \in users[l] : owner[l] = NoTask /\ token[u] = leave[l]
                                               => task'[t].priority <= task'[u].priority
    BY <1>0, <1>1 DEF WakeInv
  <2>1. t \in Task /\ want[t] # NoLock
    BY <1>2, NoLockType
  <2>2. Left(t) /\ SameTask(task'[t], task[t])
    BY <1>1, <2>1 DEF Left
  <2>3. task[t].stopped
    BY <2>2 DEF Left, SameRest, Awake
  <2>4. \A u \in users[l] : owner[l] = NoTask => want[u] # NoLock
    BY <1>0, <1>2, NoLockType, UsersAre DEF MutualExclusion, SafeInv
  <2>5. \A u \in users[l] : owner[l] = NoTask => task'[u].priority = task[u].priority
    BY <1>1, <1>2, <2>4 DEF Left, SameTask
  <2>6. task'[t].priority = task[t].priority
    BY <2>2 DEF SameTask
  <2> QED
    BY <1>0, <2>3, <2>5, <2>6 DEF WakeInv
<1> QED
  BY <1>3, <1>4, <1>5, <1>6

LEMMA WaitDispatchStep ==
  ASSUME WaitInv, Dispatch, UNCHANGED lockVars
  PROVE  StoppedHasReason' /\ WaiterNeverSleeps' /\ RunsInv' /\ WakeInv'
<1>0. /\ TypeOK /\ UsersKnown /\ RunsInv /\ WaiterNeverSleeps /\ StoppedHasReason /\ WakeInv /\ SafeInv
      /\ UNCHANGED <<enter, leave, owner, users, token, waiting, want>>
      /\ UNCHANGED <<hold, wait, pc>> /\ mode = "sched" /\ mode' = "run" /\ noRunSame' = FALSE
  BY DEF WaitInv, SafeInv, lockVars, Dispatch
<1>1. /\ \A t \in Task : /\ SameTask(task'[t], task[t])
                         /\ SameRest(task'[t], task[t]) \/ Awake(task'[t])
                         /\ task'[t].long_run => task[t].long_run
      /\ cur' \in Task /\ ~task'[cur'].long_run /\ ~task'[cur'].stopped
      /\ task[cur'].stopped => ~task'[cur'].sleeping
  BY <1>0, DispatchFields
<1>2. /\ \A l \in Lock : \A t \in users[l] : t \in Task
      /\ \A t \in Task : wait[t] # NoLock => wait[t] = want[t]
      /\ NoLock \notin Lock
  BY <1>0, UsersAre DEF UsersKnown
<1>3. task[cur'].valid
  <2>1. task'[cur'].valid
    BY <1>0, TasksStepValid DEF TasksNext
  <2> QED
    BY <1>1, <2>1 DEF SameTask
<1>4. StoppedHasReason'
  <2> SUFFICES ASSUME NEW t \in Task, task'[t].valid
               PROVE  /\ task'[t].stopped => task'[t].sleeping \/ wait[t] # NoLock
                      /\ task'[t].sleeping => task'[t].stopped /\ ~task'[t].wakeup
    BY <1>0 DEF StoppedHasReason
  <2>1. task[t].valid
    BY <1>1 DEF SameTask
  <2> QED
    BY <1>0, <1>1, <2>1 DEF SameRest, Awake, StoppedHasReason
<1>5. RunsInv'
  <2>1. ~task'[cur'].sleeping
    <3>1. CASE ~task[cur'].stopped
      <4>1. ~task[cur'].sleeping
        BY <1>0, <1>1, <1>3, <3>1 DEF StoppedHasReason
      <4> QED
        BY <1>1, <4>1 DEF SameRest, Awake
    <3> QED
      BY <1>1, <3>1
  <2>2. \A t \in Task : want[t] # NoLock => ~task'[t].long_run /\ ~task'[t].sleeping
    BY <1>0, <1>1 DEF RunsInv, SameRest, Awake
  <2> QED
    BY <1>0, <1>1, <2>1, <2>2 DEF RunsInv
<1>6. WaiterNeverSleeps'
  <2> SUFFICES ASSUME NEW l \in Lock, NEW t \in users[l]
               PROVE  /\ wait[t] = l => ~task'[t].sleeping
                      /\ wait[t] = l \/ hold[t] = l
    BY <1>0, <1>1 DEF WaiterNeverSleeps
  <2> QED
    BY <1>0, <1>1, <1>2 DEF WaiterNeverSleeps, SameRest, Awake
<1>7. WakeInv'
  <2> SUFFICES ASSUME NEW l \in Lock, NEW t \in users[l], want[t] = l, task'[t].stopped
               PROVE  /\ wait[t] = l => waiting[t]
                      /\ token[t] # leave[l]
                      /\ \A u \in users[l] : owner[l] = NoTask /\ token[u] = leave[l]
                                               => task'[t].priority <= task'[u].priority
    BY <1>0 DEF WakeInv
  <2>1. task[t].stopped
    BY <1>1, <1>2 DEF SameRest, Awake
  <2>2. \A u \in users[l] : task'[u].priority = task[u].priority
    BY <1>1, <1>2 DEF SameTask
  <2> QED
    BY <1>0, <2>1, <2>2 DEF WakeInv
<1> QED
  BY <1>4, <1>5, <1>6, <1>7

(* The tokens of a lock's users, and who is in lock_enter().               *)
LEMMA TokensAre ==
  ASSUME SafeInv, NEW l \in Lock
  PROVE  /\ leave[l] \in Nat /\ enter[l] \in Nat
         /\ \A t \in users[l] :
              token[t] \in Nat /\ leave[l] <= token[t] /\ token[t] < enter[l]
         /\ \A t, u \in users[l] : token[t] = token[u] => t = u
         /\ \A t \in users[l] : t # owner[l] => want[t] = l
         /\ owner[l] # NoTask =>
              /\ owner[l] \in users[l] /\ token[owner[l]] = leave[l]
              /\ hold[owner[l]] = l /\ want[owner[l]] = NoLock
<1>0. /\ TypeOK /\ UsersKnown /\ MutualExclusion /\ TokensOf(l)
      /\ enter \in [Lock -> Nat] /\ leave \in [Lock -> Nat] /\ token \in [Task -> Nat]
      /\ owner \in [Lock -> Task \cup {NoTask}] /\ users \in [Lock -> SUBSET Task]
  BY DEF SafeInv, TokensServed, TypeOK
<1>1. leave[l] \in Nat /\ enter[l] \in Nat
  BY <1>0
<1>2. ASSUME NEW t \in users[l]
      PROVE  token[t] \in Nat /\ leave[l] <= token[t] /\ token[t] < enter[l]
  <2>1. token[t] \in Nat /\ token[t] \in leave[l] .. enter[l] - 1
    BY <1>0 DEF TokensOf
  <2> QED
    BY <1>1, <2>1
<1>3. \A t \in users[l] : t # owner[l] => want[t] = l
  BY <1>0 DEF UsersKnown, MutualExclusion
<1>4. owner[l] # NoTask =>
        /\ owner[l] \in users[l] /\ token[owner[l]] = leave[l]
        /\ hold[owner[l]] = l /\ want[owner[l]] = NoLock
  BY <1>0, NoLockType DEF TokensOf, UsersKnown, MutualExclusion
<1> QED
  BY <1>0, <1>1, <1>2, <1>3, <1>4 DEF TokensOf

LEMMA WaitEnterStep ==
  ASSUME WaitInv, NEW l \in Lock, LockEnter(l)
  PROVE  StoppedHasReason' /\ WaiterNeverSleeps' /\ RunsInv' /\ WakeInv'
<1>0. /\ TypeOK /\ UsersKnown /\ RunsInv /\ WaiterNeverSleeps /\ StoppedHasReason /\ WakeInv /\ SafeInv
      /\ mode = "run" /\ pc[cur] = "app"
      /\ UNCHANGED <<cur, mode, noRunSame, task, hold, wait, leave, owner, waiting>>
  BY DEF WaitInv, SafeInv, LockEnter, AppRuns, schedVars
<1>1. /\ cur \in Task /\ task[cur].valid /\ want[cur] = NoLock
      /\ \A k \in Lock : cur \in users[k] => hold[cur] = k
      /\ ~task[cur].long_run /\ ~task[cur].sleeping /\ ~task[cur].stopped
  BY <1>0, UsersAre DEF UsersKnown, RunsInv
<1>2. hold[cur] = NoLock /\ \A k \in Lock : cur \notin users[k]
  BY <1>1, NoLockType DEF LockEnter
<1>3. /\ \A t \in Task : pc'[t] = IF t = cur THEN "lock" ELSE pc[t]
      /\ \A t \in Task : want'[t] = IF t = cur THEN l ELSE want[t]
      /\ \A t \in Task : token'[t] = IF t = cur THEN enter[l] ELSE token[t]
      /\ \A k \in Lock : users'[k] = IF k = l THEN users[k] \cup {cur} ELSE users[k]
      /\ \A k \in Lock : users[k] \subseteq Task
  BY <1>0 DEF LockEnter, TypeOK
<1>a. \A k \in Lock : \A t \in users'[k] : t # cur => t \in users[k] /\ t \in Task
  <2> TAKE k \in Lock
  <2>1. users'[k] \subseteq users[k] \cup {cur} /\ users[k] \subseteq Task
    BY <1>3
  <2> QED
    BY <2>1
<1>4. StoppedHasReason'
  BY <1>0 DEF StoppedHasReason
<1>5. RunsInv'
  BY <1>0, <1>1, <1>3 DEF RunsInv
<1>6. WaiterNeverSleeps'
  <2> SUFFICES ASSUME NEW k \in Lock, NEW t \in users'[k]
               PROVE  /\ wait[t] = k => ~task[t].sleeping
                      /\ wait[t] = k \/ hold[t] = k \/ t = cur
    BY <1>0, <1>1, <1>3 DEF WaiterNeverSleeps
  <2>1. CASE t = cur
    BY <1>1, <2>1
  <2>2. CASE t # cur
    <3>1. t \in users[k]
      BY <1>3, <2>2
    <3> QED
      BY <1>0, <2>2, <3>1 DEF WaiterNeverSleeps
  <2> QED
    BY <2>1, <2>2
<1>7. WakeInv'
  <2> SUFFICES ASSUME NEW k \in Lock, NEW t \in users'[k], want'[t] = k, task[t].stopped
               PROVE  /\ wait[t] = k => waiting[t]
                      /\ token'[t] # leave[k]
                      /\ \A u \in users'[k] : owner[k] = NoTask /\ token'[u] = leave[k]
                                                => task[t].priority <= task[u].priority
    BY <1>0 DEF WakeInv
  <2>0. t # cur
    BY <1>1
  <2>1. t # cur /\ t \in users[k] /\ want[t] = k /\ token'[t] = token[t]
    <3>1. t \in users[k] /\ t \in Task
      BY <1>a, <2>0
    <3> QED
      BY <1>3, <2>0, <3>1
  <2>2. ASSUME NEW u \in users'[k], token'[u] = leave[k] PROVE u \in users[k] /\ token[u] = leave[k]
    <3>1. k = l => leave[l] < enter[l]
      BY <2>1, TokensAre, <1>0
    <3>2. u = cur => k = l /\ token'[u] = enter[l]
      BY <1>1, <1>2, <1>3
    <3>3. leave[k] \in Nat /\ enter[l] \in Nat
      BY <1>0, TokensAre
    <3>4. u # cur
      BY <2>2, <3>1, <3>2, <3>3
    <3>5. u \in users[k] /\ u \in Task
      BY <1>a, <3>4
    <3> QED
      BY <1>3, <2>2, <3>4, <3>5
  <2> QED
    BY <1>0, <2>1, <2>2 DEF WakeInv
<1> QED
  BY <1>4, <1>5, <1>6, <1>7

(* The task whose token is served is not stopped: it may take the lock.    *)
LEMMA AcquireAwake ==
  ASSUME WaitInv, NEW l \in Lock, Acquire(l)
  PROVE  /\ owner[l] = NoTask /\ token[cur] = leave[l]
         /\ cur \in users[l] /\ want[cur] = l /\ hold[cur] = NoLock
         /\ ~task[cur].stopped /\ ~task[cur].sleeping
<1>0. TypeOK /\ UsersKnown /\ SafeInv /\ RunsInv /\ WakeInv /\ cur \in Task /\ want[cur] = l
  BY DEF WaitInv, SafeInv, TypeOK, Acquire, InLockLoop
<1>1. cur \in users[l] /\ hold[cur] = NoLock
  BY <1>0, NoLockType DEF UsersKnown
<1>2. token[cur] = leave[l]
  BY <1>0, <1>1, TokensAre DEF Acquire, MyTurn
<1>3. owner[l] = NoTask
  BY <1>0, <1>1, <1>2, TokensAre, NoLockType
<1> QED
  BY <1>0, <1>1, <1>2, <1>3, NoLockType DEF WakeInv, RunsInv

LEMMA WaitAcquireStep ==
  ASSUME WaitInv, NEW l \in Lock, Acquire(l)
  PROVE  StoppedHasReason' /\ WaiterNeverSleeps' /\ RunsInv' /\ WakeInv'
<1>0. /\ TypeOK /\ UsersKnown /\ RunsInv /\ WaiterNeverSleeps /\ StoppedHasReason /\ WakeInv /\ SafeInv
      /\ mode = "run" /\ cur \in Task
      /\ UNCHANGED <<cur, mode, noRunSame, task, enter, leave, users, token, waiting>>
  BY DEF WaitInv, SafeInv, Acquire, InLockLoop, schedVars, TypeOK
<1>1. /\ owner[l] = NoTask /\ token[cur] = leave[l]
      /\ cur \in users[l] /\ want[cur] = l /\ hold[cur] = NoLock
      /\ ~task[cur].stopped /\ ~task[cur].sleeping
  BY AcquireAwake
<1>2. /\ \A t \in Task : pc'[t] = IF t = cur THEN "app" ELSE pc[t]
      /\ \A t \in Task : want'[t] = IF t = cur THEN NoLock ELSE want[t]
      /\ \A t \in Task : hold'[t] = IF t = cur THEN l ELSE hold[t]
      /\ \A t \in Task : wait'[t] = IF t = cur THEN NoLock ELSE wait[t]
      /\ \A k \in Lock : owner'[k] = IF k = l THEN cur ELSE owner[k]
      /\ \A k \in Lock : users[k] \subseteq Task
      /\ NoTask \notin Task
  BY <1>0, ConstantsType DEF Acquire, TypeOK
<1>3. StoppedHasReason'
  BY <1>0, <1>1, <1>2 DEF StoppedHasReason
<1>4. RunsInv'
  BY <1>0, <1>1, <1>2 DEF RunsInv
<1>5. WaiterNeverSleeps'
  <2>1. \A k \in Lock : cur \in users[k] => k = l
    BY <1>0, <1>1, UsersAre
  <2> QED
    BY <1>0, <1>1, <1>2, <2>1, NoLockType DEF WaiterNeverSleeps
<1>6. WakeInv'
  BY <1>0, <1>1, <1>2, NoLockType DEF WakeInv
<1> QED
  BY <1>3, <1>4, <1>5, <1>6

LEMMA PriorityType ==
  ASSUME TypeOK, NEW t \in Task
  PROVE  task[t].priority \in Priority /\ task[t].priority \in Int
<1>1. task[t] \in TaskRecord
  BY DEF TypeOK
<1>2. task[t].priority \in Priority
  BY <1>1 DEF TaskRecord
<1> QED
  BY <1>2, TasksAssumption DEF Priority

LEMMA WaitSwapStep ==
  ASSUME WaitInv, NEW l \in Lock, SwapToken(l)
  PROVE  StoppedHasReason' /\ WaiterNeverSleeps' /\ RunsInv' /\ WakeInv'
<1>0. /\ TypeOK /\ UsersKnown /\ RunsInv /\ WaiterNeverSleeps /\ StoppedHasReason /\ WakeInv /\ SafeInv
      /\ mode = "run" /\ pc[cur] = "lock" /\ want[cur] = l /\ cur \in Task
      /\ UNCHANGED <<cur, mode, noRunSame, task, pc, hold, wait, enter, leave, owner, users, waiting, want>>
  BY DEF WaitInv, SafeInv, SwapToken, InLockLoop, schedVars, TypeOK
<1>1. StoppedHasReason' /\ RunsInv' /\ WaiterNeverSleeps'
  BY <1>0 DEF StoppedHasReason, RunsInv, WaiterNeverSleeps
<1>2. PICK lp \in LowestUsers(l) :
        /\ Overtakes(cur, lp)
        /\ token' = [token EXCEPT ![lp] = token[cur], ![cur] = LowestToken(l)]
  BY DEF SwapToken
<1>3. /\ lp \in users[l] /\ lp \in Task /\ token[lp] = LowestToken(l)
      /\ task[cur].priority > task[lp].priority
      /\ cur \in users[l] /\ hold[cur] = NoLock
      /\ token[cur] > leave[l]
  <2>1. lp \in users[l] /\ token[lp] = LowestToken(l) /\ cur \in users[l] /\ hold[cur] = NoLock
    BY <1>0, NoLockType, UsersAre DEF LowestUsers
  <2>2. token[cur] \in Nat /\ leave[l] \in Nat /\ lp \in Task
    BY <1>0, <2>1, TokensAre, UsersAre
  <2> QED
    BY <1>2, <2>1, <2>2 DEF SwapToken, MyTurn, Overtakes
<1>4. \A t \in Task : token'[t] = IF t = cur THEN token[lp] ELSE IF t = lp THEN token[cur] ELSE token[t]
  BY <1>0, <1>2, <1>3 DEF TypeOK
<1>5. leave[l] \in Nat /\ (owner[l] = NoTask => token[lp] = leave[l])
      /\ (owner[l] # NoTask => token[lp] # leave[l])
  BY <1>0, <1>3, TokensAre DEF LowestToken
<1>6. WakeInv'
  <2> SUFFICES ASSUME NEW k \in Lock, NEW t \in users[k], want[t] = k, task[t].stopped
               PROVE  /\ wait[t] = k => waiting[t]
                      /\ token'[t] # leave[k]
                      /\ \A u \in users[k] : owner[k] = NoTask /\ token'[u] = leave[k]
                                                => task[t].priority <= task[u].priority
    BY <1>0 DEF WakeInv
  <2>0. /\ wait[t] = k => waiting[t]
        /\ token[t] # leave[k]
        /\ \A u \in users[k] : owner[k] = NoTask /\ token[u] = leave[k]
                                 => task[t].priority <= task[u].priority
        /\ t \in Task
    BY <1>0, UsersAre DEF WakeInv
  <2>1. CASE k # l
    <3>1. cur \notin users[k] /\ lp \notin users[k]
      BY <1>0, <1>3, <2>1, UsersAre
    <3> QED
      BY <1>0, <1>4, <2>0, <3>1, UsersAre
  <2>2. CASE k = l /\ owner[l] # NoTask
    BY <1>3, <1>4, <1>5, <2>0, <2>2
  <2>3. CASE k = l /\ owner[l] = NoTask
    <3>1. task[t].priority <= task[lp].priority /\ t # lp
      BY <1>3, <1>5, <2>0, <2>3
    <3>2. task[t].priority \in Int /\ task[lp].priority \in Int /\ task[cur].priority \in Int
      BY <1>0, <1>3, <2>0, PriorityType
    <3>3. t # cur /\ task[t].priority <= task[cur].priority
      BY <1>3, <3>1, <3>2
    <3>4. \A u \in users[l] : token'[u] = leave[l] => u = cur
      <4> SUFFICES ASSUME NEW u \in users[l], token'[u] = leave[l], u # cur PROVE FALSE
        OBVIOUS
      <4>1. u \in Task /\ u # lp /\ token[u] = token[lp]
        BY <1>0, <1>3, <1>4, <1>5, <2>3, UsersAre, TokensAre
      <4> QED
        BY <1>0, <1>3, <4>1, TokensAre
    <3> QED
      BY <1>4, <2>0, <2>3, <3>1, <3>3, <3>4
  <2> QED
    BY <2>1, <2>2, <2>3
<1> QED
  BY <1>1, <1>6

(* Whoever starts to wait is in lock_enter(), with a token that is not     *)
(* served; the task that it may raise is not.                              *)
LEMMA WaitFacts ==
  ASSUME SafeInv, NEW l \in Lock, Wait(l)
  PROVE  /\ cur \in Task /\ mode = "run" /\ pc[cur] = "lock" /\ want[cur] = l
         /\ cur \in users[l] /\ hold[cur] = NoLock /\ cur # owner[l]
         /\ token[cur] > leave[l]
         /\ \A u \in users[l] : owner[l] = NoTask /\ token[u] = leave[l]
                                  => task[cur].priority <= task[u].priority
         /\ owner[l] # NoTask => owner[l] \in users[l] /\ hold[owner[l]] = l /\ want[owner[l]] = NoLock
         /\ UNCHANGED <<cur, pc, hold, enter, leave, owner, users, token, want>>
         /\ \A t \in Task : wait'[t] = IF t = cur THEN l ELSE wait[t]
         /\ \A t \in Task : waiting'[t] = IF t = cur THEN TRUE ELSE waiting[t]
         /\ WaitStep(l)
<1>0. TypeOK /\ UsersKnown /\ cur \in Task
  BY DEF SafeInv, TypeOK
<1>1. mode = "run" /\ pc[cur] = "lock" /\ want[cur] = l /\ ~MyTurn(l)
  BY DEF Wait, InLockLoop
<1>2. cur \in users[l] /\ hold[cur] = NoLock
  BY <1>0, <1>1, NoLockType DEF UsersKnown
<1>3. token[cur] > leave[l]
  <2>1. token[cur] \in Nat /\ leave[l] \in Nat
    BY <1>2, TokensAre
  <2> QED
    BY <1>1, <2>1 DEF MyTurn
<1>4. owner[l] # NoTask => owner[l] \in users[l] /\ hold[owner[l]] = l /\ want[owner[l]] = NoLock
  BY TokensAre
<1>5. ASSUME NEW u \in users[l], owner[l] = NoTask, token[u] = leave[l]
      PROVE  task[cur].priority <= task[u].priority
  <2>1. u \in LowestUsers(l) /\ u \in Task
    BY <1>0, <1>5, TokensAre, UsersAre DEF LowestUsers, LowestToken
  <2>2. ~Overtakes(cur, u)
    BY <2>1 DEF Wait
  <2>3. task[cur].priority \in Int /\ task[u].priority \in Int
    BY <1>0, <2>1, PriorityType
  <2> QED
    BY <2>2, <2>3 DEF Overtakes
<1>6. UNCHANGED <<cur, pc, hold, enter, leave, owner, users, token, want>>
  BY DEF Wait
<1>7. /\ \A t \in Task : wait'[t] = IF t = cur THEN l ELSE wait[t]
      /\ \A t \in Task : waiting'[t] = IF t = cur THEN TRUE ELSE waiting[t]
  <2>1. wait' = [wait EXCEPT ![cur] = l] /\ waiting' = [waiting EXCEPT ![cur] = TRUE]
    BY DEF Wait
  <2> QED
    BY <1>0, <2>1 DEF TypeOK
<1>8. WaitStep(l)
  BY <1>0, WaitFields
<1>9. cur # owner[l]
  <2> SUFFICES ASSUME cur = owner[l] PROVE FALSE
    OBVIOUS
  <2>1. owner[l] # NoTask
    BY <1>0, ConstantsType
  <2> QED
    BY <1>2, <1>4, <2>1, NoLockType
<1> QED
  BY <1>0, <1>1, <1>2, <1>3, <1>4, <1>5, <1>6, <1>7, <1>8, <1>9

LEMMA WaitWaitStep ==
  ASSUME WaitInv, NEW l \in Lock, Wait(l)
  PROVE  StoppedHasReason' /\ WaiterNeverSleeps' /\ RunsInv' /\ WakeInv'
<1>0. TypeOK /\ UsersKnown /\ RunsInv /\ WaiterNeverSleeps /\ StoppedHasReason /\ WakeInv /\ SafeInv
  BY DEF WaitInv, SafeInv
<1>1. /\ cur \in Task /\ mode = "run" /\ pc[cur] = "lock" /\ want[cur] = l
      /\ cur \in users[l] /\ hold[cur] = NoLock /\ cur # owner[l]
      /\ token[cur] > leave[l]
      /\ \A u \in users[l] : owner[l] = NoTask /\ token[u] = leave[l]
                               => task[cur].priority <= task[u].priority
      /\ owner[l] # NoTask => owner[l] \in users[l] /\ hold[owner[l]] = l /\ want[owner[l]] = NoLock
      /\ UNCHANGED <<cur, pc, hold, enter, leave, owner, users, token, want>>
      /\ \A t \in Task : wait'[t] = IF t = cur THEN l ELSE wait[t]
      /\ \A t \in Task : waiting'[t] = IF t = cur THEN TRUE ELSE waiting[t]
      /\ WaitStep(l)
  BY <1>0, WaitFacts
<1>2. /\ \A t \in Task :
           /\ task'[t].valid = task[t].valid
           /\ IF t = cur
              THEN /\ task'[t].stopped
                   /\ task'[t].sleeping = task[t].sleeping /\ task'[t].wakeup = task[t].wakeup
              ELSE SameRest(task'[t], task[t])
           /\ task'[t].long_run => task[t].long_run
           /\ ~(Boosts(l) /\ t = owner[l]) => task'[t].priority = task[t].priority
      /\ noRunSame' => noRunSame
  BY <1>1 DEF WaitStep, SameTask
<1>3. /\ \A k \in Lock : \A t \in users[k] : t \in Task
      /\ \A k \in Lock : cur \in users[k] => k = l
      /\ NoLock \notin Lock
  BY <1>0, <1>1, UsersAre
<1>4. StoppedHasReason'
  <2> SUFFICES ASSUME NEW t \in Task, task'[t].valid
               PROVE  /\ task'[t].stopped => task'[t].sleeping \/ wait'[t] # NoLock
                      /\ task'[t].sleeping => task'[t].stopped /\ ~task'[t].wakeup
    BY DEF StoppedHasReason
  <2>1. task[t].valid
    BY <1>2
  <2>2. /\ task[t].stopped => task[t].sleeping \/ wait[t] # NoLock
        /\ task[t].sleeping => task[t].stopped /\ ~task[t].wakeup
    BY <1>0, <2>1 DEF StoppedHasReason
  <2>3. CASE t = cur
    BY <1>1, <1>2, <1>3, <2>2, <2>3
  <2>4. CASE t # cur
    BY <1>1, <1>2, <2>2, <2>4 DEF SameRest
  <2> QED
    BY <2>3, <2>4
<1>5. RunsInv'
  <2>1. ~noRunSame'
    BY <1>0, <1>1, <1>2 DEF RunsInv
  <2>2. \A t \in Task : want[t] # NoLock => ~task'[t].long_run /\ ~task'[t].sleeping
    <3> SUFFICES ASSUME NEW t \in Task, want[t] # NoLock PROVE ~task'[t].long_run /\ ~task'[t].sleeping
      OBVIOUS
    <3>1. ~task[t].long_run /\ ~task[t].sleeping
      BY <1>0 DEF RunsInv
    <3> QED
      BY <1>2, <3>1 DEF SameRest
  <2>3. ~task'[cur].long_run
    BY <1>0, <1>1, <1>3, <2>2
  <2> QED
    BY <1>1, <2>1, <2>2, <2>3 DEF RunsInv
<1>6. WaiterNeverSleeps'
  <2> SUFFICES ASSUME NEW k \in Lock, NEW t \in users[k]
               PROVE  /\ wait'[t] = k => ~task'[t].sleeping
                      /\ wait'[t] = k \/ hold[t] = k
    BY <1>1 DEF WaiterNeverSleeps
  <2>1. t \in Task
    BY <1>3
  <2>2. wait'[t] = k \/ hold[t] = k
    BY <1>0, <1>1, <1>3, <2>1 DEF WaiterNeverSleeps
  <2>3. wait'[t] = k => want[t] # NoLock
    BY <1>0, <1>1, <1>3, <2>1 DEF UsersKnown
  <2> QED
    BY <1>1, <1>5, <2>1, <2>2, <2>3 DEF RunsInv
<1>7. WakeInv'
  <2> SUFFICES ASSUME NEW k \in Lock, NEW t \in users[k], want[t] = k, task'[t].stopped
               PROVE  /\ wait'[t] = k => waiting'[t]
                      /\ token[t] # leave[k]
                      /\ \A u \in users[k] : owner[k] = NoTask /\ token[u] = leave[k]
                                                => task'[t].priority <= task'[u].priority
    BY <1>1 DEF WakeInv
  <2>1. t \in Task
    BY <1>3
  <2>2. \A u \in users[k] : owner[k] = NoTask => task'[u].priority = task[u].priority
    <3> SUFFICES ASSUME NEW u \in users[k], owner[k] = NoTask PROVE ~(Boosts(l) /\ u = owner[l])
      BY <1>2, <1>3
    <3> SUFFICES ASSUME Boosts(l), u = owner[l] PROVE FALSE
      OBVIOUS
    <3>1. owner[l] # NoTask /\ u \in users[l]
      BY <1>1 DEF Boosts
    <3> QED
      BY <1>0, <3>1, UsersAre
  <2>3. CASE t = cur
    <3>1. k = l
      BY <1>1, <2>3
    <3>2. token[t] # leave[k]
      <4>1. leave[l] \in Nat /\ token[cur] \in Nat
        BY <1>0, <1>1, TokensAre
      <4> QED
        BY <1>1, <2>3, <3>1, <4>1
    <3>3. waiting'[t]
      BY <1>1, <2>3
    <3>4. task'[t].priority = task[t].priority
      BY <1>1, <1>2, <2>3
    <3> QED
      BY <1>1, <2>2, <2>3, <3>1, <3>2, <3>3, <3>4
  <2>4. CASE t # cur
    <3>1. task[t].stopped
      BY <1>2, <2>1, <2>4 DEF SameRest
    <3> QED
      BY <1>0, <1>1, <2>1, <2>2, <2>4, <3>1 DEF WakeInv
  <2> QED
    BY <2>3, <2>4
<1> QED
  BY <1>4, <1>5, <1>6, <1>7

(* Whoever leaves owns the lock; the others that use it wait for it, and   *)
(* those that are stopped are woken.                                       *)
LEMMA LeaveFacts ==
  ASSUME WaitInv, NEW l \in Lock, LockLeave(l)
  PROVE  /\ cur \in Task /\ mode = "run" /\ pc[cur] = "app" /\ task[cur].valid
         /\ owner[l] = cur /\ hold[cur] = l /\ want[cur] = NoLock /\ cur \in users[l]
         /\ \A t \in users[l] \ {cur} :
              /\ want[t] = l /\ wait[t] = l /\ hold[t] = NoLock
              /\ t \in Woken(l) <=> waiting[t]
              /\ task[t].stopped => waiting[t]
         /\ Woken(l) \subseteq users[l] \ {cur}
         /\ UNCHANGED <<cur, wait, want>>
         /\ \A t \in Task : pc'[t] = pc[t] \/ (t = cur /\ pc'[cur] = "sleep")
         /\ \A t \in Task : hold'[t] = IF t = cur THEN NoLock ELSE hold[t]
         /\ \A k \in Lock : owner'[k] = IF k = l THEN NoTask ELSE owner[k]
         /\ \A k \in Lock : \A t \in users'[k] : t \in users[k] /\ (k = l => t # cur)
         /\ \A k \in Lock : k # l => leave'[k] = leave[k] /\ users'[k] = users[k]
         /\ \A k \in Lock : \A t \in users[k] : t # cur => token'[t] = token[t] /\ t \in users'[k]
         /\ \A t \in Task : t \notin Woken(l) => waiting'[t] = waiting[t]
         /\ LeaveStep(l)
<1>0. TypeOK /\ UsersKnown /\ MutualExclusion /\ SafeInv /\ WakeInv /\ WaiterNeverSleeps /\ cur \in Task
  BY DEF WaitInv, SafeInv, TypeOK
<1>1. mode = "run" /\ pc[cur] = "app" /\ task[cur].valid /\ hold[cur] = l
  BY <1>0 DEF LockLeave, AppRuns, UsersKnown
<1>2. owner[l] = cur /\ want[cur] = NoLock /\ cur \in users[l]
  BY <1>0, <1>1 DEF MutualExclusion, UsersKnown
<1>3. Woken(l) \subseteq users[l] \ {cur} /\ \A t \in users[l] \ {cur} : t \in Woken(l) <=> waiting[t]
  BY DEF Woken
<1>4. ASSUME NEW t \in users[l] \ {cur}
      PROVE  want[t] = l /\ wait[t] = l /\ hold[t] = NoLock /\ (task[t].stopped => waiting[t])
  <2>1. want[t] = l /\ t \in Task
    BY <1>0, <1>2, TokensAre, UsersAre
  <2>2. hold[t] = NoLock
    BY <1>0, <2>1, NoLockType, UsersAre
  <2>3. wait[t] = l
    BY <1>0, <1>1, <2>2, NoLockType DEF WaiterNeverSleeps
  <2> QED
    BY <1>0, <2>1, <2>2, <2>3 DEF WakeInv
<1>5. /\ hold' = [hold EXCEPT ![cur] = NoLock]
      /\ owner' = [owner EXCEPT ![l] = NoTask]
      /\ users' = [users EXCEPT ![l] = @ \ {cur}]
      /\ token' = [token EXCEPT ![cur] = 0]
      /\ leave' = [leave EXCEPT ![l] = IF enter[l] = leave[l] + 1 THEN 0 ELSE @ + 1]
      /\ waiting' = [t \in Task |-> waiting[t] /\ t \notin Woken(l)]
      /\ UNCHANGED <<cur, wait, want>>
      /\ pc' = [pc EXCEPT ![cur] = "sleep"] \/ pc' = pc
  BY Zenon DEF LockLeave
<1>6. /\ \A t \in Task : pc'[t] = pc[t] \/ (t = cur /\ pc'[cur] = "sleep")
      /\ \A t \in Task : hold'[t] = IF t = cur THEN NoLock ELSE hold[t]
      /\ \A k \in Lock : owner'[k] = IF k = l THEN NoTask ELSE owner[k]
      /\ \A k \in Lock : \A t \in users'[k] : t \in users[k] /\ (k = l => t # cur)
      /\ \A k \in Lock : k # l => leave'[k] = leave[k] /\ users'[k] = users[k]
  BY <1>0, <1>5 DEF TypeOK
<1>7. \A k \in Lock : \A t \in users[k] : t # cur => token'[t] = token[t] /\ t \in users'[k]
  BY <1>0, <1>5 DEF TypeOK
<1>8. \A t \in Task : t \notin Woken(l) => waiting'[t] = waiting[t]
  <2> SUFFICES ASSUME NEW t \in Task, t \notin Woken(l) PROVE waiting'[t] = waiting[t]
    OBVIOUS
  <2>1. waiting[t] \in BOOLEAN
    BY <1>0 DEF TypeOK
  <2>2. waiting'[t] = (waiting[t] /\ t \notin Woken(l))
    BY <1>5, Zenon
  <2> QED
    BY <2>1, <2>2
<1>9. LeaveStep(l)
  BY <1>0, LeaveFields
<1> QED
  BY <1>0, <1>1, <1>2, <1>3, <1>4, <1>5, <1>6, <1>7, <1>8, <1>9

LEMMA WaitLeaveStep ==
  ASSUME WaitInv, NEW l \in Lock, LockLeave(l)
  PROVE  StoppedHasReason' /\ WaiterNeverSleeps' /\ RunsInv' /\ WakeInv'
<1>0. TypeOK /\ UsersKnown /\ RunsInv /\ WaiterNeverSleeps /\ StoppedHasReason /\ WakeInv /\ SafeInv
  BY DEF WaitInv, SafeInv
<1>1. /\ cur \in Task /\ mode = "run" /\ pc[cur] = "app" /\ task[cur].valid
      /\ owner[l] = cur /\ hold[cur] = l /\ want[cur] = NoLock /\ cur \in users[l]
      /\ \A t \in users[l] \ {cur} :
           /\ want[t] = l /\ wait[t] = l /\ hold[t] = NoLock
           /\ t \in Woken(l) <=> waiting[t]
           /\ task[t].stopped => waiting[t]
      /\ Woken(l) \subseteq users[l] \ {cur}
      /\ UNCHANGED <<cur, wait, want>>
      /\ \A t \in Task : pc'[t] = pc[t] \/ (t = cur /\ pc'[cur] = "sleep")
      /\ \A t \in Task : hold'[t] = IF t = cur THEN NoLock ELSE hold[t]
      /\ \A k \in Lock : owner'[k] = IF k = l THEN NoTask ELSE owner[k]
      /\ \A k \in Lock : \A t \in users'[k] : t \in users[k] /\ (k = l => t # cur)
      /\ \A k \in Lock : k # l => leave'[k] = leave[k] /\ users'[k] = users[k]
      /\ \A k \in Lock : \A t \in users[k] : t # cur => token'[t] = token[t] /\ t \in users'[k]
      /\ \A t \in Task : t \notin Woken(l) => waiting'[t] = waiting[t]
      /\ LeaveStep(l)
  BY LeaveFacts
<1>2. /\ \A t \in Task :
           /\ task'[t].valid = task[t].valid
           /\ IF t \in Woken(l)
              THEN /\ ~task'[t].stopped
                   /\ task'[t].sleeping = task[t].sleeping /\ task'[t].wakeup = task[t].wakeup
              ELSE SameRest(task'[t], task[t]) \/ (t = cur /\ Asleep(task'[t]) /\ pc'[cur] = "sleep")
           /\ task'[t].long_run => task[t].long_run
           /\ t # cur => task'[t].priority = task[t].priority
      /\ noRunSame' => noRunSame
      /\ mode' = "sched" \/ mode' = mode
  BY <1>1 DEF LeaveStep, SameTask
<1>3. /\ \A k \in Lock : \A t \in users[k] : t \in Task
      /\ \A k \in Lock : cur \in users[k] => k = l
      /\ \A k \in Lock : \A t \in users[k] : t \in users[l] => k = l
      /\ NoLock \notin Lock
      /\ \A t \in Woken(l) : t \in Task /\ want[t] # NoLock /\ t # cur
  <2>1. /\ \A k \in Lock : \A t \in users[k] : t \in Task
        /\ \A k \in Lock : \A t \in users[k] : t \in users[l] => k = l
        /\ NoLock \notin Lock
    BY <1>0, UsersAre
  <2> QED
    BY <1>1, <2>1
<1>4. StoppedHasReason'
  <2> SUFFICES ASSUME NEW t \in Task, task'[t].valid
               PROVE  /\ task'[t].stopped => task'[t].sleeping \/ wait[t] # NoLock
                      /\ task'[t].sleeping => task'[t].stopped /\ ~task'[t].wakeup
    BY <1>1 DEF StoppedHasReason
  <2>1. task[t].valid
    BY <1>2
  <2>2. /\ task[t].stopped => task[t].sleeping \/ wait[t] # NoLock
        /\ task[t].sleeping => task[t].stopped /\ ~task[t].wakeup
    BY <1>0, <2>1 DEF StoppedHasReason
  <2>3. CASE t \in Woken(l)
    <3>1. ~task[t].sleeping
      BY <1>0, <1>3, <2>3 DEF RunsInv
    <3> QED
      BY <1>2, <2>3, <3>1
  <2>4. CASE t \notin Woken(l)
    BY <1>2, <2>2, <2>4 DEF SameRest, Asleep
  <2> QED
    BY <2>3, <2>4
<1>5. RunsInv'
  <2>1. ~noRunSame'
    BY <1>0, <1>1, <1>2 DEF RunsInv
  <2>2. \A t \in Task : want[t] # NoLock => ~task'[t].long_run /\ ~task'[t].sleeping
    <3> SUFFICES ASSUME NEW t \in Task, want[t] # NoLock PROVE ~task'[t].long_run /\ ~task'[t].sleeping
      OBVIOUS
    <3>1. ~task[t].long_run /\ ~task[t].sleeping
      BY <1>0 DEF RunsInv
    <3>2. t # cur
      BY <1>1
    <3> QED
      BY <1>2, <3>1, <3>2 DEF SameRest
  <2>3. ~task'[cur].long_run
    BY <1>0, <1>1, <1>2 DEF RunsInv
  <2>4. pc'[cur] = "app" => ~task'[cur].stopped /\ ~task'[cur].sleeping
    <3>1. ~task[cur].stopped /\ ~task[cur].sleeping /\ cur \notin Woken(l)
      BY <1>0, <1>1 DEF RunsInv
    <3> QED
      BY <1>1, <1>2, <3>1 DEF SameRest
  <2> QED
    BY <1>1, <2>1, <2>2, <2>3, <2>4 DEF RunsInv
<1>6. WaiterNeverSleeps'
  <2> SUFFICES ASSUME NEW k \in Lock, NEW t \in users'[k]
               PROVE  /\ wait[t] = k => ~task'[t].sleeping
                      /\ wait[t] = k \/ hold'[t] = k
    BY <1>1 DEF WaiterNeverSleeps
  <2>1. t \in users[k] /\ t \in Task /\ t # cur
    BY <1>1, <1>3
  <2>2. wait[t] = k \/ hold[t] = k
    BY <1>0, <2>1 DEF WaiterNeverSleeps
  <2>3. hold'[t] = hold[t]
    BY <1>1, <2>1
  <2>4. wait[t] = k => want[t] # NoLock
    BY <1>0, <1>3, <2>1 DEF UsersKnown
  <2> QED
    BY <1>1, <1>5, <2>1, <2>2, <2>3, <2>4 DEF RunsInv
<1>7. WakeInv'
  <2> SUFFICES ASSUME NEW k \in Lock, NEW t \in users'[k], want[t] = k, task'[t].stopped
               PROVE  /\ wait[t] = k => waiting'[t]
                      /\ token'[t] # leave'[k]
                      /\ \A u \in users'[k] : owner'[k] = NoTask /\ token'[u] = leave'[k]
                                                => task'[t].priority <= task'[u].priority
    BY <1>1 DEF WakeInv
  <2>1. t \in users[k] /\ t \in Task /\ t # cur
    BY <1>1, <1>3
  <2>2. t \notin Woken(l)
    BY <1>2, <2>1
  <2>3. task[t].stopped
    BY <1>2, <2>1, <2>2 DEF SameRest
  <2>4. k # l
    BY <1>1, <2>1, <2>2, <2>3
  <2>5. \A u \in users'[k] : u \in users[k] /\ u # cur /\ task'[u].priority = task[u].priority
    BY <1>1, <1>2, <1>3, <2>4
  <2> QED
    BY <1>0, <1>1, <1>2, <2>1, <2>2, <2>3, <2>4, <2>5 DEF WakeInv
<1> QED
  BY <1>4, <1>5, <1>6, <1>7

LEMMA StepWait == WaitInv /\ [Next]_vars => WaitInv'
<1> SUFFICES ASSUME WaitInv, [Next]_vars PROVE WaitInv'
  OBVIOUS
<1>1. SafeInv'
  BY StepSafe DEF WaitInv
<1>2. CASE UNCHANGED vars
  BY <1>1, <1>2 DEF vars, schedVars, lockVars, WaitInv, StoppedHasReason, WaiterNeverSleeps,
                    RunsInv, WakeInv
<1>3. CASE TasksNext /\ UNCHANGED lockVars
  <2>1. CASE mode = "run"
    BY <1>1, <1>3, <2>1, WaitAppStep DEF WaitInv
  <2>2. CASE mode # "run"
    <3>1. Dispatch
      BY <1>3, <2>2 DEF TasksNext, SleepLoop, CreateTask, TaskCollect, Yield, TaskSleep,
                        TaskSleepID, TaskWakeup, TaskRemove, AppRuns
    <3> QED
      BY <1>1, <1>3, <3>1, WaitDispatchStep DEF WaitInv
  <2> QED
    BY <2>1, <2>2
<1>4. CASE \E l \in Lock : LockNext(l)
  BY <1>1, <1>4, WaitEnterStep, WaitAcquireStep, WaitSwapStep, WaitWaitStep, WaitLeaveStep, Zenon
     DEF LockNext, WaitInv
<1> QED
  BY <1>2, <1>3, <1>4, Zenon DEF Next

(* The inductive invariant of waiting: why a stopped task is stopped, what *)
(* the scheduler may assume when it goes on without a search, and that the *)
(* task whose turn it is at a lock has been woken by lock_leave().         *)
THEOREM WaitInvariant == Spec => []WaitInv
<1> QED
  BY InitWait, StepWait, PTL DEF Spec

(* Nobody is stopped with nothing left to restart it: a stopped task       *)
(* sleeps, or waits for a lock (the assertion of TaskWakeup()).            *)
THEOREM StoppedTasksHaveAReason == Spec => []StoppedHasReason
<1>1. WaitInv => StoppedHasReason
  BY DEF WaitInv
<1> QED
  BY <1>1, WaitInvariant, PTL

(* "A lock waiter should never be sleeping", whatever TaskSleepID() and    *)
(* TaskWakeup() calls the other tasks make; and all users of a lock but    *)
(* its owner wait (the assertions of lock_enter() and lock_leave()).       *)
THEOREM WaitersNeverSleep == Spec => []WaiterNeverSleeps
<1>1. WaitInv => WaiterNeverSleeps
  BY DEF WaitInv
<1> QED
  BY <1>1, WaitInvariant, PTL

(* The wakeup of lock_leave() is never lost: when somebody wants a lock    *)
(* that nobody owns, the task whose token is served is ready to run.       *)
THEOREM FreeLockIsNotForgotten == Spec => []FreeLockIsWanted
<1>1. WaitInv => FreeLockIsWanted
  <2> SUFFICES ASSUME WaitInv, NEW l \in Lock, owner[l] = NoTask, users[l] # {}
               PROVE  \E t \in users[l] : token[t] = leave[l] /\ task[t].valid /\ ~task[t].stopped
    BY DEF FreeLockIsWanted
  <2>0. SafeInv /\ WakeInv /\ TokensOf(l) /\ NoTask \notin Task
    BY ConstantsType DEF WaitInv, SafeInv, TokensServed
  <2>1. leave[l] \in Nat /\ enter[l] \in Nat /\ leave[l] < enter[l]
    <3>1. PICK t \in users[l] : TRUE
      OBVIOUS
    <3> QED
      BY <2>0, <3>1, TokensAre
  <2>2. leave[l] \in leave[l] .. enter[l] - 1
    BY <2>1
  <2>3. PICK t \in users[l] : token[t] = leave[l]
    BY <2>0, <2>2 DEF TokensOf
  <2>4. t \in Task /\ task[t].valid /\ want[t] = l
    BY <2>0, UsersAre, TokensAre
  <2> QED
    BY <2>0, <2>3, <2>4 DEF WakeInv
<1> QED
  BY <1>1, WaitInvariant, PTL

----------------------------------------------------------------------------
(* The queues of the scheduler                                             *)

LEMMA InitQueues == Init => QueuesConsistent
<1> SUFFICES ASSUME Init PROVE QueuesOf(taskQ, task, lastRun)
  BY QueuesAre
<1> SUFFICES ASSUME NEW p \in Priority
             PROVE  /\ Once(InitQ[p])
                    /\ \A t \in Task : In(InitQ[p], t) <=> task[t].valid /\ task[t].priority = p
  BY DEF QueuesOf, Init, TasksInit
<1>1. Once(InitQ[p])
  BY TasksAssumption DEF Once
<1>2. ASSUME NEW t \in Task PROVE In(InitQ[p], t) <=> task[t].valid /\ task[t].priority = p
  <2>1. task[t] = IF t \in InitTasks THEN NewTask(t) ELSE EmptySlot(t)
    BY DEF Init, TasksInit
  <2>2. NewTask(t).valid /\ NewTask(t).priority = Prio[t] /\ ~EmptySlot(t).valid
    BY DEF NewTask, EmptySlot
  <2>3. ASSUME In(InitQ[p], t) PROVE t \in InitTasks /\ Prio[t] = p
    <3>1. PICK i \in 1 .. Len(InitQ[p]) : InitQ[p][i] = t
      BY <2>3 DEF In
    <3>2. Prio[InitQ[p][i]] = p
      BY TasksAssumption
    <3> QED
      BY <3>1, <3>2 DEF InitTasks
  <2>4. ASSUME t \in InitTasks, Prio[t] = p PROVE In(InitQ[p], t)
    <3>1. PICK q \in Priority : t \in {InitQ[q][i] : i \in 1 .. Len(InitQ[q])}
      BY <2>4 DEF InitTasks
    <3>2. PICK i \in 1 .. Len(InitQ[q]) : InitQ[q][i] = t
      BY <3>1
    <3>3. Prio[InitQ[q][i]] = q
      BY TasksAssumption
    <3> QED
      BY <2>4, <3>2, <3>3 DEF In
  <2> QED
    BY <2>1, <2>2, <2>3, <2>4
<1> QED
  BY <1>1, <1>2

LEMMA StepQueues == WaitInv /\ QueuesConsistent /\ [Next]_vars => QueuesConsistent'
<1> SUFFICES ASSUME WaitInv, QueuesConsistent, [Next]_vars PROVE QueuesOf(taskQ', task', lastRun')
  BY Zenon DEF QueuesConsistent, QueuesOf, Once, In
<1>0. /\ SafeInv /\ TypeOK /\ UsersKnown /\ QueuesOf(taskQ, task, lastRun)
      /\ cur \in Task /\ task \in [Task -> TaskRecord]
  BY QueuesAre DEF WaitInv, SafeInv, TypeOK
<1>1. CASE UNCHANGED <<task, taskQ, lastRun>>
  BY <1>0, <1>1
<1>2. CASE TasksNext /\ UNCHANGED lockVars
  <2>1. CASE Dispatch
    <3>1. SameQueues(task, task')
      BY <1>0, <2>1, DispatchFields DEF SameQueues, SameTask
    <3> QED
      BY <1>0, <2>1, <3>1, QueuesSame DEF Dispatch
  <2>2. CASE mode = "run"
    BY <1>0, <1>2, <2>2, BusyIsLeft DEF AppStep, QueuesStep
  <2>3. Dispatch \/ mode = "run"
    BY <1>2 DEF TasksNext, SleepLoop, CreateTask, TaskCollect, Yield, TaskSleep,
                TaskSleepID, TaskWakeup, TaskRemove, AppRuns
  <2> QED
    BY <2>1, <2>2, <2>3
<1>3. ASSUME NEW l \in Lock, LockNext(l) PROVE QueuesOf(taskQ', task', lastRun')
  <2>1. CASE LockEnter(l) \/ Acquire(l) \/ SwapToken(l)
    BY <1>1, <2>1 DEF LockEnter, Acquire, SwapToken, schedVars
  <2>2. CASE Wait(l)
    <3>1. owner[l] # NoTask => task[owner[l]].valid
      BY <1>0, TokensAre, UsersAre
    <3> QED
      BY <1>0, <2>2, <3>1, WaitFields DEF QueuesStep
  <2>3. CASE LockLeave(l)
    BY <1>0, <2>3, LeaveFacts, LeaveFields DEF QueuesStep
  <2> QED
    BY <1>3, <2>1, <2>2, <2>3 DEF LockNext
<1> QED
  BY <1>1, <1>2, <1>3, Zenon DEF Next, vars, schedVars

(* Every task that exists is in the queue of its priority, once, and in no *)
(* other: creation, removal, and the raising and lowering of priorities in *)
(* lock_enter() and lock_leave() keep the scheduler's lists right.         *)
THEOREM QueuesAreConsistent == Spec => []QueuesConsistent
<1>1. WaitInv /\ QueuesConsistent /\ [Next]_vars => QueuesConsistent'
  BY StepQueues
<1> QED
  BY <1>1, InitQueues, WaitInvariant, PTL DEF Spec

----------------------------------------------------------------------------
(* Raised priorities                                                       *)

LEMMA InitBoost == Init => BoostInv
<1> SUFFICES ASSUME Init PROVE BoostInv
  OBVIOUS
<1>1. WaitInv
  BY InitWait
<1>2. BoostEnds
  <2> SUFFICES ASSUME NEW t \in Task, task[t].valid
               PROVE  ~task[t].boosted /\ task[t].priority = Prio[t]
    BY DEF BoostEnds
  <2>1. task[t] = NewTask(t) \/ task[t] = EmptySlot(t)
    BY DEF Init, TasksInit
  <2>2. NewTask(t).priority = Prio[t] /\ ~NewTask(t).boosted /\ ~EmptySlot(t).valid
    BY DEF NewTask, EmptySlot
  <2> QED
    BY <2>1, <2>2
<1>3. RaisedInv
  BY DEF Init, RaisedInv
<1> QED
  BY <1>1, <1>2, <1>3 DEF BoostInv

(* What the two invariants say of the tasks that use locks.                *)
LEMMA BoostFacts ==
  ASSUME BoostInv
  PROVE  /\ TypeOK /\ UsersKnown /\ SafeInv /\ WaitInv /\ BoostEnds /\ RaisedInv
         /\ cur \in Task /\ NoLock \notin Lock /\ NoTask \notin Task
         /\ task \in [Task -> TaskRecord] /\ Prio \in [Task -> Priority]
         /\ \A t \in Task : task[t].priority \in Int /\ Prio[t] \in Int
         /\ \A t \in Task : want[t] # NoLock => ~task[t].boosted /\ task[t].priority = Prio[t]
<1>0. /\ TypeOK /\ UsersKnown /\ SafeInv /\ WaitInv /\ BoostEnds /\ RaisedInv
      /\ cur \in Task /\ NoLock \notin Lock /\ NoTask \notin Task
      /\ task \in [Task -> TaskRecord] /\ Prio \in [Task -> Priority]
  BY ConstantsType DEF BoostInv, WaitInv, SafeInv, TypeOK
<1>1. \A t \in Task : task[t].priority \in Int /\ Prio[t] \in Int
  <2> TAKE t \in Task
  <2>1. Prio[t] \in Priority
    BY <1>0
  <2> QED
    BY <1>0, <2>1, PriorityType, TasksAssumption DEF Priority
<1>2. \A t \in Task : want[t] # NoLock => ~task[t].boosted /\ task[t].priority = Prio[t]
  BY <1>0, UsersAre DEF BoostEnds
<1> QED
  BY <1>0, <1>1, <1>2

(* A step that changes no priority and nobody's part in a lock.            *)
LEMMA BoostSame ==
  ASSUME BoostEnds, RaisedInv, TypeOK, NoTask \notin Task, UNCHANGED <<hold, wait, owner, users, waiting>>,
         \A t \in Task : task'[t].valid /\ task[t].valid => SameTask(task'[t], task[t]),
         \A t \in Task : task'[t].valid /\ ~task[t].valid => task'[t] = NewTask(t),
         \A l \in Lock : \A t \in users[l] : task'[t].valid /\ task[t].valid,
         \A l \in Lock : owner[l] # NoTask => owner[l] \in users[l]
  PROVE  BoostEnds' /\ RaisedInv'
<1>1. BoostEnds'
  <2> SUFFICES ASSUME NEW t \in Task, task'[t].valid
               PROVE  IF task'[t].boosted
                      THEN /\ hold[t] # NoLock /\ task'[t].saved = Prio[t]
                           /\ task'[t].priority > Prio[t]
                      ELSE task'[t].priority = Prio[t]
    BY DEF BoostEnds
  <2>1. CASE task[t].valid
    BY <2>1 DEF BoostEnds, SameTask
  <2>2. CASE ~task[t].valid
    <3>1. task'[t] = NewTask(t)
      BY <2>2
    <3>2. NewTask(t).priority = Prio[t] /\ ~NewTask(t).boosted
      BY DEF NewTask
    <3> QED
      BY <3>1, <3>2
  <2> QED
    BY <2>1, <2>2
<1>2. RaisedInv'
  <2>1. \A l \in Lock : \A t \in users[l] : SameTask(task'[t], task[t])
    BY DEF TypeOK
  <2> QED
    BY <2>1 DEF RaisedInv, SameTask
<1> QED
  BY <1>1, <1>2

LEMMA BoostTasksStep ==
  ASSUME BoostInv, TasksNext, UNCHANGED lockVars
  PROVE  BoostEnds' /\ RaisedInv'
<1>0. /\ TypeOK /\ UsersKnown /\ SafeInv /\ WaitInv /\ BoostEnds /\ RaisedInv
      /\ NoTask \notin Task
      /\ UNCHANGED <<owner, users, waiting, want>>
  BY BoostFacts DEF lockVars
<1>1. /\ \A l \in Lock : \A t \in users[l] : t \in Task /\ task[t].valid
      /\ \A l \in Lock : owner[l] # NoTask => owner[l] \in users[l]
  BY <1>0, UsersAre, TokensAre
<1>2. CASE Dispatch
  <2>1. \A t \in Task : SameTask(task'[t], task[t])
    BY <1>0, <1>2, DispatchFields
  <2> QED
    BY <1>0, <1>1, <1>2, <2>1, BoostSame DEF SameTask, Dispatch
<1>3. CASE mode = "run"
  <2>1. UNCHANGED <<hold, wait>> /\ \A t \in Task : Outcome(t)
    BY <1>0, <1>3, BusyIsLeft DEF AppStep
  <2>2. \A l \in Lock : \A t \in users[l] : SameTask(task'[t], task[t])
    <3> SUFFICES ASSUME NEW l \in Lock, NEW t \in users[l] PROVE SameTask(task'[t], task[t])
      OBVIOUS
    <3>1. want[t] # NoLock \/ (hold[t] # NoLock /\ task[t].valid)
      BY <1>0, UsersAre
    <3> QED
      BY <1>0, <1>1, <1>3, <3>1, BusyIsLeft
  <2>3. \A t \in Task : task'[t].valid /\ task[t].valid => SameTask(task'[t], task[t])
    BY <2>1 DEF Outcome, Left, PutToSleep, Created, Removed
  <2>4. \A t \in Task : task'[t].valid /\ ~task[t].valid => task'[t] = NewTask(t)
    BY <2>1 DEF Outcome, Left, PutToSleep, Created, Removed, SameTask
  <2>5. \A l \in Lock : \A t \in users[l] : task'[t].valid
    BY <1>1, <2>2 DEF SameTask
  <2> QED
    BY <1>0, <1>1, <2>1, <2>3, <2>4, <2>5, BoostSame
<1>4. Dispatch \/ mode = "run"
  BY DEF TasksNext, SleepLoop, CreateTask, TaskCollect, Yield, TaskSleep,
         TaskSleepID, TaskWakeup, TaskRemove, AppRuns
<1> QED
  BY <1>2, <1>3, <1>4

LEMMA BoostLockStep ==
  ASSUME BoostInv, NEW l \in Lock, LockNext(l)
  PROVE  BoostEnds' /\ RaisedInv'
<1>0. /\ TypeOK /\ UsersKnown /\ SafeInv /\ WaitInv /\ BoostEnds /\ RaisedInv
      /\ cur \in Task /\ NoLock \notin Lock /\ NoTask \notin Task
      /\ \A t \in Task : task[t].priority \in Int /\ Prio[t] \in Int
      /\ \A t \in Task : want[t] # NoLock => ~task[t].boosted /\ task[t].priority = Prio[t]
  BY BoostFacts
<1>1. CASE LockEnter(l)
  <2>1. /\ UNCHANGED <<task, hold, wait, owner, waiting>>
        /\ \A k \in Lock : users[k] \subseteq users'[k]
    BY <1>1 DEF LockEnter, schedVars
  <2> QED
    BY <1>0, <2>1 DEF BoostEnds, RaisedInv
<1>2. CASE Acquire(l)
  <2>1. /\ owner[l] = NoTask /\ cur \in users[l] /\ want[cur] = l /\ hold[cur] = NoLock
    BY <1>0, <1>2, AcquireAwake
  <2>2. /\ \A t \in Task : hold'[t] = IF t = cur THEN l ELSE hold[t]
        /\ \A t \in Task : wait'[t] = IF t = cur THEN NoLock ELSE wait[t]
        /\ \A k \in Lock : owner'[k] = IF k = l THEN cur ELSE owner[k]
        /\ UNCHANGED <<task, users, waiting>>
    BY <1>0, <1>2 DEF Acquire, TypeOK, schedVars
  <2>3. BoostEnds'
    BY <1>0, <2>1, <2>2 DEF BoostEnds
  <2>4. RaisedInv'
    <3>1. ~task[cur].boosted
      BY <1>0, <2>1
    <3>2. \A k \in Lock : \A t \in users[k] : t \in Task /\ (k # l => t # cur)
      BY <1>0, <2>1, UsersAre
    <3> QED
      BY <1>0, <2>2, <3>1, <3>2 DEF RaisedInv
  <2> QED
    BY <2>3, <2>4
<1>3. CASE SwapToken(l)
  BY <1>0, <1>3 DEF SwapToken, schedVars, BoostEnds, RaisedInv
<1>4. CASE Wait(l)
  <2>1. /\ want[cur] = l /\ cur \in users[l] /\ cur # owner[l]
        /\ owner[l] # NoTask => owner[l] \in users[l] /\ hold[owner[l]] = l /\ want[owner[l]] = NoLock
        /\ UNCHANGED <<hold, owner, users, want>>
        /\ \A t \in Task : wait'[t] = IF t = cur THEN l ELSE wait[t]
        /\ \A t \in Task : waiting'[t] = IF t = cur THEN TRUE ELSE waiting[t]
        /\ WaitStep(l)
    BY <1>0, <1>4, WaitFacts
  <2>2. \A t \in Task :
          /\ task'[t].valid = task[t].valid
          /\ IF Boosts(l) /\ t = owner[l]
             THEN /\ task'[t].priority = task[cur].priority
                  /\ task'[t].saved = task[t].priority
                  /\ task'[t].boosted
             ELSE SameTask(task'[t], task[t])
    BY <2>1 DEF WaitStep
  <2>3. Boosts(l) => /\ owner[l] \in Task /\ ~task[owner[l]].boosted
                     /\ task[cur].priority > task[owner[l]].priority
                     /\ hold[owner[l]] = l
    BY <1>0, <2>1 DEF Boosts, TypeOK
  <2>4. BoostEnds'
    <3> SUFFICES ASSUME NEW t \in Task, task[t].valid
                 PROVE  IF task'[t].boosted
                        THEN /\ hold[t] # NoLock /\ task'[t].saved = Prio[t]
                             /\ task'[t].priority > Prio[t]
                        ELSE task'[t].priority = Prio[t]
      BY <2>1, <2>2 DEF BoostEnds
    <3>1. CASE Boosts(l) /\ t = owner[l]
      BY <1>0, <2>2, <2>3, <3>1 DEF BoostEnds
    <3>2. CASE ~(Boosts(l) /\ t = owner[l])
      BY <1>0, <2>2, <3>2 DEF BoostEnds, SameTask
    <3> QED
      BY <3>1, <3>2
  <2>5. RaisedInv'
    <3> SUFFICES ASSUME NEW k \in Lock, owner[k] # NoTask, task'[owner[k]].boosted
                 PROVE  \E u \in users[k] : /\ wait'[u] = k /\ waiting'[u]
                                            /\ task'[u].priority = task'[owner[k]].priority
      BY <2>1 DEF RaisedInv
    <3>1. owner[k] \in Task /\ hold[owner[k]] = k
      BY <1>0, TokensAre, UsersAre
    <3>2. CASE k = l /\ Boosts(l)
      <4>1. wait'[cur] = l /\ waiting'[cur] /\ task'[cur].priority = task[cur].priority
        BY <1>0, <2>1, <2>2 DEF SameTask
      <4>2. task'[owner[l]].priority = task[cur].priority
        BY <2>2, <3>1, <3>2
      <4> QED
        BY <2>1, <3>2, <4>1, <4>2
    <3>3. CASE ~(k = l /\ Boosts(l))
      <4>1. SameTask(task'[owner[k]], task[owner[k]])
        BY <2>2, <2>3, <3>1, <3>3
      <4>2. PICK u \in users[k] : /\ wait[u] = k /\ waiting[u]
                                  /\ task[u].priority = task[owner[k]].priority
        BY <1>0, <4>1 DEF RaisedInv, SameTask
      <4>3. u \in Task /\ want[u] # NoLock
        BY <1>0, <4>2, UsersAre DEF UsersKnown
      <4>4. ~(Boosts(l) /\ u = owner[l])
        BY <2>1, <4>3 DEF Boosts
      <4>5. task'[u].priority = task[u].priority
        BY <2>2, <4>3, <4>4 DEF SameTask
      <4>6. wait'[u] = k /\ waiting'[u]
        <5>1. u = cur => k = l
          BY <1>0, <2>1, UsersAre
        <5> QED
          BY <2>1, <4>2, <4>3, <5>1
      <4> QED
        BY <4>1, <4>2, <4>5, <4>6 DEF SameTask
    <3> QED
      BY <3>2, <3>3
  <2> QED
    BY <2>4, <2>5
<1>5. CASE LockLeave(l)
  <2>1. /\ owner[l] = cur /\ hold[cur] = l /\ want[cur] = NoLock /\ cur \in users[l]
        /\ Woken(l) \subseteq users[l] \ {cur}
        /\ UNCHANGED <<wait, want>>
        /\ \A t \in Task : hold'[t] = IF t = cur THEN NoLock ELSE hold[t]
        /\ \A k \in Lock : owner'[k] = IF k = l THEN NoTask ELSE owner[k]
        /\ \A k \in Lock : k # l => users'[k] = users[k]
        /\ \A t \in Task : t \notin Woken(l) => waiting'[t] = waiting[t]
        /\ LeaveStep(l)
    BY <1>0, <1>5, LeaveFacts
  <2>2. \A t \in Task :
          /\ task'[t].valid = task[t].valid
          /\ IF t = cur /\ task[cur].boosted
             THEN task'[t].priority = task[t].saved /\ ~task'[t].boosted
             ELSE SameTask(task'[t], task[t])
    BY <2>1 DEF LeaveStep
  <2>3. BoostEnds'
    <3> SUFFICES ASSUME NEW t \in Task, task[t].valid
                 PROVE  IF task'[t].boosted
                        THEN /\ hold'[t] # NoLock /\ task'[t].saved = Prio[t]
                             /\ task'[t].priority > Prio[t]
                        ELSE task'[t].priority = Prio[t]
      BY <2>2 DEF BoostEnds
    <3>1. CASE t = cur /\ task[cur].boosted
      BY <1>0, <2>2, <3>1 DEF BoostEnds
    <3>2. CASE ~(t = cur /\ task[cur].boosted)
      BY <1>0, <2>1, <2>2, <3>2 DEF BoostEnds, SameTask
    <3> QED
      BY <3>1, <3>2
  <2>4. RaisedInv'
    <3> SUFFICES ASSUME NEW k \in Lock, k # l, owner[k] # NoTask, task'[owner[k]].boosted
                 PROVE  \E u \in users[k] : /\ wait[u] = k /\ waiting'[u]
                                            /\ task'[u].priority = task'[owner[k]].priority
      BY <2>1 DEF RaisedInv
    <3>1. owner[k] \in Task /\ hold[owner[k]] = k
      BY <1>0, TokensAre, UsersAre
    <3>2. SameTask(task'[owner[k]], task[owner[k]])
      BY <2>1, <2>2, <3>1
    <3>3. PICK u \in users[k] : /\ wait[u] = k /\ waiting[u]
                                /\ task[u].priority = task[owner[k]].priority
      BY <1>0, <3>2 DEF RaisedInv, SameTask
    <3>4. u \in Task /\ u # cur /\ u \notin Woken(l)
      BY <1>0, <2>1, <3>3, UsersAre
    <3> QED
      BY <2>1, <2>2, <3>2, <3>3, <3>4 DEF SameTask
  <2> QED
    BY <2>3, <2>4
<1> QED
  BY <1>1, <1>2, <1>3, <1>4, <1>5 DEF LockNext

LEMMA StepBoost == BoostInv /\ [Next]_vars => BoostInv'
<1> SUFFICES ASSUME BoostInv, [Next]_vars PROVE BoostInv'
  OBVIOUS
<1>1. WaitInv'
  BY StepWait DEF BoostInv
<1>2. CASE UNCHANGED vars
  BY <1>1, <1>2 DEF vars, schedVars, lockVars, BoostInv, BoostEnds, RaisedInv
<1>3. CASE TasksNext /\ UNCHANGED lockVars
  BY <1>1, <1>3, BoostTasksStep DEF BoostInv
<1>4. CASE \E l \in Lock : LockNext(l)
  BY <1>1, <1>4, BoostLockStep DEF BoostInv
<1> QED
  BY <1>2, <1>3, <1>4, Zenon DEF Next

(* The inductive invariant of raised priorities: only the owner of a lock  *)
(* is raised, by a waiter of lock_enter() that is still there, and so long *)
(* as it is the owner it remembers what lock_leave() is to go back to.     *)
THEOREM BoostInvariant == Spec => []BoostInv
<1> QED
  BY InitBoost, StepBoost, PTL DEF Spec

(* A raised priority ends with the lock it was raised for: a task that     *)
(* holds no lock is at the priority it was created with, one that has been *)
(* raised remembers that priority and is above it.                         *)
THEOREM BoostsEnd == Spec => []BoostEnds
<1>1. BoostInv => BoostEnds
  BY DEF BoostInv
<1> QED
  BY <1>1, BoostInvariant, PTL

----------------------------------------------------------------------------
(* A lock goes to the fastest task that wants it                           *)

LEMMA InitPriority == Init => PriorityInv
<1> SUFFICES ASSUME Init PROVE PriorityInv
  OBVIOUS
<1>1. BoostInv
  BY InitBoost
<1>2. FastestRuns /\ OwnerInherits
  BY DEF Init, FastestRuns, OwnerInherits
<1> QED
  BY <1>1, <1>2 DEF PriorityInv

(* Those that want a lock while another task takes it are not faster.      *)
LEMMA AcquireFastest ==
  ASSUME PriorityInv, NEW l \in Lock, Acquire(l), NEW u \in users[l]
  PROVE  Prio[u] <= Prio[cur]
<1>0. /\ TypeOK /\ UsersKnown /\ SafeInv /\ WaitInv /\ WaiterNeverSleeps /\ WakeInv /\ FastestRuns
      /\ cur \in Task /\ NoLock \notin Lock /\ NoTask \notin Task
      /\ \A t \in Task : task[t].priority \in Int /\ Prio[t] \in Int
      /\ \A t \in Task : want[t] # NoLock => ~task[t].boosted /\ task[t].priority = Prio[t]
  BY BoostFacts DEF PriorityInv, BoostInv, WaitInv
<1>1. owner[l] = NoTask /\ token[cur] = leave[l] /\ cur \in users[l] /\ want[cur] = l /\ mode = "run"
  BY <1>0, AcquireAwake DEF Acquire, InLockLoop
<1>2. CASE u = cur
  BY <1>0, <1>2
<1>3. CASE u # cur
  <2>1. u \in Task /\ want[u] = l /\ hold[u] = NoLock
    BY <1>0, <1>1, UsersAre, TokensAre
  <2>2. wait[u] = l
    BY <1>0, <1>3, <2>1 DEF WaiterNeverSleeps
  <2>3. task[u].priority <= task[cur].priority
    BY <1>0, <1>1, <1>3, <2>1, <2>2 DEF WakeInv, FastestRuns
  <2> QED
    BY <1>0, <1>1, <2>1, <2>3
<1> QED
  BY <1>2, <1>3

LEMMA PriorityTasksStep ==
  ASSUME PriorityInv, TasksNext, UNCHANGED lockVars
  PROVE  FastestRuns' /\ OwnerInherits'
<1>0. /\ TypeOK /\ UsersKnown /\ SafeInv /\ WaitInv /\ RunsInv /\ FastestRuns /\ OwnerInherits
      /\ NoLock \notin Lock /\ NoTask \notin Task
      /\ UNCHANGED <<owner, users, want>>
  BY BoostFacts DEF PriorityInv, BoostInv, WaitInv, lockVars
<1>1. /\ \A l \in Lock : \A t \in users[l] : t \in Task /\ task[t].valid
      /\ \A l \in Lock : owner[l] # NoTask => owner[l] \in users[l]
      /\ \A l \in Lock : \A t \in users[l] : wait[t] = l => want[t] # NoLock
  BY <1>0, UsersAre, TokensAre DEF UsersKnown
<1>2. CASE Dispatch
  <2>1. /\ \A t \in Task : SameTask(task'[t], task[t])
        /\ cur' \in Task
        /\ \A t \in Task :
             /\ task[t].valid /\ ~task[t].long_run /\ ~task'[t].stopped
             /\ noRunSame => t # cur /\ task[cur].valid /\ ~task[cur].stopped
             => task[t].priority <= task[cur'].priority
        /\ UNCHANGED <<hold, wait>>
    BY <1>0, <1>2, DispatchFields DEF Dispatch
  <2>2. FastestRuns'
    <3> SUFFICES ASSUME NEW l \in Lock, NEW t \in users[l], t # cur', wait[t] = l, ~task'[t].stopped
                 PROVE  task'[t].priority <= task'[cur'].priority
      BY <1>0, <2>1 DEF FastestRuns
    <3>1. t \in Task /\ task[t].valid /\ want[t] # NoLock
      BY <1>1
    <3>2. ~task[t].long_run /\ pc[t] = "lock"
      BY <1>0, <3>1, UsersAre DEF RunsInv
    <3>3. noRunSame => t # cur /\ task[cur].valid /\ ~task[cur].stopped
      BY <1>0, <3>2 DEF RunsInv
    <3> QED
      BY <2>1, <3>1, <3>2, <3>3 DEF SameTask
  <2>3. OwnerInherits'
    BY <1>0, <1>1, <2>1 DEF OwnerInherits, SameTask
  <2> QED
    BY <2>2, <2>3
<1>3. CASE mode = "run"
  <2>1. /\ cur' = cur /\ UNCHANGED <<hold, wait>> /\ cur \in Task
        /\ \A t \in Task : want[t] # NoLock \/ (hold[t] # NoLock /\ task[t].valid) =>
             /\ SameTask(task'[t], task[t])
             /\ want[t] # NoLock => Left(t) /\ t # cur
        /\ SameTask(task'[cur], task[cur]) \/ mode' = "sched"
    BY <1>0, <1>3, BusyIsLeft DEF TypeOK
  <2>2. FastestRuns'
    <3> SUFFICES ASSUME mode' = "run", NEW l \in Lock, NEW t \in users[l], t # cur, wait[t] = l,
                        ~task'[t].stopped
                 PROVE  task'[t].priority <= task'[cur].priority
      BY <1>0, <2>1 DEF FastestRuns
    <3>1. t \in Task /\ want[t] # NoLock /\ Left(t)
      BY <1>1, <2>1
    <3>2. ~task[t].stopped
      BY <1>0, <3>1 DEF Left, SameRest, RunsInv
    <3> QED
      BY <1>0, <1>3, <2>1, <3>1, <3>2 DEF FastestRuns, Left, SameTask
  <2>3. OwnerInherits'
    <3>1. \A l \in Lock : owner[l] # NoTask => SameTask(task'[owner[l]], task[owner[l]])
      BY <1>0, <1>1, <2>1, TokensAre
    <3> QED
      BY <1>0, <2>1, <3>1 DEF OwnerInherits, SameTask
  <2> QED
    BY <2>2, <2>3
<1>4. Dispatch \/ mode = "run"
  BY DEF TasksNext, SleepLoop, CreateTask, TaskCollect, Yield, TaskSleep,
         TaskSleepID, TaskWakeup, TaskRemove, AppRuns
<1> QED
  BY <1>2, <1>3, <1>4

(* Of a task that uses locks NextTask() never returns at once.             *)
LEMMA UsersYield ==
  ASSUME SafeInv, NEW l \in Lock, NEW t \in users[l]
  PROVE  t \notin MinRun
<1>1. t \in LockUsers[l]
  BY UsersAre
<1> QED
  BY <1>1, MinRunAssumption DEF AllLockUsers

LEMMA PriorityLockStep ==
  ASSUME PriorityInv, NEW l \in Lock, LockNext(l)
  PROVE  FastestRuns' /\ OwnerInherits'
<1>0. /\ TypeOK /\ UsersKnown /\ SafeInv /\ WaitInv /\ RunsInv /\ FastestRuns /\ OwnerInherits
      /\ BoostEnds /\ RaisedInv /\ WaiterNeverSleeps
      /\ cur \in Task /\ NoLock \notin Lock /\ NoTask \notin Task
      /\ \A t \in Task : task[t].priority \in Int /\ Prio[t] \in Int
      /\ \A t \in Task : want[t] # NoLock => ~task[t].boosted /\ task[t].priority = Prio[t]
  BY BoostFacts DEF PriorityInv, BoostInv, WaitInv
<1>a. /\ \A k \in Lock : \A t \in users[k] : t \in Task
      /\ \A k \in Lock : owner[k] # NoTask => owner[k] \in users[k] /\ hold[owner[k]] = k
      /\ \A k \in Lock : \A t \in users[k] : wait[t] = k => want[t] = k
  BY <1>0, UsersAre, TokensAre DEF UsersKnown
<1>1. CASE LockEnter(l)
  <2>1. wait[cur] = NoLock
    BY <1>0, <1>1 DEF LockEnter, AppRuns, UsersKnown
  <2>2. /\ UNCHANGED <<cur, mode, task, hold, wait, owner>>
        /\ \A k \in Lock : \A t \in users'[k] : t = cur \/ t \in users[k]
    BY <1>0, <1>1 DEF LockEnter, schedVars, TypeOK
  <2> QED
    BY <1>0, <2>1, <2>2 DEF FastestRuns, OwnerInherits
<1>2. CASE Acquire(l)
  <2>1. /\ owner[l] = NoTask /\ cur \in users[l] /\ want[cur] = l
        /\ \A u \in users[l] : Prio[u] <= Prio[cur]
    BY <1>0, <1>2, AcquireAwake, AcquireFastest
  <2>2. /\ \A t \in Task : wait'[t] = IF t = cur THEN NoLock ELSE wait[t]
        /\ \A k \in Lock : owner'[k] = IF k = l THEN cur ELSE owner[k]
        /\ UNCHANGED <<cur, mode, task, users>>
    BY <1>0, <1>2 DEF Acquire, TypeOK, schedVars
  <2>3. FastestRuns'
    BY <1>0, <1>a, <2>2 DEF FastestRuns
  <2>4. OwnerInherits'
    <3> SUFFICES ASSUME NEW k \in Lock, NEW t \in users[k],
                        owner'[k] \in Task \ NoPrioInv, wait'[t] = k, Prio[t] > Prio[owner'[k]]
                 PROVE  task[owner'[k]].boosted
      BY <2>2 DEF OwnerInherits
    <3>1. CASE k = l
      BY <1>0, <1>a, <2>1, <2>2, <3>1
    <3>2. CASE k # l
      BY <1>0, <1>a, <2>2, <3>2 DEF OwnerInherits
    <3> QED
      BY <3>1, <3>2
  <2> QED
    BY <2>3, <2>4
<1>3. CASE SwapToken(l)
  BY <1>0, <1>3 DEF SwapToken, schedVars, FastestRuns, OwnerInherits
<1>4. CASE Wait(l)
  <2>1. /\ want[cur] = l /\ cur \in users[l] /\ cur # owner[l]
        /\ UNCHANGED <<owner, users>>
        /\ \A t \in Task : wait'[t] = IF t = cur THEN l ELSE wait[t]
        /\ WaitStep(l)
    BY <1>0, <1>4, WaitFacts
  <2>2. FastestRuns'
    <3>1. mode' = "sched"
      BY <1>0, <2>1, UsersYield DEF WaitStep
    <3> QED
      BY <3>1 DEF FastestRuns
  <2>3. OwnerInherits'
    <3> SUFFICES ASSUME NEW k \in Lock, NEW t \in users[k],
                        owner[k] \in Task \ NoPrioInv, wait'[t] = k, Prio[t] > Prio[owner[k]]
                 PROVE  task'[owner[k]].boosted
      BY <2>1 DEF OwnerInherits
    <3>0. /\ t \in Task /\ owner[k] # NoTask /\ hold[owner[k]] = k
          /\ owner[k] \in users[k] /\ task[owner[k]].valid
      BY <1>0, <1>a, UsersAre
    <3>1. CASE Boosts(l) /\ owner[k] = owner[l]
      BY <2>1, <3>0, <3>1 DEF WaitStep
    <3>2. CASE ~(Boosts(l) /\ owner[k] = owner[l])
      <4>1. SameTask(task'[owner[k]], task[owner[k]])
        BY <2>1, <3>0, <3>2 DEF WaitStep
      <4>2. task[owner[k]].boosted
        <5>1. CASE t = cur
          <6> SUFFICES ASSUME ~task[owner[k]].boosted PROVE FALSE
            OBVIOUS
          <6>1. k = l
            BY <2>1, <3>0, <5>1
          <6>2. task[owner[k]].priority = Prio[owner[k]]
            BY <1>0, <3>0 DEF BoostEnds
          <6>3. task[cur].priority = Prio[cur]
            BY <1>0, <2>1
          <6> QED
            BY <3>0, <3>2, <5>1, <6>1, <6>2, <6>3 DEF Boosts
        <5>2. CASE t # cur
          BY <1>0, <2>1, <3>0, <5>2 DEF OwnerInherits
        <5> QED
          BY <5>1, <5>2
      <4> QED
        BY <4>1, <4>2 DEF SameTask
    <3> QED
      BY <3>1, <3>2
  <2> QED
    BY <2>2, <2>3
<1>5. CASE LockLeave(l)
  <2>1. /\ owner[l] = cur /\ hold[cur] = l /\ cur \in users[l] /\ mode = "run"
        /\ want[cur] = NoLock
        /\ \A t \in users[l] \ {cur} : t \in Woken(l) <=> waiting[t]
        /\ Woken(l) \subseteq users[l] \ {cur}
        /\ UNCHANGED <<cur, wait>>
        /\ \A k \in Lock : owner'[k] = IF k = l THEN NoTask ELSE owner[k]
        /\ \A k \in Lock : \A t \in users'[k] : t \in users[k] /\ (k = l => t # cur)
        /\ LeaveStep(l)
    BY <1>0, <1>5, LeaveFacts
  <2>2. \A t \in Task :
          /\ IF t = cur /\ task[cur].boosted
             THEN task'[t].priority = task[t].saved /\ ~task'[t].boosted
             ELSE SameTask(task'[t], task[t])
          /\ t \notin Woken(l) /\ t # cur => SameRest(task'[t], task[t])
    BY <2>1 DEF LeaveStep
  <2>3. FastestRuns'
    <3> SUFFICES ASSUME mode' = "run", NEW k \in Lock, NEW t \in users'[k], t # cur, wait[t] = k,
                        ~task'[t].stopped
                 PROVE  task'[t].priority <= task'[cur].priority
      BY <2>1 DEF FastestRuns
    <3>1. \A u \in Woken(l) : task[u].priority <= task'[cur].priority
      BY <1>0, <2>1, UsersYield DEF LeaveStep
    <3>2. t \in Task /\ t \in users[k] /\ task'[t].priority = task[t].priority
      BY <1>a, <2>1, <2>2 DEF SameTask
    <3>3. ~task[cur].boosted
      <4> SUFFICES ASSUME task[cur].boosted PROVE FALSE
        OBVIOUS
      <4>1. PICK u \in users[l] : /\ wait[u] = l /\ waiting[u]
                                  /\ task[u].priority = task[cur].priority
        BY <1>0, <2>1 DEF RaisedInv
      <4>2. u # cur /\ u \in Task
        BY <1>0, <1>a, <2>1, <4>1
      <4>3. u \in Woken(l)
        BY <2>1, <4>1, <4>2
      <4>4. task'[cur].priority = Prio[cur] /\ task[cur].priority > Prio[cur]
        BY <1>0, <2>1, <2>2, UsersAre DEF BoostEnds
      <4> QED
        BY <1>0, <3>1, <4>1, <4>2, <4>3, <4>4
    <3>4. task'[cur].priority = task[cur].priority
      BY <1>0, <2>2, <3>3 DEF SameTask
    <3>5. CASE t \in Woken(l)
      BY <3>1, <3>2, <3>5
    <3>6. CASE t \notin Woken(l)
      <4>1. ~task[t].stopped
        BY <2>2, <3>2, <3>6 DEF SameRest
      <4> QED
        BY <1>0, <2>1, <3>2, <3>4, <4>1 DEF FastestRuns
    <3> QED
      BY <3>5, <3>6
  <2>4. OwnerInherits'
    <3> SUFFICES ASSUME NEW k \in Lock, NEW t \in users'[k],
                        owner'[k] \in Task \ NoPrioInv, wait[t] = k, Prio[t] > Prio[owner'[k]]
                 PROVE  task'[owner'[k]].boosted
      BY <2>1 DEF OwnerInherits
    <3>1. k # l /\ owner'[k] = owner[k] /\ t \in users[k]
      BY <1>0, <2>1
    <3>2. owner[k] # cur
      BY <1>a, <2>1, <3>1, <1>0
    <3>3. task[owner[k]].boosted
      BY <1>0, <3>1 DEF OwnerInherits
    <3> QED
      BY <2>2, <3>1, <3>2, <3>3 DEF SameTask
  <2> QED
    BY <2>3, <2>4
<1> QED
  BY <1>1, <1>2, <1>3, <1>4, <1>5 DEF LockNext

LEMMA StepPriority == PriorityInv /\ [Next]_vars => PriorityInv'
<1> SUFFICES ASSUME PriorityInv, [Next]_vars PROVE PriorityInv'
  OBVIOUS
<1>1. BoostInv'
  BY StepBoost DEF PriorityInv
<1>2. CASE UNCHANGED vars
  BY <1>1, <1>2 DEF vars, schedVars, lockVars, PriorityInv, FastestRuns, OwnerInherits
<1>3. CASE TasksNext /\ UNCHANGED lockVars
  BY <1>1, <1>3, PriorityTasksStep DEF PriorityInv
<1>4. CASE \E l \in Lock : LockNext(l)
  BY <1>1, <1>4, PriorityLockStep DEF PriorityInv
<1> QED
  BY <1>2, <1>3, <1>4, Zenon DEF Next

(* The inductive invariant of the order of priorities: when somebody runs, *)
(* no faster task is ready to go on in lock_enter(), and the owner of a    *)
(* lock is at the priority of those it makes wait.                         *)
THEOREM PriorityInvariant == Spec => []PriorityInv
<1> QED
  BY InitPriority, StepPriority, PTL DEF Spec

(* No priority inversion goes unnoticed: the owner of a lock that a faster *)
(* task waits for has been raised, unless it was created with              *)
(* CTF_NO_PRIO_INV.                                                        *)
THEOREM OwnersInherit == Spec => []OwnerInherits
<1>1. PriorityInv => OwnerInherits
  BY DEF PriorityInv
<1> QED
  BY <1>1, PriorityInvariant, PTL

(* A step of the coroutines is a step of PriorityLock, or leaves owners    *)
(* and waiters alone.                                                      *)
LEMMA StepImplements == PriorityInv /\ [Next]_vars => [PL!Next]_(PL!vars)
<1> SUFFICES ASSUME PriorityInv, [Next]_vars PROVE [PL!Next]_(PL!vars)
  OBVIOUS
<1> DEFINE waiters == [l \in Lock |-> users[l] \ {owner[l]}]
<1>0. /\ TypeOK /\ UsersKnown /\ SafeInv /\ WaitInv
      /\ cur \in Task /\ NoLock \notin Lock /\ NoTask \notin Task
      /\ owner \in [Lock -> Task \cup {NoTask}] /\ users \in [Lock -> SUBSET Task]
  BY BoostFacts DEF PriorityInv, BoostInv, TypeOK
<1>1. CASE UNCHANGED <<owner, users>>
  BY <1>1 DEF PL!vars
<1>2. ASSUME NEW l \in Lock, LockEnter(l) PROVE PL!Request(cur, l)
  <2>1. \A k \in Lock : cur \notin users[k]
    BY <1>0, <1>2, UsersAre DEF LockEnter, AppRuns, UsersKnown
  <2>2. owner[l] # cur
    BY <1>0, <2>1, TokensAre
  <2>3. UNCHANGED owner /\ users' = [users EXCEPT ![l] = @ \cup {cur}]
    BY <1>2 DEF LockEnter
  <2>4. waiters' = [waiters EXCEPT ![l] = @ \cup {cur}]
    BY <1>0, <2>2, <2>3
  <2> QED
    BY <2>1, <2>2, <2>3, <2>4 DEF PL!Request
<1>3. ASSUME NEW l \in Lock, Acquire(l) PROVE PL!Grant(cur, l)
  <2>1. owner[l] = NoTask /\ cur \in users[l]
    BY <1>0, <1>3, AcquireAwake
  <2>2. \A u \in users[l] : Prio[u] <= Prio[cur]
    BY <1>3, AcquireFastest
  <2>3. UNCHANGED users /\ owner' = [owner EXCEPT ![l] = cur]
    BY <1>3 DEF Acquire
  <2>4. waiters' = [waiters EXCEPT ![l] = @ \ {cur}]
    <3>1. owner'[l] = cur /\ \A k \in Lock \ {l} : owner'[k] = owner[k]
      BY <1>0, <2>3
    <3>2. users[l] \ {owner[l]} = users[l]
      BY <1>0, <2>1
    <3>3. waiters' = [k \in Lock |-> users[k] \ {owner'[k]}]
      BY <2>3, Zenon
    <3>4. \A k \in Lock : users[k] \ {owner'[k]} = IF k = l THEN waiters[l] \ {cur} ELSE waiters[k]
      BY <3>1, <3>2
    <3> HIDE DEF waiters
    <3>5. waiters \in [Lock -> SUBSET Task]
      BY <1>0 DEF waiters
    <3> QED
      BY <3>3, <3>4, <3>5
  <2>5. cur \in waiters[l] /\ \A u \in waiters[l] : Prio[u] <= Prio[cur]
    BY <1>0, <2>1, <2>2
  <2> QED
    BY <2>1, <2>3, <2>4, <2>5 DEF PL!Grant
<1>4. ASSUME NEW l \in Lock, LockLeave(l) PROVE PL!Release(cur, l)
  <2>1. owner[l] = cur
    BY <1>0, <1>4, LeaveFacts
  <2>2. /\ users' = [users EXCEPT ![l] = @ \ {cur}]
        /\ owner' = [owner EXCEPT ![l] = NoTask]
    BY <1>4, Zenon DEF LockLeave
  <2>3. waiters' = waiters
    BY <1>0, <2>1, <2>2
  <2> QED
    BY <2>1, <2>2, <2>3 DEF PL!Release
<1>5. CASE TasksNext /\ UNCHANGED lockVars
  BY <1>1, <1>5 DEF lockVars
<1>6. CASE \E l \in Lock : LockNext(l)
  <2>1. PICK l \in Lock : LockNext(l)
    BY <1>6
  <2>2. CASE SwapToken(l) \/ Wait(l)
    BY <1>1, <2>2 DEF SwapToken, Wait
  <2>3. CASE LockEnter(l) \/ Acquire(l) \/ LockLeave(l)
    BY <1>0, <1>2, <1>3, <1>4, <2>3, Zenon DEF PL!Next
  <2> QED
    BY <2>1, <2>2, <2>3 DEF LockNext
<1>7. CASE UNCHANGED vars
  BY <1>1, <1>7 DEF vars, lockVars
<1> QED
  BY <1>5, <1>6, <1>7, Zenon DEF Next

(* The locks implement PriorityLock: tokens, swaps, raised priorities and  *)
(* the order of wakeups amount to handing a free lock to a task that wants *)
(* it and that no faster task wants it with.                               *)
THEOREM LocksImplementPriorityLock == Spec => ImplementsPriorityLock
<1>1. Init => PL!Init
  BY DEF Init, PL!Init
<1>2. PriorityInv /\ [Next]_vars => [PL!Next]_(PL!vars)
  BY StepImplements
<1> QED
  BY <1>1, <1>2, PriorityInvariant, PTL DEF Spec, ImplementsPriorityLock, PL!Spec
=============================================================================
