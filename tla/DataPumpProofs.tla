--------------------------- MODULE DataPumpProofs ---------------------------
(***************************************************************************)
(* Proofs about modules Spi and DataPump, for any number of tasks.         *)
(***************************************************************************)
EXTENDS DataPump, DataLemmas

-----------------------------------------------------------------------------
(* The inductive invariant of the transport                                *)

\* The task that has the lock is the one that transfers; the others that want
\* it are in the queue, each once.
LockInv ==
  /\ \A t \in Task : pc[t] \in {"send", "sent"} <=> owner = t
  /\ \A t \in Task : pc[t] = "lock" <=> \E i \in 1 .. Len(waiting) : waiting[i] = t
  /\ \A i, j \in 1 .. Len(waiting) : waiting[i] = waiting[j] => i = j

\* The reply to the last command that the eCPU has accepted goes to prev:
\* whoever has sent the command waits for it, or collects it itself.
PrevInv ==
  prev # "junk" =>
    IF buf[prev] = "BUSY"
    THEN /\ op[prev].cmd = ecpu.last
         /\ pc[prev] = "busy" \/ (owner = prev /\ scan[prev] = 2 /\ Gets(prev))
    ELSE owner # "nobody" /\ pc[owner] = "sent"

\* Whoever waits has no reply yet, or its own.
BusyInv ==
  \A t \in Task : pc[t] = "busy" =>
    /\ op[t].kind = "get" /\ buf[t] \in {"BUSY", op[t].cmd}
    /\ buf[t] = "BUSY" => prev = t

\* Once the request is accepted, the eCPU has the command.
SentInv ==
  \A t \in Task : pc[t] = "sent" /\ buf[prev] # "BUSY" =>
    /\ ecpu.last = Mosi(t)
    /\ Miso(t) = t => prev # t /\ buf[t] = "BUSY"

\* The second scan is for the reply to the first.
ScanInv ==
  \A t \in Task : scan[t] = 2 =>
    /\ owner = t
    /\ Gets(t) => prev = t /\ buf[t] \in {"BUSY", op[t].cmd}

SpiInv ==
  /\ SpiTypeOK /\ LockInv /\ PrevInv /\ BusyInv /\ SentInv /\ ScanInv /\ ReplyIsMine

-----------------------------------------------------------------------------
(* The inductive invariant of the data pump                                *)

\* The commands that start and stop the eCPU, and where they come from.
On(t) == op[t].cmd = "on"
Off(t) == op[t].cmd = "off"

CommandInv(t) ==
  /\ On(t) \/ Off(t) => op[t].kind = "set" /\ ~Idle(t)
  /\ t \in Sound =>
       /\ On(t) => step[t] = "started"
       /\ Off(t) => step[t] = "stop"
       /\ step[t] = "started" /\ ~Idle(t) => On(t)
       /\ step[t] = "stop" /\ ~Idle(t) => Off(t)
       /\ step[t] \in {"start", "started"} => chan_enabled[t]
       /\ step[t] = "" => Idle(t)
       /\ step[t] \in {"", "stop", "stopped", "start", "started"}
  /\ t = Itask => /\ On(t) => step[t] = "reset"
                  /\ Off(t) => step[t] = "clear"
  /\ t \notin Sound \cup {Itask} => ~On(t) /\ ~Off(t)

\* What the eCPU has been told last is what it does.
SampsInv == (ecpu.last = "on" => samps) /\ (ecpu.last = "off" => ~samps)

\* u has or gets the lock before t.
Before(u, t) ==
  \/ owner = u
  \/ \E i, j \in 1 .. Len(waiting) : i < j /\ waiting[i] = u /\ waiting[j] = t

\* While there are users, a command that stops the eCPU comes before those of
\* a task that starts it, and something starts it if it is not running.
StartsInv ==
  itask_run =>
    /\ \/ samps
       \/ \E t \in Sound : step[t] = "start" \/ On(t)
    /\ \A u \in Task : Off(u) =>
         \E t \in Sound : step[t] = "start" /\ pc[t] = "lock" /\ Before(u, t)

\* While there are none, something stops it if it is running.
StopsInv ==
  ~itask_run /\ samps => (\E u \in Task : Off(u)) \/ step[Itask] = "reset"

IInv ==
  /\ TypeOK /\ SpiInv
  /\ itask_run = Users
  /\ \A t \in Task : CommandInv(t)
  /\ SampsInv /\ StartsInv /\ StopsInv

-----------------------------------------------------------------------------
(* The transport *)

LEMMA SpiConstants ==
  /\ "junk" \notin Task /\ "nobody" \notin Task
  /\ "BUSY" \notin Sent /\ "nothing" \notin Sent /\ "flush" \in Sent
BY SpiAssumption DEF Sent

\* The queue without the i-th.
Rest(i) == RemoveAt(waiting, i)

(* A task of the queue leaves it, the others keep their order. *)
LEMMA QueueWithout ==
  ASSUME SpiInv, NEW i \in 1 .. Len(waiting)
  PROVE  /\ Rest(i) \in Seq(Task)
         /\ \A j, k \in 1 .. Len(Rest(i)) : Rest(i)[j] = Rest(i)[k] => j = k
         /\ \A u \in Task : (\E j \in 1 .. Len(Rest(i)) : Rest(i)[j] = u)
                     <=> u # waiting[i] /\ \E j \in 1 .. Len(waiting) : waiting[j] = u
         /\ \A j, k \in 1 .. Len(waiting) : j < k /\ j # i /\ k # i =>
              \E l, m \in 1 .. Len(Rest(i)) : l < m /\ Rest(i)[l] = waiting[j] /\ Rest(i)[m] = waiting[k]
<1>0. waiting \in Seq(Task) /\ Len(waiting) \in Nat
  BY LenProperties DEF SpiInv, SpiTypeOK
<1>1. Rest(i) \in Seq(Task) /\ Len(Rest(i)) = Len(waiting) - 1
  BY <1>0, RemoveAtProperties DEF Rest
<1>2. PICK from : /\ from \in [1 .. Len(Rest(i)) -> (1 .. Len(waiting)) \ {i}]
                  /\ \A j \in 1 .. Len(Rest(i)) : Rest(i)[j] = waiting[from[j]]
                  /\ \A j, k \in 1 .. Len(Rest(i)) : j < k => from[j] < from[k]
                  /\ \A p \in (1 .. Len(waiting)) \ {i} : \E j \in 1 .. Len(Rest(i)) : from[j] = p
  <2>1. PICK from : From(from, waiting, i)
    BY <1>0, RemoveAtFrom
  <2> QED
    BY <2>1, Zenon DEF From, Rest
<1>3. \A j, k \in 1 .. Len(waiting) : waiting[j] = waiting[k] => j = k
  BY DEF SpiInv, LockInv
<1>4. \A j, k \in 1 .. Len(Rest(i)) : Rest(i)[j] = Rest(i)[k] => j = k
  <2> SUFFICES ASSUME NEW j \in 1 .. Len(Rest(i)), NEW k \in 1 .. Len(Rest(i)), Rest(i)[j] = Rest(i)[k]
               PROVE  j = k
    OBVIOUS
  <2>1. from[j] = from[k]
    <3>1. /\ from[j] \in 1 .. Len(waiting) /\ from[k] \in 1 .. Len(waiting)
          /\ waiting[from[j]] = waiting[from[k]]
      BY <1>2
    <3> QED
      BY <1>3, <3>1
  <2>2. j \in Int /\ k \in Int /\ from[j] \in Int
    <3>1. from[j] \in 1 .. Len(waiting)
      BY <1>2
    <3> QED
      BY <1>0, <1>1, <3>1
  <2>3. ~ (j < k) /\ ~ (k < j)
    <3>1. \A a, b \in 1 .. Len(Rest(i)) : a < b => from[a] < from[b]
      BY <1>2
    <3> QED
      BY <2>1, <2>2, <3>1
  <2> QED
    BY <2>2, <2>3
<1>5. ASSUME NEW u \in Task
      PROVE  (\E j \in 1 .. Len(Rest(i)) : Rest(i)[j] = u)
               <=> u # waiting[i] /\ \E j \in 1 .. Len(waiting) : waiting[j] = u
  <2>1. ASSUME NEW j \in 1 .. Len(Rest(i)), Rest(i)[j] = u
        PROVE  u # waiting[i] /\ \E p \in 1 .. Len(waiting) : waiting[p] = u
    <3>1. from[j] \in 1 .. Len(waiting) /\ from[j] # i /\ waiting[from[j]] = u
      BY <1>2, <2>1
    <3> QED
      BY <1>3, <3>1
  <2>2. ASSUME NEW p \in 1 .. Len(waiting), waiting[p] = u, u # waiting[i]
        PROVE  \E j \in 1 .. Len(Rest(i)) : Rest(i)[j] = u
    <3>1. p \in (1 .. Len(waiting)) \ {i}
      BY <2>2
    <3>2. PICK j \in 1 .. Len(Rest(i)) : from[j] = p
      BY <1>2, <3>1
    <3> QED
      BY <1>2, <2>2, <3>2
  <2> QED
    BY <2>1, <2>2
<1>6. ASSUME NEW j \in 1 .. Len(waiting), NEW k \in 1 .. Len(waiting), j < k, j # i, k # i
      PROVE  \E l, m \in 1 .. Len(Rest(i)) : l < m /\ Rest(i)[l] = waiting[j] /\ Rest(i)[m] = waiting[k]
  <2>1. PICK l \in 1 .. Len(Rest(i)), m \in 1 .. Len(Rest(i)) : from[l] = j /\ from[m] = k
    BY <1>2, <1>6
  <2>2. l < m
    <3>1. l \in Int /\ m \in Int /\ from[l] < from[m]
      BY <1>6, <2>1
    <3>2. l # m /\ ~ (m < l)
      <4>1. \A a, b \in 1 .. Len(Rest(i)) : a < b => from[a] < from[b]
        BY <1>2
      <4>2. from[l] \in Int /\ from[m] \in Int
        BY <2>1
      <4> QED
        BY <3>1, <4>1, <4>2
    <3> QED
      BY <3>1, <3>2
  <2> QED
    BY <1>2, <2>1, <2>2
<1> QED
  BY <1>1, <1>4, <1>5, <1>6

LEMMA CallInv ==
  ASSUME SpiInv, NEW t \in Task, NEW kind \in Kind, NEW cmd \in Sent, Call(t, kind, cmd)
  PROVE  SpiInv'
<1>0. /\ pc[t] = "idle" /\ op' = [op EXCEPT ![t] = [kind |-> kind, cmd |-> cmd]]
      /\ pc' = [pc EXCEPT ![t] = "lock"] /\ waiting' = Append(waiting, t)
      /\ UNCHANGED <<scan, owner, prev, buf, ecpu>>
  BY DEF Call, Idle, Queued
<1>1. SpiTypeOK
  BY DEF SpiInv
<1>2. waiting \in Seq(Task) /\ Len(waiting) \in Nat
  BY <1>1, LenProperties DEF SpiTypeOK
<1>3. /\ waiting' \in Seq(Task) /\ Len(waiting') = Len(waiting) + 1
      /\ \A i \in 1 .. Len(waiting) : waiting'[i] = waiting[i]
      /\ waiting'[Len(waiting) + 1] = t
  BY <1>0, <1>2, AppendProperties
<1>4. \A i \in 1 .. Len(waiting') : i \in 1 .. Len(waiting) \/ i = Len(waiting) + 1
  BY <1>2, <1>3
<1>5. \A u \in Task : u # t => op'[u] = op[u] /\ pc'[u] = pc[u]
  BY <1>0, <1>1 DEF SpiTypeOK
<1>6. pc'[t] = "lock" /\ op'[t] = [kind |-> kind, cmd |-> cmd]
  BY <1>0, <1>1 DEF SpiTypeOK
<1>7. owner # t /\ scan[t] = 1
  BY <1>0, <1>1 DEF SpiInv, LockInv, ScanInv, SpiTypeOK
<1>8. SpiTypeOK'
  <2>1. op' \in [Task -> [kind : Kind, cmd : Sent]] /\ pc' \in [Task -> {"idle", "lock", "send", "sent", "busy"}]
    BY <1>0, <1>1 DEF SpiTypeOK
  <2>2. \A u \in Task : scan[u] = 2 => op'[u].kind \in {"set_noduplex", "get_noduplex"}
    BY <1>1, <1>5, <1>7 DEF SpiTypeOK
  <2> QED
    BY <1>0, <1>1, <1>3, <2>1, <2>2 DEF SpiTypeOK
<1>9. LockInv'
  <2>1. \A u \in Task : pc'[u] \in {"send", "sent"} <=> owner' = u
    BY <1>0, <1>5, <1>6, <1>7 DEF SpiInv, LockInv
  <2>2. \A i \in 1 .. Len(waiting) : waiting[i] # t
    BY <1>0 DEF SpiInv, LockInv
  <2>3. ASSUME NEW u \in Task
        PROVE  pc'[u] = "lock" <=> \E i \in 1 .. Len(waiting') : waiting'[i] = u
    <3>1. Len(waiting) + 1 \in 1 .. Len(waiting') /\ \A i \in 1 .. Len(waiting) : i \in 1 .. Len(waiting')
      BY <1>2, <1>3
    <3>2. CASE u = t
      BY <1>3, <1>6, <3>1, <3>2
    <3>3. CASE u # t
      BY <1>3, <1>4, <1>5, <3>1, <3>3 DEF SpiInv, LockInv
    <3> QED
      BY <3>2, <3>3
  <2>4. \A i, j \in 1 .. Len(waiting') : waiting'[i] = waiting'[j] => i = j
    BY <1>3, <1>4, <2>2 DEF SpiInv, LockInv
  <2> QED
    BY <2>1, <2>3, <2>4 DEF LockInv
<1>10. PrevInv'
  <2>1. CASE prev = t
    BY <1>0, <1>5, <1>7, <2>1 DEF SpiInv, PrevInv, LockInv
  <2>2. CASE prev # t /\ prev # "junk"
    <3>1. prev \in Task
      BY <1>1, <2>2 DEF SpiTypeOK, Buffer
    <3> QED
      BY <1>0, <1>1, <1>5, <1>7, <2>2, <3>1 DEF SpiInv, PrevInv, Gets, SpiTypeOK
  <2> QED
    BY <1>0, <2>1, <2>2 DEF PrevInv
<1>11. BusyInv'
  BY <1>0, <1>5, <1>6 DEF SpiInv, BusyInv
<1>12. SentInv'
  BY <1>0, <1>5, <1>6 DEF SpiInv, SentInv, Mosi, Miso, Gets
<1>13. ScanInv'
  BY <1>0, <1>5, <1>7 DEF SpiInv, ScanInv, Gets
<1>14. ReplyIsMine'
  BY <1>0, <1>5, <1>6 DEF SpiInv, ReplyIsMine, Idle, Gets
<1> QED
  BY <1>8, <1>9, <1>10, <1>11, <1>12, <1>13, <1>14 DEF SpiInv

LEMMA EnterInv ==
  ASSUME SpiInv, NEW t \in Task, Enter(t)
  PROVE  SpiInv'
<1>0. PICK i \in 1 .. Len(waiting) :
        /\ owner = "nobody" /\ waiting[i] = t /\ waiting' = RemoveAt(waiting, i)
        /\ owner' = t /\ pc' = [pc EXCEPT ![t] = "send"]
        /\ UNCHANGED <<op, scan, prev, buf, ecpu>>
  <2>1. DOMAIN waiting = 1 .. Len(waiting)
    BY LenProperties DEF SpiInv, SpiTypeOK
  <2> QED
    BY <2>1 DEF Enter
<1>1. SpiTypeOK /\ t # "nobody"
  BY SpiConstants DEF SpiInv
<1>2. /\ waiting' \in Seq(Task)
      /\ \A j, k \in 1 .. Len(waiting') : waiting'[j] = waiting'[k] => j = k
      /\ \A u \in Task : (\E j \in 1 .. Len(waiting') : waiting'[j] = u)
                  <=> u # t /\ \E j \in 1 .. Len(waiting) : waiting[j] = u
  <2>1. /\ Rest(i) \in Seq(Task)
        /\ \A j, k \in 1 .. Len(Rest(i)) : Rest(i)[j] = Rest(i)[k] => j = k
        /\ \A u \in Task : (\E j \in 1 .. Len(Rest(i)) : Rest(i)[j] = u)
                             <=> u # waiting[i] /\ \E j \in 1 .. Len(waiting) : waiting[j] = u
    BY QueueWithout, Zenon
  <2>2. waiting' = Rest(i) /\ waiting[i] = t
    BY <1>0 DEF Rest
  <2> QED
    BY <2>1, <2>2, Zenon
<1>3. /\ pc[t] = "lock" /\ pc'[t] = "send"
      /\ \A u \in Task : u # t => pc'[u] = pc[u]
  BY <1>0, <1>1 DEF SpiInv, LockInv, SpiTypeOK
<1>4. SpiTypeOK'
  BY <1>0, <1>1, <1>2 DEF SpiTypeOK
<1>5. LockInv'
  <2>1. \A u \in Task : pc'[u] \in {"send", "sent"} <=> owner' = u
    BY <1>0, <1>3, SpiConstants DEF SpiInv, LockInv
  <2>2. ASSUME NEW u \in Task
        PROVE  pc'[u] = "lock" <=> \E j \in 1 .. Len(waiting') : waiting'[j] = u
    <3>1. CASE u = t
      BY <1>2, <1>3, <3>1
    <3>2. CASE u # t
      BY <1>2, <1>3, <3>2 DEF SpiInv, LockInv
    <3> QED
      BY <3>1, <3>2
  <2> QED
    BY <1>2, <2>1, <2>2 DEF LockInv
<1>6. \A u \in Task : scan[u] # 2
  BY <1>0, SpiConstants DEF SpiInv, ScanInv
<1>7. PrevInv'
  <2>1. prev # "junk" => buf[prev] = "BUSY" /\ prev \in Task /\ op[prev].cmd = ecpu.last /\ pc[prev] = "busy"
    BY <1>0, <1>1, SpiConstants DEF SpiInv, PrevInv, SpiTypeOK, Buffer
  <2> QED
    BY <1>0, <1>3, <2>1 DEF PrevInv
<1>8. BusyInv' /\ SentInv' /\ ScanInv' /\ ReplyIsMine'
  BY <1>0, <1>3, <1>6 DEF SpiInv, BusyInv, SentInv, ScanInv, ReplyIsMine, Mosi, Miso, Gets, Idle
<1> QED
  BY <1>4, <1>5, <1>7, <1>8 DEF SpiInv

(* A transfer brings the reply to the command before, to whoever has sent it. *)
LEMMA TransferInv ==
  ASSUME SpiInv, NEW t \in Task, Transfer(t)
  PROVE  SpiInv'
<1> DEFINE mine == Miso(t)
<1>0. /\ pc[t] = "send" /\ pc' = [pc EXCEPT ![t] = "sent"]
      /\ buf' = IF ecpu.ready
                THEN [buf EXCEPT ![mine] = "BUSY", ![prev] = Reply(prev)]
                ELSE [buf EXCEPT ![mine] = "BUSY", ![prev] = "BUSY"]
      /\ ecpu' = IF ecpu.ready THEN [ready |-> FALSE, last |-> Mosi(t)] ELSE ecpu
      /\ UNCHANGED <<op, scan, owner, waiting, prev>>
  <2>1. [[buf EXCEPT ![mine] = "BUSY", ![prev] = "BUSY"] EXCEPT ![prev] = Reply(prev)]
          = [buf EXCEPT ![mine] = "BUSY", ![prev] = Reply(prev)]
    OBVIOUS
  <2> QED
    BY <2>1 DEF Transfer
<1>1. SpiTypeOK /\ "junk" \notin Task /\ "BUSY" \notin Sent
  BY SpiConstants DEF SpiInv
<1>2. owner = t /\ t # "nobody" /\ t # "junk"
  BY <1>0, SpiConstants DEF SpiInv, LockInv
<1>3. \A u \in Task : u # t => pc'[u] = pc[u] /\ pc[u] \notin {"send", "sent"}
  BY <1>0, <1>1, <1>2 DEF SpiInv, LockInv, SpiTypeOK
<1>4. pc'[t] = "sent"
  BY <1>0, <1>1 DEF SpiTypeOK
<1>5. prev # "junk" => /\ prev \in Task /\ buf[prev] = "BUSY" /\ op[prev].cmd = ecpu.last
                       /\ pc[prev] = "busy" \/ (prev = t /\ scan[t] = 2 /\ Gets(t))
  BY <1>0, <1>1, <1>2 DEF SpiInv, PrevInv, SpiTypeOK, Buffer
<1>6. mine \in {t, "junk"} /\ (mine = t => prev # t /\ scan[t] = 1 /\ Gets(t))
  BY <1>0, <1>2, <1>5 DEF Miso
<1>7. mine \in Buffer /\ prev \in Buffer
  BY <1>1, <1>6 DEF Buffer, SpiTypeOK
<1>8. Mosi(t) \in Sent
  BY <1>1, SpiConstants DEF Mosi, SpiTypeOK
<1>9. Reply(prev) \in Sent \cup {"nothing"} /\ (prev # "junk" => Reply(prev) = op[prev].cmd)
  BY <1>1, <1>5 DEF Reply, SpiTypeOK
<1> HIDE DEF mine
<1>10. /\ buf' \in [Buffer -> Sent \cup {"BUSY", "nothing"}]
       /\ \A b \in Buffer : b # mine /\ b # prev => buf'[b] = buf[b]
       /\ mine # prev => buf'[mine] = "BUSY"
       /\ buf'[prev] = IF ecpu.ready THEN Reply(prev) ELSE "BUSY"
  BY <1>0, <1>1, <1>7, <1>9 DEF SpiTypeOK
<1>11. SpiTypeOK'
  <2>1. ecpu' \in [ready : BOOLEAN, last : Sent \cup {"nothing"}]
    BY <1>0, <1>1, <1>8 DEF SpiTypeOK
  <2> QED
    BY <1>0, <1>1, <1>10, <2>1 DEF SpiTypeOK
<1>12. LockInv'
  BY <1>0, <1>2, <1>3, <1>4 DEF SpiInv, LockInv
<1>13. PrevInv'
  <2>1. CASE ecpu.ready
    BY <1>0, <1>2, <1>4, <1>9, <1>10, <2>1, SpiConstants DEF PrevInv
  <2>2. CASE ~ecpu.ready
    BY <1>0, <1>2, <1>3, <1>5, <1>10, <2>2 DEF PrevInv, Gets
  <2> QED
    BY <2>1, <2>2
<1>14. BusyInv'
  <2>1. ASSUME NEW u \in Task, pc'[u] = "busy"
        PROVE  /\ op[u].kind = "get" /\ buf'[u] \in {"BUSY", op[u].cmd}
               /\ buf'[u] = "BUSY" => prev = u
    <3>1. u # t /\ pc[u] = "busy" /\ u # mine
      BY <1>1, <1>3, <1>4, <1>6, <2>1
    <3>2. CASE u = prev
      BY <1>1, <1>9, <1>10, <3>1, <3>2 DEF SpiInv, BusyInv
    <3>3. CASE u # prev
      BY <1>10, <3>1, <3>3 DEF SpiInv, BusyInv, Buffer
    <3> QED
      BY <3>2, <3>3
  <2> QED
    BY <1>0, <2>1 DEF BusyInv
<1>15. SentInv'
  <2>1. ASSUME NEW u \in Task, pc'[u] = "sent", buf'[prev] # "BUSY"
        PROVE  ecpu'.last = Mosi(u) /\ (Miso(u) = u => prev # u /\ buf'[u] = "BUSY")
    <3>1. u = t /\ ecpu.ready
      BY <1>3, <1>10, <2>1
    <3> QED
      BY <1>0, <1>6, <1>10, <3>1 DEF mine
  <2> QED
    BY <1>0, <2>1 DEF SentInv, Mosi, Miso, Gets
<1>16. ScanInv'
  <2>1. ASSUME NEW u \in Task, scan[u] = 2
        PROVE  u = t /\ (Gets(t) => prev = t /\ buf'[t] \in {"BUSY", op[t].cmd})
    BY <1>1, <1>2, <1>9, <1>10, <2>1 DEF SpiInv, ScanInv
  <2> QED
    BY <1>0, <1>2, <2>1 DEF ScanInv, Gets
<1>17. ReplyIsMine'
  <2>1. ASSUME NEW u \in Task, pc'[u] = "idle", Gets(u) PROVE buf'[u] = op[u].cmd
    <3>1. u # t /\ pc[u] = "idle" /\ u # prev /\ u # mine
      BY <1>1, <1>3, <1>4, <1>5, <1>6, <2>1
    <3> QED
      BY <1>10, <2>1, <3>1 DEF SpiInv, ReplyIsMine, Idle, Buffer
  <2> QED
    BY <1>0, <2>1 DEF ReplyIsMine, Idle, Gets
<1> QED
  BY <1>11, <1>12, <1>13, <1>14, <1>15, <1>16, <1>17 DEF SpiInv

LEMMA RetryInv ==
  ASSUME SpiInv, NEW t \in Task, Retry(t)
  PROVE  SpiInv'
<1>0. /\ pc[t] = "sent" /\ buf[prev] = "BUSY" /\ pc' = [pc EXCEPT ![t] = "send"]
      /\ UNCHANGED <<op, scan, owner, waiting, prev, buf, ecpu>>
  BY DEF Retry
<1>1. SpiTypeOK
  BY DEF SpiInv
<1>2. pc'[t] = "send" /\ \A u \in Task : u # t => pc'[u] = pc[u]
  BY <1>0, <1>1 DEF SpiTypeOK
<1>3. SpiTypeOK'
  BY <1>0, <1>1 DEF SpiTypeOK
<1>4. LockInv'
  BY <1>0, <1>2 DEF SpiInv, LockInv
<1>5. PrevInv'
  BY <1>0, <1>1, <1>2 DEF SpiInv, PrevInv, SpiTypeOK, Buffer, Gets
<1>6. BusyInv' /\ SentInv' /\ ScanInv' /\ ReplyIsMine'
  BY <1>0, <1>2 DEF SpiInv, BusyInv, SentInv, ScanInv, ReplyIsMine, Mosi, Miso, Gets, Idle
<1> QED
  BY <1>3, <1>4, <1>5, <1>6 DEF SpiInv

(* Once the request is accepted, the next reply is for this task, which waits *)
(* for it, collects it with a second scan, or does not want it.               *)
LEMMA AcceptedInv ==
  ASSUME SpiInv, NEW t \in Task, Accepted(t)
  PROVE  SpiInv'
<1>0. /\ pc[t] = "sent" /\ buf[prev] # "BUSY" /\ prev' = Miso(t)
      /\ UNCHANGED <<waiting, buf, ecpu>>
  BY DEF Accepted, NewPrev
<1>1. SpiTypeOK /\ "junk" \notin Task /\ "nobody" \notin Task
  BY SpiConstants DEF SpiInv
<1>2. owner = t
  BY <1>0 DEF SpiInv, LockInv
<1>3. \A u \in Task : u # t => pc[u] \notin {"send", "sent"} /\ scan[u] = 1
  BY <1>1, <1>2 DEF SpiInv, LockInv, ScanInv, SpiTypeOK
<1>4. ecpu.last = Mosi(t) /\ (Miso(t) = t => prev # t /\ buf[t] = "BUSY")
  BY <1>0 DEF SpiInv, SentInv
<1>5. \A u \in Task : pc[u] = "busy" => op[u].kind = "get" /\ buf[u] = op[u].cmd /\ buf[u] # "BUSY"
  BY <1>0 DEF SpiInv, BusyInv
<1>6. scan[t] = 2 => /\ op[t].kind \in {"set_noduplex", "get_noduplex"}
                     /\ Gets(t) => buf[t] = op[t].cmd
  BY <1>0, <1>1 DEF SpiInv, ScanInv, SpiTypeOK
<1>7. prev' \in Buffer
  BY <1>0 DEF Miso, Buffer
<1>8. CASE MoreScans(t)
  <2>1. /\ scan' = [scan EXCEPT ![t] = 2] /\ pc' = [pc EXCEPT ![t] = "send"]
        /\ scan[t] = 1 /\ op[t].kind \in {"set_noduplex", "get_noduplex"}
        /\ UNCHANGED <<op, owner>>
    BY <1>8 DEF Accepted, MoreScans
  <2>2. /\ pc'[t] = "send" /\ scan'[t] = 2
        /\ \A u \in Task : u # t => pc'[u] = pc[u] /\ scan'[u] = scan[u]
    BY <1>1, <2>1 DEF SpiTypeOK
  <2>3. IF Gets(t) THEN prev' = t /\ buf[t] = "BUSY" /\ op[t].cmd = ecpu.last ELSE prev' = "junk"
    BY <1>0, <1>4, <2>1 DEF Miso, Mosi
  <2>4. SpiTypeOK'
    BY <1>0, <1>1, <1>7, <2>1, <2>2 DEF SpiTypeOK
  <2>5. LockInv'
    BY <1>0, <2>1, <2>2 DEF SpiInv, LockInv
  <2>6. PrevInv'
    BY <1>0, <1>1, <1>2, <2>1, <2>2, <2>3 DEF PrevInv, Gets
  <2>7. BusyInv'
    BY <1>0, <1>5, <2>1, <2>2 DEF BusyInv
  <2>8. SentInv'
    BY <1>3, <2>2 DEF SentInv
  <2>9. ScanInv'
    BY <1>0, <1>2, <1>3, <2>1, <2>2, <2>3 DEF ScanInv, Gets
  <2>10. ReplyIsMine'
    BY <1>0, <2>1, <2>2 DEF SpiInv, ReplyIsMine, Idle, Gets
  <2> QED
    BY <2>4, <2>5, <2>6, <2>7, <2>8, <2>9, <2>10 DEF SpiInv
<1>9. CASE ~MoreScans(t)
  <2>1. /\ owner' = "nobody" /\ scan' = [scan EXCEPT ![t] = 1]
        /\ pc' = [pc EXCEPT ![t] = IF op[t].kind = "get" THEN "busy" ELSE "idle"]
        /\ op' = IF Gets(t) THEN op ELSE [op EXCEPT ![t] = NoOp]
        /\ scan[t] = 2 \/ op[t].kind \notin {"set_noduplex", "get_noduplex"}
    BY <1>1, <1>9 DEF Accepted, MoreScans, SpiTypeOK
  <2>2. /\ pc'[t] = (IF op[t].kind = "get" THEN "busy" ELSE "idle") /\ scan'[t] = 1
        /\ op'[t] = (IF Gets(t) THEN op[t] ELSE NoOp)
        /\ \A u \in Task : u # t => pc'[u] = pc[u] /\ scan'[u] = scan[u] /\ op'[u] = op[u]
    BY <1>1, <2>1 DEF SpiTypeOK
  <2>3. NoOp \in [kind : Kind, cmd : Sent] /\ NoOp.kind = "set"
    BY SpiConstants DEF NoOp, Kind
  <2>4. op[t].kind \in Kind
    BY <1>1 DEF SpiTypeOK
  <2>5. IF op[t].kind = "get"
        THEN prev' = t /\ buf[t] = "BUSY" /\ op[t].cmd = ecpu.last /\ Gets(t)
        ELSE prev' = "junk"
    BY <1>0, <1>1, <1>4, <1>6, <2>1, <2>4 DEF Miso, Mosi, Gets, Kind, SpiTypeOK
  <2>6. SpiTypeOK'
    <3>1. op' \in [Task -> [kind : Kind, cmd : Sent]]
      BY <1>1, <2>1, <2>3 DEF SpiTypeOK
    <3>2. pc' \in [Task -> {"idle", "lock", "send", "sent", "busy"}] /\ scan' \in [Task -> 1 .. 2]
      BY <1>1, <2>1 DEF SpiTypeOK
    <3>3. \A u \in Task : scan'[u] # 2
      BY <1>3, <2>2
    <3> QED
      BY <1>0, <1>1, <1>7, <2>1, <3>1, <3>2, <3>3 DEF SpiTypeOK
  <2>7. LockInv'
    BY <1>0, <1>1, <1>3, <2>1, <2>2 DEF SpiInv, LockInv
  <2>8. PrevInv'
    BY <1>0, <2>2, <2>5 DEF PrevInv
  <2>9. BusyInv'
    BY <1>0, <1>5, <2>2, <2>5 DEF BusyInv
  <2>10. SentInv' /\ ScanInv'
    BY <1>3, <2>2 DEF SentInv, ScanInv
  <2>11. ReplyIsMine'
    <3>1. ASSUME NEW u \in Task, pc'[u] = "idle", Gets(u)' PROVE buf[u] = op'[u].cmd
      <4>1. CASE u = t
        BY <1>6, <2>1, <2>2, <2>3, <3>1, <4>1 DEF Gets
      <4>2. CASE u # t
        BY <2>2, <3>1, <4>2 DEF SpiInv, ReplyIsMine, Idle, Gets
      <4> QED
        BY <4>1, <4>2
    <3> QED
      BY <1>0, <3>1 DEF ReplyIsMine, Idle
  <2> QED
    BY <2>6, <2>7, <2>8, <2>9, <2>10, <2>11 DEF SpiInv
<1> QED
  BY <1>8, <1>9

LEMMA GotInv ==
  ASSUME SpiInv, NEW t \in Task, Got(t)
  PROVE  SpiInv'
<1>0. /\ pc[t] = "busy" /\ buf[t] # "BUSY" /\ pc' = [pc EXCEPT ![t] = "idle"]
      /\ UNCHANGED <<op, scan, owner, waiting, prev, buf, ecpu>>
  BY DEF Got
<1>1. SpiTypeOK
  BY DEF SpiInv
<1>2. pc'[t] = "idle" /\ \A u \in Task : u # t => pc'[u] = pc[u]
  BY <1>0, <1>1 DEF SpiTypeOK
<1>3. owner # t /\ buf[t] = op[t].cmd
  BY <1>0 DEF SpiInv, LockInv, BusyInv
<1>4. SpiTypeOK'
  BY <1>0, <1>1 DEF SpiTypeOK
<1>5. LockInv'
  BY <1>0, <1>2 DEF SpiInv, LockInv
<1>6. PrevInv'
  BY <1>0, <1>1, <1>2, <1>3 DEF SpiInv, PrevInv, SpiTypeOK, Buffer, Gets
<1>7. BusyInv' /\ SentInv' /\ ScanInv' /\ ReplyIsMine'
  BY <1>0, <1>2, <1>3 DEF SpiInv, BusyInv, SentInv, ScanInv, ReplyIsMine, Mosi, Miso, Gets, Idle
<1> QED
  BY <1>4, <1>5, <1>6, <1>7 DEF SpiInv

LEMMA HostRdyInv ==
  ASSUME SpiInv, HostRdy
  PROVE  SpiInv'
<1>0. ecpu' = [ecpu EXCEPT !.ready = TRUE] /\ UNCHANGED <<op, pc, scan, owner, waiting, prev, buf>>
  BY DEF HostRdy
<1>1. SpiTypeOK
  BY DEF SpiInv
<1>2. ecpu' \in [ready : BOOLEAN, last : Sent \cup {"nothing"}] /\ ecpu'.last = ecpu.last
  BY <1>0, <1>1 DEF SpiTypeOK
<1>3. SpiTypeOK'
  BY <1>0, <1>1, <1>2 DEF SpiTypeOK
<1>4. LockInv' /\ PrevInv' /\ BusyInv' /\ SentInv' /\ ScanInv' /\ ReplyIsMine'
  BY <1>0, <1>2 DEF SpiInv, LockInv, PrevInv, BusyInv, SentInv, ScanInv, ReplyIsMine, Mosi, Miso, Gets, Idle
<1> QED
  BY <1>3, <1>4 DEF SpiInv

LEMMA StepInv ==
  ASSUME SpiInv, NEW t \in Task, Step(t)
  PROVE  SpiInv'
BY EnterInv, TransferInv, RetryInv, AcceptedInv, GotInv, Zenon DEF Step

LEMMA SpiStays ==
  ASSUME SpiInv, UNCHANGED spi
  PROVE  SpiInv'
<1>1. UNCHANGED <<op, pc, scan, owner, waiting, prev, buf, ecpu>>
  BY DEF spi
<1> QED
  BY <1>1 DEF SpiInv, SpiTypeOK, LockInv, PrevInv, BusyInv, SentInv, ScanInv, ReplyIsMine,
              Mosi, Miso, Gets, Idle

-----------------------------------------------------------------------------
(* The data pump *)

LEMMA PumpConstants ==
  /\ Sound \subseteq Task /\ Reader \subseteq Task /\ Itask \in Task /\ Helper \in Task
  /\ Itask \notin Sound /\ Itask \notin Reader /\ Sound \cap Reader = {}
  /\ Helper \notin Sound \cup Reader \cup {Itask}
  /\ {"on", "off", "clr", "rx0", "rx1", "flush"} \subseteq Sent
  /\ {"set", "set_noduplex", "get", "get_noduplex"} = Kind
  /\ \A u \in Sound \cup {Itask}, s \in Sound :
       Prio[u] \in Int /\ Prio[s] \in Int /\ Prio[s] <= Prio[u]
<1>1. Sound \cup Reader \cup {Itask} \subseteq Task \ {Helper} /\ Helper \in Task
  BY SpiAssumption, DataPumpAssumption
<1>2. \A u \in Sound \cup {Itask}, s \in Sound :
        Prio[u] \in Int /\ Prio[s] \in Int /\ Prio[s] <= Prio[u]
  BY <1>1, SpiAssumption, PrioAssumption
<1> QED
  BY <1>1, <1>2, SpiAssumption, DataPumpAssumption DEF Sent, Kind

(* Whoever calls waits for the lock, behind those that have or want it. *)
LEMMA CallEffect ==
  ASSUME SpiInv, NEW t \in Task, NEW kind \in Kind, NEW cmd \in Sent, Call(t, kind, cmd)
  PROVE  /\ SpiInv' /\ pc[t] = "idle" /\ pc'[t] = "lock" /\ ecpu' = ecpu
         /\ op'[t].kind = kind /\ op'[t].cmd = cmd
         /\ \A u \in Task : u # t => op'[u] = op[u] /\ pc'[u] = pc[u]
         /\ \A u, v \in Task : Before(u, v) => Before(u, v)'
         /\ \A u \in Task : pc[u] \in {"lock", "send", "sent"} => Before(u, t)'
<1>0. /\ pc[t] = "idle" /\ op' = [op EXCEPT ![t] = [kind |-> kind, cmd |-> cmd]]
      /\ pc' = [pc EXCEPT ![t] = "lock"] /\ waiting' = Append(waiting, t)
      /\ owner' = owner /\ ecpu' = ecpu
  BY DEF Call, Idle, Queued
<1>1. SpiTypeOK
  BY DEF SpiInv
<1>2. waiting \in Seq(Task) /\ Len(waiting) \in Nat
  BY <1>1, LenProperties DEF SpiTypeOK
<1>3. /\ Len(waiting') = Len(waiting) + 1
      /\ \A i \in 1 .. Len(waiting) : i \in 1 .. Len(waiting') /\ waiting'[i] = waiting[i]
      /\ waiting'[Len(waiting) + 1] = t
  BY <1>0, <1>2, AppendProperties
<1>4. ASSUME NEW u \in Task, NEW v \in Task, Before(u, v) PROVE Before(u, v)'
  BY <1>0, <1>3, <1>4 DEF Before
<1>5. ASSUME NEW u \in Task, pc[u] \in {"lock", "send", "sent"} PROVE Before(u, t)'
  <2>1. CASE pc[u] \in {"send", "sent"}
    BY <1>0, <2>1 DEF SpiInv, LockInv, Before
  <2>2. CASE pc[u] = "lock"
    <3>1. PICK i \in 1 .. Len(waiting) : waiting[i] = u
      BY <2>2 DEF SpiInv, LockInv
    <3>2. i < Len(waiting) + 1 /\ Len(waiting) + 1 \in 1 .. Len(waiting')
      BY <1>2, <1>3
    <3> QED
      BY <1>3, <3>1, <3>2 DEF Before
  <2> QED
    BY <1>5, <2>1, <2>2
<1>6. SpiInv'
  BY CallInv
<1> QED
  <2>1. op'[t] = [kind |-> kind, cmd |-> cmd] /\ pc'[t] = "lock"
        /\ \A u \in Task : u # t => op'[u] = op[u] /\ pc'[u] = pc[u]
    BY <1>0, <1>1 DEF SpiTypeOK
  <2> QED
    BY <1>0, <1>4, <1>5, <1>6, <2>1

(* Nobody gets the lock before another of the same or of a higher priority *)
(* that has been there before.                                             *)
LEMMA EnterOrder ==
  ASSUME SpiInv, NEW t \in Task, Enter(t)
  PROVE  /\ \A u \in Task : Before(u, t) => Prio[u] < Prio[t]
         /\ \A u, v \in Task : Before(u, v) /\ v # t => Before(u, v)'
<1>0. PICK i \in 1 .. Len(waiting) :
        owner = "nobody" /\ waiting[i] = t /\ IsNext(i) /\ waiting' = Rest(i) /\ owner' = t
  <2>1. DOMAIN waiting = 1 .. Len(waiting)
    BY LenProperties DEF SpiInv, SpiTypeOK
  <2> QED
    BY <2>1 DEF Enter, Rest
<1>1. \A j, k \in 1 .. Len(waiting) : waiting[j] = waiting[k] => j = k
  BY DEF SpiInv, LockInv
<1>2. \A u \in Task : u # owner
  BY <1>0, SpiConstants
<1>3. ASSUME NEW u \in Task, Before(u, t) PROVE Prio[u] < Prio[t]
  <2>1. PICK j \in 1 .. Len(waiting), k \in 1 .. Len(waiting) : j < k /\ waiting[j] = u /\ waiting[k] = t
    BY <1>2, <1>3 DEF Before
  <2>2. k = i
    BY <1>0, <1>1, <2>1
  <2>3. j \in 1 .. i - 1
    BY <2>1, <2>2
  <2> QED
    BY <1>0, <2>1, <2>3 DEF IsNext
<1>4. ASSUME NEW u \in Task, NEW v \in Task, Before(u, v), v # t PROVE Before(u, v)'
  <2>1. PICK j \in 1 .. Len(waiting), k \in 1 .. Len(waiting) : j < k /\ waiting[j] = u /\ waiting[k] = v
    BY <1>2, <1>4 DEF Before
  <2>2. CASE u = t
    BY <1>0, <2>2 DEF Before
  <2>3. CASE u # t
    <3>1. j # i /\ k # i
      BY <1>0, <1>4, <2>1, <2>3
    <3>2. \E l, m \in 1 .. Len(Rest(i)) : l < m /\ Rest(i)[l] = waiting[j] /\ Rest(i)[m] = waiting[k]
      <4>1. \A b, c \in 1 .. Len(waiting) : b < c /\ b # i /\ c # i =>
              \E l, m \in 1 .. Len(Rest(i)) : l < m /\ Rest(i)[l] = waiting[b] /\ Rest(i)[m] = waiting[c]
        BY QueueWithout, Zenon
      <4> QED
        BY <2>1, <3>1, <4>1
    <3> QED
      BY <1>0, <2>1, <3>2 DEF Before
  <2> QED
    BY <2>2, <2>3
<1> QED
  BY <1>3, <1>4

(* Nothing changes for a task that does nothing. *)
LEMMA OthersCommand ==
  ASSUME NEW t \in Task, CommandInv(t), op'[t] = op[t], pc'[t] = pc[t], step'[t] = step[t],
         t \in Sound => chan_enabled'[t] = chan_enabled[t]
  PROVE  CommandInv(t)'
BY DEF CommandInv, On, Off, Idle

(* The first user who arrives starts the pump, the last one who leaves stops it. *)
LEMMA StartStopInv ==
  ASSUME IInv, NEW t \in Sound, NEW enabled \in [Sound -> BOOLEAN],
         \A s \in Sound : s # t => enabled[s] = chan_enabled[s],
         StartStop(t, enabled)
  PROVE  IInv'
<1> DEFINE no_users == \A s \in Sound : ~enabled[s]
<1>0. /\ pc[t] = "idle" /\ step[t] = "" /\ chan_enabled' = enabled /\ samps' = samps
      /\ itask_run = Users /\ TypeOK /\ SpiInv /\ t \in Task
  BY PumpConstants DEF StartStop, At, Idle, IInv
<1>1. chan_enabled \in [Sound -> BOOLEAN] /\ step \in [Task -> {"", "stop", "stopped", "start", "started",
                        "fetch", "reset", "clear", "cleared"}]
  BY <1>0 DEF TypeOK
<1>2. Users' = ~no_users
  BY <1>0 DEF Users
<1>3. \A s \in Sound : step[s] \in {"start", "started"} => s # t /\ enabled[s]
  BY <1>0, PumpConstants DEF IInv, CommandInv
<1>4. \A u \in Task : On(u) \/ Off(u) => u # t /\ pc[u] \in {"lock", "send", "sent"}
  <2>1. \A u \in Task : pc[u] \in {"idle", "lock", "send", "sent", "busy"}
    BY <1>0 DEF SpiInv, SpiTypeOK
  <2> QED
    BY <1>0, <2>1 DEF IInv, CommandInv, Idle, SpiInv, BusyInv
<1>5. CASE itask_run /\ no_users
  <2>1. /\ itask_run' = FALSE /\ Call(t, "set", "off") /\ step' = [step EXCEPT ![t] = "stop"]
        /\ have_snd_users' = have_snd_users
    BY <1>5, Zenon DEF StartStop, Goes
  <2>2. /\ SpiInv' /\ pc'[t] = "lock" /\ ecpu' = ecpu /\ op'[t].kind = "set" /\ op'[t].cmd = "off"
        /\ \A u \in Task : u # t => op'[u] = op[u] /\ pc'[u] = pc[u]
    BY <1>0, <2>1, PumpConstants, CallEffect
  <2>3. step'[t] = "stop" /\ \A u \in Task : u # t => step'[u] = step[u]
    BY <1>0, <1>1, <2>1
  <2>4. TypeOK'
    BY <1>0, <1>1, <2>1, <2>2 DEF TypeOK, SpiInv
  <2>5. ASSUME NEW u \in Task PROVE CommandInv(u)'
    <3>1. CASE u = t
      BY <1>0, <2>2, <2>3, <3>1, PumpConstants DEF CommandInv, On, Off, Idle
    <3>2. CASE u # t
      BY <1>0, <2>2, <2>3, <3>2, OthersCommand DEF IInv
    <3> QED
      BY <3>1, <3>2
  <2>6. SampsInv' /\ StartsInv'
    BY <1>0, <2>1, <2>2 DEF IInv, SampsInv, StartsInv
  <2>7. StopsInv'
    BY <1>0, <2>2 DEF StopsInv, Off
  <2> QED
    BY <1>2, <1>5, <2>1, <2>2, <2>4, <2>5, <2>6, <2>7 DEF IInv
<1>6. CASE ~itask_run /\ ~no_users
  <2>1. /\ itask_run' = TRUE /\ Call(t, "set_noduplex", "clr") /\ step' = [step EXCEPT ![t] = "start"]
        /\ have_snd_users' = have_snd_users
    BY <1>6, Zenon DEF StartStop, Goes
  <2>2. /\ SpiInv' /\ pc'[t] = "lock" /\ ecpu' = ecpu /\ op'[t].kind = "set_noduplex" /\ op'[t].cmd = "clr"
        /\ \A u \in Task : u # t => op'[u] = op[u] /\ pc'[u] = pc[u]
        /\ \A u \in Task : pc[u] \in {"lock", "send", "sent"} => Before(u, t)'
    BY <1>0, <2>1, PumpConstants, CallEffect
  <2>3. step'[t] = "start" /\ \A u \in Task : u # t => step'[u] = step[u]
    BY <1>0, <1>1, <2>1
  <2>4. TypeOK'
    BY <1>0, <1>1, <2>1, <2>2 DEF TypeOK, SpiInv
  <2>5. enabled[t]
    BY <1>0, <1>6 DEF Users
  <2>6. ASSUME NEW u \in Task PROVE CommandInv(u)'
    <3>1. CASE u = t
      BY <1>0, <2>2, <2>3, <2>5, <3>1, PumpConstants DEF CommandInv, On, Off, Idle
    <3>2. CASE u # t
      BY <1>0, <2>2, <2>3, <3>2, OthersCommand DEF IInv
    <3> QED
      BY <3>1, <3>2
  <2>7. SampsInv' /\ StopsInv'
    BY <1>0, <2>1, <2>2 DEF IInv, SampsInv, StopsInv
  <2>8. StartsInv'
    <3>1. \A u \in Task : Off(u)' => Before(u, t)'
      BY <1>4, <2>2 DEF Off
    <3> QED
      BY <2>2, <2>3, <3>1 DEF StartsInv
  <2> QED
    BY <1>2, <1>6, <2>1, <2>2, <2>4, <2>6, <2>7, <2>8 DEF IInv
<1>7. CASE itask_run = ~no_users
  <2>1. have_snd_users' = ~no_users /\ UNCHANGED <<spi, itask_run, step>>
    <3>1. ~ (itask_run /\ no_users) /\ ~ (~itask_run /\ ~no_users)
      BY <1>7
    <3> QED
      BY <3>1, Zenon DEF StartStop
  <2>2. UNCHANGED <<op, pc, scan, owner, waiting, prev, buf, ecpu>>
    BY <2>1 DEF spi
  <2>3. SpiInv'
    BY <1>0, <2>1, SpiStays
  <2>4. TypeOK'
    BY <1>0, <1>1, <2>1, <2>3 DEF TypeOK, SpiInv
  <2>5. ASSUME NEW u \in Task PROVE CommandInv(u)'
    <3>1. CASE u = t
      BY <1>0, <1>3, <2>1, <2>2, <3>1, PumpConstants DEF IInv, CommandInv, On, Off, Idle
    <3>2. CASE u # t
      BY <1>0, <2>1, <2>2, <3>2, OthersCommand DEF IInv
    <3> QED
      BY <3>1, <3>2
  <2>6. SampsInv' /\ StopsInv'
    BY <1>0, <2>1, <2>2 DEF IInv, SampsInv, StopsInv, Off
  <2>7. StartsInv'
    <3>1. \A u, s \in Task : (On(u)' <=> On(u)) /\ (Off(u)' <=> Off(u)) /\ (Before(u, s)' <=> Before(u, s))
      BY <2>2 DEF On, Off, Before
    <3> QED
      BY <1>0, <2>1, <2>2, <3>1, PumpConstants DEF IInv, StartsInv
  <2> QED
    BY <1>2, <1>7, <2>1, <2>3, <2>4, <2>5, <2>6, <2>7 DEF IInv
<1>8. itask_run \in BOOLEAN
  BY <1>0 DEF TypeOK
<1> QED
  BY <1>5, <1>6, <1>7, <1>8

(* Between the commands of a start or a stop. *)
LEMMA ContinueInv ==
  ASSUME IInv, NEW t \in Sound, Continue(t)
  PROVE  IInv'
<1>0. /\ pc[t] = "idle" /\ UNCHANGED <<chan_enabled, itask_run, have_snd_users, samps>>
      /\ TypeOK /\ SpiInv /\ t \in Task /\ step[t] \in {"stop", "start"}
  BY PumpConstants DEF Continue, At, Idle, IInv
<1>1. PICK kind \in Kind, cmd \in Sent, s \in {"stopped", "started"} :
        /\ Call(t, kind, cmd) /\ step' = [step EXCEPT ![t] = s]
        /\ IF step[t] = "stop" THEN s = "stopped" /\ kind = "set_noduplex" /\ cmd = "clr"
                               ELSE s = "started" /\ kind = "set" /\ cmd = "on"
  BY PumpConstants DEF Continue, At, Goes
<1>2. /\ SpiInv' /\ pc'[t] = "lock" /\ ecpu' = ecpu /\ op'[t].kind = kind /\ op'[t].cmd = cmd
      /\ \A u \in Task : u # t => op'[u] = op[u] /\ pc'[u] = pc[u]
      /\ \A u, v \in Task : Before(u, v) => Before(u, v)'
  BY <1>0, <1>1, CallEffect
<1>3. step'[t] = s /\ \A u \in Task : u # t => step'[u] = step[u]
  BY <1>0, <1>1 DEF TypeOK
<1>4. TypeOK'
  BY <1>0, <1>1, <1>2 DEF TypeOK, SpiInv
<1>5. Users' = Users
  BY <1>0 DEF Users
<1>6. ASSUME NEW u \in Task PROVE CommandInv(u)'
  <2>1. CASE u = t
    BY <1>0, <1>1, <1>2, <1>3, <2>1, PumpConstants DEF IInv, CommandInv, On, Off, Idle
  <2>2. CASE u # t
    BY <1>0, <1>2, <1>3, <2>2, OthersCommand DEF IInv
  <2> QED
    BY <2>1, <2>2
<1>7. ~On(t) /\ ~Off(t) /\ ~Off(t)'
  BY <1>0, <1>1, <1>2 DEF IInv, CommandInv, On, Off, Idle
<1>8. SampsInv'
  BY <1>0, <1>2 DEF IInv, SampsInv
<1>9. StopsInv'
  BY <1>0, <1>2, <1>3, <1>7, PumpConstants DEF IInv, StopsInv, Off
<1>10. StartsInv'
  <2> SUFFICES ASSUME itask_run
               PROVE  /\ samps \/ \E v \in Sound : step'[v] = "start" \/ On(v)'
                      /\ \A u \in Task : Off(u)' =>
                           \E v \in Sound : step'[v] = "start" /\ pc'[v] = "lock" /\ Before(u, v)'
    BY <1>0 DEF StartsInv
  <2>1. samps \/ \E v \in Sound : step'[v] = "start" \/ On(v)'
    <3>1. CASE step[t] = "start"
      BY <1>1, <1>2, <3>1 DEF On
    <3>2. CASE step[t] = "stop"
      <4>1. samps \/ \E v \in Sound : v # t /\ (step[v] = "start" \/ On(v))
        BY <1>7, <3>2 DEF IInv, StartsInv
      <4> QED
        BY <1>2, <1>3, <4>1, PumpConstants DEF On
    <3> QED
      BY <1>0, <3>1, <3>2
  <2>2. ASSUME NEW u \in Task, Off(u)'
        PROVE  \E v \in Sound : step'[v] = "start" /\ pc'[v] = "lock" /\ Before(u, v)'
    <3>1. u # t /\ Off(u)
      BY <1>2, <1>7, <2>2 DEF Off
    <3>2. PICK v \in Sound : step[v] = "start" /\ pc[v] = "lock" /\ Before(u, v)
      BY <3>1 DEF IInv, StartsInv
    <3>3. v # t /\ v \in Task
      BY <1>0, <3>2, PumpConstants
    <3> QED
      BY <1>2, <1>3, <3>2, <3>3
  <2> QED
    BY <2>1, <2>2
<1> QED
  BY <1>0, <1>2, <1>4, <1>5, <1>6, <1>8, <1>9, <1>10 DEF IInv

(* A task that does none of this, or whose command does not start or stop. *)
LEMMA OtherCall ==
  ASSUME IInv, NEW t \in Task \ Sound, NEW kind \in Kind, NEW cmd \in Sent \ {"on", "off"},
         Call(t, kind, cmd), UNCHANGED <<chan_enabled, itask_run, have_snd_users, samps>>,
         step' \in [Task -> {"", "stop", "stopped", "start", "started",
                        "fetch", "reset", "clear", "cleared"}],
         \A u \in Task : u # t => step'[u] = step[u],
         t = Itask => step[t] # "reset" \/ itask_run
  PROVE  IInv'
<1>0. TypeOK /\ SpiInv /\ pc[t] = "idle"
  BY DEF IInv, Call, Idle
<1>1. /\ SpiInv' /\ pc'[t] = "lock" /\ ecpu' = ecpu /\ op'[t].kind = kind /\ op'[t].cmd = cmd
      /\ \A u \in Task : u # t => op'[u] = op[u] /\ pc'[u] = pc[u]
      /\ \A u, v \in Task : Before(u, v) => Before(u, v)'
  BY <1>0, CallEffect
<1>2. TypeOK'
  BY <1>0, <1>1 DEF TypeOK, SpiInv
<1>3. Users' = Users
  BY DEF Users
<1>4. ~On(t) /\ ~Off(t) /\ ~On(t)' /\ ~Off(t)'
  BY <1>0, <1>1 DEF IInv, CommandInv, On, Off, Idle
<1>5. ASSUME NEW u \in Task PROVE CommandInv(u)'
  <2>1. CASE u = t
    BY <1>4, <2>1 DEF CommandInv
  <2>2. CASE u # t
    BY <1>1, <2>2, OthersCommand DEF IInv
  <2> QED
    BY <2>1, <2>2
<1>6. \A u \in Task : (On(u)' <=> On(u)) /\ (Off(u)' <=> Off(u))
  BY <1>1, <1>4 DEF On, Off
<1>7. SampsInv'
  BY <1>1 DEF IInv, SampsInv
<1>8. StopsInv'
  BY <1>6, PumpConstants DEF IInv, StopsInv
<1>9. StartsInv'
  <2>1. \A v \in Sound : v \in Task /\ step'[v] = step[v] /\ pc'[v] = pc[v]
    BY <1>1, PumpConstants
  <2> QED
    BY <1>1, <1>6, <2>1 DEF IInv, StartsInv
<1> QED
  BY <1>1, <1>2, <1>3, <1>5, <1>7, <1>8, <1>9 DEF IInv

(* A task that goes on without a command. *)
LEMMA StepsOn ==
  ASSUME IInv, NEW t \in Task, pc[t] = "idle", UNCHANGED <<spi, chan_enabled, itask_run, samps>>,
         have_snd_users' \in BOOLEAN, step' = [step EXCEPT ![t] = ""],
         step[t] # "start", step[t] # "reset" \/ itask_run
  PROVE  IInv'
<1>0. TypeOK /\ SpiInv /\ UNCHANGED <<op, pc, scan, owner, waiting, prev, buf, ecpu>>
  BY DEF IInv, spi
<1>1. SpiInv'
  BY <1>0, SpiStays
<1>2. step'[t] = "" /\ \A u \in Task : u # t => step'[u] = step[u]
  BY <1>0 DEF TypeOK
<1>3. TypeOK'
  BY <1>0, <1>1 DEF TypeOK, SpiInv
<1>4. Users' = Users
  BY DEF Users
<1>5. ~On(t) /\ ~Off(t) /\ ~On(t)' /\ ~Off(t)'
  BY <1>0 DEF IInv, CommandInv, On, Off, Idle
<1>6. ASSUME NEW u \in Task PROVE CommandInv(u)'
  <2>1. CASE u = t
    BY <1>0, <1>2, <1>5, <2>1 DEF IInv, CommandInv, Idle
  <2>2. CASE u # t
    BY <1>0, <1>2, <2>2, OthersCommand DEF IInv
  <2> QED
    BY <2>1, <2>2
<1>7. \A u, s \in Task : (On(u)' <=> On(u)) /\ (Off(u)' <=> Off(u)) /\ (Before(u, s)' <=> Before(u, s))
  BY <1>0 DEF On, Off, Before
<1>8. SampsInv'
  BY <1>0 DEF IInv, SampsInv
<1>9. StopsInv'
  BY <1>2, <1>7, PumpConstants DEF IInv, StopsInv
<1>10. StartsInv'
  <2>1. \A v \in Sound : v \in Task /\ (step'[v] = "start" <=> step[v] = "start") /\ pc'[v] = pc[v]
    BY <1>0, <1>2, PumpConstants
  <2> QED
    BY <1>7, <2>1 DEF IInv, StartsInv
<1> QED
  BY <1>1, <1>3, <1>4, <1>6, <1>8, <1>9, <1>10 DEF IInv

LEMMA FinishInv ==
  ASSUME IInv, NEW t \in Sound, Finish(t)
  PROVE  IInv'
<1>1. /\ t \in Task /\ pc[t] = "idle" /\ step[t] \in {"stopped", "started"}
      /\ step' = [step EXCEPT ![t] = ""] /\ have_snd_users' \in BOOLEAN
      /\ UNCHANGED <<spi, chan_enabled, itask_run, samps>>
  BY PumpConstants DEF Finish, At, Idle, Goes
<1> QED
  BY <1>1, StepsOn

(* The task of the data pump sends a command that does not start or stop. *)
LEMMA ItaskCall ==
  ASSUME IInv, NEW kind \in Kind, NEW cmd \in Sent \ {"on", "off"}, NEW s \in {"fetch", "cleared"},
         Call(Itask, kind, cmd), Goes(Itask, s),
         UNCHANGED <<chan_enabled, itask_run, have_snd_users, samps>>,
         step[Itask] # "reset" \/ itask_run
  PROVE  IInv'
<1>1. /\ step \in [Task -> {"", "stop", "stopped", "start", "started",
                            "fetch", "reset", "clear", "cleared"}]
      /\ step' = [step EXCEPT ![Itask] = s]
  BY DEF IInv, TypeOK, Goes
<1>2. /\ step' \in [Task -> {"", "stop", "stopped", "start", "started",
                             "fetch", "reset", "clear", "cleared"}]
      /\ \A u \in Task : u # Itask => step'[u] = step[u]
  BY <1>1
<1>3. Itask \in Task \ Sound
  BY PumpConstants
<1> QED
  BY <1>2, <1>3, OtherCall

LEMMA LoopInv ==
  ASSUME IInv, Idle(Itask), Loop, UNCHANGED <<chan_enabled, itask_run, have_snd_users, samps>>,
         step[Itask] # "reset" \/ itask_run, step[Itask] # "start"
  PROVE  IInv'
<1>1. CASE Fetch
  <2>1. "rx0" \in Sent \ {"on", "off"} /\ "get_noduplex" \in Kind
    BY PumpConstants
  <2>2. Call(Itask, "get_noduplex", "rx0") /\ Goes(Itask, "fetch")
    BY <1>1 DEF Fetch
  <2> QED
    BY <2>1, <2>2, ItaskCall
<1>2. CASE UNCHANGED spi /\ Goes(Itask, "")
  <2>1. have_snd_users' \in BOOLEAN
    BY DEF IInv, TypeOK
  <2> QED
    BY <1>2, <2>1, PumpConstants, StepsOn DEF Goes, Idle
<1> QED
  BY <1>1, <1>2 DEF Loop

LEMMA InterruptInv ==
  ASSUME IInv, Interrupt
  PROVE  IInv'
<1>1. /\ Idle(Itask) /\ step[Itask] = "" /\ Fetch
      /\ UNCHANGED <<chan_enabled, itask_run, have_snd_users, samps>>
  BY DEF Interrupt, At
<1> QED
  BY <1>1, LoopInv DEF Loop

(* The task of the data pump starts or stops the eCPU: it starts it where it *)
(* will look whether there are users.                                        *)
LEMMA ItaskOnOff ==
  ASSUME IInv, NEW on \in BOOLEAN,
         Call(Itask, "set", IF on THEN "on" ELSE "off"),
         Goes(Itask, IF on THEN "reset" ELSE "clear"), on \/ ~itask_run,
         UNCHANGED <<chan_enabled, itask_run, have_snd_users, samps>>
  PROVE  IInv'
<1> DEFINE cmd == IF on THEN "on" ELSE "off"
           s == IF on THEN "reset" ELSE "clear"
<1>0. TypeOK /\ SpiInv /\ pc[Itask] = "idle" /\ Itask \in Task /\ Itask \notin Sound
      /\ cmd \in Sent /\ "set" \in Kind
  BY PumpConstants DEF IInv, Call, Idle
<1>1. /\ SpiInv' /\ pc'[Itask] = "lock" /\ ecpu' = ecpu /\ op'[Itask].kind = "set" /\ op'[Itask].cmd = cmd
      /\ \A u \in Task : u # Itask => op'[u] = op[u] /\ pc'[u] = pc[u]
      /\ \A u, v \in Task : Before(u, v) => Before(u, v)'
  <2> HIDE DEF cmd
  <2> QED
    BY <1>0, CallEffect DEF cmd
<1>2. step'[Itask] = s /\ \A u \in Task : u # Itask => step'[u] = step[u]
  BY <1>0 DEF TypeOK, Goes
<1>3. TypeOK'
  <2>1. step' \in [Task -> {"", "stop", "stopped", "start", "started",
                            "fetch", "reset", "clear", "cleared"}]
    BY <1>0 DEF TypeOK, Goes
  <2> QED
    BY <1>0, <1>1, <2>1 DEF TypeOK, SpiInv
<1>4. Users' = Users
  BY DEF Users
<1>5. ~On(Itask) /\ ~Off(Itask)
  BY <1>0 DEF IInv, CommandInv, Idle
<1>6. ASSUME NEW u \in Task PROVE CommandInv(u)'
  <2>1. CASE u = Itask
    BY <1>0, <1>1, <1>2, <2>1 DEF CommandInv, On, Off, Idle
  <2>2. CASE u # Itask
    BY <1>1, <1>2, <2>2, OthersCommand DEF IInv
  <2> QED
    BY <2>1, <2>2
<1>7. \A u \in Task : u # Itask => (On(u)' <=> On(u)) /\ (Off(u)' <=> Off(u))
  BY <1>1 DEF On, Off
<1>8. (on => step'[Itask] = "reset") /\ (~on => Off(Itask)')
  BY <1>1, <1>2 DEF Off
<1>9. on => ~Off(Itask)'
  BY <1>1 DEF Off
<1> HIDE DEF cmd, s
<1>10. SampsInv'
  BY <1>1 DEF IInv, SampsInv
<1>11. StopsInv'
  BY <1>0, <1>8 DEF StopsInv
<1>12. StartsInv'
  <2>1. \A v \in Sound : v \in Task /\ v # Itask /\ step'[v] = step[v] /\ pc'[v] = pc[v]
    BY <1>1, <1>2, PumpConstants
  <2>2. itask_run => \A u \in Task : Off(u)' => Off(u)
    BY <1>7, <1>9
  <2> QED
    BY <1>1, <1>7, <2>1, <2>2 DEF IInv, StartsInv
<1> QED
  BY <1>1, <1>3, <1>4, <1>6, <1>10, <1>11, <1>12 DEF IInv

LEMMA ResetInv ==
  ASSUME IInv, Reset
  PROVE  IInv'
<1>1. /\ Call(Itask, "set", IF TRUE THEN "on" ELSE "off")
      /\ Goes(Itask, IF TRUE THEN "reset" ELSE "clear")
      /\ UNCHANGED <<chan_enabled, itask_run, have_snd_users, samps>>
  BY DEF Reset
<1> QED
  BY <1>1, ItaskOnOff

LEMMA ServicedInv ==
  ASSUME IInv, Serviced
  PROVE  IInv'
<1>0. /\ Idle(Itask) /\ step[Itask] \in {"fetch", "reset"}
      /\ UNCHANGED <<chan_enabled, itask_run, have_snd_users, samps>>
  BY DEF Serviced, At
<1>1. CASE itask_run
  <2>1. Loop
    BY <1>1 DEF Serviced, StopsLate
  <2> QED
    BY <1>0, <1>1, <2>1, LoopInv
<1>2. CASE ~itask_run
  <2>1. /\ Call(Itask, "set", IF FALSE THEN "on" ELSE "off")
        /\ Goes(Itask, IF FALSE THEN "reset" ELSE "clear")
    BY <1>2 DEF Serviced, StopsLate
  <2> QED
    BY <1>0, <1>2, <2>1, ItaskOnOff
<1> QED
  BY <1>1, <1>2

LEMMA ClearInv ==
  ASSUME IInv, Clear
  PROVE  IInv'
<1>0. UNCHANGED <<chan_enabled, itask_run, have_snd_users, samps>>
  BY DEF Clear
<1>1. CASE At(Itask, "clear") /\ Call(Itask, "set_noduplex", "clr") /\ Goes(Itask, "cleared")
  <2>1. "clr" \in Sent \ {"on", "off"} /\ "set_noduplex" \in Kind
    BY PumpConstants
  <2> QED
    BY <1>0, <1>1, <2>1, ItaskCall DEF At
<1>2. CASE At(Itask, "cleared") /\ Loop
  BY <1>0, <1>2, LoopInv DEF At
<1> QED
  BY <1>1, <1>2 DEF Clear

LEMMA ReadInv ==
  ASSUME IInv, NEW t \in Reader, Read(t)
  PROVE  IInv'
<1>1. PICK cmd \in {"rx0", "rx1"} : Call(t, "get", cmd)
  BY DEF Read
<1>2. /\ step[t] = "" /\ UNCHANGED <<chan_enabled, itask_run, have_snd_users, samps, step>>
      /\ t \in Task \ Sound /\ "get" \in Kind /\ cmd \in Sent \ {"on", "off"}
  BY PumpConstants DEF Read, At, pump
<1>3. step' \in [Task -> {"", "stop", "stopped", "start", "started",
                        "fetch", "reset", "clear", "cleared"}]
  BY <1>2 DEF IInv, TypeOK
<1> QED
  BY <1>1, <1>2, <1>3, OtherCall

LEMMA FlushesInv ==
  ASSUME IInv, Flushes
  PROVE  IInv'
<1>1. /\ Call(Helper, "set", "flush") /\ UNCHANGED <<chan_enabled, itask_run, have_snd_users, samps, step>>
      /\ Helper \in Task \ Sound /\ Helper # Itask /\ "set" \in Kind
  BY PumpConstants DEF Flushes, Pump, pump
<1>2. "flush" \in Sent \ {"on", "off"}
  BY PumpConstants
<1>3. step' \in [Task -> {"", "stop", "stopped", "start", "started",
                        "fetch", "reset", "clear", "cleared"}]
  BY <1>1 DEF IInv, TypeOK
<1> QED
  BY <1>1, <1>2, <1>3, OtherCall

-----------------------------------------------------------------------------
(* The steps of the transport                                              *)

(* A step of the transport that leaves the commands of the tasks, what the *)
(* eCPU has accepted, and the queue as they are.                           *)
LEMMA QuietStep ==
  ASSUME IInv, SpiInv', UNCHANGED <<op, owner, waiting, chan_enabled, itask_run, have_snd_users, samps, step>>,
         ecpu'.last = ecpu.last,
         \A u \in Task : (pc'[u] = "idle" => pc[u] = "idle" \/ op[u].kind # "set")
         /\ (pc[u] = "idle" => pc'[u] = "idle") /\ (pc[u] = "lock" <=> pc'[u] = "lock")
  PROVE  IInv'
<1>1. TypeOK'
  BY DEF IInv, TypeOK, SpiInv
<1>2. Users' = Users
  BY DEF Users
<1>3. \A u, s \in Task : (On(u)' <=> On(u)) /\ (Off(u)' <=> Off(u)) /\ (Before(u, s)' <=> Before(u, s))
  BY DEF On, Off, Before
<1>4. ASSUME NEW u \in Task PROVE CommandInv(u)'
  BY DEF IInv, CommandInv, On, Off, Idle
<1>5. SampsInv' /\ StopsInv'
  BY <1>3 DEF IInv, SampsInv, StopsInv
<1>6. StartsInv'
  BY <1>3, PumpConstants DEF IInv, StartsInv
<1> QED
  BY <1>1, <1>2, <1>4, <1>5, <1>6 DEF IInv

(* What the eCPU has been told does not change unless a command is transferred. *)
LEMMA SampsStay ==
  ASSUME NEW t \in Task, Works(t), ecpu'.last = ecpu.last
  PROVE  UNCHANGED <<chan_enabled, itask_run, have_snd_users, samps, step>>
BY DEF Works, pump

\* The lock goes to a task that starts the eCPU only after those that stop it.
LEMMA WorksEnter ==
  ASSUME IInv, NEW t \in Task, Works(t), Enter(t)
  PROVE  IInv'
<1>0. /\ SpiInv /\ TypeOK /\ UNCHANGED <<op, scan, prev, buf, ecpu>>
      /\ pc' = [pc EXCEPT ![t] = "send"] /\ pc \in [Task -> {"idle", "lock", "send", "sent", "busy"}]
  BY DEF IInv, Enter, SpiInv, SpiTypeOK
<1>1. UNCHANGED <<chan_enabled, itask_run, have_snd_users, samps, step>>
  BY <1>0, SampsStay
<1>2. SpiInv'
  BY <1>0, EnterInv
<1>3. TypeOK'
  BY <1>0, <1>1, <1>2 DEF TypeOK, SpiInv
<1>4. /\ \A u \in Task : Before(u, t) => Prio[u] < Prio[t]
      /\ \A u, v \in Task : Before(u, v) /\ v # t => Before(u, v)'
  BY <1>0, EnterOrder
<1>5. pc[t] = "lock" /\ pc'[t] = "send" /\ \A u \in Task : u # t => pc'[u] = pc[u]
  <2>1. \E i \in 1 .. Len(waiting) : waiting[i] = t
    <3>1. DOMAIN waiting = 1 .. Len(waiting)
      BY <1>0, LenProperties DEF SpiInv, SpiTypeOK
    <3> QED
      BY <3>1 DEF Enter
  <2> QED
    BY <1>0, <2>1 DEF SpiInv, LockInv
<1>6. \A u \in Task : (On(u)' <=> On(u)) /\ (Off(u)' <=> Off(u))
  BY <1>0 DEF On, Off
<1>7. Users' = Users
  BY <1>1 DEF Users
<1>8. ASSUME NEW u \in Task PROVE CommandInv(u)'
  BY <1>0, <1>1, <1>5, <1>6 DEF IInv, CommandInv, On, Off, Idle
<1>9. SampsInv' /\ StopsInv'
  BY <1>0, <1>1, <1>6 DEF IInv, SampsInv, StopsInv
<1>10. StartsInv'
  <2>1. ASSUME itask_run, NEW u \in Task, Off(u)
        PROVE  \E s \in Sound : step[s] = "start" /\ pc'[s] = "lock" /\ Before(u, s)'
    <3>1. PICK s \in Sound : step[s] = "start" /\ pc[s] = "lock" /\ Before(u, s)
      BY <2>1 DEF IInv, StartsInv
    <3>2. u \in Sound \cup {Itask}
      BY <2>1 DEF IInv, CommandInv
    <3>3. s # t
      <4>1. Prio[u] \in Int /\ Prio[s] \in Int /\ Prio[s] <= Prio[u]
        BY <3>2, PumpConstants
      <4>2. ~ (Prio[u] < Prio[s])
        BY <4>1
      <4> QED
        BY <1>4, <3>1, <4>2
    <3>4. s \in Task
      BY PumpConstants
    <3> QED
      BY <1>4, <1>5, <3>1, <3>3, <3>4
  <2>2. itask_run => samps \/ \E s \in Sound : step[s] = "start" \/ On(s)
    BY DEF IInv, StartsInv
  <2>3. \A s \in Sound : s \in Task
    BY PumpConstants
  <2> QED
    BY <1>1, <1>6, <2>1, <2>2, <2>3 DEF StartsInv
<1> QED
  BY <1>1, <1>2, <1>3, <1>7, <1>8, <1>9, <1>10 DEF IInv

(* The eCPU takes a command. *)
LEMMA WorksTransfer ==
  ASSUME IInv, NEW t \in Task, Works(t), Transfer(t)
  PROVE  IInv'
<1>0. /\ SpiInv /\ TypeOK /\ UNCHANGED <<op, scan, owner, waiting, prev>>
      /\ pc[t] = "send" /\ pc' = [pc EXCEPT ![t] = "sent"]
      /\ pc \in [Task -> {"idle", "lock", "send", "sent", "busy"}]
      /\ ecpu'.last = ecpu.last \/ ecpu'.last = Mosi(t)
      /\ UNCHANGED <<chan_enabled, itask_run, have_snd_users, step>>
      /\ samps' = IF ecpu'.last = ecpu.last \/ ecpu'.last \notin {"on", "off"}
                  THEN samps ELSE ecpu'.last = "on"
  BY DEF IInv, Transfer, SpiInv, SpiTypeOK, Works, pump
<1>1. SpiInv'
  BY <1>0, TransferInv
<1>2. samps' \in BOOLEAN
  BY <1>0 DEF TypeOK
<1>3. TypeOK'
  BY <1>0, <1>1, <1>2 DEF TypeOK, SpiInv
<1>4. pc'[t] = "sent" /\ \A u \in Task : u # t => pc'[u] = pc[u]
  BY <1>0
<1>5. \A u, s \in Task : (On(u)' <=> On(u)) /\ (Off(u)' <=> Off(u)) /\ (Before(u, s)' <=> Before(u, s))
  BY <1>0 DEF On, Off, Before
<1>6. Users' = Users
  BY <1>0 DEF Users
<1>7. ASSUME NEW u \in Task PROVE CommandInv(u)'
  BY <1>0, <1>4, <1>5 DEF IInv, CommandInv, On, Off, Idle
<1>8. SampsInv'
  BY <1>0 DEF IInv, SampsInv
<1>9. (Mosi(t) = "on" => On(t)) /\ (Mosi(t) = "off" => Off(t))
  BY SpiAssumption, DataPumpAssumption DEF Mosi, On, Off
<1>10. (samps' /\ ~samps => On(t)) /\ (samps /\ ~samps' => Off(t))
  BY <1>0, <1>9
<1>11. StopsInv'
  <2>1. On(t) /\ ~itask_run => step[Itask] = "reset"
    BY DEF IInv, CommandInv, Users
  <2> QED
    BY <1>0, <1>5, <1>10, <2>1 DEF IInv, StopsInv
<1>12. StartsInv'
  <2>1. \A s \in Sound : s \in Task
    BY PumpConstants
  <2>2. \A s \in Task : pc[s] = "lock" => pc'[s] = "lock"
    BY <1>0, <1>4
  <2>3. itask_run => samps \/ \E s \in Sound : step[s] = "start" \/ On(s)
    BY DEF IInv, StartsInv
  <2>4. itask_run => \A u \in Task : Off(u) =>
          \E s \in Sound : step[s] = "start" /\ pc[s] = "lock" /\ Before(u, s)
    BY DEF IInv, StartsInv
  <2>5. itask_run => samps' \/ \E s \in Sound : step[s] = "start" \/ On(s)
    BY <1>10, <2>3, <2>4
  <2> QED
    BY <1>0, <1>5, <2>1, <2>2, <2>4, <2>5 DEF StartsInv
<1> QED
  BY <1>0, <1>1, <1>3, <1>6, <1>7, <1>8, <1>11, <1>12 DEF IInv

\* A task whose command is accepted gives the lock back: the eCPU has been
\* told what it asked for.
LEMMA WorksAccepted ==
  ASSUME IInv, NEW t \in Task, Works(t), Accepted(t)
  PROVE  IInv'
<1>0. /\ SpiInv /\ SpiTypeOK /\ TypeOK /\ pc[t] = "sent" /\ buf[prev] # "BUSY" /\ UNCHANGED <<waiting, buf, ecpu>>
  BY DEF IInv, Accepted, SpiInv
<1>1. SpiInv'
  BY <1>0, AcceptedInv
<1>2. UNCHANGED <<chan_enabled, itask_run, have_snd_users, samps, step>>
  BY <1>0, SampsStay
<1>3. CASE MoreScans(t)
  <2>1. pc' = [pc EXCEPT ![t] = "send"] /\ UNCHANGED <<op, owner>>
    BY <1>3 DEF Accepted
  <2>2. pc'[t] = "send" /\ \A u \in Task : u # t => pc'[u] = pc[u]
    BY <1>0, <2>1 DEF SpiTypeOK
  <2>3. \A u \in Task :
          /\ pc'[u] = "idle" => pc[u] = "idle" \/ op[u].kind # "set"
          /\ pc[u] = "idle" => pc'[u] = "idle"
          /\ pc[u] = "lock" <=> pc'[u] = "lock"
    BY <1>0, <2>2
  <2> QED
    BY <1>0, <1>1, <1>2, <2>1, <2>3, QuietStep
<1>4. CASE ~MoreScans(t)
  <2>0. /\ owner' = "nobody"
        /\ pc' = [pc EXCEPT ![t] = IF op[t].kind = "get" THEN "busy" ELSE "idle"]
        /\ op' = IF Gets(t) THEN op ELSE [op EXCEPT ![t] = NoOp]
    BY <1>4 DEF Accepted
  <2>1. /\ pc'[t] = IF op[t].kind = "get" THEN "busy" ELSE "idle"
        /\ \A u \in Task : u # t => pc'[u] = pc[u] /\ op'[u] = op[u]
        /\ op'[t] = IF Gets(t) THEN op[t] ELSE NoOp
    BY <1>0, <2>0 DEF SpiTypeOK
  <2>2. ~On(t)' /\ ~Off(t)'
    <3>1. Gets(t) => ~On(t) /\ ~Off(t)
      BY DEF IInv, CommandInv, Gets
    <3>2. NoOp.cmd \notin {"on", "off"}
      BY SpiAssumption, DataPumpAssumption DEF NoOp
    <3> QED
      BY <2>1, <3>1, <3>2 DEF On, Off
  <2>3. TypeOK'
    BY <1>0, <1>1, <1>2 DEF TypeOK, SpiInv
  <2>4. Users' = Users
    BY <1>2 DEF Users
  <2>5. ASSUME NEW u \in Task PROVE CommandInv(u)'
    <3>1. CASE u = t
      <4>1. op[t].kind = "get" => ~On(t) /\ ~Off(t)
        BY DEF IInv, CommandInv
      <4> QED
        BY <1>0, <1>2, <2>1, <2>2, <3>1, <4>1 DEF IInv, CommandInv, Idle
    <3>2. CASE u # t
      BY <1>2, <2>1, <3>2, OthersCommand DEF IInv
    <3> QED
      BY <3>1, <3>2
  <2>6. SampsInv'
    BY <1>0, <1>2 DEF IInv, SampsInv
  <2>7. (On(t) => samps) /\ (Off(t) => ~samps)
    <3>1. On(t) \/ Off(t) => scan[t] = 1
      <4>1. On(t) \/ Off(t) => op[t].kind = "set"
        BY DEF IInv, CommandInv
      <4>2. scan[t] \in 1 .. 2 /\ (scan[t] = 2 => op[t].kind \in {"set_noduplex", "get_noduplex"})
        BY <1>0 DEF SpiTypeOK
      <4> QED
        BY <4>1, <4>2
    <3>2. ecpu.last = Mosi(t)
      BY <1>0 DEF SpiInv, SentInv
    <3> QED
      BY <3>1, <3>2 DEF Mosi, On, Off, IInv, SampsInv
  <2>8. \A u \in Task : u # t => (On(u)' <=> On(u)) /\ (Off(u)' <=> Off(u))
    BY <2>1 DEF On, Off
  <2>9. StopsInv'
    BY <1>2, <2>7, <2>8 DEF IInv, StopsInv
  <2>10. StartsInv'
    <3>1. \A s \in Sound : s \in Task
      BY PumpConstants
    <3>2. itask_run => samps \/ \E s \in Sound : step[s] = "start" \/ (s # t /\ On(s))
      BY <2>7 DEF IInv, StartsInv
    <3>3. \A u, s \in Task : u # t /\ Before(u, s) => Before(u, s)'
      BY <1>0 DEF SpiInv, LockInv, Before
    <3>4. \A u \in Task : Off(u)' => u # t /\ Off(u)
      BY <2>2, <2>8
    <3>5. \A s \in Task : pc[s] = "lock" => pc'[s] = "lock"
      BY <1>0, <2>1
    <3>6. itask_run => \A u \in Task : Off(u) =>
            \E s \in Sound : step[s] = "start" /\ pc[s] = "lock" /\ Before(u, s)
      BY DEF IInv, StartsInv
    <3>7. itask_run => \A u \in Task : Off(u)' =>
            \E s \in Sound : step[s] = "start" /\ pc'[s] = "lock" /\ Before(u, s)'
      BY <3>1, <3>3, <3>4, <3>5, <3>6
    <3>8. itask_run => samps \/ \E s \in Sound : step[s] = "start" \/ On(s)'
      BY <2>8, <3>1, <3>2
    <3> QED
      BY <1>2, <3>7, <3>8 DEF StartsInv
  <2> QED
    BY <1>1, <1>2, <2>3, <2>4, <2>5, <2>6, <2>9, <2>10 DEF IInv
<1> QED
  BY <1>3, <1>4

LEMMA WorksInv ==
  ASSUME IInv, NEW t \in Task, Works(t)
  PROVE  IInv'
<1>0. SpiInv /\ SpiTypeOK
  BY DEF IInv, SpiInv
<1>1. CASE Retry(t)
  <2>1. SpiInv'
    BY <1>0, <1>1, RetryInv
  <2>2. pc[t] = "sent" /\ pc' = [pc EXCEPT ![t] = "send"] /\ UNCHANGED <<op, owner, waiting, ecpu>>
    BY <1>1 DEF Retry
  <2>3. \A u \in Task :
          /\ pc'[u] = "idle" => pc[u] = "idle" \/ op[u].kind # "set"
          /\ pc[u] = "idle" => pc'[u] = "idle"
          /\ pc[u] = "lock" <=> pc'[u] = "lock"
    BY <1>0, <2>2 DEF SpiTypeOK
  <2>4. UNCHANGED <<chan_enabled, itask_run, have_snd_users, samps, step>>
    BY <2>2, SampsStay
  <2> QED
    BY <2>1, <2>2, <2>3, <2>4, QuietStep
<1>2. CASE Got(t)
  <2>1. SpiInv'
    BY <1>0, <1>2, GotInv
  <2>2. /\ pc[t] = "busy" /\ pc' = [pc EXCEPT ![t] = "idle"] /\ op[t].kind = "get"
        /\ UNCHANGED <<op, owner, waiting, ecpu>>
    BY <1>0, <1>2 DEF Got, SpiInv, BusyInv
  <2>3. \A u \in Task :
          /\ pc'[u] = "idle" => pc[u] = "idle" \/ op[u].kind # "set"
          /\ pc[u] = "idle" => pc'[u] = "idle"
          /\ pc[u] = "lock" <=> pc'[u] = "lock"
    BY <1>0, <2>2 DEF SpiTypeOK
  <2>4. UNCHANGED <<chan_enabled, itask_run, have_snd_users, samps, step>>
    BY <2>2, SampsStay
  <2> QED
    BY <2>1, <2>2, <2>3, <2>4, QuietStep
<1>3. Enter(t) \/ Transfer(t) \/ Retry(t) \/ Accepted(t) \/ Got(t)
  BY DEF Works, Step
<1> QED
  BY <1>1, <1>2, <1>3, WorksEnter, WorksTransfer, WorksAccepted

LEMMA ReadyInv ==
  ASSUME IInv, Ready
  PROVE  IInv'
<1>0. SpiInv /\ SpiTypeOK
  BY DEF IInv, SpiInv
<1>1. /\ HostRdy /\ ecpu' = [ecpu EXCEPT !.ready = TRUE]
      /\ UNCHANGED <<op, pc, owner, waiting, chan_enabled, itask_run, have_snd_users, samps, step>>
  BY DEF Ready, HostRdy, pump
<1>2. ecpu'.last = ecpu.last
  BY <1>0, <1>1 DEF SpiTypeOK
<1>3. SpiInv'
  BY <1>0, <1>1, HostRdyInv
<1> QED
  BY <1>1, <1>2, <1>3, QuietStep

-----------------------------------------------------------------------------
(* All behaviours                                                          *)

LEMMA InitInv == Init => IInv
<1> SUFFICES ASSUME Init PROVE IInv
  OBVIOUS
<1>0. /\ op = [t \in Task |-> NoOp] /\ pc = [t \in Task |-> "idle"] /\ scan = [t \in Task |-> 1]
      /\ owner = "nobody" /\ waiting = <<>> /\ prev = "junk" /\ buf = [b \in Buffer |-> "BUSY"]
      /\ ecpu = [ready |-> TRUE, last |-> "nothing"]
      /\ chan_enabled = [t \in Sound |-> FALSE] /\ itask_run = FALSE /\ have_snd_users = FALSE
      /\ samps = FALSE /\ step = [t \in Task |-> ""]
  BY DEF Init, SpiInit
<1>1. NoOp \in [kind : Kind, cmd : Sent] /\ NoOp.cmd = "flush" /\ NoOp.kind = "set"
  BY DEF NoOp, Kind, Sent
<1>2. SpiTypeOK
  <2>1. /\ op \in [Task -> [kind : Kind, cmd : Sent]]
        /\ pc \in [Task -> {"idle", "lock", "send", "sent", "busy"}]
        /\ scan \in [Task -> 1 .. 2]
    <3>1. op \in [Task -> [kind : Kind, cmd : Sent]]
      BY <1>0, <1>1, Zenon
    <3>2. pc \in [Task -> {"idle", "lock", "send", "sent", "busy"}]
      BY <1>0
    <3>3. scan \in [Task -> 1 .. 2]
      <4>1. 1 \in 1 .. 2
        OBVIOUS
      <4> QED
        BY <1>0, <4>1, Zenon
    <3> QED
      BY <3>1, <3>2, <3>3
  <2>2. \A t \in Task : scan[t] = 1
    BY <1>0
  <2>3. waiting \in Seq(Task) /\ prev \in Buffer /\ buf \in [Buffer -> Sent \cup {"BUSY", "nothing"}]
    <3>1. waiting \in Seq(Task)
      BY <1>0, EmptySeq
    <3>2. prev \in Buffer
      BY <1>0 DEF Buffer
    <3>3. buf \in [Buffer -> Sent \cup {"BUSY", "nothing"}]
      BY <1>0, Zenon
    <3> QED
      BY <3>1, <3>2, <3>3
  <2>4. ecpu \in [ready : BOOLEAN, last : Sent \cup {"nothing"}] /\ owner \in Task \cup {"nobody"}
    BY <1>0
  <2> QED
    BY <2>1, <2>2, <2>3, <2>4 DEF SpiTypeOK
<1>3. Len(waiting) = 0
  BY <1>0, EmptySeq
<1>4. \A t \in Task : op[t].kind = "set" /\ pc[t] = "idle" /\ scan[t] = 1
  BY <1>0, <1>1
<1>5. LockInv /\ PrevInv /\ BusyInv /\ SentInv /\ ScanInv /\ ReplyIsMine
  <2>1. \A i \in 1 .. Len(waiting) : FALSE
    BY <1>3
  <2>2. LockInv
    BY <1>0, <1>4, <2>1, SpiConstants, Zenon DEF LockInv
  <2>3. PrevInv
    BY <1>0 DEF PrevInv
  <2>4. BusyInv /\ SentInv
    BY <1>4 DEF BusyInv, SentInv
  <2>5. ScanInv /\ ReplyIsMine
    BY <1>4 DEF ScanInv, ReplyIsMine, Gets
  <2> QED
    BY <2>2, <2>3, <2>4, <2>5
<1>6. TypeOK
  BY <1>0, <1>2 DEF TypeOK
<1>7. \A t \in Task : ~On(t) /\ ~Off(t)
  BY <1>0, <1>1, SpiAssumption, DataPumpAssumption DEF On, Off
<1>8. \A t \in Task : CommandInv(t)
  BY <1>0, <1>7 DEF CommandInv, Idle
<1>9. SampsInv /\ StartsInv /\ StopsInv /\ itask_run = Users
  BY <1>0 DEF SampsInv, StartsInv, StopsInv, Users
<1> QED
  BY <1>2, <1>5, <1>6, <1>8, <1>9 DEF IInv, SpiInv

LEMMA NextInv == IInv /\ [Next]_vars => IInv'
<1> SUFFICES ASSUME IInv, [Next]_vars PROVE IInv'
  OBVIOUS
<1>1. ASSUME NEW t \in Sound, Arrive(t) PROVE IInv'
  <2> DEFINE enabled == [chan_enabled EXCEPT ![t] = TRUE]
  <2>1. /\ StartStop(t, enabled) /\ enabled \in [Sound -> BOOLEAN]
        /\ \A s \in Sound : s # t => enabled[s] = chan_enabled[s]
    BY <1>1 DEF Arrive, IInv, TypeOK
  <2> HIDE DEF enabled
  <2> QED
    BY <2>1, StartStopInv
<1>2. ASSUME NEW t \in Sound, DataEnable(t) PROVE IInv'
  BY <1>2, StartStopInv DEF DataEnable, IInv, TypeOK
<1>3. ASSUME NEW t \in Sound, Leave(t) PROVE IInv'
  <2> DEFINE enabled == [chan_enabled EXCEPT ![t] = FALSE]
  <2>1. /\ StartStop(t, enabled) /\ enabled \in [Sound -> BOOLEAN]
        /\ \A s \in Sound : s # t => enabled[s] = chan_enabled[s]
    BY <1>3 DEF Leave, IInv, TypeOK
  <2> HIDE DEF enabled
  <2> QED
    BY <2>1, StartStopInv
<1>4. ASSUME UNCHANGED vars PROVE IInv'
  <2>1. /\ UNCHANGED <<op, pc, scan, owner, waiting, prev, buf, ecpu>>
        /\ UNCHANGED <<chan_enabled, itask_run, have_snd_users, samps, step>>
    BY <1>4 DEF vars
  <2>2. SpiInv'
    BY <2>1, SpiStays DEF IInv, spi
  <2> QED
    BY <2>1, <2>2, QuietStep
<1>5. \/ \E t \in Sound : Arrive(t) \/ DataEnable(t) \/ Leave(t) \/ Continue(t) \/ Finish(t)
      \/ Interrupt \/ Reset \/ Serviced \/ Clear
      \/ \E t \in Reader : Read(t)
      \/ \E t \in Task : Works(t)
      \/ Flushes \/ Ready \/ UNCHANGED vars
  BY DEF Next
<1> QED
  BY <1>1, <1>2, <1>3, <1>4, <1>5, ContinueInv, FinishInv, InterruptInv, ResetInv, ServicedInv,
     ClearInv, ReadInv, WorksInv, FlushesInv, ReadyInv

\* The transport, and who starts and stops the eCPU, are as described above in
\* every reachable state.
THEOREM PumpInvariant == Spec => []IInv
BY InitInv, NextInv, PTL DEF Spec

\* Every variable of the transport and of the data pump has its type.
THEOREM TypeCorrect == Spec => []TypeOK
<1>1. IInv => TypeOK
  BY DEF IInv
<1> QED
  BY <1>1, PumpInvariant, PTL

\* A task that has read something has the reply to its own command, although
\* the replies come with the transfers of other tasks (spi_get()).
THEOREM RepliesAreMine == Spec => []ReplyIsMine
<1>1. IInv => ReplyIsMine
  BY DEF IInv, SpiInv
<1> QED
  BY <1>1, PumpInvariant, PTL

\* When no task is in the middle of starting or stopping it, the eCPU delivers
\* samples exactly if a channel is in use (data_pump_start_stop(), snd_service()).
THEOREM PumpFollows == Spec => []PumpFollowsUsers
<1>1. IInv => PumpFollowsUsers
  <2> SUFFICES ASSUME IInv, Quiet PROVE itask_run = Users /\ samps = itask_run
    BY DEF PumpFollowsUsers
  <2>1. \A t \in Sound \cup {Itask} : t \in Task /\ Idle(t) /\ step[t] = ""
    BY PumpConstants DEF Quiet, At
  <2>2. \A t \in Task : ~On(t) /\ ~Off(t)
    BY <2>1 DEF IInv, CommandInv
  <2>3. itask_run => samps
    BY <2>1, <2>2, PumpConstants DEF IInv, StartsInv
  <2>4. samps => itask_run
    BY <2>1, <2>2, PumpConstants DEF IInv, StopsInv
  <2>5. itask_run \in BOOLEAN /\ samps \in BOOLEAN
    BY DEF IInv, TypeOK
  <2> QED
    BY <2>3, <2>4, <2>5 DEF IInv
<1> QED
  BY <1>1, PumpInvariant, PTL
=============================================================================
