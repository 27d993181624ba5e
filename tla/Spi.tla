--------------------------------- MODULE Spi ---------------------------------
(***************************************************************************)
(* The SPI transport (platform/common/spi.cpp): how tasks send commands to *)
(* the eCPU and get its replies.                                           *)
(*                                                                         *)
(* A transfer is full duplex: while a command goes out, the reply to the   *)
(* command before comes in, for whoever has sent that one.  The transfer   *)
(* itself is done by another process (module Rpc), so that other tasks run *)
(* meanwhile; they also run while a transfer is tried again because the    *)
(* eCPU was not ready.  The lock spi_lock is handed out by priority and,   *)
(* among equals, in the order of the requests (module Locks).              *)
(*                                                                         *)
(* Left out: sizes, the overflow flag, and what happens when the eCPU is   *)
(* still not ready after wait_avail() has looked 1000 times and spi_scan() *)
(* has tried 32 times ("NO REPLY FROM eCPU!").                             *)
(***************************************************************************)
EXTENDS Integers, SequencesExt

CONSTANTS
  Task,      \* the tasks that use SPI
  Prio,      \* Prio[t]: a number, the priority of t
  Helper,    \* the task of spi_pump()
  Command    \* what the tasks send

ASSUME SpiAssumption ==
  /\ Helper \in Task /\ Prio \in [Task -> Int]
  /\ "junk" \notin Task /\ "nobody" \notin Task
  /\ {"flush", "BUSY", "nothing"} \cap Command = {}

VARIABLES
  op,       \* op[t]: the operation that t is in or was in last, and its command
  pc,       \* pc[t]: how far t is
  scan,     \* scan[t]: 2 when t collects the reply to its own command
  owner,    \* of spi_lock
  waiting,  \* the tasks that wait for it, in the order of their requests
  prev,     \* prev: the buffer that the next reply goes to
  buf,      \* buf[b]: SPI_BUSY in the status, or the command replied to
  ecpu      \* the eCPU: whether CMD_READY is set, and the command it has accepted last

spi == <<op, pc, scan, owner, waiting, prev, buf, ecpu>>

Kind == {"set", "set_noduplex", "get", "get_noduplex"}
Sent == Command \cup {"flush"}
Buffer == Task \cup {"junk"}

Gets(t) == op[t].kind \in {"get", "get_noduplex"}
Idle(t) == pc[t] = "idle"
NoOp == [kind |-> "set", cmd |-> "flush"]

-----------------------------------------------------------------------------
(* spi_set(), spi_set_noduplex(), spi_get(), spi_get_noduplex() *)

Queued(t) == Append(waiting, t)

\* lock_enter(&spi_lock)
Call(t, kind, cmd) ==
  /\ Idle(t)
  /\ op' = [op EXCEPT ![t] = [kind |-> kind, cmd |-> cmd]]
  /\ pc' = [pc EXCEPT ![t] = "lock"]
  /\ waiting' = Queued(t)
  /\ UNCHANGED <<scan, owner, prev, buf, ecpu>>

\* The first of those with the highest priority.
IsNext(i) ==
  /\ \A j \in DOMAIN waiting : Prio[waiting[j]] <= Prio[waiting[i]]
  /\ \A j \in 1 .. i - 1 : Prio[waiting[j]] < Prio[waiting[i]]

Enter(t) ==
  /\ owner = "nobody"
  /\ \E i \in DOMAIN waiting :
       /\ waiting[i] = t /\ IsNext(i)
       /\ waiting' = RemoveAt(waiting, i)
  /\ owner' = t
  /\ pc' = [pc EXCEPT ![t] = "send"]
  /\ UNCHANGED <<op, scan, prev, buf, ecpu>>

(* spi_scan() *)

\* The buffer for the reply, which the next caller collects.
Miso(t) == IF Gets(t) /\ scan[t] = 1 THEN t ELSE "junk"
Mosi(t) == IF scan[t] = 1 THEN op[t].cmd ELSE "flush"

\* wait_avail() looks whether the eCPU is ready; spi_dev() starts the transfer
\* in any case.  The eCPU takes the command, and gives the reply to the one
\* before, only if it is ready.  (Nobody reads the junk.)
Reply(b) == IF b = "junk" THEN "nothing" ELSE ecpu.last

Transfer(t) ==
  /\ pc[t] = "send"
  /\ LET busy == [buf EXCEPT ![Miso(t)] = "BUSY", ![prev] = "BUSY"]
     IN  IF ecpu.ready
         THEN /\ buf' = [busy EXCEPT ![prev] = Reply(prev)]
              /\ ecpu' = [ready |-> FALSE, last |-> Mosi(t)]
         ELSE /\ buf' = busy
              /\ UNCHANGED ecpu
  /\ pc' = [pc EXCEPT ![t] = "sent"]
  /\ UNCHANGED <<op, scan, owner, waiting, prev>>

\* "new request accepted?"  If not, wait, still holding the lock, and try again.
Retry(t) ==
  /\ pc[t] = "sent" /\ buf[prev] = "BUSY"
  /\ pc' = [pc EXCEPT ![t] = "send"]
  /\ UNCHANGED <<op, scan, owner, waiting, prev, buf, ecpu>>

\* If so, noduplex operations send CmdFlush to collect their own reply; the
\* others leave it to the next caller.
MoreScans_Not(t) == FALSE
MoreScans_All(t) == scan[t] = 1
MoreScans(t) == scan[t] = 1 /\ op[t].kind \in {"set_noduplex", "get_noduplex"}

NewPrev(t) == Miso(t)

Accepted(t) ==
  /\ pc[t] = "sent" /\ buf[prev] # "BUSY"
  /\ prev' = NewPrev(t)
  /\ UNCHANGED <<waiting, buf, ecpu>>
  /\ \/ /\ MoreScans(t)
        /\ scan' = [scan EXCEPT ![t] = 2]
        /\ pc' = [pc EXCEPT ![t] = "send"]
        /\ UNCHANGED <<op, owner>>
     \/ /\ ~MoreScans(t)
        /\ owner' = "nobody"
        /\ scan' = [scan EXCEPT ![t] = 1]
        /\ pc' = [pc EXCEPT ![t] = IF op[t].kind = "get" THEN "busy" ELSE "idle"]
        /\ op' = IF Gets(t) THEN op ELSE [op EXCEPT ![t] = NoOp]

\* spi_get(): "wait for some future SPI from another task to make our reply valid"
Got(t) ==
  /\ pc[t] = "busy" /\ buf[t] # "BUSY"
  /\ pc' = [pc EXCEPT ![t] = "idle"]
  /\ UNCHANGED <<op, scan, owner, waiting, prev, buf, ecpu>>

\* NT_BUSY_WAIT has the scheduler run spi_pump(), which sends CmdPumpFlush.
Needed_Not == FALSE
Needed == \E t \in Task : pc[t] = "busy"

Pump == Needed /\ Call(Helper, "set", "flush")

\* The eCPU has done what it was told, and sets HOST_RDY.
HostRdy ==
  /\ ~ecpu.ready
  /\ ecpu' = [ecpu EXCEPT !.ready = TRUE]
  /\ UNCHANGED <<op, pc, scan, owner, waiting, prev, buf>>

-----------------------------------------------------------------------------
SpiInit ==
  /\ op = [t \in Task |-> NoOp]
  /\ pc = [t \in Task |-> "idle"]
  /\ scan = [t \in Task |-> 1]
  /\ owner = "nobody" /\ waiting = <<>>
  /\ prev = "junk" /\ buf = [b \in Buffer |-> "BUSY"]
  /\ ecpu = [ready |-> TRUE, last |-> "nothing"]

\* One step of an operation.
Step(t) == Enter(t) \/ Transfer(t) \/ Retry(t) \/ Accepted(t) \/ Got(t)

-----------------------------------------------------------------------------
(* Properties *)

SpiTypeOK ==
  /\ op \in [Task -> [kind : Kind, cmd : Sent]]
  /\ pc \in [Task -> {"idle", "lock", "send", "sent", "busy"}]
  /\ scan \in [Task -> 1 .. 2]
  /\ \A t \in Task : scan[t] = 2 => op[t].kind \in {"set_noduplex", "get_noduplex"}
  /\ owner \in Task \cup {"nobody"} /\ waiting \in Seq(Task)
  /\ prev \in Buffer /\ buf \in [Buffer -> Sent \cup {"BUSY", "nothing"}]
  /\ ecpu \in [ready : BOOLEAN, last : Sent \cup {"nothing"}]

\* Whoever asks for something gets the reply to its own command, although each
\* reply comes with the transfer of somebody else and with any delay.
ReplyIsMine == \A t \in Task : Idle(t) /\ Gets(t) => buf[t] = op[t].cmd

\* Nobody waits for ever for a reply: if no other task sends anything, the
\* helper does.
GetReturns == \A t \in Task : pc[t] = "busy" ~> pc[t] # "busy"
=============================================================================
