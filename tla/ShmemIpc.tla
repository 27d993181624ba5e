------------------------------ MODULE ShmemIpc ------------------------------
(***************************************************************************)
(* support/shmem.cpp: calls from tasks of the server to a helper process   *)
(* through shared memory.  The server is the parent, the helper its child, *)
(* and both run at the same time.  A call on channel `which' sets a        *)
(* request flag and sends a real-time signal; the child looks at all its   *)
(* channels after each signal, runs the function and sets a done flag that *)
(* the caller waits for and clears together with the request.              *)
(*                                                                         *)
(* The flags are plain memory, so each load and store is a step of its own *)
(* and the two loads of a comparison and the two stores of an assignment   *)
(* chain come in either order.  The tasks of the server are coroutines:    *)
(* one goes on only when the others are outside a call or wait in it.      *)
(*                                                                         *)
(* Instances in the server: SPI transfers (one channel, used under         *)
(* spi_lock), the FFTs of the waterfalls (one channel for each receiver),  *)
(* the WSPR decoders (a child for each receiver, NO_WAIT and polling).     *)
(***************************************************************************)
EXTENDS Integers, FiniteSets

CONSTANTS
  NSlots,     \* entries of the arrays of shmem_ipc_t (N_SHMEM_WHICH)
  Which,      \* the channels of this child that are used
  NoWait,     \* those that are called with NO_WAIT and polled
  MaxSignals, \* signals of one number that the kernel queues for a process
  LateClear   \* may a NO_WAIT call come before the child has cleared the
              \* request of the one before it?  (In the server it comes at
              \* least half a minute later.)

Slot == 0 .. NSlots - 1

ASSUME ShmemIpcAssumption ==
  /\ NSlots \in Nat \ {0}
  /\ Which \subseteq Slot
  /\ NoWait \subseteq Which
  /\ MaxSignals \in Nat \ {0}
  /\ LateClear \in BOOLEAN

VARIABLES
  request, done, no_wait,    \* the fields of shmem_ipc_t, by channel
  which_hiwat,
  child_signalled,
  signals,                   \* signals the kernel has queued for the child
  cpc, i, reg,               \* the child: where it is, its loop index, and
                             \* the first of the two flags it compares
  ppc                        \* where the caller of each channel is

childVars == <<cpc, i, reg, child_signalled>>
vars == <<request, done, no_wait, which_hiwat, signals, ppc, childVars>>

Flag == {0, 1}
None == [flag |-> "none", value |-> 0]
Reg == [flag : {"none", "request", "done"}, value : Flag]

----------------------------------------------------------------------------
(* The caller.  shmem_ipc_invoke(): a request that is still there is a     *)
(* panic.                                                                  *)
HiWat_Kept(w) == which_hiwat
HiWat(w) == IF w > which_hiwat THEN w ELSE which_hiwat

Invoke(w) ==
  /\ ppc[w] = "idle"
  /\ (w \in NoWait /\ ~LateClear) => ~(cpc \in {"no_wait", "clear"} /\ i = w)
  /\ which_hiwat' = HiWat(w)
  /\ IF request[w] # 0
     THEN ppc' = [ppc EXCEPT ![w] = "panic"] /\ UNCHANGED request
     ELSE /\ request' = [request EXCEPT ![w] = 1]
          /\ ppc' = [ppc EXCEPT ![w] = "posted"]
  /\ UNCHANGED <<done, no_wait, signals>>

(* no_wait is set and the signal is sent.  When the kernel's queue is full *)
(* the signal stays pending but is not counted once more.                  *)
Kill(w) ==
  /\ ppc[w] = "posted"
  /\ no_wait' = [no_wait EXCEPT ![w] = w \in NoWait]
  /\ signals' = IF signals < MaxSignals THEN signals + 1 ELSE signals
  /\ ppc' = [ppc EXCEPT ![w] = "wait"]
  /\ UNCHANGED <<request, done, which_hiwat>>

(* The caller looks at the done flag, in the loop around                   *)
(* TaskSleepWakeupTest() or NextTask(), or with shmem_ipc_poll().          *)
SeesDone_Always(w) == TRUE
SeesDone(w) == done[w] = 1

Await(w) ==
  /\ ppc[w] = "wait"
  /\ ppc' = IF SeesDone(w) THEN [ppc EXCEPT ![w] = "clear"] ELSE ppc
  /\ UNCHANGED <<request, done, no_wait, which_hiwat, signals>>

(* request[which] = done[which] = 0                                        *)
ClearRequest_Not(w) == UNCHANGED <<request, done>>
ClearRequest(w) == request' = [request EXCEPT ![w] = 0] /\ UNCHANGED done
ClearDone(w) == done' = [done EXCEPT ![w] = 0] /\ UNCHANGED request

Clear(w) ==
  /\ ppc[w] = "clear"
  /\ \/ ClearDone(w) /\ ppc' = [ppc EXCEPT ![w] = "clear request"]
     \/ ClearRequest(w) /\ ppc' = [ppc EXCEPT ![w] = "clear done"]
  /\ UNCHANGED <<no_wait, which_hiwat, signals>>

Return(w) ==
  /\ \/ ppc[w] = "clear request" /\ ClearRequest(w)
     \/ ppc[w] = "clear done" /\ ClearDone(w)
  /\ ppc' = [ppc EXCEPT ![w] = "idle"]
  /\ UNCHANGED <<no_wait, which_hiwat, signals>>

CallerNext(w) ==
  /\ \A v \in Which \ {w} : ppc[v] \in {"idle", "wait"}
  /\ Invoke(w) \/ Kill(w) \/ Await(w) \/ Clear(w) \/ Return(w)
  /\ UNCHANGED childVars

----------------------------------------------------------------------------
(* The child.  Its handler runs while the signal is not blocked: from      *)
(* sig_arm() to sigprocmask() ("open") and inside sigsuspend().            *)
Handler ==
  /\ cpc \in {"open", "wait"}
  /\ cpc = "wait" => ~child_signalled
  /\ signals > 0
  /\ signals' = signals - 1
  /\ child_signalled' = TRUE
  /\ UNCHANGED <<request, done, cpc, i, reg>>

Block ==
  /\ cpc = "open"
  /\ cpc' = "wait"
  /\ UNCHANGED <<request, done, signals, child_signalled, i, reg>>

Scan ==
  /\ cpc = "wait" /\ child_signalled
  /\ cpc' = "scan" /\ i' = 0
  /\ UNCHANGED <<request, done, signals, child_signalled, reg>>

(* for (i = 0; i <= which_hiwat; i++) if (request[i] > done[i]) ...        *)
InScan_Short == i < which_hiwat
InScan == i <= which_hiwat

Load ==
  /\ cpc = "scan" /\ InScan
  /\ reg' \in {[flag |-> "request", value |-> request[i]],
               [flag |-> "done", value |-> done[i]]}
  /\ cpc' = "compare"
  /\ UNCHANGED <<request, done, signals, child_signalled, i>>

Asked(r, d) == r > d

Compare ==
  LET r == IF reg.flag = "request" THEN reg.value ELSE request[i]
      d == IF reg.flag = "done" THEN reg.value ELSE done[i]
  IN
  /\ cpc = "compare"
  /\ IF Asked(r, d) THEN cpc' = "func" /\ i' = i
                    ELSE cpc' = "scan" /\ i' = i + 1
  /\ reg' = None
  /\ UNCHANGED <<request, done, signals, child_signalled>>

(* func(i) has returned: done[i] = 1                                       *)
Func ==
  /\ cpc = "func"
  /\ done' = [done EXCEPT ![i] = 1]
  /\ cpc' = "no_wait"
  /\ UNCHANGED <<request, signals, child_signalled, i, reg>>

TestNoWait ==
  /\ cpc = "no_wait"
  /\ IF no_wait[i] THEN cpc' = "clear" /\ i' = i
                   ELSE cpc' = "scan" /\ i' = i + 1
  /\ UNCHANGED <<request, done, signals, child_signalled, reg>>

ChildClear ==
  /\ cpc = "clear"
  /\ request' = [request EXCEPT ![i] = 0]
  /\ cpc' = "scan" /\ i' = i + 1
  /\ UNCHANGED <<done, signals, child_signalled, reg>>

ScanEnds ==
  /\ cpc = "scan" /\ ~InScan
  /\ child_signalled' = FALSE
  /\ cpc' = "wait" /\ i' = 0
  /\ UNCHANGED <<request, done, signals, reg>>

ChildNext ==
  /\ \/ Handler \/ Block \/ Scan \/ Load \/ Compare \/ Func
     \/ TestNoWait \/ ChildClear \/ ScanEnds
  /\ UNCHANGED <<no_wait, which_hiwat, ppc>>

----------------------------------------------------------------------------
(* shmem_ipc_setup(); the child has armed its handler by the time of the   *)
(* first call.                                                             *)
Init ==
  /\ request = [w \in Slot |-> 0]
  /\ done = [w \in Slot |-> 0]
  /\ no_wait = [w \in Slot |-> FALSE]
  /\ which_hiwat = 0
  /\ signals = 0
  /\ ppc = [w \in Which |-> "idle"]
  /\ cpc = "open"
  /\ i = 0
  /\ reg = None
  /\ child_signalled = FALSE

Next == ChildNext \/ \E w \in Which : CallerNext(w)

Spec == Init /\ [][Next]_vars

(* Fairness: the kernel runs both processes and delivers signals, the      *)
(* function returns, and the scheduler of the server comes back to a task  *)
(* whose wakeup test is true or whose poll interval is over, however often *)
(* the others of its priority run (strong fairness: its round robin).      *)
Fairness ==
  /\ WF_vars(ChildNext)
  /\ \A w \in Which : SF_vars(CallerNext(w) /\ ppc[w] # "idle")

FairSpec == Spec /\ Fairness

----------------------------------------------------------------------------
(* Type invariant: flags are 0 or 1, the loop of the child stays within    *)
(* the arrays of shmem_ipc_t, and no caller has met a request of its own   *)
(* that is still there (the panic "reentrant" of shmem_ipc_invoke()).      *)
TypeOK ==
  /\ request \in [Slot -> Flag]
  /\ done \in [Slot -> Flag]
  /\ no_wait \in [Slot -> BOOLEAN]
  /\ which_hiwat \in Slot
  /\ signals \in 0 .. MaxSignals
  /\ ppc \in [Which -> {"idle", "posted", "wait",
                        "clear", "clear request", "clear done"}]
  /\ cpc \in {"open", "wait", "scan", "compare", "func", "no_wait", "clear"}
  /\ i \in 0 .. NSlots
  /\ cpc \in {"compare", "func", "no_wait", "clear"} => i \in Slot
  /\ reg \in Reg
  /\ child_signalled \in BOOLEAN

(* The child has yet to look at channel w with all its flags as they are   *)
WillLook(w) ==
  \/ signals > 0
  \/ child_signalled /\ cpc \in {"open", "wait"}
  \/ cpc = "scan" /\ i <= w
  \/ cpc \in {"func", "no_wait", "clear"} /\ i < w
  \/ cpc = "compare" /\ i < w
  \/ cpc = "compare" /\ i = w /\ reg = [flag |-> "request", value |-> 1]
  \/ cpc = "compare" /\ i = w /\ reg = [flag |-> "done", value |-> 0]

(* No lost wakeup: while a caller waits for a call that is not done, its   *)
(* request is there and the child runs the function or has yet to look at  *)
(* the request, although the child clears child_signalled without looking  *)
(* again ("no race with set in child since child_sig blocked").            *)
CallIsNoticed ==
  \A w \in Which :
    ppc[w] = "wait" /\ done[w] = 0 =>
      /\ request[w] = 1
      /\ which_hiwat >= w
      /\ WillLook(w) \/ (cpc = "func" /\ i = w)

(* Every call comes to an end.                                             *)
CallReturns == \A w \in Which : (ppc[w] = "wait") ~> (ppc[w] = "idle")

(* With one channel, the flags and the signal implement Rpc: the function  *)
(* runs exactly once for each call, between the call and its return, and   *)
(* the caller does not touch the shared buffers while it runs.             *)
CallOf(w) ==
  IF cpc = "func" /\ i = w THEN "serving"
  ELSE IF ppc[w] = "idle" THEN "none"
  ELSE IF ppc[w] \in {"posted", "wait"} /\ done[w] = 0 THEN "asked"
  ELSE "served"

R == INSTANCE Rpc WITH call <- [w \in Which |-> CallOf(w)]

ImplementsRpc == R!Spec
=============================================================================
