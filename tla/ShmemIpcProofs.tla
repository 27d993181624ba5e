--------------------------- MODULE ShmemIpcProofs ---------------------------
(***************************************************************************)
(* Proofs about module ShmemIpc, for any number of slots, channels and     *)
(* queued signals.                                                         *)
(***************************************************************************)
EXTENDS ShmemIpc, TLAPS

(* A caller that starts a call finds no request of its own.                *)
RequestCleared ==
  \A w \in Which : ppc[w] \in {"idle", "clear done"} => request[w] = 0

TypeInv == TypeOK /\ RequestCleared

LEMMA SlotFacts ==
  /\ Which \subseteq Slot
  /\ 0 \in Slot /\ 0 \in 0 .. NSlots
  /\ \A x \in Slot : x \in Nat /\ x \in 0 .. NSlots /\ x + 1 \in 0 .. NSlots
  /\ \A x \in 0 .. NSlots, h \in Slot : x <= h => x \in Slot
<1>1. NSlots \in Nat \ {0} /\ Which \subseteq Slot
  BY ShmemIpcAssumption
<1> QED BY <1>1 DEF Slot

LEMMA SignalFacts ==
  /\ 0 \in 0 .. MaxSignals
  /\ \A n \in 0 .. MaxSignals :
       /\ n > 0 => n - 1 \in 0 .. MaxSignals
       /\ n < MaxSignals => n + 1 \in 0 .. MaxSignals
<1>1. MaxSignals \in Nat \ {0}
  BY ShmemIpcAssumption
<1> QED BY <1>1

LEMMA FlagFacts == 0 \in Flag /\ 1 \in Flag /\ None \in Reg
  BY DEF Flag, None, Reg

LEMMA MembershipDecided == ASSUME NEW S, NEW x PROVE (x \in S) \in BOOLEAN
  BY SMT

LEMMA InitTypes == Init => TypeInv
  BY SlotFacts, SignalFacts, FlagFacts DEF Init, TypeInv, TypeOK, RequestCleared

(* The steps of the child keep the types and only ever clear a request.    *)
LEMMA ChildTypes ==
  ASSUME TypeInv, ChildNext PROVE TypeInv'
<1> USE DEF TypeInv, TypeOK, RequestCleared
<1>0. UNCHANGED <<no_wait, which_hiwat, ppc>>
  BY DEF ChildNext
<1>1. CASE Handler
  BY <1>0, <1>1, SignalFacts DEF Handler
<1>2. CASE Block
  BY <1>0, <1>2 DEF Block
<1>3. CASE Scan
  BY <1>0, <1>3, SlotFacts DEF Scan
<1>4. CASE Load
  <2>1. i \in Slot
    BY <1>0, <1>4, SlotFacts DEF Load, InScan
  <2>2. request[i] \in Flag /\ done[i] \in Flag
    BY <2>1
  <2>3. \A x \in Flag : /\ [flag |-> "request", value |-> x] \in Reg
                        /\ [flag |-> "done", value |-> x] \in Reg
    BY DEF Reg
  <2>4. \/ reg' = [flag |-> "request", value |-> request[i]]
        \/ reg' = [flag |-> "done", value |-> done[i]]
    BY <1>0, <1>4 DEF Load
  <2>5. reg' \in Reg
    BY <2>2, <2>3, <2>4
  <2> QED BY <1>0, <1>4, <2>1, <2>5 DEF Load
<1>5. CASE Compare
  <2>1. i \in Slot /\ i + 1 \in 0 .. NSlots
    BY <1>0, <1>5, SlotFacts DEF Compare
  <2>2. reg' \in Reg
    BY <1>0, <1>5, FlagFacts DEF Compare
  <2>3. \/ cpc' = "func" /\ i' = i
        \/ cpc' = "scan" /\ i' = i + 1
    BY <1>0, <1>5 DEF Compare
  <2> QED BY <1>0, <1>5, <2>1, <2>2, <2>3 DEF Compare
<1>6. CASE Func
  BY <1>0, <1>6, FlagFacts DEF Func
<1>7. CASE TestNoWait
  BY <1>0, <1>7, SlotFacts DEF TestNoWait
<1>8. CASE ChildClear
  <2>1. i \in Slot /\ i + 1 \in 0 .. NSlots
    BY <1>0, <1>8, SlotFacts DEF ChildClear
  <2>2. request' \in [Slot -> Flag]
    BY <1>0, <1>8, FlagFacts DEF ChildClear
  <2>3. RequestCleared'
    BY <1>0, <1>8, SlotFacts DEF ChildClear
  <2> QED BY <1>0, <1>8, <2>1, <2>2, <2>3 DEF ChildClear
<1>9. CASE ScanEnds
  BY <1>0, <1>9, SlotFacts DEF ScanEnds
<1> QED
  BY <1>1, <1>2, <1>3, <1>4, <1>5, <1>6, <1>7, <1>8, <1>9 DEF ChildNext

(* The steps of a caller: Invoke finds no request.                         *)
LEMMA CallerTypes ==
  ASSUME TypeInv, NEW w \in Which, CallerNext(w) PROVE TypeInv'
<1> USE DEF TypeInv, TypeOK, RequestCleared, childVars
<1>0. w \in Slot /\ UNCHANGED childVars
  BY SlotFacts DEF CallerNext
<1>1. CASE Invoke(w)
  <2>1. request[w] = 0
    BY <1>1 DEF Invoke
  <2>2. /\ request' = [request EXCEPT ![w] = 1]
        /\ ppc' = [ppc EXCEPT ![w] = "posted"]
    BY <1>1, <2>1 DEF Invoke
  <2>3. which_hiwat' \in Slot
    BY <1>0, <1>1 DEF Invoke, HiWat
  <2>4. request' \in [Slot -> Flag]
    BY <2>2, FlagFacts
  <2>5. RequestCleared'
    <3>1. SUFFICES ASSUME NEW v \in Which, ppc'[v] \in {"idle", "clear done"}
                   PROVE  request'[v] = 0
      BY DEF RequestCleared
    <3>2. v # w /\ ppc'[v] = ppc[v]
      BY <2>2, <3>1
    <3>3. request'[v] = request[v]
      BY <2>2, <3>2, <1>0, SlotFacts
    <3> QED BY <3>1, <3>2, <3>3
  <2> QED BY <1>0, <1>1, <2>2, <2>3, <2>4, <2>5 DEF Invoke
<1>2. CASE Kill(w)
  <2>1. no_wait' \in [Slot -> BOOLEAN]
    <3>1. no_wait' = [no_wait EXCEPT ![w] = w \in NoWait]
      BY <1>2 DEF Kill
    <3>2. (w \in NoWait) \in BOOLEAN
      BY MembershipDecided
    <3>3. \A b \in BOOLEAN : [no_wait EXCEPT ![w] = b] \in [Slot -> BOOLEAN]
      OBVIOUS
    <3> QED BY <3>1, <3>2, <3>3, Zenon
  <2>2. ppc' = [ppc EXCEPT ![w] = "wait"]
    BY <1>2 DEF Kill
  <2>3. signals' \in 0 .. MaxSignals
    BY <1>2, SignalFacts DEF Kill
  <2> QED BY <1>0, <1>2, <2>1, <2>2, <2>3 DEF Kill
<1>3. CASE Await(w)
  BY <1>0, <1>3 DEF Await
<1>4. CASE Clear(w)
  <2>1. CASE ClearDone(w) /\ ppc' = [ppc EXCEPT ![w] = "clear request"]
    BY <1>0, <1>4, <2>1, FlagFacts DEF Clear, ClearDone
  <2>2. CASE ClearRequest(w) /\ ppc' = [ppc EXCEPT ![w] = "clear done"]
    <3>1. request' \in [Slot -> Flag]
      BY <2>2, FlagFacts DEF ClearRequest
    <3>2. ASSUME NEW v \in Which, ppc'[v] \in {"idle", "clear done"}
          PROVE  request'[v] = 0
      BY <1>0, <2>2, <3>2, SlotFacts DEF ClearRequest
    <3> QED BY <1>0, <1>4, <2>2, <3>1, <3>2 DEF Clear, ClearRequest
  <2> QED BY <1>4, <2>1, <2>2 DEF Clear
<1>5. CASE Return(w)
  <2>1. ppc' = [ppc EXCEPT ![w] = "idle"]
    BY <1>5 DEF Return
  <2>2. CASE ppc[w] = "clear request" /\ ClearRequest(w)
    <3>1. request' \in [Slot -> Flag]
      BY <2>2, FlagFacts DEF ClearRequest
    <3>2. ASSUME NEW v \in Which, ppc'[v] \in {"idle", "clear done"}
          PROVE  request'[v] = 0
      BY <1>0, <2>1, <2>2, <3>2, SlotFacts DEF ClearRequest
    <3> QED BY <1>0, <1>5, <2>1, <2>2, <3>1, <3>2 DEF Return, ClearRequest
  <2>3. CASE ppc[w] = "clear done" /\ ClearDone(w)
    <3>1. done' \in [Slot -> Flag]
      BY <2>3, FlagFacts DEF ClearDone
    <3>2. ASSUME NEW v \in Which, ppc'[v] \in {"idle", "clear done"}
          PROVE  request'[v] = 0
      BY <2>1, <2>3, <3>2 DEF ClearDone
    <3> QED BY <1>0, <1>5, <2>1, <2>3, <3>1, <3>2 DEF Return, ClearDone
  <2> QED BY <1>5, <2>2, <2>3 DEF Return
<1> QED
  BY <1>1, <1>2, <1>3, <1>4, <1>5 DEF CallerNext

LEMMA StutterTypes ==
  ASSUME TypeInv, UNCHANGED vars PROVE TypeInv'
  BY DEF vars, childVars, TypeInv, TypeOK, RequestCleared

LEMMA TypesInductive == Spec => []TypeInv
<1>1. TypeInv /\ [Next]_vars => TypeInv'
  BY ChildTypes, CallerTypes, StutterTypes DEF Next
<1> QED BY InitTypes, <1>1, PTL DEF Spec

(* The flags, the loop of the child and its registers keep their types,    *)
(* and no caller meets a request of its own that is still there: the panic *)
(* "reentrant" of shmem_ipc_invoke() cannot happen.                        *)
THEOREM ShmemTypeCorrect == Spec => []TypeOK
  BY TypesInductive, PTL DEF TypeInv

----------------------------------------------------------------------------
(* No lost wakeup.  Only a NO_WAIT channel has its request cleared by the  *)
(* child, and only after its done flag was set.                            *)
NoWaitKnown ==
  /\ \A w \in Slot : no_wait[w] => w \in NoWait
  /\ cpc = "clear" => i \in NoWait

Calling == {"posted", "wait"}

Noticed(w) ==
  ppc[w] \in Calling =>
    /\ which_hiwat >= w
    /\ done[w] = 0 =>
         /\ request[w] = 1
         /\ ~(cpc \in {"no_wait", "clear"} /\ i = w /\ w \in NoWait)
         /\ ppc[w] = "wait" => WillLook(w) \/ (cpc = "func" /\ i = w)

NoticeInv == NoWaitKnown /\ \A w \in Which : Noticed(w)

LEMMA SignalsInt == ASSUME TypeInv PROVE signals \in Int
<1>1. signals \in 0 .. MaxSignals
  BY DEF TypeInv, TypeOK
<1>2. MaxSignals \in Nat \ {0}
  BY ShmemIpcAssumption
<1> QED BY <1>1, <1>2

LEMMA InitNotice == Init => NoticeInv
  BY SlotFacts DEF Init, NoticeInv, NoWaitKnown, Noticed, Calling

LEMMA NoWaitStep ==
  ASSUME TypeInv, NoWaitKnown, [Next]_vars PROVE NoWaitKnown'
<1> USE DEF NoWaitKnown
<1>0. no_wait \in [Slot -> BOOLEAN]
  BY DEF TypeInv, TypeOK
<1>1. ASSUME NEW w \in Which, CallerNext(w), Kill(w) PROVE NoWaitKnown'
  <2>1. no_wait' = [no_wait EXCEPT ![w] = w \in NoWait] /\ UNCHANGED <<cpc, i>>
    BY <1>1 DEF CallerNext, Kill, childVars
  <2>2. ASSUME NEW v \in Slot, no_wait'[v] PROVE v \in NoWait
    <3>1. CASE v = w
      BY <1>0, <2>1, <2>2, <3>1, Zenon
    <3>2. CASE v # w
      BY <1>0, <2>1, <2>2, <3>2, Zenon
    <3> QED BY <3>1, <3>2
  <2> QED BY <2>1, <2>2
<1>2. ASSUME NEW w \in Which, CallerNext(w), ~Kill(w) PROVE NoWaitKnown'
  <2>1. UNCHANGED <<no_wait, cpc, i>>
    BY <1>2 DEF CallerNext, Invoke, Await, Clear, Return, childVars
  <2> QED BY <2>1
<1>3. ASSUME ChildNext, TestNoWait PROVE NoWaitKnown'
  <2>1. i \in Slot
    BY <1>3 DEF TestNoWait, TypeInv, TypeOK
  <2> QED BY <1>3, <2>1 DEF TestNoWait, ChildNext
<1>4. ASSUME ChildNext, ~TestNoWait PROVE NoWaitKnown'
  <2>1. UNCHANGED no_wait /\ cpc' # "clear"
    BY <1>4 DEF ChildNext, Handler, Block, Scan, Load, Compare, Func,
                ChildClear, ScanEnds
  <2> QED BY <2>1
<1>5. CASE UNCHANGED vars
  BY <1>5 DEF vars, childVars
<1> QED BY <1>1, <1>2, <1>3, <1>4, <1>5 DEF Next

(* A step of another caller moves neither this channel nor the child.      *)
LEMMA OthersNotice ==
  ASSUME TypeInv, NEW w \in Which, Noticed(w), NEW v \in Which \ {w},
         CallerNext(v)
  PROVE  Noticed(w)'
<1>0. w \in Slot /\ v \in Slot /\ w \in Nat /\ v \in Nat /\ v # w
  BY SlotFacts
<1>1. /\ request'[w] = request[w] /\ done'[w] = done[w] /\ ppc'[w] = ppc[w]
      /\ UNCHANGED <<cpc, i, reg, child_signalled>>
  BY <1>0 DEF TypeInv, TypeOK, CallerNext, Invoke, Kill, Await,
              Clear, Return, ClearRequest, ClearDone, childVars
<1>2. which_hiwat >= w => which_hiwat' >= w
  <2>1. which_hiwat \in Nat
    BY SlotFacts DEF TypeInv, TypeOK
  <2>2. which_hiwat' = which_hiwat \/ which_hiwat' = HiWat(v)
    BY DEF CallerNext, Invoke, Kill, Await, Clear, Return
  <2> QED BY <1>0, <2>1, <2>2 DEF HiWat
<1>3. signals > 0 => signals' > 0
  <2>1. signals' = signals \/ signals' = signals + 1
    BY DEF CallerNext, Invoke, Kill, Await, Clear, Return
  <2> QED BY <2>1, SignalsInt
<1> QED BY <1>1, <1>2, <1>3 DEF Noticed, WillLook

(* A caller's own step: the call starts with its request and ends the wait *)
(* for the signal with one that is queued.                                 *)
LEMMA OwnNotice ==
  ASSUME TypeInv, ~LateClear, NEW w \in Which, Noticed(w), CallerNext(w)
  PROVE  Noticed(w)'
<1>0. /\ w \in Slot /\ w \in Nat /\ which_hiwat \in Nat
      /\ UNCHANGED <<cpc, i, reg, child_signalled>>
  BY SlotFacts DEF TypeInv, TypeOK, CallerNext, childVars
<1>1. CASE Invoke(w)
  <2>1. request[w] = 0
    BY <1>1 DEF Invoke, TypeInv, RequestCleared
  <2>2. request'[w] = 1 /\ ppc'[w] = "posted"
    BY <1>0, <1>1, <2>1 DEF Invoke, TypeInv, TypeOK
  <2>3. which_hiwat' >= w
    BY <1>0, <1>1 DEF Invoke, HiWat
  <2>4. ~(cpc \in {"no_wait", "clear"} /\ i = w /\ w \in NoWait)
    BY <1>1 DEF Invoke
  <2> QED BY <1>0, <2>2, <2>3, <2>4 DEF Noticed
<1>2. CASE Kill(w)
  <2>1. /\ ppc[w] = "posted" /\ ppc'[w] = "wait"
        /\ UNCHANGED <<request, done, which_hiwat>>
    BY <1>2 DEF Kill, TypeInv, TypeOK
  <2>2. signals' > 0
    <3>1. signals \in 0 .. MaxSignals /\ MaxSignals \in Nat \ {0}
      BY ShmemIpcAssumption DEF TypeInv, TypeOK
    <3> QED BY <1>2, <3>1 DEF Kill
  <2> QED BY <1>0, <2>1, <2>2 DEF Noticed, Calling, WillLook
<1>3. CASE Await(w)
  <2>1. /\ ppc'[w] \in {ppc[w], "clear"}
        /\ UNCHANGED <<request, done, which_hiwat, signals>>
    BY <1>3 DEF Await, TypeInv, TypeOK
  <2> QED BY <1>0, <2>1 DEF Noticed, Calling, WillLook
<1>4. CASE Clear(w) \/ Return(w)
  <2>1. ppc'[w] \in {"clear request", "clear done", "idle"}
    BY <1>4 DEF Clear, Return, TypeInv, TypeOK
  <2> QED BY <2>1 DEF Noticed, Calling
<1> QED BY <1>1, <1>2, <1>3, <1>4 DEF CallerNext

(* The child's steps: it stops looking for a request only by finding it.   *)
LEMMA ChildNotice ==
  ASSUME TypeInv, NoWaitKnown, NEW w \in Which, Noticed(w), ChildNext
  PROVE  Noticed(w)'
<1>a. which_hiwat \in Slot /\ i \in 0 .. NSlots /\ done \in [Slot -> Flag]
  BY DEF TypeInv, TypeOK
<1>0. /\ w \in Slot /\ w \in Int /\ which_hiwat \in Int /\ i \in Int
      /\ 0 <= w /\ signals \in Int
  BY <1>a, SlotFacts, SignalsInt, ShmemIpcAssumption DEF Slot
<1>b. \/ done' = done
      \/ Func /\ i \in Slot /\ done' = [done EXCEPT ![i] = 1]
  BY DEF ChildNext, Handler, Block, Scan, Load, Compare, Func, TestNoWait,
         ChildClear, ScanEnds, TypeInv, TypeOK
<1>1. UNCHANGED <<ppc, which_hiwat>>
  BY DEF ChildNext
<1> SUFFICES ASSUME ppc[w] \in Calling, done'[w] = 0
             PROVE  /\ request'[w] = 1
                    /\ ~(cpc' \in {"no_wait", "clear"} /\ i' = w /\ w \in NoWait)
                    /\ ppc[w] = "wait" =>
                         WillLook(w)' \/ (cpc' = "func" /\ i' = w)
  BY <1>1 DEF Noticed
<1>2. done[w] = 0
  BY <1>0, <1>a, <1>b
<1>3. /\ request[w] = 1
      /\ ~(cpc \in {"no_wait", "clear"} /\ i = w /\ w \in NoWait)
      /\ ppc[w] = "wait" => WillLook(w) \/ (cpc = "func" /\ i = w)
      /\ which_hiwat >= w
  BY <1>2 DEF Noticed
<1>4. CASE Handler
  BY <1>3, <1>4 DEF Handler, WillLook
<1>5. CASE Block
  BY <1>3, <1>5 DEF Block, WillLook
<1>6. CASE Scan
  BY <1>0, <1>3, <1>6 DEF Scan, WillLook
<1>7. CASE Load
  <2>1. CASE i = w
    BY <1>2, <1>3, <1>7, <2>1 DEF Load, WillLook
  <2>2. CASE i # w
    BY <1>0, <1>3, <1>7, <2>2 DEF Load, WillLook
  <2> QED BY <2>1, <2>2
<1>8. CASE Compare
  <2>1. CASE i = w
    <3>1. /\ cpc = "compare" /\ cpc' \in {"func", "scan"}
          /\ UNCHANGED <<request, signals>>
      BY <1>8 DEF Compare
    <3>2. ASSUME signals > 0 PROVE WillLook(w)'
      BY <3>1, <3>2 DEF WillLook
    <3>3. ASSUME reg = [flag |-> "request", value |-> 1]
          PROVE  cpc' = "func" /\ i' = w
      <4>1. reg.flag = "request" /\ reg.value = 1
        BY <3>3
      <4> QED BY <1>2, <1>8, <2>1, <4>1 DEF Compare, Asked
    <3>4. ASSUME reg = [flag |-> "done", value |-> 0]
          PROVE  cpc' = "func" /\ i' = w
      <4>1. reg.flag = "done" /\ reg.value = 0
        BY <3>4
      <4> QED BY <1>3, <1>8, <2>1, <4>1 DEF Compare, Asked
    <3>5. ASSUME ppc[w] = "wait"
          PROVE  WillLook(w)' \/ (cpc' = "func" /\ i' = w)
      <4>1. \/ signals > 0
            \/ reg = [flag |-> "request", value |-> 1]
            \/ reg = [flag |-> "done", value |-> 0]
        BY <1>0, <1>3, <2>1, <3>1, <3>5 DEF WillLook
      <4> QED BY <3>2, <3>3, <3>4, <4>1
    <3> QED BY <1>3, <3>1, <3>5
  <2>2. CASE i # w
    BY <1>0, <1>3, <1>8, <2>2 DEF Compare, WillLook
  <2> QED BY <2>1, <2>2
<1>9. CASE Func
  <2>1. i # w
    BY <1>0, <1>a, <1>9 DEF Func
  <2> QED BY <1>3, <1>9, <2>1 DEF Func, WillLook
<1>10. CASE TestNoWait
  BY <1>0, <1>3, <1>10 DEF TestNoWait, WillLook
<1>11. CASE ChildClear
  <2>1. i # w /\ i \in Slot
    BY <1>3, <1>11 DEF ChildClear, NoWaitKnown, TypeInv, TypeOK
  <2>2. request'[w] = request[w]
    BY <1>0, <1>11, <2>1 DEF ChildClear, TypeInv, TypeOK
  <2> QED BY <1>0, <1>3, <1>11, <2>1, <2>2 DEF ChildClear, WillLook
<1>12. CASE ScanEnds
  BY <1>0, <1>3, <1>12 DEF ScanEnds, InScan, WillLook
<1> QED BY <1>4, <1>5, <1>6, <1>7, <1>8, <1>9, <1>10, <1>11, <1>12 DEF ChildNext

(* Whatever signals are merged or come while the child scans, a caller     *)
(* that waits is noticed; provided that a NO_WAIT call does not come while *)
(* the child has yet to clear the request of the one before it.            *)
THEOREM NoLostWakeup ==
  ASSUME ~LateClear
  PROVE  Spec => []CallIsNoticed
<1>1. TypeInv /\ NoticeInv /\ [Next]_vars => NoticeInv'
  <2> SUFFICES ASSUME TypeInv, NoticeInv, [Next]_vars PROVE NoticeInv'
    OBVIOUS
  <2>1. NoWaitKnown'
    BY NoWaitStep DEF NoticeInv
  <2>2. ASSUME NEW w \in Which PROVE Noticed(w)'
    <3>1. CASE ChildNext
      BY <3>1, ChildNotice DEF NoticeInv
    <3>2. ASSUME NEW v \in Which, CallerNext(v) PROVE Noticed(w)'
      BY <3>2, OwnNotice, OthersNotice DEF NoticeInv
    <3>3. CASE UNCHANGED vars
      BY <3>3 DEF NoticeInv, Noticed, WillLook, vars, childVars
    <3> QED BY <3>1, <3>2, <3>3 DEF Next
  <2> QED BY <2>1, <2>2 DEF NoticeInv
<1>2. NoticeInv => CallIsNoticed
  BY DEF NoticeInv, Noticed, CallIsNoticed, Calling
<1> QED BY InitNotice, TypesInductive, <1>1, <1>2, PTL DEF Spec

----------------------------------------------------------------------------
(* One channel.  The child looks for a request only while the caller waits *)
(* for it: otherwise no signal is queued and what is left of the scan is   *)
(* past the channel.                                                       *)
Waiting(c) == ppc[c] = "wait" /\ done[c] = 0

Quiet(c) ==
  /\ cpc \in {"open", "wait"} => ~child_signalled
  /\ cpc \in {"scan", "compare"} => i > c
  /\ cpc # "func"

OneInv(c) ==
  /\ \A x \in Slot \ {c} : request[x] = 0
  /\ cpc = "compare" /\ i # c /\ reg.flag = "request" => reg.value = 0
  /\ cpc \in {"func", "no_wait", "clear"} => i = c
  /\ ppc[c] \in {"idle", "posted", "clear request"} => done[c] = 0
  /\ ~Waiting(c) => signals = 0 /\ Quiet(c)
  /\ signals # 0 => signals = 1 /\ Quiet(c)

LEMMA InitOne == ASSUME NEW c, Which = {c} PROVE Init => OneInv(c)
<1>1. c \in Slot
  BY SlotFacts
<1> QED BY <1>1 DEF Init, OneInv, Waiting, Quiet

LEMMA CallerOne ==
  ASSUME NEW c, Which = {c}, TypeInv, OneInv(c), CallerNext(c)
  PROVE  OneInv(c)'
<1>0. /\ c \in Slot /\ c \in Which
      /\ ppc \in [Which -> {"idle", "posted", "wait", "clear",
                            "clear request", "clear done"}]
      /\ request \in [Slot -> Flag] /\ done \in [Slot -> Flag]
  BY SlotFacts DEF TypeInv, TypeOK
<1>1. UNCHANGED <<cpc, i, reg, child_signalled>>
  BY DEF CallerNext, childVars
<1>2. \A x \in Slot \ {c} : request'[x] = request[x]
  BY <1>0 DEF CallerNext, Invoke, Kill, Await, Clear, Return,
              ClearRequest, ClearDone
<1>3. CASE Kill(c)
  <2>1. /\ ppc[c] = "posted" /\ ppc'[c] = "wait" /\ UNCHANGED done
        /\ signals = 0 /\ Quiet(c) /\ done[c] = 0
    BY <1>0, <1>3 DEF Kill, OneInv, Waiting
  <2>2. signals' = 1
    <3>1. MaxSignals \in Nat \ {0}
      BY ShmemIpcAssumption
    <3> QED BY <1>3, <2>1, <3>1 DEF Kill
  <2> QED BY <1>1, <1>2, <2>1, <2>2 DEF OneInv, Waiting, Quiet
<1>4. CASE ~Kill(c)
  <2>1. signals' = signals
    BY <1>4 DEF CallerNext, Invoke, Kill, Await, Clear, Return
  <2>2. Waiting(c) => Waiting(c)'
    BY <1>0, <1>4
       DEF CallerNext, Invoke, Await, SeesDone, Clear, Return, Waiting
  <2>3. ppc'[c] \in {"idle", "posted", "clear request"} => done'[c] = 0
    <3>1. CASE Invoke(c)
      BY <1>0, <3>1 DEF Invoke, OneInv
    <3>3. CASE Await(c)
      BY <1>0, <3>3 DEF Await, OneInv
    <3>4. CASE Clear(c)
      BY <1>0, <3>4 DEF Clear, ClearDone, ClearRequest, OneInv
    <3>5. CASE Return(c)
      BY <1>0, <3>5 DEF Return, ClearDone, ClearRequest, OneInv
    <3> QED BY <1>4, <3>1, <3>3, <3>4, <3>5 DEF CallerNext
  <2> QED BY <1>1, <1>2, <2>1, <2>2, <2>3 DEF OneInv, Quiet
<1> QED BY <1>3, <1>4

LEMMA ChildOne ==
  ASSUME NEW c, Which = {c}, TypeInv, OneInv(c), ChildNext
  PROVE  OneInv(c)'
<1>0. /\ c \in Slot /\ c \in Int /\ i \in Int /\ signals \in Int
      /\ request \in [Slot -> Flag] /\ done \in [Slot -> Flag]
  <2>1. i \in 0 .. NSlots /\ request \in [Slot -> Flag] /\ done \in [Slot -> Flag]
    BY DEF TypeInv, TypeOK
  <2>2. c \in Slot /\ c \in Int
    BY SlotFacts
  <2>3. i \in Int
    <3>1. NSlots \in Nat \ {0}
      BY ShmemIpcAssumption
    <3> QED BY <2>1, <3>1
  <2> QED BY <2>1, <2>2, <2>3, SignalsInt
<1>1. UNCHANGED ppc
  BY DEF ChildNext
<1>2. CASE Handler
  <2>0. signals > 0 /\ signals' = signals - 1
    BY <1>2 DEF Handler
  <2>a. signals # 0
    BY <1>0, <2>0
  <2>b. signals = 1 /\ Waiting(c)
    BY <2>a, Zenon DEF OneInv
  <2>1. signals = 1 /\ signals' = 0
    BY <2>0, <2>b
  <2>3. UNCHANGED <<request, done, cpc, i, reg, ppc>>
    BY <1>1, <1>2 DEF Handler
  <2>2. Waiting(c) /\ Waiting(c)'
    BY <2>b, <2>3 DEF Waiting
  <2> QED BY <2>1, <2>2, <2>3 DEF OneInv
<1>3. CASE Block
  BY <1>1, <1>3 DEF Block, OneInv, Waiting, Quiet
<1>4. CASE Scan
  BY <1>1, <1>4 DEF Scan, OneInv, Waiting, Quiet
<1>5. CASE Load
  <2>1. i # c /\ reg'.flag = "request" => reg'.value = 0
    <3>1. i \in Slot
      BY <1>5, SlotFacts DEF Load, InScan, TypeInv, TypeOK
    <3>2. CASE reg' = [flag |-> "request", value |-> request[i]]
      BY <3>1, <3>2 DEF OneInv
    <3>3. CASE reg' = [flag |-> "done", value |-> done[i]]
      BY <3>3
    <3> QED BY <1>5, <3>2, <3>3 DEF Load
  <2> QED BY <1>1, <1>5, <2>1 DEF Load, OneInv, Waiting, Quiet
<1>6. CASE Compare
  <2>1. CASE i = c
    <3>0. ~Quiet(c)
      <4>1. cpc = "compare"
        BY <1>6 DEF Compare
      <4> QED BY <1>0, <2>1, <4>1 DEF Quiet
    <3>1. Waiting(c) /\ signals = 0
      BY <3>0, Zenon DEF OneInv
    <3>2. /\ cpc' \in {"func", "scan"} /\ (cpc' = "func" => i' = c)
          /\ UNCHANGED <<request, done, signals, ppc>>
          /\ cpc' # "compare" /\ cpc' # "no_wait" /\ cpc' # "clear"
      BY <1>1, <1>6, <2>1 DEF Compare
    <3>3. Waiting(c)'
      BY <3>1, <3>2 DEF Waiting
    <3> QED BY <3>1, <3>2, <3>3 DEF OneInv, Waiting
  <2>2. CASE i # c
    <3>1. i \in Slot /\ request[i] = 0 /\ done[i] \in {0, 1}
      BY <1>0, <1>6, <2>2 DEF Compare, OneInv, TypeInv, TypeOK, Flag
    <3>2. reg.value \in {0, 1}
      BY DEF TypeInv, TypeOK, Reg, Flag
    <3>3. cpc = "compare" /\ (reg.flag = "request" => reg.value = 0)
      BY <1>6, <2>2 DEF Compare, OneInv
    <3>4. cpc' = "scan" /\ i' = i + 1
      <4>1. CASE reg.flag = "request"
        BY <1>6, <3>1, <3>2, <3>3, <4>1 DEF Compare, Asked
      <4>2. CASE reg.flag # "request"
        BY <1>6, <3>1, <3>2, <4>2 DEF Compare, Asked
      <4> QED BY <4>1, <4>2
    <3>5. UNCHANGED <<request, done, signals, ppc, child_signalled>>
      BY <1>1, <1>6 DEF Compare
    <3>6. Quiet(c) => Quiet(c)'
      BY <1>0, <3>3, <3>4 DEF Quiet
    <3> QED BY <3>4, <3>5, <3>6 DEF OneInv, Waiting
  <2> QED BY <2>1, <2>2
<1>7. CASE Func
  <2>1. i = c /\ done'[c] = 1 /\ ppc[c] = "wait" /\ signals = 0
    BY <1>0, <1>7 DEF Func, OneInv, Waiting, Quiet
  <2> QED BY <1>1, <1>7, <2>1 DEF Func, OneInv, Waiting, Quiet
<1>8. CASE TestNoWait
  <2>1. /\ i = c /\ cpc = "no_wait"
        /\ \/ cpc' = "clear" /\ i' = i
           \/ cpc' = "scan" /\ i' = i + 1
        /\ UNCHANGED <<request, done, signals, ppc, child_signalled>>
    BY <1>1, <1>8 DEF TestNoWait, OneInv
  <2>2. Quiet(c)'
    BY <1>0, <2>1 DEF Quiet
  <2> QED BY <2>1, <2>2 DEF OneInv, Waiting
<1>9. CASE ChildClear
  <2>1. /\ i = c /\ cpc' = "scan" /\ i' = i + 1
        /\ UNCHANGED <<done, signals, ppc, child_signalled>>
        /\ request' = [request EXCEPT ![i] = 0]
    BY <1>1, <1>9 DEF ChildClear, OneInv
  <2>2. Quiet(c)'
    BY <1>0, <2>1 DEF Quiet
  <2>3. \A x \in Slot \ {c} : request'[x] = 0
    BY <1>0, <2>1 DEF OneInv
  <2> QED BY <2>1, <2>2, <2>3 DEF OneInv, Waiting
<1>10. CASE ScanEnds
  BY <1>0, <1>1, <1>10 DEF ScanEnds, OneInv, Waiting, Quiet
<1> QED
  BY <1>2, <1>3, <1>4, <1>5, <1>6, <1>7, <1>8, <1>9, <1>10 DEF ChildNext

(* Each step of the flags and of the child is a step of Rpc or none.       *)
LEMMA StepSimulation ==
  ASSUME NEW c, Which = {c}, TypeInv, OneInv(c), [Next]_vars
  PROVE  [R!Next]_([w \in Which |-> CallOf(w)])
<1> DEFINE call == [w \in Which |-> CallOf(w)]
<1>0. /\ c \in Slot /\ c \in Which
      /\ ppc \in [Which -> {"idle", "posted", "wait", "clear",
                            "clear request", "clear done"}]
      /\ request \in [Slot -> Flag] /\ done \in [Slot -> Flag]
  BY SlotFacts DEF TypeInv, TypeOK
<1>1. call[c] = CallOf(c) /\ call' = [call EXCEPT ![c] = CallOf(c)']
  BY <1>0
<1>2. ASSUME CallOf(c)' = CallOf(c) PROVE UNCHANGED call
  BY <1>2
<1>3. CASE UNCHANGED vars
  BY <1>2, <1>3 DEF vars, childVars, CallOf
<1>4. ASSUME CallerNext(c) PROVE [R!Next]_call
  <2>0. UNCHANGED <<cpc, i>>
    BY <1>4 DEF CallerNext, childVars
  <2>1. CASE Invoke(c)
    <3>1. CallOf(c) = "none" /\ CallOf(c)' = "asked"
      <4>1. request[c] = 0 /\ ppc[c] = "idle"
        BY <1>0, <2>1 DEF Invoke, TypeInv, RequestCleared
      <4>2. ppc'[c] = "posted" /\ done'[c] = 0 /\ cpc # "func"
        BY <1>0, <2>1, <4>1 DEF Invoke, OneInv, Waiting, Quiet
      <4> QED BY <2>0, <4>1, <4>2 DEF CallOf
    <3> QED BY <1>0, <1>1, <3>1 DEF R!Next, R!Ask
  <2>2. CASE Return(c)
    <3>1. CallOf(c) = "served" /\ CallOf(c)' = "none"
      <4>1. ppc[c] \in {"clear request", "clear done"} /\ ppc'[c] = "idle"
        BY <1>0, <2>2 DEF Return
      <4>2. cpc # "func"
        BY <4>1 DEF OneInv, Waiting, Quiet
      <4> QED BY <2>0, <4>1, <4>2 DEF CallOf
    <3> QED BY <1>0, <1>1, <3>1 DEF R!Next, R!Take
  <2>3. CASE Kill(c)
    <3>1. ppc[c] = "posted" /\ ppc'[c] = "wait" /\ UNCHANGED done
      BY <1>0, <2>3 DEF Kill
    <3>2. CallOf(c)' = CallOf(c)
      BY <2>0, <3>1 DEF CallOf
    <3> QED BY <1>2, <3>2
  <2>4. CASE Await(c)
    <3>1. /\ ppc[c] = "wait" /\ UNCHANGED done
          /\ ppc'[c] = "wait" \/ (ppc'[c] = "clear" /\ done[c] = 1)
      BY <1>0, <2>4 DEF Await, SeesDone
    <3>2. CallOf(c)' = CallOf(c)
      BY <2>0, <3>1 DEF CallOf
    <3> QED BY <1>2, <3>2
  <2>5. CASE Clear(c)
    <3>1. ppc[c] = "clear" /\ ppc'[c] \in {"clear request", "clear done"}
      BY <1>0, <2>5 DEF Clear
    <3>2. CallOf(c)' = CallOf(c)
      BY <2>0, <3>1 DEF CallOf
    <3> QED BY <1>2, <3>2
  <2> QED BY <1>4, <2>1, <2>2, <2>3, <2>4, <2>5 DEF CallerNext
<1>5. ASSUME ChildNext PROVE [R!Next]_call
  <2>0. UNCHANGED ppc
    BY <1>5 DEF ChildNext
  <2>1. CASE Compare
    <3>1. CASE cpc' = "func" /\ i' = i
      <4>1. i = c
        BY <1>5, <3>1, ChildOne DEF OneInv
      <4>2. ppc[c] = "wait" /\ done[c] = 0 /\ cpc = "compare"
        <5>1. cpc = "compare" /\ c \in Nat
          BY <2>1, SlotFacts DEF Compare
        <5>2. ~Quiet(c)
          BY <4>1, <5>1 DEF Quiet
        <5> QED BY <5>1, <5>2 DEF OneInv, Waiting
      <4>3. CallOf(c) = "asked" /\ CallOf(c)' = "serving"
        BY <3>1, <4>1, <4>2 DEF CallOf
      <4> QED BY <1>0, <1>1, <4>3 DEF R!Next, R!Serve
    <3>2. CASE cpc' # "func"
      <4>1. CallOf(c)' = CallOf(c)
        BY <2>0, <2>1, <3>2 DEF Compare, CallOf
      <4> QED BY <1>2, <4>1
    <3> QED BY <2>1, <3>1, <3>2 DEF Compare
  <2>2. CASE Func
    <3>1. i = c /\ ppc[c] = "wait"
      BY <2>2 DEF Func, OneInv, Waiting, Quiet
    <3>2. done'[c] = 1 /\ cpc = "func" /\ cpc' = "no_wait"
      BY <1>0, <2>2, <3>1 DEF Func
    <3>3. CallOf(c) = "serving" /\ CallOf(c)' = "served"
      BY <2>0, <3>1, <3>2 DEF CallOf
    <3> QED BY <1>0, <1>1, <3>3 DEF R!Next, R!Finish
  <2>3. CASE ~Compare /\ ~Func
    <3>1. UNCHANGED done /\ cpc # "func" /\ cpc' # "func"
      BY <1>5, <2>3 DEF ChildNext, Handler, Block, Scan, Load, Func,
                        TestNoWait, ChildClear, ScanEnds
    <3>2. CallOf(c)' = CallOf(c)
      BY <2>0, <3>1 DEF CallOf
    <3> QED BY <1>2, <3>2
  <2> QED BY <2>1, <2>2, <2>3
<1> QED BY <1>3, <1>4, <1>5 DEF Next

(* A child with one channel in use, like those of the SPI bus and of the   *)
(* WSPR decoders, runs the function exactly once for each call, between    *)
(* the call and its return.                                                *)
THEOREM OneChannelImplementsRpc ==
  ASSUME NEW c, Which = {c}
  PROVE  Spec => ImplementsRpc
<1>1. OneInv(c) /\ TypeInv /\ [Next]_vars => OneInv(c)'
  <2> SUFFICES ASSUME OneInv(c), TypeInv, [Next]_vars PROVE OneInv(c)'
    OBVIOUS
  <2>1. CASE UNCHANGED vars
    BY <2>1 DEF OneInv, Waiting, Quiet, vars, childVars
  <2> QED BY <2>1, CallerOne, ChildOne DEF Next
<1>2. Init => OneInv(c)
  BY InitOne
<1>3. Init => R!Init
  BY DEF Init, R!Init, CallOf
<1>4. OneInv(c) /\ TypeInv /\ [Next]_vars => [R!Next]_([w \in Which |-> CallOf(w)])
  BY StepSimulation
<1> QED BY <1>1, <1>2, <1>3, <1>4, TypesInductive, PTL DEF Spec, ImplementsRpc, R!Spec
=============================================================================
