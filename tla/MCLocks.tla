------------------------------ MODULE MCLocks ------------------------------
(***************************************************************************)
(* Instances of module Locks for TLC.  Task 0 is the main task.            *)
(***************************************************************************)
EXTENDS Locks, TLC

(* A slow task that waits for the eCPU by busy waiting, that the main task *)
(* puts to sleep and wakes and that may remove itself; the data pump       *)
(* (interrupt task, not raised here); spi_pump, the busy helper of the     *)
(* highest priority: these three use the lock.  A decoder with a minimum   *)
(* run time and announced long runs is created and removed meanwhile.      *)
PrioAll == 0 :> 1 @@ 1 :> 0 @@ 2 :> 1 @@ 3 :> 2 @@ 4 :> 0
QAll == 0 :> <<1>> @@ 1 :> <<2, 0>> @@ 2 :> <<3>>
SleepsAll == 0 :> {"test"} @@ 1 :> {"timed"} @@ 2 :> {"event"} @@ 3 :> {"event"} @@ 4 :> {}
ParamsAll == 0 :> {} @@ 1 :> {"busy_wait"} @@ 2 :> {} @@ 3 :> {} @@ 4 :> {"long_run"}
LockAll == "l" :> {1, 2, 3}

(* A fast task and two slow ones of the same priority, for liveness.       *)
Prio3 == 0 :> 1 @@ 1 :> 0 @@ 2 :> 0
Q3 == 0 :> <<2, 1>> @@ 1 :> <<0>> @@ 2 :> <<>>
Sleeps3 == 0 :> {"timed"} @@ 1 :> {"timed"} @@ 2 :> {"timed"}
Params3 == 0 :> {} @@ 1 :> {"none", "fast_check"} @@ 2 :> {}
Lock3 == "l" :> {0, 1, 2}
=============================================================================
