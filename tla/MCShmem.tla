------------------------------ MODULE MCShmem ------------------------------
(***************************************************************************)
(* Instances of module ShmemIpc for TLC, with the calls remembered that    *)
(* the child has run the function for, and with the choice of one channel  *)
(* or all of them being used.                                              *)
(***************************************************************************)
EXTENDS ShmemIpc

VARIABLES
  ran,   \* channels on which the function has been run since the call
  used   \* channels that are called in this behaviour

HInit == Init /\ ran = {} /\ used \in {Which} \cup {{w} : w \in Which}

HNext ==
  /\ ChildNext \/ \E w \in used : CallerNext(w)
  /\ ran' = (ran \ {w \in Which : ppc[w] = "idle" /\ ppc'[w] = "posted"})
              \cup {w \in Which : cpc # "func" /\ cpc' = "func" /\ i' = w}
  /\ UNCHANGED used

HSpec == HInit /\ [][HNext]_<<vars, ran, used>>
HFairSpec == HSpec /\ Fairness

(* One channel that is used alone, polled or waited for, implements Rpc:   *)
(* the function runs exactly once for each call (the step of ImplementsRpc)*)
AloneImplementsRpc ==
  [][Cardinality(used) = 1 => R!Next]_([w \in Which |-> CallOf(w)])

(* "invoke compute_frame()", says the waterfall of its call of             *)
(* shmem_ipc_invoke(): when the call is over, the function has been run.   *)
CallRunsFunction ==
  \A w \in Which : ppc[w] = "clear" => w \in ran
=============================================================================
