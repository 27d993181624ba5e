-------------------------------- MODULE Rpc --------------------------------
(***************************************************************************)
(* What support/shmem.cpp promises to its callers: a helper process runs   *)
(* the function of a channel once for each call, one function at a time,   *)
(* and the caller goes on when that run is over.                           *)
(***************************************************************************)
CONSTANT Which   \* the channels

VARIABLE call    \* call[w]: how far the call on channel w is

Init == call = [w \in Which |-> "none"]

(* The caller puts the arguments into shared memory and signals the helper *)
Ask(w) ==
  /\ call[w] = "none"
  /\ call' = [call EXCEPT ![w] = "asked"]

Serve(w) ==
  /\ call[w] = "asked"
  /\ \A v \in Which : call[v] # "serving"
  /\ call' = [call EXCEPT ![w] = "serving"]

Finish(w) ==
  /\ call[w] = "serving"
  /\ call' = [call EXCEPT ![w] = "served"]

(* The caller finds the results in shared memory                           *)
Take(w) ==
  /\ call[w] = "served"
  /\ call' = [call EXCEPT ![w] = "none"]

Next == \E w \in Which : Ask(w) \/ Serve(w) \/ Finish(w) \/ Take(w)

Spec == Init /\ [][Next]_call
=============================================================================
