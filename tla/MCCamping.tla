------------------------------ MODULE MCCamping ------------------------------
(***************************************************************************)
(* Instances of module Camping for TLC.  To keep them small, the monitors  *)
(* of a behaviour either all listen to channels or all wait in the queue,  *)
(* while connections and channels come and go.                             *)
(***************************************************************************)
EXTENDS Camping, TLC

VARIABLE wants

McInit == Init /\ wants \in {"listen", "wait"}

McNext ==
  /\ UNCHANGED wants
  /\ \/ Traffic
     \/ wants = "listen" /\ Listen
     \/ wants = "wait" /\ Wait

McSpec == McInit /\ [][McNext]_<<vars, wants>>

\* Nothing depends on which connection, channel or port it is.
Same == Permutations(Conns) \cup Permutations(Chans) \cup Permutations(Port)
=============================================================================
