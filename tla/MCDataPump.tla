----------------------------- MODULE MCDataPump -----------------------------
(***************************************************************************)
(* Instances of module DataPump for TLC.  Besides spi_pump(), three of the *)
(* four tasks take part in a behaviour.                                    *)
(***************************************************************************)
EXTENDS DataPump, FiniteSets

McTask == {"spi_pump", "data_pump", "s1", "s2", "gps"}
McSound == {"s1", "s2"}
McReader == {"gps"}
McPrio == [t \in McTask |-> CASE t = "spi_pump" -> 7 [] t = "data_pump" -> 6
                              [] t = "gps" -> 2 [] OTHER -> 5]
McCommand == {"on", "off", "clr", "rx0", "rx1"}

VARIABLE absent

McInit == Init /\ absent \in {"data_pump", "s2", "gps"}

McNext ==
  /\ Next
  /\ pc'[absent] = "idle" /\ (absent \in Sound => ~chan_enabled'[absent])
  /\ UNCHANGED absent

McSpec == McInit /\ [][McNext]_<<vars, absent>>

McFairSpec ==
  /\ McSpec
  /\ \A t \in Task : WF_vars(Works(t))
  /\ WF_vars(Flushes) /\ WF_vars(Ready)
=============================================================================
