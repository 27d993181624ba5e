------------------------------ MODULE DataPump ------------------------------
(***************************************************************************)
(* Starting and stopping the data pump (data_pump_start_stop() in          *)
(* rx/data_pump.cpp) through module Spi.                                   *)
(*                                                                         *)
(* The first sound task that enables its channel has the eCPU deliver      *)
(* samples, the last one that disables it has it stop; the interrupts of   *)
(* the eCPU wake up the task of data_pump(), which fetches the samples and *)
(* resets the eCPU when they are behind.  All of them wait for the eCPU in *)
(* the middle of it.  A task of the GPS reads something now and then.      *)
(*                                                                         *)
(* Left out: the samples and their ring of buffers.                        *)
(***************************************************************************)
EXTENDS Spi

CONSTANTS
  Sound,     \* the tasks of c2s_sound(), each with a channel
  Itask,     \* the task of data_pump()
  Reader     \* tasks that use spi_get()

ASSUME DataPumpAssumption ==
  /\ Sound \cup Reader \cup {Itask} \subseteq Task \ {Helper}
  /\ Sound \cap Reader = {} /\ Itask \notin Sound \cup Reader
  /\ {"on", "off", "clr", "rx0", "rx1"} \subseteq Command

\* SND_PRIORITY and DATAPUMP_PRIORITY.
ASSUME PrioAssumption ==
  \A s, t \in Sound : Prio[s] = Prio[t] /\ Prio[s] <= Prio[Itask]

VARIABLES
  chan_enabled,    \* rx_channels[].chan_enabled
  itask_run,
  have_snd_users,
  samps,           \* the eCPU: the last CmdSetRXNsamps was not 0
  step             \* where data_pump_start_stop() and snd_service() wait

pump == <<chan_enabled, itask_run, have_snd_users, step>>
vars == <<op, pc, scan, owner, waiting, prev, buf, ecpu,
          chan_enabled, itask_run, have_snd_users, samps, step>>

At(t, s) == Idle(t) /\ step[t] = s
Goes(t, s) == step' = [step EXCEPT ![t] = s]

-----------------------------------------------------------------------------
(* data_pump_start_stop(), which rx_enable() calls for every change *)

StartStop(t, enabled) ==
  LET no_users == \A s \in Sound : ~enabled[s]
      stop == itask_run /\ no_users
      start == ~itask_run /\ ~no_users
  IN
  /\ At(t, "")
  /\ chan_enabled' = enabled
  /\ \/ /\ stop
        /\ itask_run' = FALSE /\ Call(t, "set", "off") /\ Goes(t, "stop")
        /\ UNCHANGED have_snd_users
     \/ /\ start
        /\ itask_run' = TRUE /\ Call(t, "set_noduplex", "clr") /\ Goes(t, "start")
        /\ UNCHANGED have_snd_users
     \/ /\ ~stop /\ ~start
        /\ have_snd_users' = ~no_users
        /\ UNCHANGED <<spi, itask_run, step>>
  /\ UNCHANGED samps

\* RX_CHAN_ENABLE, RX_DATA_ENABLE, RX_CHAN_DISABLE or RX_CHAN_FREE
Arrive(t) == ~chan_enabled[t] /\ StartStop(t, [chan_enabled EXCEPT ![t] = TRUE])
DataEnable(t) == chan_enabled[t] /\ StartStop(t, chan_enabled)
Leave(t) == chan_enabled[t] /\ StartStop(t, [chan_enabled EXCEPT ![t] = FALSE])

\* After the first of two commands ...
Continue(t) ==
  /\ \/ At(t, "stop") /\ Call(t, "set_noduplex", "clr") /\ Goes(t, "stopped")
     \/ At(t, "start") /\ Call(t, "set", "on") /\ Goes(t, "started")
  /\ UNCHANGED <<chan_enabled, itask_run, have_snd_users, samps>>

\* ... and the second, with no_users as it was.
Finish(t) ==
  /\ At(t, "stopped") \/ At(t, "started")
  /\ have_snd_users' = (step[t] = "started")
  /\ Goes(t, "")
  /\ UNCHANGED <<spi, chan_enabled, itask_run, samps>>

-----------------------------------------------------------------------------
(* The data pump *)

Fetch == Call(Itask, "get_noduplex", "rx0") /\ Goes(Itask, "fetch")

\* An interrupt: snd_service() fetches samples ...
Interrupt ==
  /\ samps
  /\ At(Itask, "") /\ Fetch
  /\ UNCHANGED <<chan_enabled, itask_run, have_snd_users, samps>>

\* ... starts the eCPU again if it is too far ahead ...
Reset ==
  /\ At(Itask, "fetch") /\ Call(Itask, "set", "on") /\ Goes(Itask, "reset")
  /\ UNCHANGED <<chan_enabled, itask_run, have_snd_users, samps>>

\* ... and stops it if there are no users any more.
StopsLate_Not == FALSE
StopsLate == ~itask_run

\* "} while (diff > 1);": there may be more to fetch.
Loop == Fetch \/ (UNCHANGED spi /\ Goes(Itask, ""))

Serviced ==
  /\ At(Itask, "fetch") \/ At(Itask, "reset")
  /\ IF StopsLate THEN Call(Itask, "set", "off") /\ Goes(Itask, "clear") ELSE Loop
  /\ UNCHANGED <<chan_enabled, itask_run, have_snd_users, samps>>

Clear ==
  /\ \/ At(Itask, "clear") /\ Call(Itask, "set_noduplex", "clr") /\ Goes(Itask, "cleared")
     \/ At(Itask, "cleared") /\ Loop
  /\ UNCHANGED <<chan_enabled, itask_run, have_snd_users, samps>>

-----------------------------------------------------------------------------
(* The other tasks, and the eCPU *)

\* A command that differs from the one before.
Read(t) ==
  /\ At(t, "")
  /\ Call(t, "get", IF op[t].cmd = "rx0" THEN "rx1" ELSE "rx0")
  /\ UNCHANGED <<pump, samps>>

Works(t) ==
  /\ Step(t)
  /\ samps' = IF ecpu'.last = ecpu.last \/ ecpu'.last \notin {"on", "off"}
              THEN samps ELSE ecpu'.last = "on"
  /\ UNCHANGED pump

Flushes == Pump /\ UNCHANGED <<pump, samps>>
Ready == HostRdy /\ UNCHANGED <<pump, samps>>

Init ==
  /\ SpiInit
  /\ chan_enabled = [t \in Sound |-> FALSE]
  /\ itask_run = FALSE /\ have_snd_users = FALSE /\ samps = FALSE
  /\ step = [t \in Task |-> ""]

Next ==
  \/ \E t \in Sound : Arrive(t) \/ DataEnable(t) \/ Leave(t) \/ Continue(t) \/ Finish(t)
  \/ Interrupt \/ Reset \/ Serviced \/ Clear
  \/ \E t \in Reader : Read(t)
  \/ \E t \in Task : Works(t)
  \/ Flushes \/ Ready

Spec == Init /\ [][Next]_vars
FairSpec ==
  /\ Spec
  /\ \A t \in Task : WF_vars(Works(t))
  /\ WF_vars(Flushes) /\ WF_vars(Ready)

-----------------------------------------------------------------------------
(* Properties *)

TypeOK ==
  /\ SpiTypeOK
  /\ chan_enabled \in [Sound -> BOOLEAN]
  /\ itask_run \in BOOLEAN /\ have_snd_users \in BOOLEAN /\ samps \in BOOLEAN
  /\ step \in [Task -> {"", "stop", "stopped", "start", "started",
                        "fetch", "reset", "clear", "cleared"}]

Quiet == \A t \in Sound \cup {Itask} : At(t, "")
Users == \E t \in Sound : chan_enabled[t]

\* However starts, stops and resets overlap, in the end the eCPU delivers
\* samples exactly if somebody listens.
PumpFollowsUsers == Quiet => itask_run = Users /\ samps = itask_run
=============================================================================
