------------------------------- MODULE Camping -------------------------------
(***************************************************************************)
(* A user who finds all channels busy gets a MONITOR connection: he camps  *)
(* on (listens to) somebody else's channel, or waits for one in the queue. *)
(*                                                                         *)
(* The task of a MONITOR connection (c2s_mon in rx/rx_monitor.cpp) puts    *)
(* the connection into a slot of a channel, whose sound task then copies   *)
(* its audio to the connections in the slots (c2s_sound_camp in            *)
(* rx/rx_sound.cpp).  The two tasks share the slots and the flag camp_init *)
(* and never talk to each other; monitors and users of channels come and   *)
(* go, and the slots of conns[] are reused.                                *)
(*                                                                         *)
(* Every step is one round of a task's loop.  Module Connections has the   *)
(* allocation of connections and channels, which is only hinted at here.   *)
(* Left out: passbands and masked frequencies.                             *)
(***************************************************************************)
EXTENDS Integers, FiniteSets, SequencesExt

CONSTANTS
  Conns,   \* the slots of conns[] that monitors use
  Chans,   \* receiver channels
  n_camp,  \* campers per channel
  Port,    \* values of remote_port
  keep_free, \* chans_keep_free: free channels left to those who have the password
  Lockout, \* 10 in the code: seconds from one reload to the next
  MaxTime  \* bound: the last second

ASSUME CampingAssumption ==
  /\ IsFiniteSet(Conns) /\ n_camp \in Nat /\ keep_free \in Nat /\ Lockout \in Nat
  /\ MaxTime \in Nat \ {0}
  /\ -1 \notin Conns /\ -1 \notin Chans /\ -1 \notin Port

None == -1      \* NULL, no channel, no port
Slots == 1 .. n_camp

VARIABLES
  conn,      \* conns[]: the fields a monitor has
  camped_rx, \* the variable of that name of each c2s_mon()
  chan,      \* rx_channels[]: the camp fields, and which stream .conn is
  client,    \* what the user of each monitor connection asks for and hears
  timer,     \* timer_sec()
  lockout,   \* static in c2s_mon(): nobody is sent to a channel before that time
  line       \* history: the monitors in the queue, in the order of their entry

camp == <<camped_rx, chan>>
queue == <<timer, lockout, line>>
vars == <<conn, camped_rx, chan, client, timer, lockout, line>>

Conn == [valid : BOOLEAN, type : {"none", "MONITOR", "other"}, remote_port : Port \cup {None},
         camp_init : BOOLEAN, queued : BOOLEAN, arrival : 0 .. MaxTime]
Chan == [conn : {"NULL", "SND", "WF", "stale"}, n_camp : 0 .. n_camp,
         camp_conn : [Slots -> Conns \cup {None}], camp_id : [Slots -> Port \cup {None}]]

\* The channel that the client camps on as far as it knows, and the one that
\* it has last heard since then; whether it has been told to reload its page.
Client == [asked : Chans \cup {None}, audio : Chans \cup {None}, told : BOOLEAN]

Blank == [valid |-> FALSE, type |-> "none", remote_port |-> None, camp_init |-> FALSE,
          queued |-> FALSE, arrival |-> 0]
Unused == [conn |-> "NULL", n_camp |-> 0,
           camp_conn |-> [j \in Slots |-> None], camp_id |-> [j \in Slots |-> None]]
Nobody == [asked |-> None, audio |-> None, told |-> FALSE]

Mon(k) == conn[k].valid /\ conn[k].type = "MONITOR"

\* A page that reloads sends nothing more.
Page(k) == Mon(k) /\ ~client[k].told

LineWithout(k) == RemoveFirst(line, k)
SlotsOf(k, ch) == {j \in Slots : chan[ch].camp_conn[j] = k}

-----------------------------------------------------------------------------
(* Connections and channels come and go (modelled in Connections)          *)

\* A slot of conns[] is taken, by a monitor or something else.  The system of
\* the client does not give out a port again that a camp slot still names.
Arrive(k, type, port) ==
  /\ ~conn[k].valid
  /\ \A m \in Conns : conn[m].remote_port # port
  /\ \A ch \in Chans : \A j \in SlotsOf(k, ch) : chan[ch].camp_id[j] # port
  /\ conn' = [conn EXCEPT ![k] = [Blank EXCEPT !.valid = TRUE, !.type = type,
                                                !.remote_port = port, !.arrival = timer]]
  /\ UNCHANGED <<camp, client, queue>>

\* The client goes away or reloads its page, and rx_server_remove() clears the
\* connection.
Cleared_Valid(k) == [conn[k] EXCEPT !.valid = FALSE]
Cleared(k) == Blank

Depart(k) ==
  /\ conn[k].valid
  /\ conn' = [conn EXCEPT ![k] = Cleared(k)]
  /\ camped_rx' = [camped_rx EXCEPT ![k] = None]
  /\ client' = [client EXCEPT ![k] = Nobody]
  /\ line' = LineWithout(k)
  /\ UNCHANGED <<chan, timer, lockout>>

\* A session takes a channel, its sound may follow its waterfall ...
TakeChan(ch, type) ==
  /\ \/ chan[ch].conn = "NULL"
     \/ chan[ch].conn = "WF" /\ type = "SND"
  /\ chan' = [chan EXCEPT ![ch].conn = type]
  /\ UNCHANGED <<conn, camped_rx, client, queue>>

\* ... or end before its waterfall ...
SoundEnds(ch) ==
  /\ chan[ch].conn = "SND"
  /\ chan' = [chan EXCEPT ![ch].conn = "stale"]
  /\ UNCHANGED <<conn, camped_rx, client, queue>>

\* ... and RX_CHAN_FREE clears the whole structure.
Freed_Conn(ch) == [chan EXCEPT ![ch].conn = "NULL", ![ch].n_camp = 0]
Freed(ch) == [chan EXCEPT ![ch] = Unused]

FreeChan(ch) ==
  /\ chan[ch].conn # "NULL"
  /\ chan' = Freed(ch)
  /\ UNCHANGED <<conn, camped_rx, client, queue>>

-----------------------------------------------------------------------------
(* Slots *)

\* Those that leave are taken out.  (camp_id stays, but nobody looks at it in
\* an empty slot.)
Without(out) ==
  [ch \in Chans |-> [chan[ch] EXCEPT
     !.camp_conn = [j \in Slots |-> IF j \in out[ch] THEN None ELSE chan[ch].camp_conn[j]],
     !.camp_id = [j \in Slots |-> IF j \in out[ch] THEN None ELSE chan[ch].camp_id[j]],
     !.n_camp = chan[ch].n_camp - Cardinality({j \in out[ch] : chan[ch].camp_conn[j] # None})]]

\* "remove any previous camping", of whoever has had the connection.
IsMine_Here(k, rx, ch, j) == ch = rx /\ chan[ch].camp_conn[j] = k
IsMine_All(k, rx, ch, j) == TRUE
IsMine(k, rx, ch, j) == chan[ch].camp_conn[j] = k
Left(k, rx) == Without([ch \in Chans |-> {j \in Slots : IsMine(k, rx, ch, j)}])

\* The first free slot is taken; the count goes up even if there is none.
FirstFree(f, rx) ==
  {j \in Slots : f[rx].camp_conn[j] = None /\ \A i \in 1 .. j - 1 : f[rx].camp_conn[i] # None}
Entered(f, k, rx) ==
  LET here == FirstFree(f, rx)
  IN  [f EXCEPT
         ![rx].camp_conn = [j \in Slots |-> IF j \in here THEN k ELSE f[rx].camp_conn[j]],
         ![rx].camp_id = [j \in Slots |-> IF j \in here THEN conn[k].remote_port ELSE f[rx].camp_id[j]],
         ![rx].n_camp = f[rx].n_camp + 1]

Room_OneMore(f, rx) == f[rx].n_camp <= n_camp
Room(f, rx) == f[rx].n_camp < n_camp

-----------------------------------------------------------------------------
(* c2s_mon() *)

\* "SET MON_CAMP=rx"
MonCamp(k, rx) ==
  LET left == Left(k, rx)
      room == rx # None /\ Room(left, rx)
      okay == room /\ FirstFree(left, rx) # {}
      stop == \E ch \in Chans : SlotsOf(k, ch) # {}
  IN
  /\ Page(k)
  /\ chan' = IF room THEN Entered(left, k, rx) ELSE left
  /\ conn' = [conn EXCEPT ![k].camp_init = conn[k].camp_init /\ ~stop]
  /\ camped_rx' = [camped_rx EXCEPT ![k] = IF okay THEN rx ELSE None]
  /\ client' = [client EXCEPT ![k].asked = IF okay THEN rx ELSE None, ![k].audio = None]
  /\ UNCHANGED queue

\* "detect camped connection has gone away", when there is no command.  The
\* connection that a channel still points to when its sound has ended may be
\* somebody else's sound by now, and the monitor sees nothing.
MonPoll(k) ==
  /\ Mon(k) /\ camped_rx[k] # None
  /\ chan[camped_rx[k]].conn # "SND"
  /\ camped_rx' = [camped_rx EXCEPT ![k] = None]
  /\ conn' = [conn EXCEPT ![k].camp_init = FALSE]
  /\ UNCHANGED <<chan, client, queue>>

(* c2s_sound_camp(), which the sound of a channel calls if it has campers *)

\* "detect camping connection has gone away"
Gone_Type(ch, j) == ~Mon(chan[ch].camp_conn[j])
Gone(ch, j) ==
  LET k == chan[ch].camp_conn[j]
  IN  ~Mon(k) \/ conn[k].remote_port # chan[ch].camp_id[j]

Campers(ch) == {k \in Conns : \E j \in SlotsOf(k, ch) : ~Gone(ch, j)}

\* The first time a camper gets the parameters of the audio, then the audio.
Sound(ch) ==
  /\ chan[ch].conn = "SND" /\ chan[ch].n_camp # 0
  /\ LET gone == {j \in Slots : chan[ch].camp_conn[j] # None /\ Gone(ch, j)}
         left == Without([c \in Chans |-> IF c = ch THEN gone ELSE {}])
     IN  chan' = [left EXCEPT ![ch].n_camp = Cardinality({j \in Slots : left[ch].camp_conn[j] # None})]
  /\ conn' = [k \in Conns |-> [conn[k] EXCEPT !.camp_init = conn[k].camp_init \/ k \in Campers(ch)]]
  /\ client' = [k \in Conns |-> IF k \in Campers(ch) /\ conn[k].camp_init
                                THEN [client[k] EXCEPT !.audio = ch] ELSE client[k]]
  /\ UNCHANGED <<camped_rx, queue>>

-----------------------------------------------------------------------------
(* The queue, also in c2s_mon()                                            *)

\* "SET MON_QSET=i": the button "Enter queue" or "Exit queue".
QSet(k) ==
  /\ Page(k)
  /\ conn' = [conn EXCEPT ![k].queued = ~conn[k].queued,
                          ![k].arrival = IF conn[k].queued THEN 0 ELSE timer]
  /\ line' = IF conn[k].queued THEN LineWithout(k) ELSE Append(line, k)
  /\ UNCHANGED <<camp, client, timer, lockout>>

\* Those who wait, in any slot of conns[] ...
Waits_Mon(m) == conn[m].type = "MONITOR" /\ conn[m].arrival # 0
Waits(m) == conn[m].type = "MONITOR" /\ conn[m].queued /\ conn[m].arrival # 0

\* ... the place among them, and whether there is a channel for the first.
Pos_Before(k) == 1 + Cardinality({m \in Conns : Waits(m) /\ conn[m].arrival < conn[k].arrival})
Pos(k) == Cardinality({m \in Conns : Waits(m) /\ conn[m].arrival <= conn[k].arrival})

chan_avail == Cardinality({ch \in Chans : chan[ch].conn = "NULL"}) > keep_free

Reload(k) == ~(lockout > timer) /\ Pos(k) = 1 /\ chan_avail

\* "SET MON_QPOS", which the page of a client in the queue sends every 2.5 s.
QPos(k) ==
  /\ Page(k) /\ conn[k].queued
  /\ Reload(k)
  /\ lockout' = timer + Lockout
  /\ client' = [client EXCEPT ![k].told = TRUE]
  /\ UNCHANGED <<conn, camp, timer, line>>

Tick ==
  /\ timer < MaxTime
  /\ timer' = timer + 1
  /\ UNCHANGED <<conn, camp, client, lockout, line>>

-----------------------------------------------------------------------------
Init ==
  /\ conn = [k \in Conns |-> Blank]
  /\ camped_rx = [k \in Conns |-> None]
  /\ chan = [ch \in Chans |-> Unused]
  /\ client = [k \in Conns |-> Nobody]
  /\ timer = 1 /\ lockout = 0 /\ line = <<>>

Traffic ==
  \/ \E k \in Conns, port \in Port, type \in {"MONITOR", "other"} : Arrive(k, type, port)
  \/ \E k \in Conns : Depart(k)
  \/ \E ch \in Chans, type \in {"SND", "WF"} : TakeChan(ch, type)
  \/ \E ch \in Chans : SoundEnds(ch)
  \/ \E ch \in Chans : FreeChan(ch)

Listen ==
  \/ \E k \in Conns : MonPoll(k)
  \/ \E k \in Conns, rx \in Chans \cup {None} : MonCamp(k, rx)
  \/ \E ch \in Chans : Sound(ch)

Wait ==
  \/ \E k \in Conns : QSet(k)
  \/ \E k \in Conns : QPos(k)
  \/ Tick

Next == Traffic \/ Listen \/ Wait

Spec == Init /\ [][Next]_vars

-----------------------------------------------------------------------------
(* Properties *)

\* Everything is of its type; in particular no count leaves 0 .. n_camp.
TypeOK ==
  /\ conn \in [Conns -> Conn]
  /\ camped_rx \in [Conns -> Chans \cup {None}]
  /\ chan \in [Chans -> Chan]
  /\ client \in [Conns -> Client]
  /\ timer \in 1 .. MaxTime /\ lockout \in 0 .. MaxTime + Lockout

\* The count of a channel's campers is the number of slots taken: MON_CAMP
\* trusts it for room, c2s_sound() for not looking at the slots at all, and
\* c2s_sound_camp() warns "n(%d) != n_camp(%d)".
CampCount ==
  \A ch \in Chans : chan[ch].n_camp = Cardinality({j \in Slots : chan[ch].camp_conn[j] # None})

\* A monitor is in one slot of one channel at most, whatever its slot of
\* conns[] was used for before: nobody hears two channels at once.
OneCamp ==
  \A k \in Conns : \A c, d \in Chans : \A i \in SlotsOf(k, c), j \in SlotsOf(k, d) : c = d /\ i = j

\* A client only hears the channel that it has asked for: camp slots outlive
\* the connections they name.
AudioWasAsked == \A k \in Conns : client[k].audio \in {None, client[k].asked}

\* A camper keeps its slot until it goes, camps elsewhere or the channel is
\* given back, whatever other campers and the sound task do.
KeepsCamping ==
  [][\A k \in Conns, ch \in Chans :
       /\ Mon(k) /\ conn'[k].valid
       /\ client[k].asked = ch /\ client'[k].asked = ch
       /\ SlotsOf(k, ch) # {} /\ chan'[ch].conn # "NULL"
       => \E j \in Slots : chan'[ch].camp_conn[j] = k]_vars

\* "The queue is FIFO" (CHANGE_LOG:1958): whoever is sent to a free channel has
\* waited longest, even among those who came in the same second.
QueueIsFifo ==
  [][\A k \in Conns : ~client[k].told /\ client'[k].told => line # <<>> /\ line[1] = k]_vars

\* The queue does not jam: once the lockout is over and there is a channel, who
\* has waited longest will get it, unless somebody else has come in the same
\* second.  Departed monitors, and those that only look at the page, take no
\* place.
FirstIsServed ==
  line # <<>> /\ chan_avail /\ lockout <= timer
  => \/ Reload(line[1])
     \/ Len(line) > 1 /\ conn[line[2]].arrival = conn[line[1]].arrival
=============================================================================
