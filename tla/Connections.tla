----------------------------- MODULE Connections -----------------------------
(***************************************************************************)
(* The connection table of the server: how the websockets of a session get *)
(* a slot of conns[], a receiver channel and a task, and how the tasks of  *)
(* one session, the web server and the administrator take them away again. *)
(*                                                                         *)
(* rx/rx_server.cpp holds the table and the allocator rx_server_websocket; *)
(* the tasks are c2s_sound (SND), c2s_waterfall (WF), extint_c2s (EXT) and *)
(* c2s_mon (MON).  Tasks are coroutines: a step ends where the code may    *)
(* call NextTask().  Two of these places lie inside code that goes on with *)
(* what it had read before: the SPI transfers of rx_enable(), when the     *)
(* data pump starts or stops, and the NextTask() of TaskRemove(), when the *)
(* allocator removes somebody else's connection.  Yields says in which of  *)
(* them other tasks are let run.                                           *)
(*                                                                         *)
(* Left out: administrators and AJAX, passwords, blacklists and the server *)
(* being down, the DRM lock, force_camp, IP addresses (a session is its    *)
(* time stamp), the messages themselves, and camping (module Camping).     *)
(***************************************************************************)
EXTENDS Integers, FiniteSets, FiniteSetsExt

CONSTANTS
  N_CONNS,      \* slots of conns[]
  rx_chans,     \* receiver channels ...
  wf_chans,     \* ... of which the first ones have a waterfall
  monitors_max, \* users that may queue and camp when all channels are busy
  Session,      \* what the time stamp of a connection tells apart
  NoSession,
  Mc,           \* websockets: pairs of a session and the stream it asks for
  NoMc,
  Kiwi,         \* sessions of the Kiwi user interface (isKiwi_UI)
  Internal,     \* sessions of the server itself (WS_INTERNAL_CONN)
  Autorun,      \* internal sessions that may be preempted
  Preempts,     \* sessions that may preempt an autorun
  TasksRunOut,  \* may CreateTaskSF() fail
  Yields        \* subset of {"spi", "scan"}

Stream == {"SND", "WF", "EXT"}

ASSUME ConnectionsAssumption ==
  /\ N_CONNS \in Nat \ {0} /\ rx_chans \in Nat \ {0} /\ monitors_max \in Nat
  /\ wf_chans \in 0 .. rx_chans
  /\ Mc \subseteq Session \X Stream
  /\ NoSession \notin Session /\ NoMc \notin Mc
  /\ Autorun \subseteq Internal /\ Kiwi \cap Internal = {}
  /\ Kiwi \subseteq Preempts /\ Preempts \cap Autorun = {}
  /\ TasksRunOut \in BOOLEAN
  /\ Yields \subseteq {"spi", "scan"}

Conns == 0 .. N_CONNS - 1
Chans == 0 .. rx_chans - 1
None == -1      \* NULL, and the rx_channel of a connection without one

VARIABLES
  conn,      \* conns[]
  rx,        \* rx_channels[]
  ext_user,  \* ext_users[].conn_ext, by channel
  sock,      \* what has become of each websocket
  param,     \* mg_connection.connection_param
  alloc,     \* the calls of rx_server_websocket() in progress
  broken     \* the server has removed a task that it needs (see RemoveOther)

vars == <<conn, rx, ext_user, sock, param, alloc, broken>>

Conn == [valid : BOOLEAN, type : Stream \cup {"MON", "none"}, mc : Mc \cup {NoMc},
         other : Conns \cup {None}, rx : Chans \cup {None}, ts : Session \cup {NoSession},
         kick : BOOLEAN, stop_data : BOOLEAN, arun : BOOLEAN,
         pc : {"none", "new", "loop", "spi", "leave"}]
Chan == [busy : BOOLEAN, chan_enabled : BOOLEAN, conn : Conns \cup {None}]

\* conn_init(), and the memset() of RX_CHAN_FREE
Blank == [valid |-> FALSE, type |-> "none", mc |-> NoMc, other |-> None, rx |-> None,
          ts |-> NoSession, kick |-> FALSE, stop_data |-> FALSE, arun |-> FALSE, pc |-> "none"]
Unused == [busy |-> FALSE, chan_enabled |-> FALSE, conn |-> None]

\* The two tasks that allocate: the web server, and those that call
\* internal_conn_setup() (one after the other).
Allocator == {"web", "int"}
By(m) == IF m[1] \in Internal THEN "int" ELSE "web"
Idle == [pc |-> "idle", mc |-> NoMc, at |-> 0, back |-> FALSE, free |-> None,
         others |-> {}, mons |-> 0]
Begin(m) == [Idle EXCEPT !.pc = "scan", !.mc = m]

-----------------------------------------------------------------------------
(* rx_enable() *)

Freed_Disabled(f, ch) == IF ch = None THEN f ELSE [f EXCEPT ![ch].chan_enabled = FALSE]
Freed(f, ch) == IF ch = None THEN f ELSE [f EXCEPT ![ch] = Unused]
Enabled_Once(f, ch, b) == [f EXCEPT ![ch].chan_enabled = f[ch].chan_enabled \/ b]
Enabled(f, ch, b) == [f EXCEPT ![ch].chan_enabled = b]

\* data_pump_start_stop(): the first user starts the pump, the last one stops
\* it, each with SPI transfers in which other tasks run.
Pumping(f) == \E ch \in Chans : f[ch].chan_enabled
Waits(f, g) == "spi" \in Yields /\ Pumping(f) # Pumping(g)

(* rx_server_remove() *)

\* ext_kick(), called when a connected extension of the session is found:
\* it kicks whoever has registered for the channel.
Kicked(f, k) ==
  IF /\ f[k].type \in {"SND", "WF"}
     /\ \E e \in Conns : /\ f[e].valid /\ f[e].type = "EXT"
                         /\ f[e].rx = f[k].rx /\ f[e].ts = f[k].ts
  THEN {ext_user[f[k].rx]} \cap Conns
  ELSE {}

Removed(f, k) == [c \in Conns |-> IF c = k THEN Blank
                                  ELSE [f[c] EXCEPT !.kick = f[c].kick \/ c \in Kicked(f, k)]]

\* Another task removes a connection.  When the victim is in an SPI transfer,
\* TaskRemove() calls panic() because it holds spi_lock, or leaves the lock
\* with a user that never comes; when it is gone already, c->task is 0, the
\* main task.
RemoveOther(k) ==
  /\ conn' = Removed(conn, k)
  /\ broken' = (~conn[k].valid \/ conn[k].pc \in {"spi", "leave"})

-----------------------------------------------------------------------------
(* The scan of rx_server_websocket() over conns[], up to the next slot     *)
(* that it culls                                                           *)

Stuck_Closed(k) == conn[k].valid /\ conn[k].mc = NoMc
Stuck(k) == conn[k].valid /\ conn[k].stop_data /\ conn[k].mc = NoMc

ToCull(a) == {k \in alloc[a].at .. N_CONNS - 1 : Stuck(k) /\ ~(alloc[a].back /\ k = alloc[a].at)}
ScanEnd(a) == IF ToCull(a) = {} THEN N_CONNS ELSE Min(ToCull(a))
Seen(a) == {k \in alloc[a].at .. ScanEnd(a) - 1 : conn[k].valid}
Unseen(a) == (alloc[a].at .. ScanEnd(a) - 1) \ Seen(a)
SameSession(a) == {k \in Seen(a) : conn[k].ts = alloc[a].mc[1]}

\* "Link streams to each other, e.g. snd <=> wf, snd => ext"
LinkedTypes(type) == CASE type = "SND" -> {"WF", "MON"}
                       [] type = "WF"  -> {"SND", "MON"}
                       [] type = "EXT" -> {"SND"}

Duplicate(a) == \E k \in SameSession(a) : conn[k].type = alloc[a].mc[2]
Others(a) == alloc[a].others \cup {k \in SameSession(a) : conn[k].type \in LinkedTypes(alloc[a].mc[2])}
Mons(a) == alloc[a].mons + Cardinality({k \in Seen(a) : conn[k].type = "MON"})

\* "remember first free conn"
FreeConn(a) == CASE alloc[a].free # None -> alloc[a].free
                 [] alloc[a].free = None /\ Unseen(a) # {} -> Min(Unseen(a))
                 [] OTHER -> None

Scanning(a) == alloc[a].pc = "scan"
Refused(a) == Duplicate(a) \/ Cardinality(Others(a)) > 1
ScanDone(a) == Scanning(a) /\ ~Refused(a) /\ ToCull(a) = {}
HasSlot(a) == ScanDone(a) /\ FreeConn(a) # None
Other(a) == IF Others(a) = {} THEN None ELSE CHOOSE k \in Others(a) : TRUE

(* rx_chan_free_count(): the channels with a waterfall go to the Kiwi user *)
(* interface and to waterfalls, and last to the others.                    *)
FreeChans_OneMore == {ch \in 0 .. rx_chans : ch = rx_chans \/ ~rx[ch].busy}
FreeChans == {ch \in Chans : ~rx[ch].busy}
Counts(m) == CASE m[1] \in Kiwi \/ m[2] = "WF" -> {"ALL"}
               [] m[1] \in Autorun -> {"NO_WF_FIRST", "NO_WF_AT_ALL"}
               [] OTHER -> {"NO_WF_FIRST"}
Count(flag) == IF wf_chans \in {0, rx_chans} THEN "ALL" ELSE flag
Candidates(flag) ==
  LET plain == {ch \in FreeChans : ch >= wf_chans}
  IN  CASE Count(flag) = "NO_WF_AT_ALL" -> plain
        [] Count(flag) = "NO_WF_FIRST" /\ plain # {} -> plain
        [] OTHER -> FreeChans
FreeChan(flag) == IF Candidates(flag) = {} THEN None ELSE Min(Candidates(flag))

\* rx_autorun_find_victim(), whichever of them has been evicted least
Victims == {ch \in Chans : rx[ch].busy /\ rx[ch].conn # None /\ conn[rx[ch].conn].arun}

NoWaterfall(m, ch) == m[2] = "WF" /\ ch >= wf_chans /\ m[1] \notin Kiwi
BecomesMonitor(a) == alloc[a].mc[1] \in Kiwi /\ Mons(a) < monitors_max

-----------------------------------------------------------------------------
(* rx_server_websocket(): allocation *)

\* The first message of a websocket.
Connect(m) ==
  /\ sock[m] = "new" /\ alloc[By(m)] = Idle
  /\ alloc' = [alloc EXCEPT ![By(m)] = Begin(m)]
  /\ UNCHANGED <<conn, rx, ext_user, sock, param, broken>>

\* NULL is returned, and the caller closes the websocket.
ReturnsNull(a) ==
  /\ sock' = [sock EXCEPT ![alloc[a].mc] = "closed"]
  /\ param' = [param EXCEPT ![alloc[a].mc] = None]
  /\ alloc' = [alloc EXCEPT ![a] = Idle]

\* A duplicate, more than one other stream, or no free slot.
Refuse(a) ==
  /\ Scanning(a)
  /\ ~Refused(a) => ToCull(a) = {} /\ FreeConn(a) = None
  /\ ReturnsNull(a)
  /\ UNCHANGED <<conn, rx, ext_user, broken>>

\* "cull conns stuck in STOP_DATA state"
Cull(a) ==
  /\ Scanning(a) /\ ~Refused(a) /\ ToCull(a) # {}
  /\ LET k == ScanEnd(a)
         found == [alloc[a] EXCEPT !.at = k, !.back = TRUE, !.free = FreeConn(a),
                                   !.others = Others(a), !.mons = Mons(a)]
     IN  /\ rx' = Freed(rx, conn[k].rx)
         /\ IF Waits(rx, rx')
            THEN alloc' = [alloc EXCEPT ![a] = [found EXCEPT !.pc = "cull"]] /\ UNCHANGED <<conn, broken>>
            ELSE alloc' = [alloc EXCEPT ![a] = found] /\ RemoveOther(k)
  /\ UNCHANGED <<ext_user, sock, param>>

CullRemoves(a) ==
  /\ alloc[a].pc = "cull"
  /\ RemoveOther(alloc[a].at)
  /\ alloc' = [alloc EXCEPT ![a].pc = "scan"]
  /\ UNCHANGED <<rx, ext_user, sock, param>>

\* All channels are busy: the connection of an autorun is removed, and the
\* scan starts again.
Evict(a) ==
  /\ HasSlot(a) /\ alloc[a].mc[2] \in {"SND", "WF"} /\ Other(a) = None
  /\ \E flag \in Counts(alloc[a].mc) : FreeChan(flag) = None
  /\ alloc[a].mc[1] \in Preempts
  /\ \E v \in Victims :
       LET k == rx[v].conn
       IN  /\ rx' = Freed(rx, v)
           /\ IF Waits(rx, rx')
              THEN /\ alloc' = [alloc EXCEPT ![a] = [Begin(alloc[a].mc) EXCEPT !.pc = "evict", !.at = k]]
                   /\ UNCHANGED <<conn, broken>>
              ELSE alloc' = [alloc EXCEPT ![a] = Begin(alloc[a].mc)] /\ RemoveOther(k)
  /\ param' = [param EXCEPT ![alloc[a].mc] = FreeConn(a)]
  /\ UNCHANGED <<ext_user, sock>>

EvictRemoves(a) ==
  /\ alloc[a].pc = "evict"
  /\ RemoveOther(alloc[a].at)
  /\ alloc' = [alloc EXCEPT ![a] = Begin(alloc[a].mc)]
  /\ UNCHANGED <<rx, ext_user, sock, param>>

\* No channel and no place to camp, a second websocket of a camping user, or
\* no waterfall on this channel.
TurnAway(a) ==
  /\ HasSlot(a) /\ alloc[a].mc[2] \in {"SND", "WF"}
  /\ LET m == alloc[a].mc
     IN  \/ /\ Other(a) = None
            /\ \E flag \in Counts(m) :
                 \/ /\ FreeChan(flag) = None /\ ~BecomesMonitor(a)
                    /\ m[1] \notin Preempts \/ Victims = {}
                 \/ FreeChan(flag) # None /\ NoWaterfall(m, FreeChan(flag))
         \/ /\ Other(a) # None
            /\ conn[Other(a)].type = "MON" \/ NoWaterfall(m, conn[Other(a)].rx)
  /\ conn' = [conn EXCEPT ![FreeConn(a)] = Blank]
  /\ ReturnsNull(a)
  /\ UNCHANGED <<rx, ext_user, broken>>

\* An extension without its SND connection: the slot keeps type and other.
NoSound(a) ==
  /\ HasSlot(a) /\ alloc[a].mc[2] = "EXT"
  /\ IF Other(a) = None THEN TRUE ELSE conn[Other(a)].rx = None
  /\ conn' = [conn EXCEPT ![FreeConn(a)] = [Blank EXCEPT !.type = "EXT", !.other = Other(a)]]
  /\ ReturnsNull(a)
  /\ UNCHANGED <<rx, ext_user, broken>>

\* The connection that is filled in, on channel ch.
NewConn(a, type, ch) ==
  [Blank EXCEPT !.valid = TRUE, !.type = type, !.mc = alloc[a].mc, !.other = Other(a),
                !.rx = ch, !.ts = alloc[a].mc[1], !.pc = "new",
                !.arun = (alloc[a].mc[1] \in Autorun /\ type = "SND")]

\* CreateTaskSF() fails: the channel is freed, whoever uses it (in one step,
\* although the data pump may stop).
Fails(a, ch) ==
  /\ TasksRunOut
  /\ rx' = Freed(rx, ch)
  /\ ReturnsNull(a)

Succeeds(a, chans) ==
  /\ rx' = chans
  /\ sock' = [sock EXCEPT ![alloc[a].mc] = "open"]
  /\ param' = [param EXCEPT ![alloc[a].mc] = FreeConn(a)]
  /\ alloc' = [alloc EXCEPT ![a] = Idle]

\* rx_channels[].conn is the SND connection, or WF if it is the only stream.
Owned_Sound(f, ch, type, k) == IF type = "SND" THEN [f EXCEPT ![ch].conn = k] ELSE f
Owned(f, ch, type, k) ==
  [f EXCEPT ![ch].conn = IF type = "SND" \/ f[ch].conn = None THEN k ELSE f[ch].conn]

\* The first stream of a session gets a channel ...
FirstStream(a) ==
  /\ HasSlot(a) /\ alloc[a].mc[2] \in {"SND", "WF"} /\ Other(a) = None
  /\ \E flag \in Counts(alloc[a].mc) :
       LET ch == FreeChan(flag)  k == FreeConn(a)  type == alloc[a].mc[2]
       IN  /\ ch # None /\ ~NoWaterfall(alloc[a].mc, ch)
           /\ \/ /\ Succeeds(a, Owned([rx EXCEPT ![ch].busy = TRUE], ch, type, k))
                 /\ conn' = [conn EXCEPT ![k] = NewConn(a, type, ch)]
              \/ Fails(a, ch) /\ conn' = [conn EXCEPT ![k] = Blank]
  /\ UNCHANGED <<ext_user, broken>>

\* ... the second one joins it, and the two know each other ...
Linked_OneWay(f, o, k) == f
Linked(f, o, k) == [f EXCEPT ![o].other = k]

SecondStream(a) ==
  /\ HasSlot(a) /\ alloc[a].mc[2] \in {"SND", "WF"} /\ Other(a) # None
  /\ conn[Other(a)].type # "MON" /\ ~NoWaterfall(alloc[a].mc, conn[Other(a)].rx)
  /\ LET k == FreeConn(a)  type == alloc[a].mc[2]  ch == conn[Other(a)].rx
         linked == Linked(conn, Other(a), k)
     IN  \/ /\ Succeeds(a, IF ch = None THEN rx ELSE Owned(rx, ch, type, k))
            /\ conn' = [linked EXCEPT ![k] = NewConn(a, type, ch)]
         \/ Fails(a, ch) /\ conn' = [linked EXCEPT ![k] = Blank]
  /\ UNCHANGED <<ext_user, broken>>

\* ... an extension only knows its SND connection ...
Extension(a) ==
  /\ HasSlot(a) /\ alloc[a].mc[2] = "EXT" /\ Other(a) # None
  /\ LET k == FreeConn(a)  ch == conn[Other(a)].rx
     IN  /\ ch # None
         /\ \/ Succeeds(a, rx) /\ conn' = [conn EXCEPT ![k] = NewConn(a, "EXT", ch)]
            \/ Fails(a, ch) /\ conn' = [conn EXCEPT ![k] = Blank]
  /\ UNCHANGED <<ext_user, broken>>

\* ... and when all channels are busy a Kiwi user may camp and queue.
Monitor(a) ==
  /\ HasSlot(a) /\ alloc[a].mc[2] \in {"SND", "WF"} /\ Other(a) = None
  /\ \E flag \in Counts(alloc[a].mc) : FreeChan(flag) = None
  /\ alloc[a].mc[1] \notin Preempts \/ Victims = {}
  /\ BecomesMonitor(a)
  /\ \/ Succeeds(a, rx) /\ conn' = [conn EXCEPT ![FreeConn(a)] = NewConn(a, "MON", None)]
     \/ Fails(a, None) /\ conn' = [conn EXCEPT ![FreeConn(a)] = Blank]
  /\ UNCHANGED <<ext_user, broken>>

Allocates(a) ==
  \/ Refuse(a) \/ Cull(a) \/ CullRemoves(a) \/ Evict(a) \/ EvictRemoves(a) \/ TurnAway(a)
  \/ NoSound(a) \/ FirstStream(a) \/ SecondStream(a) \/ Extension(a) \/ Monitor(a)

-----------------------------------------------------------------------------
(* Websockets: the rest of rx_server_websocket(), rx_server_kick() *)

\* The connection that a websocket points to, if that still belongs to it.
OwnConn_Any(m) == {k \in Conns : k = param[m] /\ conn[k].valid}
OwnConn(m) == {k \in Conns : k = param[m] /\ conn[k].valid /\ conn[k].mc = m}
Disconnected_Silently(c) == [c EXCEPT !.mc = NoMc]
Disconnected(c) == [c EXCEPT !.mc = NoMc, !.kick = TRUE]

\* MG_CLOSE, or internal_conn_shutdown(): not while its task allocates.
Close(m) ==
  /\ sock[m] = "open" /\ alloc[By(m)] = Idle
  /\ sock' = [sock EXCEPT ![m] = "closed"]
  /\ param' = [param EXCEPT ![m] = None]
  /\ conn' = [k \in Conns |-> IF k \in OwnConn(m) THEN Disconnected(conn[k]) ELSE conn[k]]
  /\ UNCHANGED <<rx, ext_user, alloc, broken>>

\* A session that is over connects again, with a new time stamp.
Return(s) ==
  /\ \A m \in Mc : m[1] = s => sock[m] = "closed"
  /\ \A k \in Conns : conn[k].ts # s
  /\ sock' = [m \in Mc |-> IF m[1] = s THEN "new" ELSE sock[m]]
  /\ UNCHANGED <<conn, rx, ext_user, param, alloc, broken>>

\* The administrator kicks, keepalives stop, a time limit is over.
Kick(k) ==
  /\ conn[k].valid /\ ~conn[k].kick
  /\ conn' = [conn EXCEPT ![k].kick = TRUE]
  /\ UNCHANGED <<rx, ext_user, sock, param, alloc, broken>>

-----------------------------------------------------------------------------
(* The tasks of the connections *)

Task(k, type) == conn[k].valid /\ conn[k].type = type
InLoop(k, type) == Task(k, type) /\ conn[k].pc = "loop"

\* conn_other(): the other stream, unless its slot is used for something else.
ConnOther_Live(k, type) ==
  LET o == conn[k].other
  IN  IF o = None THEN None
      ELSE IF conn[o].type = type /\ conn[o].rx = conn[k].rx /\ ~conn[o].kick THEN o ELSE None
ConnOther(k, type) ==
  LET o == conn[k].other
  IN  IF o = None THEN None
      ELSE IF conn[o].type = type /\ conn[o].rx = conn[k].rx THEN o ELSE None

\* c2s_sound() enables the data pump for its channel.
Start(k) ==
  /\ conn[k].valid /\ conn[k].pc = "new"
  /\ rx' = IF conn[k].type = "SND" /\ conn[k].rx # None THEN Enabled(rx, conn[k].rx, TRUE) ELSE rx
  /\ conn' = [conn EXCEPT ![k].pc = IF Waits(rx, rx') THEN "spi" ELSE "loop"]
  /\ UNCHANGED <<ext_user, sock, param, alloc, broken>>

\* SND sets the receiver, WF reads the samples; the eCPU makes them wait.
SpiTransfer(k) ==
  /\ "spi" \in Yields
  /\ conn[k].valid /\ conn[k].type \in {"SND", "WF"}
  /\ \/ conn[k].pc = "loop" /\ conn' = [conn EXCEPT ![k].pc = "spi"]
     \/ conn[k].pc = "spi" /\ conn' = [conn EXCEPT ![k].pc = "loop"]
  /\ UNCHANGED <<rx, ext_user, sock, param, alloc, broken>>

\* rx_enable() with the given channels, then rx_server_remove() of itself.
Leaves(k, chans, c) ==
  /\ rx' = chans
  /\ conn' = IF Waits(rx, rx') THEN [c EXCEPT ![k].pc = "leave"] ELSE Removed(c, k)
  /\ UNCHANGED <<ext_user, sock, param, alloc, broken>>

Leave(k) ==
  /\ conn[k].valid /\ conn[k].pc = "leave"
  /\ conn' = Removed(conn, k)
  /\ UNCHANGED <<rx, ext_user, sock, param, alloc, broken>>

\* The other stream has asked to stop.
Stop(k) ==
  /\ InLoop(k, "SND") \/ InLoop(k, "WF")
  /\ conn[k].stop_data
  /\ Leaves(k, Freed(rx, conn[k].rx), conn)

\* "Ask waterfall task to stop": it will free the channel.
SoundEnds(k) ==
  /\ InLoop(k, "SND") /\ ~conn[k].stop_data /\ conn[k].kick
  /\ LET cwf == ConnOther(k, "WF")  ch == conn[k].rx
     IN  IF cwf # None
         THEN Leaves(k, IF ch = None THEN rx ELSE Enabled(rx, ch, FALSE), [conn EXCEPT ![cwf].stop_data = TRUE])
         ELSE Leaves(k, Freed(rx, ch), conn)

\* "Ask sound task to stop"
WaterfallEnds(k) ==
  /\ InLoop(k, "WF") /\ ~conn[k].stop_data /\ conn[k].kick
  /\ LET csnd == ConnOther(k, "SND")
     IN  IF csnd # None
         THEN Leaves(k, rx, [conn EXCEPT ![csnd].stop_data = TRUE])
         ELSE Leaves(k, Freed(rx, conn[k].rx), conn)

\* extint_ext_users_init()
ExtUsersInit_Not(ch) == ext_user
ExtUsersInit(ch) == [ext_user EXCEPT ![ch] = None]

\* "SET ext_switch_to_client" and "SET ext_blur"
ExtSwitch(k) ==
  /\ InLoop(k, "EXT")
  /\ ext_user' = [ext_user EXCEPT ![conn[k].rx] = k]
  /\ UNCHANGED <<conn, rx, sock, param, alloc, broken>>

ExtBlur(k) ==
  /\ InLoop(k, "EXT")
  /\ ext_user' = ExtUsersInit(conn[k].rx)
  /\ UNCHANGED <<conn, rx, sock, param, alloc, broken>>

ExtEnds(k) ==
  /\ InLoop(k, "EXT") /\ conn[k].kick
  /\ ext_user' = ExtUsersInit(conn[k].rx)
  /\ conn' = Removed(conn, k)
  /\ UNCHANGED <<rx, sock, param, alloc, broken>>

MonitorEnds(k) ==
  /\ InLoop(k, "MON") /\ conn[k].kick
  /\ conn' = Removed(conn, k)
  /\ UNCHANGED <<rx, ext_user, sock, param, alloc, broken>>

Ends(k) == Leave(k) \/ Stop(k) \/ SoundEnds(k) \/ WaterfallEnds(k) \/ ExtEnds(k) \/ MonitorEnds(k)
ConnTask(k) == Start(k) \/ SpiTransfer(k) \/ ExtSwitch(k) \/ ExtBlur(k) \/ Ends(k)

-----------------------------------------------------------------------------
Init ==
  /\ conn = [k \in Conns |-> Blank]
  /\ rx = [ch \in Chans |-> Unused]
  /\ ext_user = [ch \in Chans |-> None]
  /\ sock = [m \in Mc |-> "new"]
  /\ param = [m \in Mc |-> None]
  /\ alloc = [a \in Allocator |-> Idle]
  /\ broken = FALSE

\* Others run while an allocation is suspended only if it lets them.
OthersRun == "scan" \in Yields \/ \A a \in Allocator : alloc[a].pc # "scan"

Next ==
  /\ ~broken
  /\ \/ \E a \in Allocator : Allocates(a)
     \/ /\ OthersRun
        /\ \/ \E m \in Mc : Connect(m) \/ Close(m)
           \/ \E s \in Session : Return(s)
           \/ \E k \in Conns : Kick(k) \/ ConnTask(k)

Spec == Init /\ [][Next]_vars

\* Every task is run again and again.  A sound task sleeps until the data
\* pump has filled a buffer, which it does for the enabled channels only.
Awake(k) == Task(k, "SND") /\ conn[k].pc = "loop" => rx[conn[k].rx].chan_enabled

Fairness ==
  /\ \A a \in Allocator : WF_vars(Allocates(a))
  /\ \A k \in Conns : WF_vars(Awake(k) /\ (Start(k) \/ Ends(k)))

FairSpec == Spec /\ Fairness

-----------------------------------------------------------------------------
(* Properties *)

Streams(k) == conn[k].valid /\ conn[k].type \in {"SND", "WF"}

\* Everything is of its type, and what is in use has what it needs.
TypeOK ==
  /\ conn \in [Conns -> Conn]
  /\ rx \in [Chans -> Chan]
  /\ ext_user \in [Chans -> Conns \cup {None}]
  /\ sock \in [Mc -> {"new", "open", "closed"}]
  /\ param \in [Mc -> Conns \cup {None}]
  /\ alloc \in [Allocator -> [pc : {"idle", "scan", "cull", "evict"}, mc : Mc \cup {NoMc},
                              at : Conns, back : BOOLEAN, free : Conns \cup {None},
                              others : SUBSET Conns, mons : 0 .. N_CONNS]]
  /\ broken \in BOOLEAN

\* A receiver channel is busy exactly as long as a sound or waterfall connection
\* is on it, which will free it (rx_enable, RX_CHAN_FREE): none is lost, and none
\* is given to somebody else while it is used (rx_chan_free_count).
BusyIffUsed ==
  /\ \A k \in Conns : Streams(k) => conn[k].rx # None
  /\ \A ch \in Chans : rx[ch].busy <=> \E k \in Conns : Streams(k) /\ conn[k].rx = ch

\* All streams on a channel belong to the same session.
OneSessionPerChannel ==
  \A j, k \in Conns : /\ Streams(j) /\ Streams(k) /\ conn[j].rx = conn[k].rx
                       => conn[j].ts = conn[k].ts

\* The assertions of data_pump(): a channel that is enabled has a sound
\* connection, whose task can be woken.
DataPumpAssertion ==
  \A ch \in Chans : rx[ch].chan_enabled =>
    /\ rx[ch].conn # None
    /\ LET c == conn[rx[ch].conn] IN c.valid /\ c.type = "SND" /\ c.rx = ch

\* rx_autorun_find_victim() follows rx_channels[].conn of every busy channel.
BusyHasConn == \A ch \in Chans : rx[ch].busy => rx[ch].conn # None

\* Two streams of a session on one channel know each other, unless one of them
\* has been asked to stop: a kick of either one ends both.
StreamsLinked ==
  \A j, k \in Conns : Streams(j) /\ Streams(k) /\ j # k /\ conn[j].rx = conn[k].rx
    => ConnOther(j, conn[k].type) = k \/ conn[j].stop_data

\* ext_users[].conn_ext never dangles: ext_send_msg() sends to it.
ExtUserIsExt ==
  \A ch \in Chans : ext_user[ch] # None => Task(ext_user[ch], "EXT") /\ conn[ext_user[ch]].rx = ch

\* A connection loses its websocket only when this one is closed, although
\* websockets keep pointing to slots that others have taken meanwhile.
KeepsWebsocket ==
  [][\A k \in Conns : conn[k].valid /\ conn'[k].valid /\ conn[k].mc \in Mc /\ conn'[k].mc # conn[k].mc
       => sock[conn[k].mc] = "open" /\ sock'[conn[k].mc] = "closed"]_vars

\* When all websockets of a session are closed, its connections go away.
ClosedSessionEnds ==
  \A s \in Session :
    (\A m \in Mc : m[1] = s => sock[m] = "closed") ~> (\A k \in Conns : conn[k].ts # s)

\* "Attempt to kick a channel using autorun": the channels that may be taken
\* from their users are used by an autorun, and by nobody else.
VictimsUseAutorun ==
  \A ch \in Victims, k \in Conns : Streams(k) /\ conn[k].rx = ch => conn[k].arun

\* "must not do while, for example, holding a lock": no task is removed by
\* another one in the middle of an SPI transfer.
RemovesSafely == ~broken
=============================================================================
