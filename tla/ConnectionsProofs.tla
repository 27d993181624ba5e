------------------------- MODULE ConnectionsProofs -------------------------
(***************************************************************************)
(* Theorems about the connection table and the allocation of channels, for *)
(* any number of slots, channels and sessions.                             *)
(*                                                                         *)
(* Types, and that every busy channel has a connection, are shown for      *)
(* every interleaving.  What the streams of a session rely on is shown for *)
(* a server in which nobody yields inside an allocation or inside          *)
(* rx_enable() (Yields = {}); and about channels, as long as there are     *)
(* tasks and the allocator evicts only autoruns (VictimsUseAutorun).       *)
(***************************************************************************)
EXTENDS Connections, FiniteSetTheorems, WellFoundedInduction, TLAPS

----------------------------------------------------------------------------
(* The inductive invariants                                                *)

(* A scan has counted no more monitors than it has looked at slots.        *)
ScanInv ==
  \A a \in Allocator :
    /\ alloc[a].pc # "idle" => alloc[a].mc \in Mc
    /\ alloc[a].mons <= alloc[a].at

TypeInv == TypeOK /\ ScanInv

(* A slot that is not in use does not look like a stream.  A websocket     *)
(* whose connection is there does not ask for another one, and it is       *)
(* streams that are asked to stop.                                         *)
SlotOK(c, s) ==
  /\ c.type \in {"SND", "WF", "MON"} => c.valid
  /\ c.valid => c.type # "none"
  /\ c.valid /\ c.type # "MON" => <<c.ts, c.type>> \in Mc /\ s[<<c.ts, c.type>>] # "new"
  /\ c.valid /\ c.type = "EXT" => c.rx # None
  /\ c.stop_data => c.type \in {"SND", "WF"}
  /\ c.arun => c.type = "SND" /\ c.ts \in Autorun
  /\ c.pc \in {"none", "new", "loop"}

SlotsInv == \A k \in Conns : SlotOK(conn[k], sock)

(* One allocation is under way at most.  The slot that it remembers is     *)
(* still free and the streams are still there, and it will not cull them.  *)
AllocInv ==
  /\ \A a \in Allocator : alloc[a].pc \in {"idle", "scan"}
  /\ \A a, b \in Allocator : alloc[a].pc = "scan" /\ alloc[b].pc = "scan" => a = b
  /\ \A a \in Allocator : alloc[a].pc = "scan" =>
       /\ sock[alloc[a].mc] = "new"
       /\ alloc[a].free # None => ~conn[alloc[a].free].valid
       /\ \A o \in alloc[a].others :
            /\ o < alloc[a].at
            /\ conn[o].valid /\ conn[o].ts = alloc[a].mc[1]
            /\ conn[o].type \in LinkedTypes(alloc[a].mc[2])

TableInv == TypeInv /\ SlotsInv /\ AllocInv /\ ExtUserIsExt

(* The streams of a channel are of different types, and rx_channels[].conn *)
(* is the sound connection if there is one.  A stream that has been asked  *)
(* to stop is alone and stays alone.                                       *)
StreamsDiffer ==
  \A j, k \in Conns : Streams(j) /\ Streams(k) /\ conn[j].rx = conn[k].rx /\ j # k
                        => conn[j].type # conn[k].type

SoundOwns ==
  \A k \in Conns : Streams(k) /\ conn[k].type = "SND" => rx[conn[k].rx].conn = k

StoppedAlone ==
  \A k \in Conns : conn[k].stop_data =>
    /\ \A j \in Conns : Streams(j) /\ conn[j].rx = conn[k].rx => j = k
    /\ \A type \in {"SND", "WF"} : <<conn[k].ts, type>> \in Mc => sock[<<conn[k].ts, type>>] # "new"

ChannelInv ==
  /\ BusyIffUsed /\ OneSessionPerChannel /\ StreamsDiffer /\ SoundOwns
  /\ DataPumpAssertion /\ StreamsLinked /\ StoppedAlone

----------------------------------------------------------------------------
(* Lemmas about the operators                                              *)

(* Min() of some numbers is the least of them.                             *)
LEMMA MinOf ==
  ASSUME NEW n \in Nat, NEW S \in SUBSET (0 .. n - 1), S # {}
  PROVE  Min(S) \in S /\ \A r \in S : Min(S) <= r
<1> DEFINE below(p) == {r \in S : r < p}
           T == {below(p) : p \in S}
           R == StrictSubsetOrdering(0 .. n - 1)
<1>1. IsWellFoundedOn(R, SUBSET (0 .. n - 1))
  <2>1. IsFiniteSet(0 .. n - 1)
    BY FS_Interval
  <2> QED
    BY <2>1, FS_FiniteSubsetsOfFinite, FS_StrictSubsetOrderingWellFounded, Zenon
<1>2. T \subseteq SUBSET (0 .. n - 1) /\ T # {}
  OBVIOUS
<1>3. PICK x \in T : \A y \in T : ~(<<y, x>> \in R)
  <2> HIDE DEF T, R
  <2> QED
    BY <1>1, <1>2, WFMin, Zenon
<1>4. PICK p \in S : x = below(p)
  OBVIOUS
<1>5. \A r \in S : p <= r
  <2> SUFFICES ASSUME NEW r \in S, r < p PROVE FALSE
    OBVIOUS
  <2>1. \A q \in S : q \in Int
    OBVIOUS
  <2>2. below(r) \in T /\ r \in x /\ r \notin below(r)
    BY <1>4, <2>1
  <2>3. below(r) \subseteq x
    <3>1. \A q \in S : q < r => q < p
      BY <2>1
    <3> QED
      BY <1>4, <3>1
  <2>4. <<below(r), x>> \in R
    BY <1>2, <2>2, <2>3 DEF StrictSubsetOrdering
  <2> QED
    BY <1>3, <2>2, <2>4
<1> QED
  BY <1>5, Zenon DEF Min

(* A connection that differs from another only in having been kicked.      *)
SameButKick(c, d) ==
  /\ d.valid = c.valid /\ d.type = c.type /\ d.mc = c.mc /\ d.other = c.other
  /\ d.rx = c.rx /\ d.ts = c.ts /\ d.stop_data = c.stop_data /\ d.arun = c.arun
  /\ d.pc = c.pc

LEMMA BlankIs ==
  /\ Blank \in Conn /\ ~Blank.valid /\ Blank.type = "none" /\ Blank.mc = NoMc
  /\ Blank.other = None /\ Blank.rx = None /\ Blank.ts = NoSession
  /\ ~Blank.stop_data /\ ~Blank.arun /\ Blank.pc = "none"
BY DEF Blank, Conn, None

LEMMA UnusedIs == Unused \in Chan /\ ~Unused.busy /\ ~Unused.chan_enabled /\ Unused.conn = None
BY DEF Unused, Chan, None

(* rx_server_remove() clears the slot, and otherwise only kicks.           *)
LEMMA RemovedFields ==
  ASSUME NEW f \in [Conns -> Conn], NEW k \in Conns
  PROVE  /\ Removed(f, k) \in [Conns -> Conn]
         /\ Removed(f, k)[k] = Blank
         /\ \A c \in Conns \ {k} : SameButKick(f[c], Removed(f, k)[c])
<1> DEFINE g == Removed(f, k)
<1>1. g[k] = Blank
  BY DEF Removed
<1>2. ASSUME NEW c \in Conns \ {k}
      PROVE  g[c] \in Conn /\ SameButKick(f[c], g[c])
  <2>1. g[c] = [f[c] EXCEPT !.kick = f[c].kick \/ c \in Kicked(f, k)]
    BY <1>2 DEF Removed
  <2>2. f[c] \in Conn /\ (f[c].kick \/ c \in Kicked(f, k)) \in BOOLEAN
    OBVIOUS
  <2> HIDE DEF g
  <2> QED
    BY <2>1, <2>2 DEF Conn, SameButKick
<1>3. g \in [Conns -> Conn]
  <2>1. \A c \in Conns : g[c] \in Conn
    BY <1>1, <1>2, BlankIs
  <2>2. g = [c \in Conns |-> g[c]]
    BY DEF Removed
  <2> HIDE DEF g
  <2> QED
    BY <2>1, <2>2
<1> QED
  BY <1>1, <1>2, <1>3

LEMMA FreedFields ==
  ASSUME NEW f \in [Chans -> Chan], NEW ch \in Chans \cup {None}
  PROVE  /\ Freed(f, ch) \in [Chans -> Chan]
         /\ \A c \in Chans : Freed(f, ch)[c] = IF c = ch THEN Unused ELSE f[c]
BY UnusedIs DEF Freed, Chans, None

AllocRec == [pc : {"idle", "scan", "cull", "evict"}, mc : Mc \cup {NoMc}, at : Conns,
             back : BOOLEAN, free : Conns \cup {None}, others : SUBSET Conns, mons : 0 .. N_CONNS]

(* A scan that begins, and one that is over.                               *)
LEMMA IdleIs ==
  /\ Idle \in AllocRec /\ Idle.pc = "idle" /\ Idle.mons = 0 /\ Idle.at = 0
  /\ \A m \in Mc : /\ Begin(m) \in AllocRec /\ Begin(m).pc = "scan" /\ Begin(m).mc = m
                   /\ Begin(m).mons = 0 /\ Begin(m).at = 0
                   /\ Begin(m).free = None /\ Begin(m).others = {}
<1>1. 0 \in Conns /\ 0 \in 0 .. N_CONNS
  BY ConnectionsAssumption DEF Conns
<1> QED
  BY <1>1 DEF Idle, Begin, AllocRec, None

(* What the scan finds.                                                    *)
LEMMA ScanFacts ==
  ASSUME TypeInv, NEW a \in Allocator
  PROVE  /\ alloc[a] \in AllocRec
         /\ ToCull(a) \subseteq Conns
         /\ ScanEnd(a) \in alloc[a].at .. N_CONNS
         /\ ToCull(a) # {} => ScanEnd(a) \in ToCull(a)
         /\ Seen(a) \subseteq {k \in Conns : conn[k].valid /\ k < ScanEnd(a)}
         /\ FreeConn(a) \in Conns \cup {None}
         /\ FreeConn(a) # None => FreeConn(a) = alloc[a].free \/ ~conn[FreeConn(a)].valid
         /\ Others(a) \subseteq alloc[a].others \cup SameSession(a) /\ Others(a) \subseteq Conns
         /\ Other(a) \in Conns \cup {None}
         /\ Other(a) # None => Other(a) \in Others(a)
         /\ Mons(a) \in 0 .. ScanEnd(a)
<1>0. /\ N_CONNS \in Nat /\ Conns = 0 .. N_CONNS - 1 /\ None \notin Conns
      /\ alloc[a] \in AllocRec /\ alloc[a].mons <= alloc[a].at
  BY ConnectionsAssumption DEF TypeInv, TypeOK, ScanInv, Conns, AllocRec, None
<1>1. /\ alloc[a].at \in Conns /\ alloc[a].free \in Conns \cup {None}
      /\ alloc[a].others \subseteq Conns /\ alloc[a].mons \in Nat
  BY <1>0 DEF AllocRec
<1>2. ToCull(a) \subseteq alloc[a].at .. N_CONNS - 1 /\ ToCull(a) \subseteq Conns
  BY <1>0, <1>1 DEF ToCull
<1>3. ToCull(a) # {} => ScanEnd(a) \in ToCull(a)
  BY <1>0, <1>2, MinOf DEF ScanEnd
<1>4. ScanEnd(a) \in alloc[a].at .. N_CONNS
  BY <1>0, <1>1, <1>2, <1>3 DEF ScanEnd
<1>5. Seen(a) \subseteq {k \in Conns : conn[k].valid /\ k < ScanEnd(a)}
  BY <1>0, <1>1, <1>4 DEF Seen
<1>6. Unseen(a) \subseteq {k \in Conns : ~conn[k].valid}
  BY <1>0, <1>1, <1>4 DEF Seen, Unseen
<1>7. /\ FreeConn(a) \in Conns \cup {None}
      /\ FreeConn(a) # None => FreeConn(a) = alloc[a].free \/ ~conn[FreeConn(a)].valid
  <2>1. Unseen(a) # {} => Min(Unseen(a)) \in Unseen(a)
    BY <1>0, <1>6, MinOf
  <2> QED
    BY <1>1, <1>6, <2>1 DEF FreeConn
<1>8. Others(a) \subseteq alloc[a].others \cup SameSession(a) /\ Others(a) \subseteq Conns
  BY <1>1, <1>5 DEF Others, SameSession
<1>9. Other(a) \in Conns \cup {None} /\ (Other(a) # None => Other(a) \in Others(a))
  BY <1>8 DEF Other
<1>10. Mons(a) \in 0 .. ScanEnd(a)
  <2> DEFINE M == {k \in Seen(a) : conn[k].type = "MON"}
             I == alloc[a].at .. ScanEnd(a) - 1
  <2>1. IsFiniteSet(I) /\ Cardinality(I) = ScanEnd(a) - alloc[a].at
    <3>1. alloc[a].at \in Int /\ ScanEnd(a) \in Int /\ ScanEnd(a) - 1 \in Int /\ alloc[a].at <= ScanEnd(a)
      BY <1>0, <1>1, <1>4
    <3>2. PICK hi \in Int : hi = ScanEnd(a) - 1
      BY <3>1
    <3>3. PICK lo \in Int : lo = alloc[a].at
      BY <3>1
    <3>4. IsFiniteSet(lo .. hi) /\ Cardinality(lo .. hi) = IF lo > hi THEN 0 ELSE hi - lo + 1
      BY FS_Interval
    <3> QED
      BY <3>1, <3>2, <3>3, <3>4
  <2>2. M \subseteq I
    BY DEF Seen
  <2>3. IsFiniteSet(M) /\ Cardinality(M) <= Cardinality(I) /\ Cardinality(M) \in Nat
    BY <2>1, <2>2, FS_Subset, FS_CardinalityType
  <2>4. Mons(a) = alloc[a].mons + Cardinality(M)
    BY DEF Mons
  <2> HIDE DEF M, I
  <2> QED
    BY <1>0, <1>1, <1>4, <2>1, <2>3, <2>4
<1> QED
  BY <1>0, <1>2, <1>3, <1>4, <1>5, <1>7, <1>8, <1>9, <1>10

(* A free channel is a channel, and is free.                               *)
LEMMA FreeChanFacts ==
  ASSUME NEW flag
  PROVE  FreeChan(flag) # None => FreeChan(flag) \in Chans /\ ~rx[FreeChan(flag)].busy
<1>1. Candidates(flag) \subseteq FreeChans
  BY DEF Candidates
<1>2. FreeChans \subseteq 0 .. rx_chans - 1 /\ rx_chans \in Nat
  BY ConnectionsAssumption DEF FreeChans, Chans
<1>3. Candidates(flag) # {} => Min(Candidates(flag)) \in Candidates(flag)
  BY <1>1, <1>2, MinOf
<1> QED
  BY <1>1, <1>3 DEF FreeChan, FreeChans

----------------------------------------------------------------------------
(* Types                                                                   *)

LEMMA TypeFacts ==
  ASSUME TypeInv
  PROVE  /\ conn \in [Conns -> Conn] /\ rx \in [Chans -> Chan]
         /\ ext_user \in [Chans -> Conns \cup {None}]
         /\ sock \in [Mc -> {"new", "open", "closed"}] /\ param \in [Mc -> Conns \cup {None}]
         /\ alloc \in [Allocator -> AllocRec] /\ broken \in BOOLEAN
         /\ None \notin Conns /\ None \notin Chans /\ NoMc \notin Mc
         /\ \A m \in Mc : m = <<m[1], m[2]>> /\ m[1] \in Session /\ m[2] \in Stream
BY ConnectionsAssumption DEF TypeInv, TypeOK, AllocRec, Conns, Chans, None

LEMMA InitType == Init => TypeInv
<1> SUFFICES ASSUME Init PROVE TypeInv
  OBVIOUS
<1>1. alloc \in [Allocator -> AllocRec] /\ ScanInv
  BY IdleIs DEF Init, ScanInv
<1> QED
  BY <1>1, BlankIs, UnusedIs DEF Init, TypeInv, TypeOK, AllocRec

LEMMA ScanGoesOn ==
  ASSUME TypeInv, NEW a \in Allocator, NEW r \in AllocRec,
         r.pc # "idle" => r.mc \in Mc, r.mons <= r.at, alloc' = [alloc EXCEPT ![a] = r]
  PROVE  alloc' \in [Allocator -> AllocRec] /\ ScanInv'
<1>1. alloc' \in [Allocator -> AllocRec]
  BY TypeFacts
<1>2. \A b \in Allocator : alloc'[b] = IF b = a THEN r ELSE alloc[b]
  BY TypeFacts
<1> QED
  BY <1>1, <1>2 DEF ScanInv, TypeInv

LEMMA ScanIsIdle ==
  ASSUME TypeInv, NEW a \in Allocator, alloc' = [alloc EXCEPT ![a] = Idle]
  PROVE  alloc' \in [Allocator -> AllocRec] /\ ScanInv'
<1>1. Idle \in AllocRec /\ Idle.pc = "idle" /\ Idle.mons <= Idle.at
  BY IdleIs
<1> QED
  BY <1>1, ScanGoesOn, Zenon

LEMMA ScanBegins ==
  ASSUME TypeInv, NEW a \in Allocator, NEW m \in Mc, alloc' = [alloc EXCEPT ![a] = Begin(m)]
  PROVE  alloc' \in [Allocator -> AllocRec] /\ ScanInv'
<1>1. Begin(m) \in AllocRec /\ Begin(m).mc = m /\ Begin(m).mons <= Begin(m).at
  BY IdleIs
<1> QED
  BY <1>1, ScanGoesOn, Zenon

(* A connection that is filled in.                                         *)
LEMMA NewConnFields ==
  ASSUME TypeInv, NEW a \in Allocator, alloc[a].pc # "idle",
         NEW type \in Stream \cup {"MON"}, NEW ch \in Chans \cup {None}
  PROVE  LET c == NewConn(a, type, ch)
         IN  /\ c \in Conn /\ c.valid /\ c.type = type /\ c.mc = alloc[a].mc /\ c.other = Other(a)
             /\ c.rx = ch /\ c.ts = alloc[a].mc[1] /\ ~c.stop_data /\ c.pc = "new"
             /\ c.arun = (alloc[a].mc[1] \in Autorun /\ type = "SND")
             /\ alloc[a].mc \in Mc
<1>1. alloc[a].mc \in Mc
  BY DEF TypeInv, ScanInv
<1>2. alloc[a].mc[1] \in Session /\ Other(a) \in Conns \cup {None}
  BY <1>1, TypeFacts, ScanFacts
<1> DEFINE au == (alloc[a].mc[1] \in Autorun /\ type = "SND")
<1>3. au \in BOOLEAN
  OBVIOUS
<1>4. NewConn(a, type, ch) =
        [valid |-> TRUE, type |-> type, mc |-> alloc[a].mc, other |-> Other(a), rx |-> ch,
         ts |-> alloc[a].mc[1], kick |-> FALSE, stop_data |-> FALSE, arun |-> au, pc |-> "new"]
  <2>1. NewConn(a, type, ch) =
          [Blank EXCEPT !.valid = TRUE, !.type = type, !.mc = alloc[a].mc, !.other = Other(a),
                        !.rx = ch, !.ts = alloc[a].mc[1], !.pc = "new", !.arun = au]
    BY Zenon DEF NewConn
  <2> HIDE DEF au
  <2> QED
    BY <2>1 DEF Blank
<1> HIDE DEF au
<1>5. NewConn(a, type, ch) \in Conn
  BY <1>1, <1>2, <1>3, <1>4 DEF Conn
<1> QED
  BY <1>1, <1>4, <1>5 DEF au

(* What TypeInv needs of a step.                                           *)
Typed ==
  /\ conn' \in [Conns -> Conn] /\ rx' \in [Chans -> Chan]
  /\ ext_user' \in [Chans -> Conns \cup {None}]
  /\ sock' \in [Mc -> {"new", "open", "closed"}] /\ param' \in [Mc -> Conns \cup {None}]
  /\ alloc' \in [Allocator -> AllocRec] /\ broken' \in BOOLEAN /\ ScanInv'

LEMMA TypedStep == Typed => TypeInv'
BY DEF Typed, TypeInv, TypeOK, AllocRec

LEMMA RemoveOtherTyped ==
  ASSUME TypeInv, NEW k \in Conns, RemoveOther(k)
  PROVE  conn' \in [Conns -> Conn] /\ broken' \in BOOLEAN
<1>1. conn' \in [Conns -> Conn]
  BY TypeFacts, RemovedFields DEF RemoveOther
<1>2. broken' \in BOOLEAN
  BY TypeFacts DEF RemoveOther, Conn
<1> QED
  BY <1>1, <1>2

LEMMA TypedReturns ==
  ASSUME TypeInv, NEW a \in Allocator, alloc[a].pc # "idle", ReturnsNull(a)
  PROVE  /\ sock' \in [Mc -> {"new", "open", "closed"}] /\ param' \in [Mc -> Conns \cup {None}]
         /\ alloc' \in [Allocator -> AllocRec] /\ ScanInv'
<1>1. alloc' \in [Allocator -> AllocRec] /\ ScanInv'
  BY ScanIsIdle DEF ReturnsNull
<1> QED
  BY <1>1, TypeFacts DEF ReturnsNull

LEMMA TypedSucceeds ==
  ASSUME TypeInv, NEW a \in Allocator, alloc[a].pc # "idle", FreeConn(a) # None, NEW chans,
         Succeeds(a, chans)
  PROVE  /\ sock' \in [Mc -> {"new", "open", "closed"}] /\ param' \in [Mc -> Conns \cup {None}]
         /\ alloc' \in [Allocator -> AllocRec] /\ ScanInv'
<1>1. alloc' \in [Allocator -> AllocRec] /\ ScanInv'
  BY ScanIsIdle DEF Succeeds
<1>2. FreeConn(a) \in Conns
  BY ScanFacts
<1> QED
  BY <1>1, <1>2, TypeFacts DEF Succeeds

LEMMA OwnedFields ==
  ASSUME NEW f \in [Chans -> Chan], NEW ch \in Chans, NEW type, NEW k \in Conns
  PROVE  /\ Owned(f, ch, type, k) \in [Chans -> Chan]
         /\ \A c \in Chans \ {ch} : Owned(f, ch, type, k)[c] = f[c]
         /\ Owned(f, ch, type, k)[ch].busy = f[ch].busy
         /\ Owned(f, ch, type, k)[ch].chan_enabled = f[ch].chan_enabled
         /\ Owned(f, ch, type, k)[ch].conn = IF type = "SND" \/ f[ch].conn = None THEN k ELSE f[ch].conn
<1> DEFINE o == IF type = "SND" \/ f[ch].conn = None THEN k ELSE f[ch].conn
<1>1. Owned(f, ch, type, k) = [f EXCEPT ![ch].conn = o]
  BY DEF Owned
<1>2. o \in Conns \cup {None}
  BY DEF Chan
<1>3. f[ch] \in Chan
  OBVIOUS
<1> HIDE DEF o
<1>4. Owned(f, ch, type, k) \in [Chans -> Chan]
  BY <1>1, <1>2, <1>3 DEF Chan
<1>5. /\ \A c \in Chans \ {ch} : Owned(f, ch, type, k)[c] = f[c]
      /\ Owned(f, ch, type, k)[ch].busy = f[ch].busy
      /\ Owned(f, ch, type, k)[ch].chan_enabled = f[ch].chan_enabled
      /\ Owned(f, ch, type, k)[ch].conn = o
  BY <1>1, <1>2, <1>3 DEF Chan
<1> QED
  BY <1>4, <1>5 DEF o

(* Every step of an allocation is of its types.                            *)
LEMMA TypedAllocates ==
  ASSUME TypeInv, NEW a \in Allocator, Allocates(a)
  PROVE  Typed
<1>0. alloc[a].pc # "idle" /\ alloc[a] \in AllocRec /\ alloc[a].mc \in Mc
  <2>1. alloc[a].pc # "idle"
    BY DEF Allocates, Refuse, Cull, CullRemoves, Evict, EvictRemoves, TurnAway, NoSound,
           FirstStream, SecondStream, Extension, Monitor, HasSlot, ScanDone, Scanning
  <2> QED
    BY <2>1, TypeFacts DEF TypeInv, ScanInv
<1>1. CASE Refuse(a)
  <2>1. ReturnsNull(a) /\ UNCHANGED <<conn, rx, ext_user, broken>>
    BY <1>1 DEF Refuse
  <2> QED
    BY <1>0, <2>1, TypedReturns, TypeFacts DEF Typed
<1>2. CASE Cull(a)
  <2> DEFINE k == ScanEnd(a)
             found == [alloc[a] EXCEPT !.at = k, !.back = TRUE, !.free = FreeConn(a),
                                       !.others = Others(a), !.mons = Mons(a)]
  <2>1. k \in Conns /\ ToCull(a) # {}
    BY <1>2, ScanFacts DEF Cull
  <2>2. /\ FreeConn(a) \in Conns \cup {None} /\ Others(a) \subseteq Conns /\ Mons(a) \in 0 .. k
        /\ k \in 0 .. N_CONNS - 1
    BY <2>1, ScanFacts DEF Conns
  <2>3. /\ found \in AllocRec /\ found.mc = alloc[a].mc /\ found.mons <= found.at
        /\ [found EXCEPT !.pc = "cull"] \in AllocRec /\ [found EXCEPT !.pc = "cull"].mc = alloc[a].mc
        /\ [found EXCEPT !.pc = "cull"].mons <= [found EXCEPT !.pc = "cull"].at
    <3>1. N_CONNS \in Nat
      BY ConnectionsAssumption
    <3>2. PICK j, free, others, mons :
            /\ j = k /\ free = FreeConn(a) /\ others = Others(a) /\ mons = Mons(a)
      OBVIOUS
    <3>3. /\ j \in Conns /\ free \in Conns \cup {None} /\ others \in SUBSET Conns
          /\ mons \in 0 .. N_CONNS /\ mons <= j
      BY <2>1, <2>2, <3>1, <3>2
    <3>4. found = [alloc[a] EXCEPT !.at = j, !.back = TRUE, !.free = free, !.others = others, !.mons = mons]
      BY <3>2
    <3> HIDE DEF k, found
    <3>5. found = [pc |-> alloc[a].pc, mc |-> alloc[a].mc, at |-> j, back |-> TRUE, free |-> free,
                   others |-> others, mons |-> mons]
      BY <1>0, <3>4 DEF AllocRec
    <3>6. found \in AllocRec /\ found.mc = alloc[a].mc /\ found.mons <= found.at
      BY <1>0, <3>3, <3>5 DEF AllocRec
    <3> QED
      BY <3>6 DEF AllocRec
  <2>4. rx' \in [Chans -> Chan]
    <3>1. conn[k].rx \in Chans \cup {None}
      BY <2>1, TypeFacts DEF Conn
    <3>2. rx' = Freed(rx, conn[k].rx)
      BY <1>2 DEF Cull
    <3> QED
      BY <3>1, <3>2, FreedFields, TypeFacts
  <2>5. UNCHANGED <<ext_user, sock, param>>
    BY <1>2 DEF Cull
  <2>6. \/ alloc' = [alloc EXCEPT ![a] = [found EXCEPT !.pc = "cull"]] /\ UNCHANGED <<conn, broken>>
        \/ alloc' = [alloc EXCEPT ![a] = found] /\ RemoveOther(k)
    BY <1>2 DEF Cull
  <2> HIDE DEF found
  <2>7. alloc' \in [Allocator -> AllocRec] /\ ScanInv'
    BY <1>0, <2>3, <2>6, ScanGoesOn
  <2>8. conn' \in [Conns -> Conn] /\ broken' \in BOOLEAN
    BY <2>1, <2>6, RemoveOtherTyped, TypeFacts
  <2> QED
    BY <2>4, <2>5, <2>7, <2>8, TypeFacts DEF Typed
<1>3. CASE CullRemoves(a)
  <2>1. alloc[a].at \in Conns /\ RemoveOther(alloc[a].at) /\ UNCHANGED <<rx, ext_user, sock, param>>
    BY <1>0, <1>3 DEF CullRemoves, AllocRec
  <2>2. alloc' = [alloc EXCEPT ![a] = [alloc[a] EXCEPT !.pc = "scan"]]
    BY <1>3, TypeFacts DEF CullRemoves
  <2> DEFINE r == [alloc[a] EXCEPT !.pc = "scan"]
  <2>3. r \in AllocRec /\ r.mc \in Mc /\ r.mons <= r.at
    BY <1>0 DEF AllocRec, TypeInv, ScanInv
  <2> HIDE DEF r
  <2>4. alloc' \in [Allocator -> AllocRec] /\ ScanInv'
    BY <2>2, <2>3, ScanGoesOn DEF r
  <2> QED
    BY <2>1, <2>4, RemoveOtherTyped, TypeFacts DEF Typed
<1>4. CASE Evict(a)
  <2>1. PICK v \in Victims :
          LET k == rx[v].conn
          IN  /\ rx' = Freed(rx, v)
              /\ IF Waits(rx, rx')
                 THEN /\ alloc' = [alloc EXCEPT ![a] = [Begin(alloc[a].mc) EXCEPT !.pc = "evict", !.at = k]]
                      /\ UNCHANGED <<conn, broken>>
                 ELSE alloc' = [alloc EXCEPT ![a] = Begin(alloc[a].mc)] /\ RemoveOther(k)
    BY <1>4 DEF Evict
  <2> DEFINE k == rx[v].conn
             r == [Begin(alloc[a].mc) EXCEPT !.pc = "evict", !.at = k]
  <2>2. v \in Chans /\ k \in Conns
    BY TypeFacts DEF Victims, Chan
  <2>3. rx' \in [Chans -> Chan]
    BY <2>1, <2>2, FreedFields, TypeFacts
  <2>4. r \in AllocRec /\ r.mc \in Mc /\ r.mons <= r.at
    <3>1. k \in Nat
      BY <2>2, ConnectionsAssumption DEF Conns
    <3> DEFINE b == Begin(alloc[a].mc)
    <3>2. b \in AllocRec /\ b.mc \in Mc /\ b.mons = 0
      BY <1>0, IdleIs
    <3> HIDE DEF k, b
    <3>3. r = [b EXCEPT !.pc = "evict", !.at = k]
      BY DEF b
    <3> HIDE DEF r
    <3>4. r = [pc |-> "evict", mc |-> b.mc, at |-> k, back |-> b.back, free |-> b.free,
               others |-> b.others, mons |-> b.mons]
      BY <3>2, <3>3 DEF AllocRec
    <3> QED
      BY <2>2, <3>1, <3>2, <3>4 DEF AllocRec
  <2>5. \/ alloc' = [alloc EXCEPT ![a] = r] /\ UNCHANGED <<conn, broken>>
        \/ alloc' = [alloc EXCEPT ![a] = Begin(alloc[a].mc)] /\ RemoveOther(k)
    BY <2>1
  <2> HIDE DEF r
  <2>6. alloc' \in [Allocator -> AllocRec] /\ ScanInv'
    BY <1>0, <2>4, <2>5, ScanGoesOn, ScanBegins
  <2>7. conn' \in [Conns -> Conn] /\ broken' \in BOOLEAN
    BY <2>2, <2>5, RemoveOtherTyped, TypeFacts
  <2>8. param' \in [Mc -> Conns \cup {None}] /\ UNCHANGED <<ext_user, sock>>
    BY <1>4, ScanFacts, TypeFacts DEF Evict
  <2> QED
    BY <2>3, <2>6, <2>7, <2>8, TypeFacts DEF Typed
<1>5. CASE EvictRemoves(a)
  <2>1. /\ alloc[a].at \in Conns /\ RemoveOther(alloc[a].at) /\ UNCHANGED <<rx, ext_user, sock, param>>
        /\ alloc' = [alloc EXCEPT ![a] = Begin(alloc[a].mc)]
    BY <1>0, <1>5 DEF EvictRemoves, AllocRec
  <2> QED
    BY <1>0, <2>1, RemoveOtherTyped, ScanBegins, TypeFacts DEF Typed
<1>6. CASE TurnAway(a) \/ NoSound(a)
  <2>1. FreeConn(a) \in Conns /\ Other(a) \in Conns \cup {None}
    BY <1>6, ScanFacts DEF TurnAway, NoSound, HasSlot
  <2>2. /\ ReturnsNull(a) /\ UNCHANGED <<rx, ext_user, broken>>
        /\ \/ conn' = [conn EXCEPT ![FreeConn(a)] = Blank]
           \/ conn' = [conn EXCEPT ![FreeConn(a)] = [Blank EXCEPT !.type = "EXT", !.other = Other(a)]]
    BY <1>6 DEF TurnAway, NoSound
  <2>3. [Blank EXCEPT !.type = "EXT", !.other = Other(a)] \in Conn
    BY <2>1, BlankIs DEF Conn, Stream
  <2>4. conn' \in [Conns -> Conn]
    <3>1. \A c \in Conn : [conn EXCEPT ![FreeConn(a)] = c] \in [Conns -> Conn]
      BY <2>1, TypeFacts
    <3> QED
      BY <2>2, <2>3, <3>1, BlankIs
  <2> QED
    BY <1>0, <2>2, <2>4, TypedReturns, TypeFacts DEF Typed
<1>7. CASE FirstStream(a)
  <2> DEFINE type == alloc[a].mc[2]
             k == FreeConn(a)
  <2>1. PICK ch : /\ ch \in Chans
                  /\ \/ /\ Succeeds(a, Owned([rx EXCEPT ![ch].busy = TRUE], ch, type, k))
                        /\ conn' = [conn EXCEPT ![k] = NewConn(a, type, ch)]
                     \/ Fails(a, ch) /\ conn' = [conn EXCEPT ![k] = Blank]
    BY <1>7, FreeChanFacts DEF FirstStream
  <2>2. k \in Conns /\ type \in Stream /\ UNCHANGED <<ext_user, broken>>
    BY <1>0, <1>7, ScanFacts, TypeFacts DEF FirstStream, HasSlot, Stream
  <2>3. NewConn(a, type, ch) \in Conn
    BY <1>0, <2>1, <2>2, NewConnFields
  <2> HIDE DEF k, type
  <2>4. conn' \in [Conns -> Conn]
    <3>1. \A c \in Conn : [conn EXCEPT ![k] = c] \in [Conns -> Conn]
      BY <2>2, TypeFacts
    <3> QED
      BY <2>1, <2>3, <3>1, BlankIs
  <2>5. [rx EXCEPT ![ch].busy = TRUE] \in [Chans -> Chan]
    BY <2>1, TypeFacts DEF Chan
  <2>6. Owned([rx EXCEPT ![ch].busy = TRUE], ch, type, k) \in [Chans -> Chan]
    BY <2>1, <2>2, <2>5, OwnedFields
  <2>7. rx' \in [Chans -> Chan]
    <3>1. CASE Succeeds(a, Owned([rx EXCEPT ![ch].busy = TRUE], ch, type, k))
      BY <2>6, <3>1 DEF Succeeds
    <3>2. CASE Fails(a, ch)
      BY <2>1, <3>2, FreedFields, TypeFacts DEF Fails
    <3> QED
      BY <2>1, <3>1, <3>2
  <2>8. /\ sock' \in [Mc -> {"new", "open", "closed"}] /\ param' \in [Mc -> Conns \cup {None}]
        /\ alloc' \in [Allocator -> AllocRec] /\ ScanInv'
    BY <1>0, <2>1, <2>2, TypedReturns, TypedSucceeds, TypeFacts DEF Fails, k
  <2> QED
    BY <2>2, <2>4, <2>7, <2>8, TypeFacts DEF Typed
<1>8. CASE SecondStream(a)
  <2> DEFINE type == alloc[a].mc[2]
             k == FreeConn(a)
             ch == conn[Other(a)].rx
             linked == Linked(conn, Other(a), k)
  <2>1. \/ /\ Succeeds(a, IF ch = None THEN rx ELSE Owned(rx, ch, type, k))
           /\ conn' = [linked EXCEPT ![k] = NewConn(a, type, ch)]
        \/ Fails(a, ch) /\ conn' = [linked EXCEPT ![k] = Blank]
    BY <1>8 DEF SecondStream
  <2>2. /\ k \in Conns /\ type \in Stream /\ Other(a) \in Conns /\ ch \in Chans \cup {None}
        /\ UNCHANGED <<ext_user, broken>>
    BY <1>0, <1>8, ScanFacts, TypeFacts DEF SecondStream, HasSlot, Conn
  <2>3. NewConn(a, type, ch) \in Conn
    BY <1>0, <2>1, <2>2, NewConnFields
  <2> HIDE DEF k, type, ch
  <2>4. linked \in [Conns -> Conn]
    BY <2>2, TypeFacts DEF Linked, Conn
  <2> HIDE DEF linked
  <2>5. conn' \in [Conns -> Conn]
    BY <2>1, <2>2, <2>3, <2>4, BlankIs
  <2>6. ch # None => Owned(rx, ch, type, k) \in [Chans -> Chan]
    BY <2>2, OwnedFields, TypeFacts
  <2>7. rx' \in [Chans -> Chan]
    BY <2>1, <2>2, <2>6, FreedFields, TypeFacts DEF Succeeds, Fails
  <2>8. /\ sock' \in [Mc -> {"new", "open", "closed"}] /\ param' \in [Mc -> Conns \cup {None}]
        /\ alloc' \in [Allocator -> AllocRec] /\ ScanInv'
    BY <1>0, <2>1, <2>2, TypedReturns, TypedSucceeds, TypeFacts DEF Fails, k
  <2> QED
    BY <2>2, <2>5, <2>7, <2>8, TypeFacts DEF Typed
<1>9. CASE Extension(a) \/ Monitor(a)
  <2>1. PICK ch \in Chans \cup {None}, type \in Stream \cup {"MON"} :
          \/ Succeeds(a, rx) /\ conn' = [conn EXCEPT ![FreeConn(a)] = NewConn(a, type, ch)]
          \/ Fails(a, ch) /\ conn' = [conn EXCEPT ![FreeConn(a)] = Blank]
    <3>1. CASE Extension(a)
      <4>1. conn[Other(a)].rx \in Chans \cup {None}
        BY <3>1, ScanFacts, TypeFacts DEF Extension, Conn
      <4> QED
        BY <3>1, <4>1 DEF Extension, Stream
    <3>2. CASE Monitor(a)
      BY <3>2 DEF Monitor
    <3> QED
      BY <1>9, <3>1, <3>2
  <2>2. FreeConn(a) \in Conns /\ UNCHANGED <<ext_user, broken>>
    BY <1>9, ScanFacts DEF Extension, Monitor, HasSlot
  <2>3. NewConn(a, type, ch) \in Conn
    BY <1>0, NewConnFields
  <2>4. conn' \in [Conns -> Conn]
    <3>1. \A c \in Conn : [conn EXCEPT ![FreeConn(a)] = c] \in [Conns -> Conn]
      BY <2>2, TypeFacts
    <3> QED
      BY <2>1, <2>3, <3>1, BlankIs
  <2>5. rx' \in [Chans -> Chan]
    BY <2>1, FreedFields, TypeFacts DEF Succeeds, Fails
  <2>6. /\ sock' \in [Mc -> {"new", "open", "closed"}] /\ param' \in [Mc -> Conns \cup {None}]
        /\ alloc' \in [Allocator -> AllocRec] /\ ScanInv'
    BY <1>0, <2>1, <2>2, TypedReturns, TypedSucceeds, TypeFacts DEF Fails
  <2> QED
    BY <2>2, <2>4, <2>5, <2>6, TypeFacts DEF Typed
<1> QED
  BY <1>1, <1>2, <1>3, <1>4, <1>5, <1>6, <1>7, <1>8, <1>9 DEF Allocates

LEMMA EnabledFields ==
  ASSUME NEW f \in [Chans -> Chan], NEW ch \in Chans, NEW b \in BOOLEAN
  PROVE  /\ Enabled(f, ch, b) \in [Chans -> Chan]
         /\ \A c \in Chans \ {ch} : Enabled(f, ch, b)[c] = f[c]
         /\ Enabled(f, ch, b)[ch].busy = f[ch].busy
         /\ Enabled(f, ch, b)[ch].chan_enabled = b
         /\ Enabled(f, ch, b)[ch].conn = f[ch].conn
<1>1. f[ch] \in Chan
  OBVIOUS
<1> QED
  BY <1>1 DEF Enabled, Chan

LEMMA ConnUpdates ==
  ASSUME NEW c \in Conn
  PROVE  /\ Disconnected(c) \in Conn
         /\ [c EXCEPT !.kick = TRUE] \in Conn
         /\ [c EXCEPT !.stop_data = TRUE] \in Conn
<1>1. Disconnected(c) \in Conn
  BY DEF Disconnected, Conn
<1>2. [c EXCEPT !.kick = TRUE] \in Conn
  BY DEF Conn
<1>3. [c EXCEPT !.stop_data = TRUE] \in Conn
  BY DEF Conn
<1> QED
  BY <1>1, <1>2, <1>3

(* Every step of a websocket or a connection is of its types.              *)
LEMMA TypedOthers ==
  ASSUME TypeInv,
         \/ \E m \in Mc : Connect(m) \/ Close(m)
         \/ \E s \in Session : Return(s)
         \/ \E k \in Conns : Kick(k) \/ ConnTask(k)
  PROVE  Typed
<1>1. ASSUME NEW m \in Mc, Connect(m) PROVE Typed
  <2>1. By(m) \in Allocator
    BY DEF By, Allocator
  <2>2. alloc' \in [Allocator -> AllocRec] /\ ScanInv'
    BY <1>1, <2>1, ScanBegins DEF Connect
  <2> QED
    BY <1>1, <2>2, TypeFacts DEF Connect, Typed
<1>2. ASSUME NEW m \in Mc, Close(m) PROVE Typed
  <2>1. \A k \in Conns : Disconnected(conn[k]) \in Conn
    BY ConnUpdates, TypeFacts
  <2>2. conn' \in [Conns -> Conn]
    BY <1>2, <2>1, TypeFacts DEF Close
  <2> QED
    BY <1>2, <2>2, TypeFacts DEF Close, Typed, ScanInv, TypeInv
<1>3. ASSUME NEW s \in Session, Return(s) PROVE Typed
  BY <1>3, TypeFacts DEF Return, Typed, ScanInv, TypeInv
<1>4. ASSUME NEW k \in Conns, Kick(k) PROVE Typed
  <2>1. conn' \in [Conns -> Conn]
    BY <1>4, ConnUpdates, TypeFacts DEF Kick
  <2> QED
    BY <1>4, <2>1, TypeFacts DEF Kick, Typed, ScanInv, TypeInv
<1>5. ASSUME NEW k \in Conns, NEW pc \in {"loop", "spi", "leave"}, NEW c \in [Conns -> Conn]
      PROVE  [c EXCEPT ![k].pc = pc] \in [Conns -> Conn]
  BY DEF Conn
<1>6. ASSUME NEW k \in Conns, NEW chans \in [Chans -> Chan], NEW c \in [Conns -> Conn],
             Leaves(k, chans, c)
      PROVE  Typed
  <2>1. conn' \in [Conns -> Conn]
    BY <1>5, <1>6, RemovedFields DEF Leaves
  <2> QED
    BY <1>6, <2>1, TypeFacts DEF Leaves, Typed, ScanInv, TypeInv
<1>7. ASSUME NEW k \in Conns, Start(k) PROVE Typed
  <2>1. conn[k].rx \in Chans \cup {None}
    BY TypeFacts DEF Conn
  <2>2. rx' \in [Chans -> Chan]
    BY <1>7, <2>1, EnabledFields, TypeFacts DEF Start
  <2>3. conn' \in [Conns -> Conn]
    BY <1>5, <1>7, TypeFacts DEF Start
  <2> QED
    BY <1>7, <2>2, <2>3, TypeFacts DEF Start, Typed, ScanInv, TypeInv
<1>8. ASSUME NEW k \in Conns, SpiTransfer(k) PROVE Typed
  <2>1. conn' \in [Conns -> Conn]
    <3>1. conn' = [conn EXCEPT ![k].pc = "spi"] \/ conn' = [conn EXCEPT ![k].pc = "loop"]
      BY <1>8 DEF SpiTransfer
    <3>2. \A pc \in {"loop", "spi"} : [conn EXCEPT ![k].pc = pc] \in [Conns -> Conn]
      BY <1>5, TypeFacts
    <3> QED
      BY <3>1, <3>2
  <2> QED
    BY <1>8, <2>1, TypeFacts DEF SpiTransfer, Typed, ScanInv, TypeInv
<1>9. ASSUME NEW k \in Conns, ExtSwitch(k) \/ ExtBlur(k) PROVE Typed
  <2>1. ext_user' \in [Chans -> Conns \cup {None}]
    BY <1>9, TypeFacts DEF ExtSwitch, ExtBlur, ExtUsersInit
  <2> QED
    BY <1>9, <2>1, TypeFacts DEF ExtSwitch, ExtBlur, Typed, ScanInv, TypeInv
<1>10. ASSUME NEW k \in Conns, ExtEnds(k) \/ MonitorEnds(k) \/ Leave(k) PROVE Typed
  <2>1. ext_user' \in [Chans -> Conns \cup {None}]
    BY <1>10, TypeFacts DEF ExtEnds, MonitorEnds, Leave, ExtUsersInit
  <2>2. conn' \in [Conns -> Conn]
    BY <1>10, RemovedFields, TypeFacts DEF ExtEnds, MonitorEnds, Leave
  <2> QED
    BY <1>10, <2>1, <2>2, TypeFacts DEF ExtEnds, MonitorEnds, Leave, Typed, ScanInv, TypeInv
<1>11. ASSUME NEW k \in Conns, Stop(k) \/ SoundEnds(k) \/ WaterfallEnds(k) PROVE Typed
  <2> DEFINE ch == conn[k].rx
  <2>1. ch \in Chans \cup {None}
    BY TypeFacts DEF Conn
  <2>2. /\ rx \in [Chans -> Chan] /\ Freed(rx, ch) \in [Chans -> Chan]
        /\ (IF ch = None THEN rx ELSE Enabled(rx, ch, FALSE)) \in [Chans -> Chan]
    BY <2>1, FreedFields, EnabledFields, TypeFacts
  <2>3. conn \in [Conns -> Conn] /\ \A o \in Conns : [conn EXCEPT ![o].stop_data = TRUE] \in [Conns -> Conn]
    BY ConnUpdates, TypeFacts
  <2>4. \A type : ConnOther(k, type) # None => ConnOther(k, type) \in Conns
    BY TypeFacts DEF ConnOther, Conn
  <2>5. PICK chans \in [Chans -> Chan], c \in [Conns -> Conn] : Leaves(k, chans, c)
    <3>1. CASE Stop(k)
      BY <2>2, <2>3, <3>1 DEF Stop
    <3>2. CASE SoundEnds(k)
      BY <2>2, <2>3, <2>4, <3>2, Zenon DEF SoundEnds
    <3>3. CASE WaterfallEnds(k)
      BY <2>2, <2>3, <2>4, <3>3, Zenon DEF WaterfallEnds
    <3> QED
      BY <1>11, <3>1, <3>2, <3>3
  <2> QED
    BY <1>6, <2>5
<1> QED
  BY <1>1, <1>2, <1>3, <1>4, <1>7, <1>8, <1>9, <1>10, <1>11, Zenon DEF ConnTask, Ends

LEMMA StepType == TypeInv /\ [Next]_vars => TypeInv'
<1> SUFFICES ASSUME TypeInv, [Next]_vars PROVE TypeInv'
  OBVIOUS
<1>1. CASE UNCHANGED vars
  BY <1>1 DEF vars, TypeInv, TypeOK, ScanInv
<1>2. CASE Next
  <2>1. Typed
    BY <1>2, TypedAllocates, TypedOthers, Zenon DEF Next
  <2> QED
    BY <2>1, TypedStep
<1> QED
  BY <1>1, <1>2

(* Types, and the count of monitors in a scan, hold for every interleaving *)
(* of allocations, ends of connections and SPI transfers.                  *)
THEOREM TypeInvariant == Spec => []TypeInv
<1> QED
  BY InitType, StepType, PTL DEF Spec

(* The variables of the connection table keep their types; in particular   *)
(* rx_server_websocket() never counts more monitors than there are slots   *)
(* and takes a slot and a channel within their tables.                     *)
THEOREM TypeCorrect == Spec => []TypeOK
<1>1. TypeInv => TypeOK
  BY DEF TypeInv
<1> QED
  BY <1>1, TypeInvariant, PTL

----------------------------------------------------------------------------
(* Busy channels have a connection                                         *)

(* All that happens to channels: rx_enable() frees, enables or disables    *)
(* one, and an allocation gives it a connection.                           *)
LEMMA ChannelSteps ==
  ASSUME TypeInv, Next
  PROVE  \/ UNCHANGED rx
         \/ \E ch \in Chans \cup {None} : rx' = Freed(rx, ch)
         \/ \E ch \in Chans, b \in BOOLEAN : rx' = Enabled(rx, ch, b)
         \/ \E ch \in Chans, type \in Stream, k \in Conns :
              \/ rx' = Owned(rx, ch, type, k)
              \/ rx' = Owned([rx EXCEPT ![ch].busy = TRUE], ch, type, k)
<1> DEFINE Effect == \/ UNCHANGED rx
                     \/ \E ch \in Chans \cup {None} : rx' = Freed(rx, ch)
                     \/ \E ch \in Chans, b \in BOOLEAN : rx' = Enabled(rx, ch, b)
                     \/ \E ch \in Chans, type \in Stream, k \in Conns :
                          \/ rx' = Owned(rx, ch, type, k)
                          \/ rx' = Owned([rx EXCEPT ![ch].busy = TRUE], ch, type, k)
<1>0. \A k \in Conns : conn[k].rx \in Chans \cup {None}
  BY TypeFacts DEF Conn
<1>1. ASSUME NEW a \in Allocator, Allocates(a) PROVE Effect
  <2>0. /\ ScanEnd(a) \in Conns \/ ToCull(a) = {}
        /\ FreeConn(a) \in Conns \cup {None} /\ Other(a) \in Conns \cup {None}
    BY ScanFacts
  <2>1. CASE Refuse(a) \/ CullRemoves(a) \/ EvictRemoves(a) \/ TurnAway(a) \/ NoSound(a)
    BY <2>1 DEF Refuse, CullRemoves, EvictRemoves, TurnAway, NoSound
  <2>2. CASE Cull(a)
    <3>1. rx' = Freed(rx, conn[ScanEnd(a)].rx) /\ ScanEnd(a) \in Conns
      BY <2>0, <2>2 DEF Cull
    <3> QED
      BY <1>0, <3>1
  <2>3. CASE Evict(a)
    BY <2>3 DEF Evict, Victims
  <2>4. CASE FirstStream(a)
    <3>1. FreeConn(a) \in Conns /\ alloc[a].mc[2] \in Stream
      BY <2>0, <2>4 DEF FirstStream, HasSlot, Stream
    <3>2. PICK flag \in Counts(alloc[a].mc) :
            /\ FreeChan(flag) # None
            /\ \/ Succeeds(a, Owned([rx EXCEPT ![FreeChan(flag)].busy = TRUE], FreeChan(flag),
                                    alloc[a].mc[2], FreeConn(a)))
               \/ Fails(a, FreeChan(flag))
      BY <2>4, Zenon DEF FirstStream
    <3>3. FreeChan(flag) \in Chans
      BY <3>2, FreeChanFacts
    <3>4. \/ rx' = Owned([rx EXCEPT ![FreeChan(flag)].busy = TRUE], FreeChan(flag),
                         alloc[a].mc[2], FreeConn(a))
          \/ rx' = Freed(rx, FreeChan(flag))
      BY <3>2, Zenon DEF Succeeds, Fails
    <3> QED
      BY <3>1, <3>3, <3>4, Zenon
  <2>5. CASE SecondStream(a)
    <3> DEFINE ch == conn[Other(a)].rx
    <3>1. FreeConn(a) \in Conns /\ alloc[a].mc[2] \in Stream /\ ch \in Chans \cup {None}
      BY <1>0, <2>0, <2>5 DEF SecondStream, HasSlot, Stream
    <3>2. \/ Succeeds(a, IF ch = None THEN rx ELSE Owned(rx, ch, alloc[a].mc[2], FreeConn(a)))
          \/ Fails(a, ch)
      BY <2>5, Zenon DEF SecondStream
    <3> HIDE DEF ch
    <3>3. \/ rx' = Freed(rx, ch) \/ UNCHANGED rx
          \/ ch # None /\ rx' = Owned(rx, ch, alloc[a].mc[2], FreeConn(a))
      BY <3>2 DEF Succeeds, Fails
    <3> QED
      BY <3>1, <3>3
  <2>6. CASE Extension(a)
    <3> DEFINE ch == conn[Other(a)].rx
    <3>1. ch \in Chans \cup {None}
      BY <1>0, <2>0, <2>6 DEF Extension
    <3>2. rx' = rx \/ rx' = Freed(rx, ch)
      BY <2>6, Zenon DEF Extension, Succeeds, Fails
    <3> HIDE DEF ch
    <3> QED
      BY <3>1, <3>2
  <2>7. CASE Monitor(a)
    <3>1. rx' = rx \/ rx' = Freed(rx, None)
      BY <2>7, Zenon DEF Monitor, Succeeds, Fails
    <3> QED
      BY <3>1
  <2> QED
    BY <1>1, <2>1, <2>2, <2>3, <2>4, <2>5, <2>6, <2>7, Zenon DEF Allocates
<1>2. ASSUME NEW m \in Mc, Connect(m) \/ Close(m) PROVE Effect
  BY <1>2 DEF Connect, Close
<1>3. ASSUME NEW s \in Session, Return(s) PROVE Effect
  BY <1>3 DEF Return
<1>4. ASSUME NEW k \in Conns, Kick(k) \/ ConnTask(k) PROVE Effect
  <2>1. CASE Kick(k) \/ SpiTransfer(k) \/ ExtSwitch(k) \/ ExtBlur(k) \/ Leave(k) \/ ExtEnds(k) \/ MonitorEnds(k)
    BY <2>1 DEF Kick, SpiTransfer, ExtSwitch, ExtBlur, Leave, ExtEnds, MonitorEnds
  <2>2. CASE Start(k)
    BY <1>0, <2>2 DEF Start
  <2>3. CASE Stop(k)
    BY <1>0, <2>3 DEF Stop, Leaves
  <2>4. CASE SoundEnds(k)
    BY <1>0, <2>4 DEF SoundEnds, Leaves
  <2>5. CASE WaterfallEnds(k)
    BY <1>0, <2>5 DEF WaterfallEnds, Leaves
  <2> QED
    BY <1>4, <2>1, <2>2, <2>3, <2>4, <2>5, Zenon DEF ConnTask, Ends
<1> QED
  BY <1>1, <1>2, <1>3, <1>4, Zenon DEF Next

LEMMA StepBusyHasConn == TypeInv /\ BusyHasConn /\ [Next]_vars => BusyHasConn'
<1> SUFFICES ASSUME TypeInv, BusyHasConn, [Next]_vars PROVE BusyHasConn'
  OBVIOUS
<1>0. rx \in [Chans -> Chan] /\ None \notin Chans /\ None \notin Conns
  BY TypeFacts
<1>1. CASE UNCHANGED rx
  BY <1>1 DEF BusyHasConn
<1>2. ASSUME NEW ch \in Chans \cup {None}, rx' = Freed(rx, ch) PROVE BusyHasConn'
  BY <1>0, <1>2, FreedFields, UnusedIs DEF BusyHasConn
<1>3. ASSUME NEW ch \in Chans, NEW b \in BOOLEAN, rx' = Enabled(rx, ch, b) PROVE BusyHasConn'
  <2> SUFFICES ASSUME NEW c \in Chans PROVE (rx'[c].busy => rx'[c].conn # None)
    BY DEF BusyHasConn
  <2> QED
    BY <1>0, <1>3, EnabledFields DEF BusyHasConn
<1>4. ASSUME NEW f \in [Chans -> Chan], NEW ch \in Chans, NEW type, NEW k \in Conns,
             rx' = Owned(f, ch, type, k), \A c \in Chans \ {ch} : f[c] = rx[c]
      PROVE  BusyHasConn'
  <2> SUFFICES ASSUME NEW c \in Chans PROVE (rx'[c].busy => rx'[c].conn # None)
    BY DEF BusyHasConn
  <2> QED
    BY <1>0, <1>4, OwnedFields DEF BusyHasConn
<1>5. ASSUME NEW ch \in Chans
      PROVE  /\ [rx EXCEPT ![ch].busy = TRUE] \in [Chans -> Chan]
             /\ \A c \in Chans \ {ch} : [rx EXCEPT ![ch].busy = TRUE][c] = rx[c]
  BY <1>0 DEF Chan
<1>6. CASE Next
  <2>1. CASE \E ch \in Chans, type \in Stream, k \in Conns :
               \/ rx' = Owned(rx, ch, type, k)
               \/ rx' = Owned([rx EXCEPT ![ch].busy = TRUE], ch, type, k)
    <3>1. PICK ch \in Chans, type \in Stream, k \in Conns :
            \/ rx' = Owned(rx, ch, type, k)
            \/ rx' = Owned([rx EXCEPT ![ch].busy = TRUE], ch, type, k)
      BY <2>1, Zenon
    <3>2. CASE rx' = Owned(rx, ch, type, k)
      BY <1>0, <1>4, <3>2, Zenon
    <3>3. CASE rx' = Owned([rx EXCEPT ![ch].busy = TRUE], ch, type, k)
      BY <1>4, <1>5, <3>3, Zenon
    <3> QED
      BY <3>1, <3>2, <3>3
  <2> QED
    BY <1>1, <1>2, <1>3, <1>6, <2>1, ChannelSteps, Zenon
<1> QED
  BY <1>1, <1>6 DEF vars

(* A busy channel has a connection, so rx_autorun_find_victim() may follow *)
(* rx_channels[].conn: also when others run inside allocations and SPI     *)
(* transfers, and when there are no tasks left for a second stream.        *)
THEOREM BusyChannelsHaveConnections == Spec => []BusyHasConn
<1>1. Init => BusyHasConn
  BY UnusedIs DEF Init, BusyHasConn
<1>2. TypeInv /\ BusyHasConn /\ [Next]_vars => BusyHasConn'
  BY StepBusyHasConn
<1> QED
  BY <1>1, <1>2, TypeInvariant, PTL DEF Spec

----------------------------------------------------------------------------
(* The table, when nobody yields inside an allocation or an rx_enable()    *)

(* What the table says of a connection, apart from who it is linked to and *)
(* whether it has been kicked or has started.                              *)
Alike(c, d) ==
  /\ d.valid = c.valid /\ d.type = c.type /\ d.rx = c.rx /\ d.ts = c.ts
  /\ d.stop_data = c.stop_data /\ d.arun = c.arun

LEMMA SlotAlike ==
  ASSUME NEW c, NEW d, NEW s, Alike(c, d), SlotOK(c, s), d.pc \in {"none", "new", "loop"}
  PROVE  SlotOK(d, s)
BY DEF Alike, SlotOK

LEMMA SlotBlank == ASSUME NEW s PROVE SlotOK(Blank, s)
BY BlankIs DEF SlotOK

(* A websocket that is connected or closed stays what it is.               *)
LEMMA SlotOlder ==
  ASSUME NEW c, NEW s, NEW z, SlotOK(c, s), \A m \in Mc : z[m] = "new" => s[m] = "new"
  PROVE  SlotOK(c, z)
BY DEF SlotOK

LEMMA ExtAlike ==
  ASSUME ExtUserIsExt, UNCHANGED ext_user,
         \A ch \in Chans : ext_user[ch] # None => Alike(conn[ext_user[ch]], conn'[ext_user[ch]])
  PROVE  ExtUserIsExt'
BY DEF ExtUserIsExt, Task, Alike

(* Of two connections of which one loses its websocket, it has been closed.*)
Keeps ==
  \A k \in Conns : conn[k].valid /\ conn'[k].valid /\ conn[k].mc \in Mc /\ conn'[k].mc # conn[k].mc
    => sock[conn[k].mc] = "open" /\ sock'[conn[k].mc] = "closed"

TableStep == SlotsInv' /\ AllocInv' /\ ExtUserIsExt' /\ Keeps

LEMMA NoWaits == ASSUME Yields = {} PROVE \A f, g : ~Waits(f, g)
BY DEF Waits

LEMMA TableFacts ==
  ASSUME TableInv
  PROVE  /\ TypeInv /\ SlotsInv /\ AllocInv /\ ExtUserIsExt
         /\ \A ch \in Chans : ext_user[ch] # None =>
              ext_user[ch] \in Conns /\ conn[ext_user[ch]].valid /\ conn[ext_user[ch]].type = "EXT"
BY TypeFacts DEF TableInv, ExtUserIsExt, Task

(* A slot that is not in use is filled in or cleared; another one may be   *)
(* linked to it.                                                           *)
LEMMA FillTable ==
  ASSUME TableInv, NEW k \in Conns, ~conn[k].valid, NEW c, NEW f,
         conn' = [f EXCEPT ![k] = c], f \in [Conns -> Conn],
         \A j \in Conns : Alike(conn[j], f[j]) /\ f[j].mc = conn[j].mc /\ f[j].pc = conn[j].pc,
         SlotOK(c, sock'), UNCHANGED ext_user,
         \A m \in Mc : sock'[m] = "new" => sock[m] = "new"
  PROVE  SlotsInv' /\ ExtUserIsExt' /\ Keeps
<1>0. SlotsInv
  BY TableFacts
<1>1. conn'[k] = c /\ \A j \in Conns \ {k} : conn'[j] = f[j]
  OBVIOUS
<1>2. SlotsInv'
  <2>1. ASSUME NEW j \in Conns \ {k} PROVE SlotOK(conn'[j], sock')
    <3>1. SlotOK(conn[j], sock') /\ conn[j].pc \in {"none", "new", "loop"}
      BY <1>0, SlotOlder DEF SlotsInv, SlotOK
    <3> QED
      BY <1>1, <3>1, SlotAlike
  <2> QED
    BY <1>1, <2>1 DEF SlotsInv
<1>3. ExtUserIsExt'
  <2>1. \A ch \in Chans : ext_user[ch] # None => ext_user[ch] \in Conns \ {k}
    BY TableFacts
  <2>2. \A ch \in Chans : ext_user[ch] # None => Alike(conn[ext_user[ch]], conn'[ext_user[ch]])
    BY <1>1, <2>1
  <2> QED
    BY <2>2, ExtAlike, TableFacts
<1>4. Keeps
  BY <1>1 DEF Keeps, Alike
<1> QED
  BY <1>2, <1>3, <1>4

(* A connection that is not an extension, or one that is registered no     *)
(* more, is removed; the other stream may have been asked to stop.         *)
LEMMA RemoveTable ==
  ASSUME TableInv, NEW k \in Conns, NEW f \in [Conns -> Conn], conn' = Removed(f, k),
         \A j \in Conns : /\ SlotOK(f[j], sock)
                          /\ f[j].valid = conn[j].valid /\ f[j].type = conn[j].type
                          /\ f[j].rx = conn[j].rx /\ f[j].mc = conn[j].mc,
         UNCHANGED sock,
         \A ch \in Chans : ext_user'[ch] # None => ext_user'[ch] = ext_user[ch] /\ ext_user[ch] # k
  PROVE  SlotsInv' /\ ExtUserIsExt' /\ Keeps
<1>1. /\ conn'[k] = Blank
      /\ \A j \in Conns \ {k} : SameButKick(f[j], conn'[j])
  BY RemovedFields
<1>2. SlotsInv'
  <2>1. ASSUME NEW j \in Conns \ {k} PROVE SlotOK(conn'[j], sock)
    <3>1. Alike(f[j], conn'[j]) /\ conn'[j].pc = f[j].pc /\ SlotOK(f[j], sock)
      BY <1>1 DEF SameButKick, Alike
    <3> QED
      BY <3>1, SlotAlike DEF SlotOK
  <2> QED
    BY <1>1, <2>1, SlotBlank DEF SlotsInv
<1>3. ExtUserIsExt'
  <2> SUFFICES ASSUME NEW ch \in Chans, ext_user'[ch] # None
               PROVE  (Task(ext_user[ch], "EXT") /\ conn[ext_user[ch]].rx = ch)' /\ ext_user'[ch] = ext_user[ch]
    BY DEF ExtUserIsExt
  <2>1. ext_user'[ch] = ext_user[ch] /\ ext_user[ch] \in Conns \ {k}
    BY TableFacts
  <2>2. conn[ext_user[ch]].valid /\ conn[ext_user[ch]].type = "EXT" /\ conn[ext_user[ch]].rx = ch
    BY <2>1, TableFacts DEF ExtUserIsExt, Task
  <2> QED
    BY <1>1, <2>1, <2>2 DEF SameButKick, Task
<1>4. Keeps
  BY <1>1, BlankIs DEF Keeps, SameButKick
<1> QED
  BY <1>2, <1>3, <1>4

(* When no allocation is in progress any more, or one has just begun.      *)
LEMMA AllocsIdle ==
  ASSUME \A a \in Allocator : alloc'[a].pc = "idle"
  PROVE  AllocInv'
BY DEF AllocInv

LEMMA AllocsBegin ==
  ASSUME NEW a \in Allocator, NEW m \in Mc, alloc'[a] = Begin(m), sock'[m] = "new",
         \A b \in Allocator \ {a} : alloc'[b].pc = "idle"
  PROVE  AllocInv'
<1>1. /\ alloc'[a].pc = "scan" /\ alloc'[a].mc = m /\ alloc'[a].free = None
      /\ alloc'[a].others = {}
  BY IdleIs
<1> QED
  BY <1>1 DEF AllocInv

(* Who allocates, and what is true of what the scan remembers.             *)
LEMMA AllocFacts ==
  ASSUME TableInv, NEW a \in Allocator, Allocates(a)
  PROVE  /\ alloc[a].pc = "scan" /\ alloc[a] \in AllocRec /\ alloc[a].mc \in Mc
         /\ sock[alloc[a].mc] = "new"
         /\ \A b \in Allocator \ {a} : alloc[b].pc = "idle"
         /\ FreeConn(a) # None => FreeConn(a) \in Conns /\ ~conn[FreeConn(a)].valid
         /\ \A o \in Others(a) : /\ o \in Conns /\ conn[o].valid /\ conn[o].ts = alloc[a].mc[1]
                                 /\ conn[o].type \in LinkedTypes(alloc[a].mc[2])
         /\ ~CullRemoves(a) /\ ~EvictRemoves(a)
<1>1. alloc[a].pc # "idle"
  BY DEF Allocates, Refuse, Cull, CullRemoves, Evict, EvictRemoves, TurnAway, NoSound,
         FirstStream, SecondStream, Extension, Monitor, HasSlot, ScanDone, Scanning
<1>2. alloc[a].pc = "scan" /\ \A b \in Allocator \ {a} : alloc[b].pc = "idle"
  BY <1>1, TableFacts DEF AllocInv
<1>3. alloc[a].mc \in Mc /\ alloc[a] \in AllocRec
  BY <1>1, TableFacts, TypeFacts DEF TypeInv, ScanInv
<1>4. /\ sock[alloc[a].mc] = "new"
      /\ alloc[a].free # None => ~conn[alloc[a].free].valid
      /\ \A o \in alloc[a].others : /\ conn[o].valid /\ conn[o].ts = alloc[a].mc[1]
                                    /\ conn[o].type \in LinkedTypes(alloc[a].mc[2])
  BY <1>2, TableFacts DEF AllocInv
<1>5. FreeConn(a) # None => FreeConn(a) \in Conns /\ ~conn[FreeConn(a)].valid
  BY <1>4, TableFacts, ScanFacts
<1>6. \A o \in Others(a) : /\ o \in Conns /\ conn[o].valid /\ conn[o].ts = alloc[a].mc[1]
                           /\ conn[o].type \in LinkedTypes(alloc[a].mc[2])
  <2>1. \A o \in SameSession(a) : conn[o].valid /\ conn[o].ts = alloc[a].mc[1]
    BY DEF SameSession, Seen
  <2>2. \A o \in Others(a) :
          \/ o \in alloc[a].others
          \/ o \in SameSession(a) /\ conn[o].type \in LinkedTypes(alloc[a].mc[2])
    BY DEF Others
  <2> QED
    BY <1>4, <2>1, <2>2, TableFacts, ScanFacts
<1> QED
  BY <1>2, <1>3, <1>4, <1>5, <1>6 DEF CullRemoves, EvictRemoves

LEMMA EndedAllocs ==
  ASSUME TableInv, NEW a \in Allocator, Allocates(a), ReturnsNull(a) \/ \E chans : Succeeds(a, chans)
  PROVE  /\ AllocInv' /\ sock'[alloc[a].mc] # "new"
         /\ \A m \in Mc : sock'[m] = "new" => sock[m] = "new"
<1>1. alloc' = [alloc EXCEPT ![a] = Idle]
  BY DEF ReturnsNull, Succeeds
<1>2. \A b \in Allocator : alloc'[b].pc = "idle"
  BY <1>1, AllocFacts, IdleIs, TableFacts, TypeFacts
<1>3. \/ sock' = [sock EXCEPT ![alloc[a].mc] = "closed"]
      \/ sock' = [sock EXCEPT ![alloc[a].mc] = "open"]
  BY DEF ReturnsNull, Succeeds
<1> QED
  BY <1>2, <1>3, AllocsIdle, AllocFacts, TableFacts, TypeFacts

(* The connection of an allocation.                                        *)
LEMMA SlotNew ==
  ASSUME TableInv, NEW a \in Allocator, Allocates(a), NEW type \in Stream \cup {"MON"},
         type # "MON" => type = alloc[a].mc[2], NEW ch \in Chans \cup {None},
         type = "EXT" => ch # None, NEW s, s[alloc[a].mc] # "new"
  PROVE  SlotOK(NewConn(a, type, ch), s)
<1> DEFINE c == NewConn(a, type, ch)
<1>1. /\ c.valid /\ c.type = type /\ c.rx = ch /\ c.ts = alloc[a].mc[1] /\ ~c.stop_data
      /\ c.pc = "new" /\ c.arun = (alloc[a].mc[1] \in Autorun /\ type = "SND")
  BY AllocFacts, NewConnFields, TableFacts
<1>2. type # "MON" => <<alloc[a].mc[1], type>> = alloc[a].mc
  BY AllocFacts, TableFacts, TypeFacts
<1>3. alloc[a].mc \in Mc
  BY AllocFacts
<1> HIDE DEF c
<1> QED
  BY <1>1, <1>2, <1>3 DEF SlotOK, Stream, c

LEMMA TableAllocates ==
  ASSUME Yields = {}, TableInv, NEW a \in Allocator, Allocates(a)
  PROVE  TableStep
<1> DEFINE k == FreeConn(a)
           m == alloc[a].mc
<1>0. /\ conn \in [Conns -> Conn] /\ None \notin Conns
      /\ m \in Mc /\ m[2] \in Stream /\ m[1] \in Session
      /\ k # None => k \in Conns /\ ~conn[k].valid
  BY AllocFacts, TableFacts, TypeFacts
<1>1. CASE Refuse(a)
  <2>1. ReturnsNull(a) /\ UNCHANGED <<conn, ext_user>>
    BY <1>1 DEF Refuse
  <2>2. AllocInv' /\ \A w \in Mc : sock'[w] = "new" => sock[w] = "new"
    BY <2>1, EndedAllocs
  <2>3. SlotsInv'
    BY <2>1, <2>2, SlotOlder, TableFacts DEF SlotsInv
  <2>4. ExtUserIsExt' /\ Keeps
    BY <2>1, TableFacts DEF ExtUserIsExt, Task, Keeps
  <2> QED
    BY <2>2, <2>3, <2>4 DEF TableStep
<1>2. CASE Cull(a)
  <2> DEFINE e == ScanEnd(a)
             found == [alloc[a] EXCEPT !.at = e, !.back = TRUE, !.free = FreeConn(a),
                                       !.others = Others(a), !.mons = Mons(a)]
  <2>1. /\ alloc' = [alloc EXCEPT ![a] = found] /\ RemoveOther(e)
        /\ e \in ToCull(a) /\ UNCHANGED <<ext_user, sock>>
    BY <1>2, NoWaits, ScanFacts, TableFacts DEF Cull
  <2>2. e \in Conns /\ conn[e].valid /\ conn[e].type # "EXT"
    BY <2>1, ScanFacts, TableFacts DEF ToCull, Stuck, SlotsInv, SlotOK
  <2>3. SlotsInv' /\ ExtUserIsExt' /\ Keeps
    <3>1. conn' = Removed(conn, e)
      BY <2>1 DEF RemoveOther
    <3>2. \A ch \in Chans : ext_user'[ch] # None => ext_user'[ch] = ext_user[ch] /\ ext_user[ch] # e
      BY <2>1, <2>2, TableFacts
    <3> HIDE DEF e
    <3> QED
      BY <1>0, <2>1, <2>2, <3>1, <3>2, RemoveTable, TableFacts DEF SlotsInv
  <2>4. AllocInv'
    <3>1. /\ alloc'[a].pc = "scan" /\ alloc'[a].mc = m /\ alloc'[a].at = e
          /\ alloc'[a].free = k /\ alloc'[a].others = Others(a)
          /\ \A b \in Allocator \ {a} : alloc'[b].pc = "idle"
      <4>1. alloc'[a] = found /\ \A b \in Allocator \ {a} : alloc'[b] = alloc[b]
        BY <2>1, TableFacts, TypeFacts
      <4>2. /\ found.pc = "scan" /\ found.mc = m /\ found.at = e /\ found.free = k
            /\ found.others = Others(a)
        BY AllocFacts DEF AllocRec
      <4> HIDE DEF found, e, m, k
      <4> QED
        BY <4>1, <4>2, AllocFacts
    <3>2. \A j \in Conns \ {e} : /\ conn'[j].valid = conn[j].valid /\ conn'[j].ts = conn[j].ts
                                 /\ conn'[j].type = conn[j].type
      BY <1>0, <2>1, <2>2, RemovedFields DEF RemoveOther, SameButKick
    <3>3. conn'[e] = Blank
      BY <1>0, <2>1, <2>2, RemovedFields DEF RemoveOther
    <3>4. k # None => ~conn'[k].valid
      BY <1>0, <3>2, <3>3, BlankIs
    <3>5. \A o \in Others(a) : o < e
      <4>1. \A o \in SameSession(a) : o < e
        BY ScanFacts, TableFacts DEF SameSession
      <4>2. e \in alloc[a].at .. N_CONNS /\ N_CONNS \in Nat /\ alloc[a].at \in Nat
        BY ScanFacts, TableFacts, ConnectionsAssumption, AllocFacts DEF AllocRec, Conns
      <4>3. \A o \in alloc[a].others : o \in Conns /\ o < alloc[a].at
        BY AllocFacts, TableFacts DEF AllocInv, AllocRec
      <4>4. \A o \in alloc[a].others : o < e
        BY <4>2, <4>3, ConnectionsAssumption DEF Conns
      <4> QED
        BY <4>1, <4>4, ScanFacts, TableFacts
    <3>6. \A o \in Others(a) : /\ o < e /\ conn'[o].valid /\ conn'[o].ts = m[1]
                               /\ conn'[o].type \in LinkedTypes(m[2])
      <4> SUFFICES ASSUME NEW o \in Others(a)
                   PROVE  /\ conn'[o].valid /\ conn'[o].ts = m[1]
                          /\ conn'[o].type \in LinkedTypes(m[2])
        BY <3>5
      <4>1. o \in Conns /\ o # e
        BY <2>2, <3>5, AllocFacts, ConnectionsAssumption DEF Conns
      <4> QED
        BY <3>2, <4>1, AllocFacts
    <3>7. sock'[m] = "new"
      BY <2>1, AllocFacts
    <3> HIDE DEF e, k, m
    <3> QED
      BY <3>1, <3>4, <3>6, <3>7 DEF AllocInv
  <2> QED
    BY <2>3, <2>4 DEF TableStep
<1>3. CASE Evict(a)
  <2>1. PICK v \in Victims : /\ alloc' = [alloc EXCEPT ![a] = Begin(m)]
                             /\ RemoveOther(rx[v].conn)
    BY <1>3, NoWaits DEF Evict
  <2> DEFINE e == rx[v].conn
  <2>2. e \in Conns /\ conn[e].type # "EXT" /\ UNCHANGED <<ext_user, sock>>
    <3>1. e \in Conns /\ conn[e].arun
      BY TableFacts, TypeFacts DEF Victims, Chan
    <3> QED
      BY <1>3, <3>1, TableFacts DEF SlotsInv, SlotOK, Evict
  <2>3. SlotsInv' /\ ExtUserIsExt' /\ Keeps
    <3>1. conn' = Removed(conn, e)
      BY <2>1 DEF RemoveOther
    <3>2. \A ch \in Chans : ext_user'[ch] # None => ext_user'[ch] = ext_user[ch] /\ ext_user[ch] # e
      BY <2>2, TableFacts
    <3> HIDE DEF e
    <3> QED
      BY <1>0, <2>2, <3>1, <3>2, RemoveTable, TableFacts DEF SlotsInv
  <2>4. AllocInv'
    <3>1. alloc'[a] = Begin(m) /\ \A b \in Allocator \ {a} : alloc'[b].pc = "idle"
      BY <2>1, AllocFacts, TableFacts, TypeFacts
    <3>2. sock'[m] = "new"
      BY <2>2, AllocFacts
    <3> HIDE DEF m
    <3> QED
      BY <1>0, <3>1, <3>2, AllocsBegin
  <2> QED
    BY <2>3, <2>4 DEF TableStep
<1>4. CASE \E f \in [Conns -> Conn] : \E c :
             /\ k # None /\ UNCHANGED ext_user
             /\ ReturnsNull(a) \/ \E chans : Succeeds(a, chans)
             /\ conn' = [f EXCEPT ![k] = c] /\ SlotOK(c, sock')
             /\ \A j \in Conns : Alike(conn[j], f[j]) /\ f[j].mc = conn[j].mc /\ f[j].pc = conn[j].pc
  <2>1. AllocInv' /\ \A w \in Mc : sock'[w] = "new" => sock[w] = "new"
    BY <1>4, EndedAllocs
  <2> HIDE DEF k
  <2>2. SlotsInv' /\ ExtUserIsExt' /\ Keeps
    BY <1>0, <1>4, <2>1, FillTable
  <2> QED
    BY <2>1, <2>2 DEF TableStep
<1>5. ASSUME ReturnsNull(a) \/ \E chans : Succeeds(a, chans)
      PROVE  sock'[m] # "new"
  BY <1>5, EndedAllocs
<1>6. \A j \in Conns : Alike(conn[j], conn[j])
  BY DEF Alike
<1>7. \A s : SlotOK(Blank, s) /\ SlotOK([Blank EXCEPT !.type = "EXT", !.other = Other(a)], s)
  BY BlankIs, SlotBlank DEF SlotOK, Blank
<1>8. CASE TurnAway(a) \/ NoSound(a)
  <2>1. /\ k # None /\ UNCHANGED ext_user /\ ReturnsNull(a)
        /\ \/ conn' = [conn EXCEPT ![k] = Blank]
           \/ conn' = [conn EXCEPT ![k] = [Blank EXCEPT !.type = "EXT", !.other = Other(a)]]
    BY <1>8 DEF TurnAway, NoSound, HasSlot
  <2> HIDE DEF k
  <2> QED
    BY <1>0, <1>4, <1>6, <1>7, <2>1
<1>9. CASE FirstStream(a) \/ Extension(a) \/ Monitor(a)
  <2>1. /\ k # None /\ UNCHANGED ext_user
        /\ \E ch \in Chans \cup {None}, type \in Stream \cup {"MON"} :
             /\ type # "MON" => type = m[2]
             /\ type = "EXT" => ch # None
             /\ \/ (\E chans : Succeeds(a, chans)) /\ conn' = [conn EXCEPT ![k] = NewConn(a, type, ch)]
                \/ ReturnsNull(a) /\ conn' = [conn EXCEPT ![k] = Blank]
    <3>1. CASE FirstStream(a)
      <4>1. PICK ch : /\ ch \in Chans
                      /\ \/ (\E chans : Succeeds(a, chans)) /\ conn' = [conn EXCEPT ![k] = NewConn(a, m[2], ch)]
                         \/ ReturnsNull(a) /\ conn' = [conn EXCEPT ![k] = Blank]
        BY <3>1, FreeChanFacts DEF FirstStream, Fails
      <4>2. /\ k # None /\ UNCHANGED ext_user /\ ch # None /\ m[2] # "MON"
        BY <3>1, <4>1, TypeFacts, TableFacts DEF FirstStream, HasSlot
      <4> HIDE DEF k, m
      <4> QED
        BY <1>0, <4>1, <4>2
    <3>2. CASE Extension(a)
      <4> DEFINE ch == conn[Other(a)].rx
      <4>1. /\ ch # None
            /\ \/ (\E chans : Succeeds(a, chans)) /\ conn' = [conn EXCEPT ![k] = NewConn(a, "EXT", ch)]
               \/ ReturnsNull(a) /\ conn' = [conn EXCEPT ![k] = Blank]
        BY <3>2 DEF Extension, Fails
      <4>2. /\ k # None /\ UNCHANGED ext_user /\ m[2] = "EXT" /\ ch \in Chans \cup {None}
        BY <1>0, <3>2, ScanFacts, TableFacts DEF Extension, HasSlot, Conn
      <4> HIDE DEF k, m, ch
      <4> QED
        BY <1>0, <4>1, <4>2
    <3>3. CASE Monitor(a)
      <4>1. /\ k # None /\ UNCHANGED ext_user
            /\ \/ (\E chans : Succeeds(a, chans)) /\ conn' = [conn EXCEPT ![k] = NewConn(a, "MON", None)]
               \/ ReturnsNull(a) /\ conn' = [conn EXCEPT ![k] = Blank]
        BY <3>3 DEF Monitor, Fails, HasSlot
      <4> HIDE DEF k, m
      <4> QED
        BY <4>1
    <3> QED
      BY <1>9, <3>1, <3>2, <3>3
  <2>2. PICK ch \in Chans \cup {None}, type \in Stream \cup {"MON"} :
             /\ type # "MON" => type = m[2]
             /\ type = "EXT" => ch # None
             /\ \/ (\E chans : Succeeds(a, chans)) /\ conn' = [conn EXCEPT ![k] = NewConn(a, type, ch)]
                \/ ReturnsNull(a) /\ conn' = [conn EXCEPT ![k] = Blank]
    BY <2>1
  <2>3. SlotOK(NewConn(a, type, ch), sock')
    BY <1>5, <2>2, SlotNew
  <2> HIDE DEF k, m
  <2> QED
    BY <1>0, <1>4, <1>6, <1>7, <2>1, <2>2, <2>3
<1>10. CASE SecondStream(a)
  <2> DEFINE ch == conn[Other(a)].rx
             linked == Linked(conn, Other(a), k)
  <2>1. /\ k # None /\ UNCHANGED ext_user /\ m[2] # "EXT" /\ Other(a) \in Conns
        /\ \/ (\E chans : Succeeds(a, chans)) /\ conn' = [linked EXCEPT ![k] = NewConn(a, m[2], ch)]
           \/ ReturnsNull(a) /\ conn' = [linked EXCEPT ![k] = Blank]
    BY <1>10, ScanFacts, TableFacts DEF SecondStream, Fails, HasSlot
  <2>2. SlotOK(NewConn(a, m[2], ch), sock')
    <3>1. ch \in Chans \cup {None}
      BY <1>0, <2>1 DEF Conn
    <3>2. sock'[m] # "new"
      BY <1>5, <2>1
    <3> HIDE DEF ch
    <3> QED
      BY <1>0, <2>1, <3>1, <3>2, SlotNew
  <2>3. /\ linked \in [Conns -> Conn]
        /\ \A j \in Conns : Alike(conn[j], linked[j]) /\ linked[j].mc = conn[j].mc /\ linked[j].pc = conn[j].pc
    <3>1. k \in Conns
      BY <1>0, <2>1
    <3>2. \A j \in Conns : linked[j] = IF j = Other(a) THEN [conn[j] EXCEPT !.other = k] ELSE conn[j]
      BY <1>0, <2>1 DEF Linked
    <3>3. linked \in [Conns -> Conn]
      BY <1>0, <2>1, <3>1 DEF Linked, Conn
    <3>4. \A j \in Conns : conn[j] \in Conn
      BY <1>0
    <3> HIDE DEF linked, k
    <3> QED
      BY <3>1, <3>2, <3>3, <3>4 DEF Alike, Conn
  <2> HIDE DEF k, m, linked, ch
  <2> QED
    BY <1>4, <1>7, <2>1, <2>2, <2>3
<1> QED
  BY <1>1, <1>2, <1>3, <1>8, <1>9, <1>10, AllocFacts, Zenon DEF Allocates

(* Steps that only kick, start or cut off connections.                     *)
LEMMA UpdateTable ==
  ASSUME TableInv,
         \A k \in Conns : Alike(conn[k], conn'[k]) /\ conn'[k].pc \in {"none", "new", "loop"},
         UNCHANGED ext_user, \A m \in Mc : sock'[m] = "new" => sock[m] = "new"
  PROVE  SlotsInv' /\ ExtUserIsExt'
<1>1. \A k \in Conns : SlotOK(conn[k], sock')
  BY SlotOlder, TableFacts DEF SlotsInv
<1> QED
  BY <1>1, SlotAlike, ExtAlike, TableFacts DEF SlotsInv

LEMMA TableOthers ==
  ASSUME Yields = {}, TableInv, OthersRun,
         \/ \E m \in Mc : Connect(m) \/ Close(m)
         \/ \E s \in Session : Return(s)
         \/ \E k \in Conns : Kick(k) \/ ConnTask(k)
  PROVE  TableStep
<1>0. /\ conn \in [Conns -> Conn] /\ sock \in [Mc -> {"new", "open", "closed"}]
      /\ \A k \in Conns : conn[k] \in Conn /\ SlotOK(conn[k], sock) /\ Alike(conn[k], conn[k])
      /\ \A k \in Conns : conn[k].pc \in {"none", "new", "loop"}
      /\ \A a \in Allocator : alloc[a].pc = "idle"
  <2>1. conn \in [Conns -> Conn] /\ sock \in [Mc -> {"new", "open", "closed"}]
    BY TableFacts, TypeFacts
  <2>2. \A k \in Conns : SlotOK(conn[k], sock) /\ Alike(conn[k], conn[k])
    BY TableFacts DEF SlotsInv, Alike
  <2>3. \A k \in Conns : conn[k].pc \in {"none", "new", "loop"}
    BY <2>2 DEF SlotOK
  <2>4. \A a \in Allocator : alloc[a].pc = "idle"
    BY TableFacts DEF AllocInv, OthersRun
  <2> QED
    BY <2>1, <2>2, <2>3, <2>4
<1>1. ASSUME UNCHANGED alloc PROVE AllocInv'
  BY <1>0, <1>1, AllocsIdle
<1>2. ASSUME NEW m \in Mc, Connect(m) PROVE TableStep
  <2>1. /\ By(m) \in Allocator /\ alloc' = [alloc EXCEPT ![By(m)] = Begin(m)] /\ sock[m] = "new"
        /\ UNCHANGED <<conn, ext_user, sock>>
    BY <1>2 DEF Connect, By, Allocator
  <2>2. AllocInv'
    <3>1. PICK a \in Allocator : a = By(m)
      BY <2>1
    <3>2. alloc'[a] = Begin(m) /\ sock'[m] = "new" /\ \A b \in Allocator \ {a} : alloc'[b].pc = "idle"
      BY <1>0, <2>1, <3>1, TableFacts, TypeFacts
    <3> QED
      BY <3>2, AllocsBegin
  <2>3. SlotsInv' /\ ExtUserIsExt'
    BY <1>0, <2>1, UpdateTable
  <2> QED
    BY <2>1, <2>2, <2>3 DEF TableStep, Keeps
<1>3. ASSUME NEW m \in Mc, Close(m) PROVE TableStep
  <2>1. /\ sock[m] = "open" /\ sock' = [sock EXCEPT ![m] = "closed"]
        /\ conn' = [k \in Conns |-> IF k \in OwnConn(m) THEN Disconnected(conn[k]) ELSE conn[k]]
        /\ UNCHANGED <<ext_user, alloc>>
    BY <1>3 DEF Close
  <2>2. \A k \in Conns : Alike(conn[k], Disconnected(conn[k])) /\ Disconnected(conn[k]).pc = conn[k].pc
    BY <1>0 DEF Alike, Disconnected, Conn
  <2>3. \A k \in Conns : Alike(conn[k], conn'[k]) /\ conn'[k].pc = conn[k].pc
    BY <1>0, <2>1, <2>2
  <2>4. SlotsInv' /\ ExtUserIsExt'
    BY <1>0, <2>1, <2>3, UpdateTable
  <2>5. Keeps
    BY <1>0, <2>1 DEF Keeps, OwnConn
  <2> QED
    BY <1>1, <2>1, <2>4, <2>5 DEF TableStep
<1>4. ASSUME NEW s \in Session, Return(s) PROVE TableStep
  <2>1. /\ \A k \in Conns : conn[k].ts # s
        /\ sock' = [m \in Mc |-> IF m[1] = s THEN "new" ELSE sock[m]]
        /\ UNCHANGED <<conn, ext_user, alloc>>
    BY <1>4 DEF Return
  <2>2. SlotsInv'
    <3> SUFFICES ASSUME NEW k \in Conns PROVE SlotOK(conn[k], sock')
      BY <2>1 DEF SlotsInv
    <3> DEFINE m == <<conn[k].ts, conn[k].type>>
    <3>1. m[1] # s
      BY <2>1
    <3>2. m \in Mc => sock'[m] = sock[m]
      BY <2>1, <3>1
    <3> QED
      BY <1>0, <3>2 DEF SlotOK
  <2> QED
    BY <1>1, <2>1, <2>2, TableFacts DEF TableStep, Keeps, ExtUserIsExt, Task
<1>5. ASSUME \A k \in Conns : /\ Alike(conn[k], conn'[k]) /\ conn'[k].mc = conn[k].mc
                              /\ conn'[k].pc \in {"none", "new", "loop"},
             UNCHANGED <<ext_user, alloc, sock>>
      PROVE  TableStep
  BY <1>1, <1>5, UpdateTable DEF TableStep, Keeps
<1>6. ASSUME NEW k \in Conns, Kick(k) \/ Start(k) PROVE TableStep
  <2>1. conn' = [conn EXCEPT ![k].kick = TRUE] \/ conn' = [conn EXCEPT ![k].pc = "loop"]
    BY <1>6, NoWaits DEF Kick, Start
  <2>2. \A j \in Conns : /\ Alike(conn[j], conn'[j]) /\ conn'[j].mc = conn[j].mc
                         /\ conn'[j].pc \in {"none", "new", "loop"}
    BY <1>0, <2>1 DEF Alike, Conn
  <2> QED
    BY <1>5, <1>6, <2>2 DEF Kick, Start
<1>7. ASSUME NEW k \in Conns, SpiTransfer(k) \/ Leave(k) PROVE FALSE
  BY <1>0, <1>7 DEF SpiTransfer, Leave
<1>8. ASSUME NEW k \in Conns, ExtSwitch(k) \/ ExtBlur(k) PROVE TableStep
  <2>1. /\ conn[k].valid /\ conn[k].type = "EXT" /\ conn[k].rx \in Chans
        /\ UNCHANGED <<conn, alloc, sock>>
    BY <1>0, <1>8 DEF ExtSwitch, ExtBlur, InLoop, Task, SlotOK, Conn
  <2>2. \/ ext_user' = [ext_user EXCEPT ![conn[k].rx] = k]
        \/ ext_user' = [ext_user EXCEPT ![conn[k].rx] = None]
    BY <1>8 DEF ExtSwitch, ExtBlur, ExtUsersInit
  <2>3. ExtUserIsExt'
    BY <2>1, <2>2, TableFacts, TypeFacts DEF ExtUserIsExt, Task
  <2> QED
    BY <1>1, <2>1, <2>3, TableFacts DEF TableStep, SlotsInv, Keeps
<1>9. ASSUME NEW k \in Conns, ExtEnds(k) \/ MonitorEnds(k) PROVE TableStep
  <2>1. conn' = Removed(conn, k) /\ UNCHANGED <<alloc, sock>>
    BY <1>9 DEF ExtEnds, MonitorEnds
  <2>2. \A ch \in Chans : ext_user'[ch] # None => ext_user'[ch] = ext_user[ch] /\ ext_user[ch] # k
    <3>1. CASE ExtEnds(k)
      <4>1. conn[k].rx \in Chans /\ ext_user' = [ext_user EXCEPT ![conn[k].rx] = None]
        BY <1>0, <3>1 DEF ExtEnds, InLoop, Task, ExtUsersInit, SlotOK, Conn
      <4> QED
        BY <4>1, TableFacts, TypeFacts DEF ExtUserIsExt, Task
    <3>2. CASE MonitorEnds(k)
      BY <3>2, TableFacts DEF MonitorEnds, InLoop, Task
    <3> QED
      BY <1>9, <3>1, <3>2
  <2> QED
    BY <1>0, <1>1, <2>1, <2>2, RemoveTable DEF TableStep
<1>10. ASSUME NEW k \in Conns, NEW chans, NEW f \in [Conns -> Conn], Leaves(k, chans, f),
              conn[k].type # "EXT",
              f = conn \/ \E o \in Conns : /\ conn[o].type \in {"SND", "WF"}
                                           /\ f = [conn EXCEPT ![o].stop_data = TRUE]
       PROVE  TableStep
  <2>1. conn' = Removed(f, k) /\ UNCHANGED <<ext_user, alloc, sock>>
    BY <1>10, NoWaits DEF Leaves
  <2>2. \A ch \in Chans : ext_user'[ch] # None => ext_user'[ch] = ext_user[ch] /\ ext_user[ch] # k
    BY <1>10, <2>1, TableFacts
  <2>3. \A j \in Conns : /\ SlotOK(f[j], sock)
                         /\ f[j].valid = conn[j].valid /\ f[j].type = conn[j].type
                         /\ f[j].rx = conn[j].rx /\ f[j].mc = conn[j].mc
    <3>1. CASE f = conn
      BY <1>0, <3>1
    <3>2. CASE \E o \in Conns : /\ conn[o].type \in {"SND", "WF"}
                                /\ f = [conn EXCEPT ![o].stop_data = TRUE]
      <4>1. PICK o \in Conns : /\ conn[o].type \in {"SND", "WF"}
                               /\ f = [conn EXCEPT ![o].stop_data = TRUE]
        BY <3>2
      <4>2. /\ f[o].stop_data /\ f[o].valid = conn[o].valid /\ f[o].type = conn[o].type
            /\ f[o].rx = conn[o].rx /\ f[o].mc = conn[o].mc /\ f[o].ts = conn[o].ts
            /\ f[o].arun = conn[o].arun /\ f[o].pc = conn[o].pc
            /\ \A j \in Conns \ {o} : f[j] = conn[j]
        BY <1>0, <4>1 DEF Conn
      <4>3. SlotOK(f[o], sock)
        BY <1>0, <4>1, <4>2 DEF SlotOK
      <4> QED
        BY <1>0, <4>2, <4>3
    <3> QED
      BY <1>10, <3>1, <3>2
  <2> QED
    BY <1>1, <2>1, <2>2, <2>3, RemoveTable DEF TableStep
<1>11. ASSUME NEW k \in Conns, Stop(k) \/ SoundEnds(k) \/ WaterfallEnds(k) PROVE TableStep
  <2>1. conn[k].type # "EXT"
    BY <1>11 DEF Stop, SoundEnds, WaterfallEnds, InLoop, Task
  <2>2. \A type \in {"SND", "WF"} : ConnOther(k, type) # None =>
          /\ ConnOther(k, type) \in Conns /\ conn[ConnOther(k, type)].type = type
          /\ [conn EXCEPT ![ConnOther(k, type)].stop_data = TRUE] \in [Conns -> Conn]
    <3>1. \A type : ConnOther(k, type) # None =>
            ConnOther(k, type) \in Conns /\ conn[ConnOther(k, type)].type = type
      BY <1>0 DEF ConnOther, Conn
    <3>2. \A o \in Conns : [conn EXCEPT ![o].stop_data = TRUE] \in [Conns -> Conn]
      BY <1>0, ConnUpdates
    <3> QED
      BY <3>1, <3>2
  <2>3. PICK chans, f :
          /\ f \in [Conns -> Conn] /\ Leaves(k, chans, f)
          /\ f = conn \/ \E o \in Conns : /\ conn[o].type \in {"SND", "WF"}
                                          /\ f = [conn EXCEPT ![o].stop_data = TRUE]
    <3>1. CASE Stop(k)
      BY <1>0, <3>1 DEF Stop
    <3>2. CASE SoundEnds(k)
      <4>1. CASE ConnOther(k, "WF") = None
        BY <1>0, <3>2, <4>1 DEF SoundEnds
      <4>2. CASE ConnOther(k, "WF") # None
        <5>1. \E chans : Leaves(k, chans, [conn EXCEPT ![ConnOther(k, "WF")].stop_data = TRUE])
          BY <3>2, <4>2, Zenon DEF SoundEnds
        <5> QED
          BY <2>2, <4>2, <5>1
      <4> QED
        BY <4>1, <4>2
    <3>3. CASE WaterfallEnds(k)
      <4>1. CASE ConnOther(k, "SND") = None
        BY <1>0, <3>3, <4>1 DEF WaterfallEnds
      <4>2. CASE ConnOther(k, "SND") # None
        <5>1. \E chans : Leaves(k, chans, [conn EXCEPT ![ConnOther(k, "SND")].stop_data = TRUE])
          BY <3>3, <4>2, Zenon DEF WaterfallEnds
        <5> QED
          BY <2>2, <4>2, <5>1
      <4> QED
        BY <4>1, <4>2
    <3> QED
      BY <1>11, <3>1, <3>2, <3>3
  <2> QED
    BY <1>10, <2>1, <2>3, Zenon
<1> QED
  BY <1>2, <1>3, <1>4, <1>6, <1>7, <1>8, <1>9, <1>11, Zenon DEF ConnTask, Ends

LEMMA InitTable == Init => TableInv
<1> SUFFICES ASSUME Init PROVE TableInv
  OBVIOUS
<1>1. SlotsInv
  BY SlotBlank DEF Init, SlotsInv
<1>2. AllocInv
  BY IdleIs DEF Init, AllocInv
<1>3. ExtUserIsExt
  BY DEF Init, ExtUserIsExt
<1> QED
  BY <1>1, <1>2, <1>3, InitType DEF TableInv

LEMMA StepTable == Yields = {} => (TableInv /\ [Next]_vars => TableInv' /\ [Keeps]_vars)
<1> SUFFICES ASSUME Yields = {}, TableInv, [Next]_vars PROVE TableInv' /\ [Keeps]_vars
  OBVIOUS
<1>1. TypeInv'
  BY StepType DEF TableInv
<1>2. CASE UNCHANGED vars
  BY <1>1, <1>2 DEF vars, TableInv, SlotsInv, AllocInv, ExtUserIsExt, Task
<1>3. CASE Next
  <2>1. TableStep
    BY <1>3, TableAllocates, TableOthers, Zenon DEF Next
  <2> QED
    BY <1>1, <2>1 DEF TableStep, TableInv
<1> QED
  BY <1>2, <1>3

(* The inductive invariant of the table, when nobody yields inside an      *)
(* allocation: what the scan of rx_server_websocket() remembers is still   *)
(* true when it fills in a slot, also after it has culled and started over.*)
THEOREM TableInvariant == Yields = {} => (Spec => []TableInv)
<1> SUFFICES ASSUME Yields = {} PROVE Spec => []TableInv
  OBVIOUS
<1>1. TableInv /\ [Next]_vars => TableInv'
  BY StepTable
<1> QED
  BY <1>1, InitTable, PTL DEF Spec

(* ext_users[] never dangles, although extensions end after their sound    *)
(* connection, slots are reused and the allocator removes connections.     *)
THEOREM ExtensionsAreKnown == Yields = {} => (Spec => []ExtUserIsExt)
<1>1. TableInv => ExtUserIsExt
  BY DEF TableInv
<1> QED
  BY <1>1, TableInvariant, PTL

(* A connection loses its websocket only when this one is closed, whatever *)
(* slot of conns[] the connection_param of other websockets points to.     *)
THEOREM WebsocketsAreKept == Yields = {} => (Spec => KeepsWebsocket)
<1> SUFFICES ASSUME Yields = {} PROVE Spec => KeepsWebsocket
  OBVIOUS
<1> DEFINE Kept == \A k \in Conns : conn[k].valid /\ conn'[k].valid /\ conn[k].mc \in Mc /\ conn'[k].mc # conn[k].mc
                     => sock[conn[k].mc] = "open" /\ sock'[conn[k].mc] = "closed"
<1>1. TableInv /\ [Next]_vars => [Kept]_vars
  BY StepTable DEF Keeps
<1>2. Spec => []TableInv
  BY TableInvariant
<1>3. KeepsWebsocket <=> [][Kept]_vars
  BY DEF KeepsWebsocket
<1> QED
  BY <1>1, <1>2, <1>3, PTL DEF Spec

----------------------------------------------------------------------------
(* Channels and the streams of a session                                   *)

(* What the invariants of channels say about a stream.                     *)
SameStream(c, d) ==
  /\ d.valid = c.valid /\ d.type = c.type /\ d.rx = c.rx /\ d.ts = c.ts
  /\ d.other = c.other /\ d.stop_data = c.stop_data

(* StreamsLinked, in terms of conn[].other.                                *)
LinkedTo ==
  \A j, k \in Conns : Streams(j) /\ Streams(k) /\ j # k /\ conn[j].rx = conn[k].rx
    => conn[j].other = k \/ conn[j].stop_data

LEMMA LinkedAre == (StreamsLinked <=> LinkedTo) /\ (StreamsLinked' <=> LinkedTo')
<1>1. None \notin Conns
  BY DEF None, Conns
<1> QED
  BY <1>1 DEF StreamsLinked, LinkedTo, ConnOther

(* What ChannelInv says of each stream.                                    *)
LEMMA ChannelFacts ==
  ASSUME TableInv, ChannelInv
  PROVE  /\ \A k \in Conns : Streams(k) <=> conn[k].type \in {"SND", "WF"}
         /\ \A k \in Conns : Streams(k) => conn[k].rx \in Chans /\ rx[conn[k].rx].busy
         /\ \A k \in Conns : Streams(k) =>
              <<conn[k].ts, conn[k].type>> \in Mc /\ sock[<<conn[k].ts, conn[k].type>>] # "new"
         /\ \A j, k \in Conns : Streams(j) /\ Streams(k) /\ conn[j].rx = conn[k].rx =>
              /\ conn[j].ts = conn[k].ts
              /\ j # k => conn[j].type # conn[k].type /\ (conn[j].other = k \/ conn[j].stop_data)
         /\ \A k \in Conns : conn[k].stop_data => Streams(k)
         /\ rx \in [Chans -> Chan] /\ conn \in [Conns -> Conn] /\ None \notin Conns /\ None \notin Chans
<1>1. /\ \A k \in Conns : SlotOK(conn[k], sock)
      /\ rx \in [Chans -> Chan] /\ conn \in [Conns -> Conn] /\ None \notin Conns /\ None \notin Chans
  BY TableFacts, TypeFacts DEF SlotsInv
<1>2. \A k \in Conns : Streams(k) <=> conn[k].type \in {"SND", "WF"}
  BY <1>1 DEF SlotOK, Streams
<1>3. \A k \in Conns : Streams(k) => conn[k].rx \in Chans /\ rx[conn[k].rx].busy
  BY <1>1 DEF ChannelInv, BusyIffUsed, Conn
<1>4. \A j, k \in Conns : Streams(j) /\ Streams(k) /\ conn[j].rx = conn[k].rx =>
              /\ conn[j].ts = conn[k].ts
              /\ j # k => conn[j].type # conn[k].type /\ (conn[j].other = k \/ conn[j].stop_data)
  BY LinkedAre DEF ChannelInv, OneSessionPerChannel, StreamsDiffer, LinkedTo
<1>5. \A k \in Conns : Streams(k) =>
        <<conn[k].ts, conn[k].type>> \in Mc /\ sock[<<conn[k].ts, conn[k].type>>] # "new"
  BY <1>1, <1>2 DEF SlotOK
<1> QED
  BY <1>1, <1>2, <1>3, <1>4, <1>5 DEF SlotOK

(* Whom the data pump finds on a channel that is enabled.                  *)
LEMMA PumpFacts ==
  ASSUME TableInv, ChannelInv, NEW c \in Chans, rx[c].chan_enabled
  PROVE  /\ rx[c].conn # None /\ rx[c].conn \in Conns
         /\ conn[rx[c].conn].valid /\ conn[rx[c].conn].type = "SND" /\ conn[rx[c].conn].rx = c
<1>1. rx[c].conn \in Conns \cup {None}
  BY ChannelFacts DEF Chan
<1>2. /\ rx[c].conn # None
      /\ conn[rx[c].conn].valid /\ conn[rx[c].conn].type = "SND" /\ conn[rx[c].conn].rx = c
  BY DEF ChannelInv, DataPumpAssertion
<1> QED
  BY <1>1, <1>2

(* Steps that leave the streams and the channels alone.                    *)
LEMMA SameChannels ==
  ASSUME TableInv, ChannelInv, TableInv', UNCHANGED rx,
         \A k \in Conns : Streams(k) \/ Streams(k)' => SameStream(conn[k], conn'[k]),
         \A k \in Conns, type \in {"SND", "WF"} :
           Streams(k) /\ <<conn[k].ts, type>> \in Mc /\ sock'[<<conn[k].ts, type>>] = "new"
             => sock[<<conn[k].ts, type>>] = "new"
  PROVE  ChannelInv'
<1>1. \A k \in Conns : Streams(k)' <=> Streams(k)
  BY DEF Streams, SameStream
<1>2. \A k \in Conns : Streams(k) =>
        /\ conn'[k].type = conn[k].type /\ conn'[k].rx = conn[k].rx /\ conn'[k].ts = conn[k].ts
        /\ conn'[k].other = conn[k].other /\ conn'[k].stop_data = conn[k].stop_data
        /\ conn'[k].valid = conn[k].valid
  BY DEF SameStream
<1>3. BusyIffUsed'
  BY <1>1, <1>2 DEF ChannelInv, BusyIffUsed
<1>4. OneSessionPerChannel' /\ StreamsDiffer'
  BY <1>1, <1>2 DEF ChannelInv, OneSessionPerChannel, StreamsDiffer
<1>5. SoundOwns'
  BY <1>1, <1>2 DEF ChannelInv, SoundOwns
<1>6. DataPumpAssertion'
  <2> SUFFICES ASSUME NEW ch \in Chans, rx[ch].chan_enabled
               PROVE  /\ rx[ch].conn # None
                      /\ LET c == conn'[rx[ch].conn] IN c.valid /\ c.type = "SND" /\ c.rx = ch
    BY DEF DataPumpAssertion
  <2>1. /\ rx[ch].conn # None /\ rx[ch].conn \in Conns
        /\ conn[rx[ch].conn].valid /\ conn[rx[ch].conn].type = "SND" /\ conn[rx[ch].conn].rx = ch
    BY PumpFacts
  <2> QED
    BY <1>2, <2>1 DEF Streams
<1>7. StreamsLinked'
  <2>1. LinkedTo
    BY LinkedAre DEF ChannelInv
  <2>2. LinkedTo'
    BY <1>1, <1>2, <2>1 DEF LinkedTo
  <2> QED
    BY <2>2, LinkedAre
<1>8. StoppedAlone'
  <2>1. \A k \in Conns : conn'[k].stop_data => Streams(k) /\ conn[k].stop_data
    <3>1. \A k \in Conns : conn'[k].stop_data => Streams(k)'
      BY DEF TableInv, SlotsInv, SlotOK, Streams
    <3> QED
      BY <1>1, <1>2, <3>1
  <2> QED
    BY <1>1, <1>2, <2>1 DEF ChannelInv, StoppedAlone
<1> QED
  BY <1>3, <1>4, <1>5, <1>6, <1>7, <1>8 DEF ChannelInv

(* A stream that is alone on its channel goes, and the channel is freed.   *)
LEMMA LastLeaves ==
  ASSUME TableInv, ChannelInv, TableInv', NEW k \in Conns, Streams(k),
         \A j \in Conns : Streams(j) /\ conn[j].rx = conn[k].rx => j = k,
         conn' = Removed(conn, k), rx' = Freed(rx, conn[k].rx), UNCHANGED sock
  PROVE  ChannelInv'
<1> DEFINE ch == conn[k].rx
<1>0. /\ ch \in Chans /\ rx \in [Chans -> Chan] /\ conn \in [Conns -> Conn]
      /\ \A c \in Chans : rx'[c] = IF c = ch THEN Unused ELSE rx[c]
  BY ChannelFacts, FreedFields
<1>1. /\ ~Streams(k)' /\ conn'[k] = Blank
      /\ \A j \in Conns \ {k} : /\ Streams(j)' <=> Streams(j)
                                /\ SameStream(conn[j], conn'[j])
  BY <1>0, RemovedFields, BlankIs DEF Streams, SameButKick, SameStream
<1>2. \A j \in Conns : Streams(j)' =>
        /\ Streams(j) /\ conn[j].rx # ch /\ SameStream(conn[j], conn'[j])
  BY <1>1
<1> HIDE DEF ch
<1>3. BusyIffUsed'
  <2>1. \A j \in Conns : Streams(j)' => conn'[j].rx # None
    BY <1>2 DEF ChannelInv, BusyIffUsed, SameStream
  <2>2. ASSUME NEW c \in Chans
        PROVE  rx'[c].busy <=> \E j \in Conns : Streams(j)' /\ conn'[j].rx = c
    <3>1. CASE c = ch
      BY <1>0, <1>2, <3>1, UnusedIs DEF SameStream
    <3>2. CASE c # ch
      <4>1. rx[c].busy <=> \E j \in Conns : Streams(j) /\ conn[j].rx = c
        BY DEF ChannelInv, BusyIffUsed
      <4>2. \A j \in Conns : Streams(j) /\ conn[j].rx = c <=> Streams(j)' /\ conn'[j].rx = c
        BY <1>1, <1>2, <3>2 DEF SameStream, ch
      <4> QED
        BY <1>0, <3>2, <4>1, <4>2
    <3> QED
      BY <3>1, <3>2
  <2> QED
    BY <2>1, <2>2 DEF BusyIffUsed
<1>4. OneSessionPerChannel' /\ StreamsDiffer'
  BY <1>2 DEF ChannelInv, OneSessionPerChannel, StreamsDiffer, SameStream
<1>5. SoundOwns'
  BY <1>0, <1>2, ChannelFacts DEF ChannelInv, SoundOwns, SameStream
<1>6. DataPumpAssertion'
  <2> SUFFICES ASSUME NEW c \in Chans, rx'[c].chan_enabled
               PROVE  /\ rx'[c].conn # None
                      /\ LET d == conn'[rx'[c].conn] IN d.valid /\ d.type = "SND" /\ d.rx = c
    BY DEF DataPumpAssertion
  <2>1. c # ch /\ rx'[c] = rx[c]
    BY <1>0, UnusedIs
  <2>2. /\ rx[c].conn # None /\ rx[c].conn \in Conns
        /\ conn[rx[c].conn].valid /\ conn[rx[c].conn].type = "SND" /\ conn[rx[c].conn].rx = c
    BY <2>1, PumpFacts
  <2>3. rx[c].conn # k
    BY <2>1, <2>2 DEF ch
  <2> QED
    BY <1>1, <2>1, <2>2, <2>3 DEF SameStream
<1>7. StreamsLinked'
  <2>1. LinkedTo
    BY LinkedAre DEF ChannelInv
  <2>2. LinkedTo'
    BY <1>2, <2>1 DEF LinkedTo, SameStream
  <2> QED
    BY <2>2, LinkedAre
<1>8. StoppedAlone'
  <2>1. \A j \in Conns : conn'[j].stop_data => j # k /\ conn[j].stop_data /\ Streams(j)
    BY <1>1, BlankIs, ChannelFacts DEF SameStream
  <2> QED
    BY <1>1, <1>2, <2>1 DEF ChannelInv, StoppedAlone, SameStream
<1> QED
  BY <1>3, <1>4, <1>5, <1>6, <1>7, <1>8 DEF ChannelInv

(* A connection that has perhaps been asked to stop.                       *)
SameButStop(c, d) ==
  d.valid = c.valid /\ d.type = c.type /\ d.rx = c.rx /\ d.ts = c.ts /\ d.other = c.other

(* Channels do not change, but when a stream of this type leaves channel   *)
(* ch that has perhaps been disabled.                                      *)
StaysWithout(f, r, ch, type) ==
  \A c \in Chans : /\ r[c].busy = f[c].busy /\ r[c].conn = f[c].conn
                   /\ r[c].chan_enabled => f[c].chan_enabled /\ (c = ch => type = "WF")

(* The first of two streams goes and the other one is asked to stop; if it *)
(* was the sound connection the channel is disabled.                       *)
LEMMA OneLeaves ==
  ASSUME TableInv, ChannelInv, NEW k \in Conns, NEW o \in Conns,
         Streams(k), Streams(o), o # k, conn[o].rx = conn[k].rx,
         ~conn'[k].valid, ~conn'[k].stop_data, conn'[o].stop_data,
         \A j \in Conns \ {k} : SameButStop(conn[j], conn'[j]),
         \A j \in Conns \ {k, o} : conn'[j].stop_data = conn[j].stop_data,
         StaysWithout(rx, rx', conn[k].rx, conn[k].type),
         UNCHANGED sock
  PROVE  ChannelInv'
<1> DEFINE ch == conn[k].rx
<1>0. ch \in Chans
  BY ChannelFacts
<1>1. /\ \A c \in Chans : rx'[c].busy = rx[c].busy /\ rx'[c].conn = rx[c].conn
      /\ \A c \in Chans : rx'[c].chan_enabled =>
            rx[c].chan_enabled /\ (c = ch => conn[k].type = "WF")
  BY DEF StaysWithout
<1>2. \A j \in Conns \ {k} : /\ conn'[j].type = conn[j].type
           /\ conn'[j].rx = conn[j].rx /\ conn'[j].ts = conn[j].ts
           /\ conn'[j].other = conn[j].other /\ conn'[j].valid = conn[j].valid
  BY DEF SameButStop
<1> HIDE DEF ch
<1>3. \A j \in Conns : Streams(j)' <=> Streams(j) /\ j # k
  BY <1>2 DEF Streams, SameButStop
<1>4. \A j \in Conns : Streams(j) /\ conn[j].rx = ch => j = k \/ j = o
  BY ChannelFacts DEF ch
<1>5. BusyIffUsed'
  <2>1. \A j \in Conns : Streams(j)' => conn'[j].rx # None
    BY <1>2, <1>3 DEF ChannelInv, BusyIffUsed
  <2>2. ASSUME NEW c \in Chans
        PROVE  rx'[c].busy <=> \E j \in Conns : Streams(j)' /\ conn'[j].rx = c
    <3>1. rx[c].busy <=> \E j \in Conns : Streams(j) /\ conn[j].rx = c
      BY DEF ChannelInv, BusyIffUsed
    <3>2. CASE c = ch
      BY <1>0, <1>1, <1>2, <1>3, <3>1, <3>2 DEF ch
    <3>3. CASE c # ch
      BY <1>0, <1>1, <1>2, <1>3, <3>1, <3>3 DEF ch
    <3> QED
      BY <3>2, <3>3
  <2> QED
    BY <2>1, <2>2 DEF BusyIffUsed
<1>6. OneSessionPerChannel' /\ StreamsDiffer'
  BY <1>2, <1>3 DEF ChannelInv, OneSessionPerChannel, StreamsDiffer
<1>7. SoundOwns'
  BY <1>0, <1>1, <1>2, <1>3, ChannelFacts DEF ChannelInv, SoundOwns
<1>8. DataPumpAssertion'
  <2> SUFFICES ASSUME NEW c \in Chans, rx'[c].chan_enabled
               PROVE  /\ rx'[c].conn # None
                      /\ LET d == conn'[rx'[c].conn] IN d.valid /\ d.type = "SND" /\ d.rx = c
    BY DEF DataPumpAssertion
  <2>1. /\ rx[c].conn # None /\ rx[c].conn \in Conns
        /\ conn[rx[c].conn].valid /\ conn[rx[c].conn].type = "SND" /\ conn[rx[c].conn].rx = c
    BY <1>1, PumpFacts
  <2>2. rx[c].conn # k
    BY <1>0, <1>1, <2>1 DEF ch
  <2> QED
    BY <1>0, <1>1, <1>2, <2>1, <2>2
<1>9. StreamsLinked'
  <2>1. LinkedTo
    BY LinkedAre DEF ChannelInv
  <2>3. LinkedTo'
    BY <1>2, <1>3, <2>1 DEF LinkedTo
  <2> QED
    BY <2>3, LinkedAre
<1>10. StoppedAlone'
  <2> SUFFICES ASSUME NEW j \in Conns, conn'[j].stop_data
               PROVE  /\ \A i \in Conns : Streams(i)' /\ conn'[i].rx = conn'[j].rx => i = j
                      /\ \A type \in {"SND", "WF"} :
                           <<conn'[j].ts, type>> \in Mc => sock[<<conn'[j].ts, type>>] # "new"
    BY DEF StoppedAlone
  <2>1. j # k
    OBVIOUS
  <2>2. CASE j = o
    <3>1. \A i \in Conns : Streams(i)' /\ conn'[i].rx = conn'[j].rx => i = j
      BY <1>2, <1>3, <1>4, <2>1, <2>2 DEF ch
    <3>2. /\ conn[k].ts = conn[o].ts /\ conn[k].type # conn[o].type
          /\ conn[k].type \in {"SND", "WF"} /\ conn[o].type \in {"SND", "WF"}
          /\ sock[<<conn[k].ts, conn[k].type>>] # "new" /\ sock[<<conn[o].ts, conn[o].type>>] # "new"
      BY ChannelFacts
    <3>3. conn'[j].ts = conn[o].ts
      BY <1>2, <2>1, <2>2
    <3> QED
      BY <3>1, <3>2, <3>3
  <2>3. CASE j # o
    BY <1>2, <1>3, <2>1, <2>3 DEF ChannelInv, StoppedAlone
  <2> QED
    BY <2>2, <2>3
<1> QED
  BY <1>5, <1>6, <1>7, <1>8, <1>9, <1>10 DEF ChannelInv

(* rx_enable(RX_DATA_DISABLE), or nothing when a waterfall ends.           *)
LEMMA DisabledFields ==
  ASSUME NEW f \in [Chans -> Chan], NEW ch \in Chans, NEW type, NEW r,
         r = Enabled(f, ch, FALSE) \/ (r = f /\ type = "WF")
  PROVE  StaysWithout(f, r, ch, type)
<1>1. f[ch] \in Chan
  OBVIOUS
<1>2. CASE r = f /\ type = "WF"
  BY <1>2 DEF StaysWithout
<1>3. CASE r = Enabled(f, ch, FALSE)
  BY <1>1, <1>3 DEF StaysWithout, Enabled, Chan
<1> QED
  BY <1>2, <1>3

LEMMA FirstLeaves ==
  ASSUME TableInv, ChannelInv, NEW k \in Conns, NEW o \in Conns,
         Streams(k), Streams(o), o # k, conn[o].rx = conn[k].rx,
         NEW f \in [Conns -> Conn], f = [conn EXCEPT ![o].stop_data = TRUE],
         NEW g \in [Conns -> Conn], g = Removed(f, k), conn' = g,
         NEW r \in [Chans -> Chan], rx' = r,
         r = Enabled(rx, conn[k].rx, FALSE) \/ (r = rx /\ conn[k].type = "WF"),
         UNCHANGED sock
  PROVE  ChannelInv'
<1>0. conn[k].rx \in Chans /\ rx \in [Chans -> Chan] /\ conn \in [Conns -> Conn]
  BY ChannelFacts
<1>1. StaysWithout(rx, r, conn[k].rx, conn[k].type)
  BY <1>0, DisabledFields
<1>2. /\ conn[o] \in Conn /\ f[o] = [conn[o] EXCEPT !.stop_data = TRUE]
      /\ \A j \in Conns \ {o} : f[j] = conn[j]
  BY <1>0
<1>3. f[o].stop_data /\ SameButStop(conn[o], f[o])
  BY <1>2 DEF SameButStop, Conn
<1>4. /\ g[k] = Blank
      /\ \A j \in Conns \ {k} : SameButKick(f[j], g[j])
  BY RemovedFields
<1>5. \A j \in Conns : SameButStop(conn[j], f[j])
  BY <1>2, <1>3 DEF SameButStop
<1>6. /\ \A j \in Conns \ {k} : SameButStop(conn[j], g[j])
      /\ \A j \in Conns \ {k, o} : g[j].stop_data = conn[j].stop_data
      /\ g[o].stop_data
  <2>1. ASSUME NEW j \in Conns \ {k}
        PROVE  SameButStop(conn[j], g[j]) /\ g[j].stop_data = f[j].stop_data
    <3>1. SameButKick(f[j], g[j]) /\ SameButStop(conn[j], f[j])
      BY <1>4, <1>5
    <3> QED
      BY <3>1 DEF SameButStop, SameButKick
  <2>2. \A j \in Conns \ {k, o} : g[j].stop_data = conn[j].stop_data
    BY <1>2, <2>1, Zenon
  <2>3. g[o].stop_data
    BY <1>3, <2>1
  <2> QED
    BY <2>1, <2>2, <2>3
<1> QED
  BY <1>1, <1>4, <1>6, BlankIs, OneLeaves

(* The first stream of a session takes a channel that is not busy.         *)
LEMMA NewFirst ==
  ASSUME TableInv, ChannelInv, NEW k \in Conns, ~Streams(k), NEW ch \in Chans, ~rx[ch].busy,
         Streams(k)', conn'[k].rx = ch, ~conn'[k].stop_data,
         \A j \in Conns \ {k} : SameStream(conn[j], conn'[j]),
         \A c \in Chans \ {ch} : rx'[c] = rx[c],
         rx'[ch].busy, rx'[ch].chan_enabled = rx[ch].chan_enabled,
         conn'[k].type = "SND" => rx'[ch].conn = k,
         \A m \in Mc : sock'[m] = "new" => sock[m] = "new"
  PROVE  ChannelInv'
<1>1. \A j \in Conns \ {k} : /\ conn'[j].type = conn[j].type /\ conn'[j].stop_data = conn[j].stop_data
           /\ conn'[j].rx = conn[j].rx /\ conn'[j].ts = conn[j].ts
           /\ conn'[j].other = conn[j].other /\ conn'[j].valid = conn[j].valid
  BY DEF SameStream
<1>2. \A j \in Conns : Streams(j)' <=> Streams(j) \/ j = k
  BY <1>1 DEF Streams
<1>3. \A j \in Conns : Streams(j) => conn[j].rx # ch
  BY ChannelFacts
<1>4. BusyIffUsed'
  <2>1. \A j \in Conns : Streams(j)' => conn'[j].rx # None
    BY <1>1, <1>2, ChannelFacts
  <2>2. ASSUME NEW c \in Chans
        PROVE  rx'[c].busy <=> \E j \in Conns : Streams(j)' /\ conn'[j].rx = c
    <3>1. rx[c].busy <=> \E j \in Conns : Streams(j) /\ conn[j].rx = c
      BY DEF ChannelInv, BusyIffUsed
    <3> QED
      BY <1>1, <1>2, <3>1
  <2> QED
    BY <2>1, <2>2 DEF BusyIffUsed
<1>5. OneSessionPerChannel' /\ StreamsDiffer'
  BY <1>1, <1>2, <1>3 DEF ChannelInv, OneSessionPerChannel, StreamsDiffer
<1>6. SoundOwns'
  BY <1>1, <1>2, <1>3, ChannelFacts DEF ChannelInv, SoundOwns
<1>7. DataPumpAssertion'
  <2> SUFFICES ASSUME NEW c \in Chans, rx'[c].chan_enabled
               PROVE  /\ rx'[c].conn # None
                      /\ LET d == conn'[rx'[c].conn] IN d.valid /\ d.type = "SND" /\ d.rx = c
    BY DEF DataPumpAssertion
  <2>1. rx[c].chan_enabled
    OBVIOUS
  <2>2. /\ rx[c].conn # None /\ rx[c].conn \in Conns
        /\ conn[rx[c].conn].valid /\ conn[rx[c].conn].type = "SND" /\ conn[rx[c].conn].rx = c
    BY <2>1, PumpFacts
  <2>3. Streams(rx[c].conn) /\ c # ch /\ rx[c].conn # k
    BY <1>3, <2>2 DEF Streams
  <2> QED
    BY <1>1, <2>2, <2>3
<1>8. StreamsLinked'
  <2>1. LinkedTo
    BY LinkedAre DEF ChannelInv
  <2>2. LinkedTo'
    BY <1>1, <1>2, <1>3, <2>1 DEF LinkedTo
  <2> QED
    BY <2>2, LinkedAre
<1>9. StoppedAlone'
  BY <1>1, <1>2, <1>3, ChannelFacts DEF ChannelInv, StoppedAlone
<1> QED
  BY <1>4, <1>5, <1>6, <1>7, <1>8, <1>9 DEF ChannelInv

(* The second stream joins the first one, which is alone on its channel.   *)
LEMMA NewSecond ==
  ASSUME TableInv, ChannelInv, NEW k \in Conns, ~Streams(k), NEW o \in Conns, Streams(o),
         \A j \in Conns : Streams(j) /\ conn[j].rx = conn[o].rx => j = o, ~conn[o].stop_data,
         Streams(k)', conn'[k].rx = conn[o].rx, conn'[k].ts = conn[o].ts,
         conn'[k].type # conn[o].type, conn'[k].other = o, ~conn'[k].stop_data,
         \A j \in Conns \ {k, o} : SameStream(conn[j], conn'[j]),
         /\ conn'[o].valid = conn[o].valid /\ conn'[o].type = conn[o].type
         /\ conn'[o].rx = conn[o].rx /\ conn'[o].ts = conn[o].ts
         /\ conn'[o].other = k /\ conn'[o].stop_data = conn[o].stop_data,
         \A c \in Chans : c # conn[o].rx => rx'[c] = rx[c],
         rx'[conn[o].rx].busy = rx[conn[o].rx].busy,
         rx'[conn[o].rx].chan_enabled = rx[conn[o].rx].chan_enabled,
         rx'[conn[o].rx].conn = IF conn'[k].type = "SND" \/ rx[conn[o].rx].conn = None
                                THEN k ELSE rx[conn[o].rx].conn,
         \A m \in Mc : sock'[m] = "new" => sock[m] = "new"
  PROVE  ChannelInv'
<1> DEFINE ch == conn[o].rx
<1>0. ch \in Chans /\ o # k /\ rx[ch].busy
  BY ChannelFacts
<1>1. \A j \in Conns \ {k} : /\ conn'[j].type = conn[j].type /\ conn'[j].stop_data = conn[j].stop_data
           /\ conn'[j].rx = conn[j].rx /\ conn'[j].ts = conn[j].ts
           /\ (j # o => conn'[j].other = conn[j].other) /\ conn'[j].valid = conn[j].valid
  BY DEF SameStream
<1>2. \A j \in Conns : Streams(j)' <=> Streams(j) \/ j = k
  BY <1>1 DEF Streams
<1>3. /\ \A j \in Conns : Streams(j) /\ conn[j].rx = ch => j = o
      /\ conn'[k].rx = ch /\ \A c \in Chans \ {ch} : rx'[c] = rx[c]
      /\ rx'[ch].busy = rx[ch].busy /\ rx'[ch].chan_enabled = rx[ch].chan_enabled
      /\ rx'[ch].conn = IF conn'[k].type = "SND" \/ rx[ch].conn = None THEN k ELSE rx[ch].conn
  OBVIOUS
<1>4. conn[o].rx = ch
  OBVIOUS
<1> HIDE DEF ch
<1>5. BusyIffUsed'
  <2>1. \A j \in Conns : Streams(j)' => conn'[j].rx # None
    BY <1>0, <1>1, <1>2, <1>3, ChannelFacts
  <2>2. ASSUME NEW c \in Chans
        PROVE  rx'[c].busy <=> \E j \in Conns : Streams(j)' /\ conn'[j].rx = c
    <3>1. rx[c].busy <=> \E j \in Conns : Streams(j) /\ conn[j].rx = c
      BY DEF ChannelInv, BusyIffUsed
    <3>2. CASE c = ch
      BY <1>0, <1>2, <1>3, <3>2
    <3>3. CASE c # ch
      BY <1>1, <1>2, <1>3, <3>1, <3>3
    <3> QED
      BY <3>2, <3>3
  <2> QED
    BY <2>1, <2>2 DEF BusyIffUsed
<1>6. OneSessionPerChannel' /\ StreamsDiffer'
  <2>1. \A i, j \in Conns : /\ Streams(i)' /\ Streams(j)' /\ conn'[i].rx = conn'[j].rx
          => conn'[i].ts = conn'[j].ts /\ (i # j => conn'[i].type # conn'[j].type)
    <3> SUFFICES ASSUME NEW i \in Conns, NEW j \in Conns,
                        Streams(i)', Streams(j)', conn'[i].rx = conn'[j].rx, i # j
                 PROVE  conn'[i].ts = conn'[j].ts /\ conn'[i].type # conn'[j].type
      OBVIOUS
    <3>1. CASE i = k
      BY <1>1, <1>2, <1>3, <3>1
    <3>2. CASE j = k
      BY <1>1, <1>2, <1>3, <3>2
    <3>3. CASE i # k /\ j # k
      BY <1>1, <1>2, <3>3, ChannelFacts
    <3> QED
      BY <3>1, <3>2, <3>3
  <2> QED
    BY <2>1 DEF OneSessionPerChannel, StreamsDiffer
<1>7. SoundOwns'
  <2> SUFFICES ASSUME NEW j \in Conns, Streams(j)', conn'[j].type = "SND"
               PROVE  rx'[conn'[j].rx].conn = j
    BY DEF SoundOwns
  <2>1. CASE j = k
    BY <1>3, <2>1
  <2>2. CASE j # k
    <3>1. Streams(j) /\ rx[conn[j].rx].conn = j /\ conn'[j].rx = conn[j].rx /\ conn[j].rx \in Chans
      BY <1>1, <1>2, <2>2, ChannelFacts DEF ChannelInv, SoundOwns
    <3>2. CASE conn[j].rx = ch
      <4>1. j = o
        BY <1>3, <2>1, <2>2, <3>1, <3>2
      <4>2. conn[o].type = "SND"
        BY <1>1, <2>1, <2>2, <4>1
      <4>3. rx[ch].conn = o /\ o # None
        BY <3>1, <3>2, <4>1, ChannelFacts
      <4>4. j = o /\ conn[o].type = "SND" /\ conn'[k].type # "SND" /\ rx[ch].conn # None
        BY <4>1, <4>2, <4>3
      <4> QED
        BY <1>3, <3>1, <3>2, <4>4
    <3>3. CASE conn[j].rx # ch
      BY <1>3, <3>1, <3>3
    <3> QED
      BY <3>2, <3>3
  <2> QED
    BY <2>1, <2>2
<1>8. DataPumpAssertion'
  <2> SUFFICES ASSUME NEW c \in Chans, rx'[c].chan_enabled
               PROVE  /\ rx'[c].conn # None
                      /\ LET d == conn'[rx'[c].conn] IN d.valid /\ d.type = "SND" /\ d.rx = c
    BY DEF DataPumpAssertion
  <2>1. rx[c].chan_enabled
    BY <1>3
  <2>2. /\ rx[c].conn # None /\ rx[c].conn \in Conns
        /\ conn[rx[c].conn].valid /\ conn[rx[c].conn].type = "SND" /\ conn[rx[c].conn].rx = c
    BY <2>1, PumpFacts
  <2>3. Streams(rx[c].conn) /\ rx[c].conn # k
    BY <2>2 DEF Streams
  <2>4. rx'[c].conn = rx[c].conn
    BY <1>3, <1>4, <2>2, <2>3
  <2> QED
    BY <1>1, <2>2, <2>3, <2>4
<1>9. StreamsLinked'
  <2>1. LinkedTo
    BY LinkedAre DEF ChannelInv
  <2>2. LinkedTo'
    <3> SUFFICES ASSUME NEW i \in Conns, NEW j \in Conns,
                        Streams(i)', Streams(j)', i # j, conn'[i].rx = conn'[j].rx
                 PROVE  conn'[i].other = j \/ conn'[i].stop_data
      BY DEF LinkedTo
    <3>1. CASE i = k
      BY <1>1, <1>2, <1>3, <3>1
    <3>2. CASE j = k
      BY <1>1, <1>2, <1>3, <3>2
    <3>3. CASE i # k /\ j # k
      <4>1. Streams(i) /\ Streams(j) /\ conn[i].rx = conn[j].rx
        BY <1>1, <1>2, <3>3
      <4>2. i # o
        BY <1>3, <1>4, <4>1
      <4> QED
        BY <1>1, <2>1, <3>3, <4>1, <4>2 DEF LinkedTo
    <3> QED
      BY <3>1, <3>2, <3>3
  <2> QED
    BY <2>2, LinkedAre
<1>10. StoppedAlone'
  <2> SUFFICES ASSUME NEW j \in Conns, conn'[j].stop_data
               PROVE  /\ \A i \in Conns : Streams(i)' /\ conn'[i].rx = conn'[j].rx => i = j
                      /\ \A type \in {"SND", "WF"} :
                           <<conn'[j].ts, type>> \in Mc => sock'[<<conn'[j].ts, type>>] # "new"
    BY DEF StoppedAlone
  <2>1. j # k /\ j # o /\ conn[j].stop_data /\ Streams(j) /\ conn[j].rx # ch
    BY <1>1, <1>3, ChannelFacts
  <2> QED
    BY <1>1, <1>2, <1>3, <2>1 DEF ChannelInv, StoppedAlone
<1> QED
  BY <1>5, <1>6, <1>7, <1>8, <1>9, <1>10 DEF ChannelInv

SameUser(c, d) == d.busy = c.busy /\ d.conn = c.conn

(* A sound connection enables its channel.                                 *)
LEMMA SoundStarts ==
  ASSUME TableInv, ChannelInv, TableInv', NEW k \in Conns, Streams(k), conn[k].type = "SND",
         \A j \in Conns : SameStream(conn[j], conn'[j]), UNCHANGED sock,
         NEW r \in [Chans -> Chan], rx' = r,
         \A c \in Chans : SameUser(rx[c], r[c]) /\ (c # conn[k].rx => r[c] = rx[c])
  PROVE  ChannelInv'
<1>1. \A j \in Conns : /\ conn'[j].type = conn[j].type /\ conn'[j].stop_data = conn[j].stop_data
           /\ conn'[j].rx = conn[j].rx /\ conn'[j].ts = conn[j].ts
           /\ conn'[j].other = conn[j].other /\ conn'[j].valid = conn[j].valid
  BY DEF SameStream
<1>2. \A j \in Conns : Streams(j)' <=> Streams(j)
  BY <1>1 DEF Streams
<1>3. \A c \in Chans : /\ rx'[c].busy = rx[c].busy /\ rx'[c].conn = rx[c].conn
                       /\ c # conn[k].rx => rx'[c] = rx[c]
  BY DEF SameUser
<1>4. BusyIffUsed'
  BY <1>1, <1>2, <1>3 DEF ChannelInv, BusyIffUsed
<1>5. OneSessionPerChannel' /\ StreamsDiffer'
  BY <1>1, <1>2 DEF ChannelInv, OneSessionPerChannel, StreamsDiffer
<1>6. SoundOwns'
  BY <1>1, <1>2, <1>3, ChannelFacts DEF ChannelInv, SoundOwns
<1>7. DataPumpAssertion'
  <2> SUFFICES ASSUME NEW c \in Chans, rx'[c].chan_enabled
               PROVE  /\ rx'[c].conn # None
                      /\ LET d == conn'[rx'[c].conn] IN d.valid /\ d.type = "SND" /\ d.rx = c
    BY DEF DataPumpAssertion
  <2>1. CASE c = conn[k].rx
    <3>1. rx[c].conn = k /\ k # None
      BY <2>1, ChannelFacts DEF ChannelInv, SoundOwns
    <3> QED
      BY <1>1, <1>3, <2>1, <3>1 DEF Streams
  <2>2. CASE c # conn[k].rx
    <3>1. rx[c].chan_enabled /\ rx'[c].conn = rx[c].conn
      BY <1>3, <2>2
    <3> QED
      BY <1>1, <3>1, PumpFacts
  <2> QED
    BY <2>1, <2>2
<1>8. StreamsLinked'
  <2>1. LinkedTo
    BY LinkedAre DEF ChannelInv
  <2>2. LinkedTo'
    BY <1>1, <1>2, <2>1 DEF LinkedTo
  <2> QED
    BY <2>2, LinkedAre
<1>9. StoppedAlone'
  BY <1>1, <1>2 DEF ChannelInv, StoppedAlone
<1> QED
  BY <1>4, <1>5, <1>6, <1>7, <1>8, <1>9 DEF ChannelInv

(* A slot without a stream is filled in, cleared or freed.                 *)
LEMMA OutsideChannels ==
  ASSUME TableInv, ChannelInv, TableInv', UNCHANGED rx, NEW k \in Conns, ~Streams(k), ~Streams(k)',
         \A j \in Conns \ {k} : SameStream(conn[j], conn'[j]),
         \A m \in Mc : sock'[m] = "new" => sock[m] = "new"
  PROVE  ChannelInv'
<1>1. \A j \in Conns : Streams(j) \/ Streams(j)' => SameStream(conn[j], conn'[j])
  OBVIOUS
<1>2. \A m \in Mc : sock'[m] = "new" => sock[m] = "new"
  OBVIOUS
<1> QED
  BY <1>1, <1>2, SameChannels

LEMMA SameIsSame == \A c : SameStream(c, c)
BY DEF SameStream

(* An allocation, as long as the allocator only evicts autoruns.           *)
LEMMA ChannelAllocates ==
  ASSUME Yields = {}, ~TasksRunOut, VictimsUseAutorun, TableInv, ChannelInv, TableInv',
         NEW a \in Allocator, Allocates(a)
  PROVE  ChannelInv'
<1> DEFINE m == alloc[a].mc
<1>k. PICK k \in Conns \cup {None} : k = FreeConn(a)
  BY ScanFacts, TableFacts
<1>0. /\ conn \in [Conns -> Conn] /\ rx \in [Chans -> Chan] /\ None \notin Conns /\ None \notin Chans
      /\ m \in Mc /\ m = <<m[1], m[2]>> /\ m[2] \in Stream /\ sock[m] = "new"
      /\ k # None => k \in Conns /\ ~Streams(k)
  BY <1>k, AllocFacts, TableFacts, TypeFacts DEF Streams
<1>1. ASSUME ReturnsNull(a) \/ \E chans : Succeeds(a, chans)
      PROVE  \A w \in Mc : sock'[w] = "new" => sock[w] = "new"
  BY <1>1, EndedAllocs
<1>2. ASSUME NEW e \in Conns, Streams(e),
             \A j \in Conns : Streams(j) /\ conn[j].rx = conn[e].rx => j = e,
             RemoveOther(e), rx' = Freed(rx, conn[e].rx), UNCHANGED sock
      PROVE  ChannelInv'
  BY <1>2, LastLeaves DEF RemoveOther
<1>3. ASSUME k # None, UNCHANGED rx, ReturnsNull(a) \/ \E chans : Succeeds(a, chans),
             NEW c, conn' = [conn EXCEPT ![k] = c], ~c.valid \/ c.type \notin {"SND", "WF"}
      PROVE  ChannelInv'
  <2>1. /\ conn'[k] = c /\ \A j \in Conns \ {k} : conn'[j] = conn[j]
        /\ k \in Conns /\ ~Streams(k)
    BY <1>0, <1>3
  <2>2. \A w \in Mc : sock'[w] = "new" => sock[w] = "new"
    BY <1>1, <1>3
  <2>3. ~Streams(k)' /\ \A j \in Conns \ {k} : SameStream(conn[j], conn'[j])
    BY <1>3, <2>1, SameIsSame DEF Streams
  <2> QED
    BY <1>3, <2>1, <2>2, <2>3, OutsideChannels
<1>4. CASE Refuse(a)
  <2>1. UNCHANGED <<conn, rx>> /\ ReturnsNull(a)
    BY <1>4 DEF Refuse
  <2>2. \A w \in Mc : sock'[w] = "new" => sock[w] = "new"
    BY <1>1, <2>1
  <2> QED
    BY <2>1, <2>2, SameIsSame, SameChannels
<1>5. CASE Cull(a)
  <2>1. PICK e \in Conns : /\ Stuck(e) /\ RemoveOther(e) /\ rx' = Freed(rx, conn[e].rx)
                           /\ UNCHANGED sock
    <3>1. ScanEnd(a) \in Conns /\ Stuck(ScanEnd(a))
      BY <1>5, ScanFacts, TableFacts DEF Cull, ToCull
    <3>2. RemoveOther(ScanEnd(a)) /\ rx' = Freed(rx, conn[ScanEnd(a)].rx) /\ UNCHANGED sock
      BY <1>5, NoWaits DEF Cull
    <3> QED
      BY <3>1, <3>2
  <2>2. Streams(e) /\ \A j \in Conns : Streams(j) /\ conn[j].rx = conn[e].rx => j = e
    BY <2>1, ChannelFacts DEF Stuck, ChannelInv, StoppedAlone
  <2> QED
    BY <1>2, <2>1, <2>2
<1>6. CASE Evict(a)
  <2>1. PICK v \in Victims : RemoveOther(rx[v].conn) /\ rx' = Freed(rx, v) /\ UNCHANGED sock
    BY <1>6, NoWaits DEF Evict
  <2>2. v \in Chans /\ rx[v].busy
    BY DEF Victims
  <2>3. PICK e \in Conns : Streams(e) /\ conn[e].rx = v
    BY <2>2 DEF ChannelInv, BusyIffUsed
  <2>4. \A j \in Conns : Streams(j) /\ conn[j].rx = v => conn[j].type = "SND"
    BY TableFacts DEF VictimsUseAutorun, SlotsInv, SlotOK
  <2>5. rx[v].conn = e
    BY <2>3, <2>4 DEF ChannelInv, SoundOwns
  <2>6. \A j \in Conns : Streams(j) /\ conn[j].rx = v => j = e
    BY <2>3, <2>4 DEF ChannelInv, StreamsDiffer
  <2> QED
    BY <1>2, <2>1, <2>3, <2>5, <2>6
<1>7. CASE TurnAway(a)
  <2>1. /\ k # None /\ ReturnsNull(a) /\ conn' = [conn EXCEPT ![k] = Blank] /\ UNCHANGED rx
    BY <1>k, <1>7 DEF TurnAway, HasSlot
  <2> QED
    BY <1>3, <2>1, BlankIs
<1>8. CASE NoSound(a)
  <2> DEFINE c == [Blank EXCEPT !.type = "EXT", !.other = Other(a)]
  <2>1. k # None /\ ReturnsNull(a) /\ conn' = [conn EXCEPT ![k] = c] /\ UNCHANGED rx
    BY <1>k, <1>8 DEF NoSound, HasSlot
  <2>2. ~c.valid
    BY DEF Blank
  <2> HIDE DEF c
  <2> QED
    BY <1>3, <2>1, <2>2
<1>9. CASE Extension(a)
  <2> DEFINE ch == conn[Other(a)].rx
             c == NewConn(a, "EXT", ch)
  <2>1. /\ k # None /\ Succeeds(a, rx) /\ conn' = [conn EXCEPT ![k] = c]
        /\ ch \in Chans \cup {None}
    BY <1>k, <1>0, <1>9, ScanFacts, TableFacts DEF Extension, HasSlot, Fails, Conn
  <2>2. c.type = "EXT"
    <3> HIDE DEF ch
    <3> QED
      BY <2>1, AllocFacts, NewConnFields, TableFacts DEF Stream
  <2> HIDE DEF c
  <2> QED
    BY <1>3, <2>1, <2>2 DEF Succeeds
<1>10. CASE Monitor(a)
  <2> DEFINE c == NewConn(a, "MON", None)
  <2>1. k # None /\ Succeeds(a, rx) /\ conn' = [conn EXCEPT ![k] = c]
    BY <1>k, <1>10 DEF Monitor, HasSlot, Fails
  <2>2. c.type = "MON"
    BY AllocFacts, NewConnFields, TableFacts
  <2> HIDE DEF c
  <2> QED
    BY <1>3, <2>1, <2>2 DEF Succeeds
<1>11. CASE FirstStream(a)
  <2>1. PICK ch \in Chans :
          /\ ~rx[ch].busy /\ Succeeds(a, Owned([rx EXCEPT ![ch].busy = TRUE], ch, m[2], k))
          /\ conn' = [conn EXCEPT ![k] = NewConn(a, m[2], ch)]
    BY <1>k, <1>11, FreeChanFacts DEF FirstStream, Fails
  <2>2. k \in Conns /\ ~Streams(k) /\ m[2] \in {"SND", "WF"}
    BY <1>k, <1>0, <1>11 DEF FirstStream, HasSlot
  <2> DEFINE c == NewConn(a, m[2], ch)
             f == [rx EXCEPT ![ch].busy = TRUE]
  <2>3. c.valid /\ c.type = m[2] /\ c.rx = ch /\ ~c.stop_data
    BY <1>0, AllocFacts, NewConnFields, TableFacts
  <2>4. /\ f \in [Chans -> Chan] /\ f[ch].busy /\ f[ch].chan_enabled = rx[ch].chan_enabled
        /\ \A d \in Chans \ {ch} : f[d] = rx[d]
    BY <1>0 DEF Chan
  <2>5. rx' = Owned(f, ch, m[2], k)
    BY <2>1 DEF Succeeds
  <2>6. \A w \in Mc : sock'[w] = "new" => sock[w] = "new"
    BY <1>1, <2>1
  <2>7. conn'[k] = c /\ \A j \in Conns \ {k} : conn'[j] = conn[j]
    BY <1>0, <2>1, <2>2
  <2> HIDE DEF m, c, f
  <2>8. /\ \A d \in Chans \ {ch} : rx'[d] = rx[d]
        /\ rx'[ch].busy /\ rx'[ch].chan_enabled = rx[ch].chan_enabled
        /\ m[2] = "SND" => rx'[ch].conn = k
    BY <2>2, <2>4, <2>5, OwnedFields
  <2>9. Streams(k)' /\ \A j \in Conns \ {k} : SameStream(conn[j], conn'[j])
    BY <2>2, <2>3, <2>7, SameIsSame DEF Streams
  <2> QED
    BY <2>1, <2>2, <2>3, <2>6, <2>7, <2>8, <2>9, NewFirst
<1>12. CASE SecondStream(a)
  <2> DEFINE o == Other(a)
             ch == conn[o].rx
             c == NewConn(a, m[2], ch)
  <2>1. /\ k \in Conns /\ ~Streams(k) /\ o \in Conns /\ m[2] \in {"SND", "WF"}
        /\ o \in Others(a) /\ conn[o].type # "MON"
    BY <1>k, <1>0, <1>12, ScanFacts, TableFacts DEF SecondStream, HasSlot
  <2>2. /\ Streams(o) /\ conn[o].type # m[2] /\ conn[o].ts = m[1]
    BY <2>1, AllocFacts DEF LinkedTypes, Streams
  <2>3. ch \in Chans /\ ch # None
    BY <1>0, <2>1, <2>2, ChannelFacts
  <2>4. \A j \in Conns : Streams(j) /\ conn[j].rx = ch => j = o
    <3> SUFFICES ASSUME NEW j \in Conns, Streams(j), conn[j].rx = ch, j # o PROVE FALSE
      OBVIOUS
    <3>1. /\ conn[j].ts = m[1] /\ conn[j].type # conn[o].type
          /\ conn[j].type \in {"SND", "WF"} /\ conn[o].type \in {"SND", "WF"}
          /\ sock[<<conn[j].ts, conn[j].type>>] # "new"
      BY <2>1, <2>2, ChannelFacts
    <3>2. conn[j].type = m[2]
      BY <2>1, <2>2, <3>1
    <3> HIDE DEF m
    <3> QED
      BY <1>0, <3>1, <3>2
  <2>5. ~conn[o].stop_data
    <3>1. PICK w \in Mc : w = m /\ w = <<conn[o].ts, m[2]>> /\ sock[w] = "new"
      BY <1>0, <2>2
    <3> QED
      BY <2>1, <3>1 DEF ChannelInv, StoppedAlone
  <2>6. /\ Succeeds(a, Owned(rx, ch, m[2], k))
        /\ conn' = [[conn EXCEPT ![o].other = k] EXCEPT ![k] = c]
    BY <1>k, <1>12, <2>3 DEF SecondStream, Fails, Linked
  <2>7. c.valid /\ c.type = m[2] /\ c.rx = ch /\ ~c.stop_data /\ c.ts = m[1] /\ c.other = o
    <3> HIDE DEF ch
    <3> QED
      BY <1>0, <2>3, AllocFacts, NewConnFields, TableFacts
  <2>8. rx' = Owned(rx, ch, m[2], k)
    BY <2>6 DEF Succeeds
  <2>9. \A w \in Mc : sock'[w] = "new" => sock[w] = "new"
    BY <1>1, <2>6
  <2>10. conn[o].rx = ch
    OBVIOUS
  <2> HIDE DEF m, o, c, ch
  <2>11. /\ conn'[k] = c /\ \A j \in Conns \ {k, o} : conn'[j] = conn[j]
         /\ conn'[o] = [conn[o] EXCEPT !.other = k] /\ o # k
    BY <1>0, <2>1, <2>2, <2>6
  <2>12. /\ conn'[o].valid = conn[o].valid /\ conn'[o].type = conn[o].type
         /\ conn'[o].rx = conn[o].rx /\ conn'[o].ts = conn[o].ts
         /\ conn'[o].other = k /\ conn'[o].stop_data = conn[o].stop_data
    BY <1>0, <2>1, <2>11 DEF Conn
  <2>13. Streams(k)' /\ \A j \in Conns \ {k, o} : SameStream(conn[j], conn'[j])
    BY <2>1, <2>7, <2>11, SameIsSame DEF Streams
  <2>14. /\ \A d \in Chans : d # ch => rx'[d] = rx[d]
         /\ rx'[ch].busy = rx[ch].busy /\ rx'[ch].chan_enabled = rx[ch].chan_enabled
         /\ rx'[ch].conn = IF m[2] = "SND" \/ rx[ch].conn = None THEN k ELSE rx[ch].conn
    BY <1>0, <2>1, <2>3, <2>8, OwnedFields
  <2>15. /\ conn'[k].rx = conn[o].rx /\ conn'[k].ts = conn[o].ts /\ conn'[k].type = m[2]
         /\ conn'[k].type # conn[o].type /\ conn'[k].other = o /\ ~conn'[k].stop_data
    BY <2>2, <2>7, <2>10, <2>11
  <2> QED
    BY <2>1, <2>2, <2>4, <2>5, <2>9, <2>10, <2>12, <2>13, <2>14, <2>15, NewSecond
<1> QED
  BY <1>4, <1>5, <1>6, <1>7, <1>8, <1>9, <1>10, <1>11, <1>12, AllocFacts, Zenon DEF Allocates

(* rx_enable() with RX_DATA_ENABLE and RX_DATA_DISABLE.                    *)
LEMMA SwitchedFields ==
  ASSUME NEW f \in [Chans -> Chan], NEW ch \in Chans
  PROVE  /\ Enabled(f, ch, FALSE) \in [Chans -> Chan]
         /\ Enabled(f, ch, TRUE) \in [Chans -> Chan]
         /\ \A c \in Chans : SameUser(f[c], Enabled(f, ch, TRUE)[c])
         /\ \A c \in Chans \ {ch} : Enabled(f, ch, TRUE)[c] = f[c]
<1>1. f[ch] \in Chan /\ \A c \in Chans : f[c] \in Chan
  OBVIOUS
<1> QED
  BY <1>1 DEF Enabled, Chan, SameUser

(* A stream ends.                                                          *)
LEMMA StreamEnds ==
  ASSUME Yields = {}, TableInv, ChannelInv, TableInv',
         NEW k \in Conns, Stop(k) \/ SoundEnds(k) \/ WaterfallEnds(k)
  PROVE  ChannelInv'
<1>0. /\ Streams(k) /\ conn[k].rx \in Chans /\ conn[k].rx # None
      /\ conn \in [Conns -> Conn] /\ rx \in [Chans -> Chan]
  BY ChannelFacts DEF Stop, SoundEnds, WaterfallEnds, InLoop, Task, Streams
<1>1. ASSUME \A j \in Conns : Streams(j) /\ conn[j].rx = conn[k].rx => j = k,
             Leaves(k, Freed(rx, conn[k].rx), conn)
      PROVE  ChannelInv'
  <2>1. conn' = Removed(conn, k) /\ rx' = Freed(rx, conn[k].rx) /\ UNCHANGED sock
    BY <1>1, NoWaits DEF Leaves
  <2> QED
    BY <1>0, <1>1, <2>1, LastLeaves
<1>2. ASSUME NEW type \in {"SND", "WF"}, conn[k].type # type, ~conn[k].stop_data,
             ConnOther(k, type) = None
      PROVE  \A j \in Conns : Streams(j) /\ conn[j].rx = conn[k].rx => j = k
  <2> SUFFICES ASSUME NEW j \in Conns, Streams(j), conn[j].rx = conn[k].rx, j # k PROVE FALSE
    OBVIOUS
  <2>1. conn[k].other = j /\ conn[k].type # conn[j].type
    BY <1>0, <1>2, ChannelFacts
  <2>2. conn[j].type = type
    BY <1>0, <1>2, <2>1 DEF Streams
  <2>3. ConnOther(k, type) = j
    BY <2>1, <2>2, ChannelFacts DEF ConnOther
  <2> QED
    BY <1>2, <2>3, ChannelFacts
<1>3. ASSUME NEW type \in {"SND", "WF"}, conn[k].type # type, NEW chans,
             chans = Enabled(rx, conn[k].rx, FALSE) \/ (chans = rx /\ conn[k].type = "WF"),
             ConnOther(k, type) # None,
             Leaves(k, chans, [conn EXCEPT ![ConnOther(k, type)].stop_data = TRUE])
      PROVE  ChannelInv'
  <2>1. PICK o \in Conns : /\ o = ConnOther(k, type) /\ conn[o].type = type
                           /\ conn[o].rx = conn[k].rx
    BY <1>0, <1>3 DEF ConnOther, Conn
  <2>2. Streams(o) /\ o # k
    BY <1>3, <2>1, ChannelFacts
  <2>3. PICK f \in [Conns -> Conn] : f = [conn EXCEPT ![o].stop_data = TRUE]
    BY <1>0, ConnUpdates
  <2>4. PICK g \in [Conns -> Conn] : g = Removed(f, k)
    BY RemovedFields
  <2>5. /\ conn' = g /\ rx' = chans /\ UNCHANGED sock
    BY <1>3, <2>1, <2>3, <2>4, NoWaits DEF Leaves
  <2>6. chans \in [Chans -> Chan]
    <3>1. PICK ch \in Chans : ch = conn[k].rx
      BY <1>0
    <3>2. Enabled(rx, ch, FALSE) \in [Chans -> Chan]
      BY <1>0, SwitchedFields
    <3>3. chans = Enabled(rx, ch, FALSE) \/ chans = rx
      BY <1>3, <3>1
    <3> QED
      BY <1>0, <3>2, <3>3
  <2> QED
    BY <1>0, <1>3, <2>1, <2>2, <2>3, <2>4, <2>5, <2>6, FirstLeaves
<1>4. CASE Stop(k)
  <2>1. conn[k].stop_data /\ Leaves(k, Freed(rx, conn[k].rx), conn)
    BY <1>4 DEF Stop
  <2>2. \A j \in Conns : Streams(j) /\ conn[j].rx = conn[k].rx => j = k
    BY <2>1 DEF ChannelInv, StoppedAlone
  <2> QED
    BY <1>1, <2>1, <2>2
<1>5. CASE SoundEnds(k)
  <2>1. conn[k].type # "WF" /\ ~conn[k].stop_data
    BY <1>5 DEF SoundEnds, InLoop, Task
  <2>2. CASE ConnOther(k, "WF") = None
    <3>1. Leaves(k, Freed(rx, conn[k].rx), conn)
      BY <1>5, <2>2 DEF SoundEnds
    <3> QED
      BY <1>1, <1>2, <2>1, <2>2, <3>1
  <2>3. CASE ConnOther(k, "WF") # None
    <3>1. Leaves(k, Enabled(rx, conn[k].rx, FALSE), [conn EXCEPT ![ConnOther(k, "WF")].stop_data = TRUE])
      BY <1>0, <1>5, <2>3, Zenon DEF SoundEnds
    <3> QED
      BY <1>3, <2>1, <2>3, <3>1
  <2> QED
    BY <2>2, <2>3
<1>6. CASE WaterfallEnds(k)
  <2>1. conn[k].type = "WF" /\ ~conn[k].stop_data
    BY <1>6 DEF WaterfallEnds, InLoop, Task
  <2>2. CASE ConnOther(k, "SND") = None
    <3>1. Leaves(k, Freed(rx, conn[k].rx), conn)
      BY <1>6, <2>2 DEF WaterfallEnds
    <3> QED
      BY <1>1, <1>2, <2>1, <2>2, <3>1
  <2>3. CASE ConnOther(k, "SND") # None
    <3>1. Leaves(k, rx, [conn EXCEPT ![ConnOther(k, "SND")].stop_data = TRUE])
      BY <1>6, <2>3, Zenon DEF WaterfallEnds
    <3> QED
      BY <1>3, <2>1, <2>3, <3>1
  <2> QED
    BY <2>2, <2>3
<1> QED
  BY <1>4, <1>5, <1>6

(* Whatever else websockets and connections do.                            *)
LEMMA ChannelOthers ==
  ASSUME Yields = {}, TableInv, ChannelInv, TableInv', OthersRun,
         \/ \E m \in Mc : Connect(m) \/ Close(m)
         \/ \E s \in Session : Return(s)
         \/ \E k \in Conns : Kick(k) \/ ConnTask(k)
  PROVE  ChannelInv'
<1>0. /\ conn \in [Conns -> Conn] /\ sock \in [Mc -> {"new", "open", "closed"}]
      /\ rx \in [Chans -> Chan]
      /\ \A k \in Conns : conn[k].pc \in {"none", "new", "loop"}
  BY TableFacts, TypeFacts DEF SlotsInv, SlotOK
<1>1. ASSUME UNCHANGED <<rx, sock>>, \A k \in Conns : SameStream(conn[k], conn'[k])
      PROVE  ChannelInv'
  BY <1>1, SameChannels
<1>2. ASSUME NEW m \in Mc, Connect(m) PROVE ChannelInv'
  BY <1>1, <1>2, SameIsSame DEF Connect
<1>3. ASSUME NEW m \in Mc, Close(m) PROVE ChannelInv'
  <2>1. /\ sock' = [sock EXCEPT ![m] = "closed"] /\ UNCHANGED rx
        /\ conn' = [k \in Conns |-> IF k \in OwnConn(m) THEN Disconnected(conn[k]) ELSE conn[k]]
    BY <1>3 DEF Close
  <2>2. \A k \in Conns : SameStream(conn[k], Disconnected(conn[k]))
    BY <1>0 DEF SameStream, Disconnected, Conn
  <2>3. \A k \in Conns : SameStream(conn[k], conn'[k])
    BY <2>1, <2>2, SameIsSame
  <2>4. \A w \in Mc : sock'[w] = "new" => sock[w] = "new"
    BY <1>0, <2>1
  <2> QED
    BY <2>1, <2>3, <2>4, SameChannels
<1>4. ASSUME NEW s \in Session, Return(s) PROVE ChannelInv'
  <2>1. /\ \A k \in Conns : conn[k].ts # s
        /\ sock' = [m \in Mc |-> IF m[1] = s THEN "new" ELSE sock[m]]
        /\ UNCHANGED <<conn, rx>>
    BY <1>4 DEF Return
  <2>2. \A k \in Conns : SameStream(conn[k], conn'[k])
    BY <2>1, SameIsSame
  <2>3. ASSUME NEW k \in Conns, NEW type \in {"SND", "WF"}, <<conn[k].ts, type>> \in Mc
        PROVE  sock'[<<conn[k].ts, type>>] = sock[<<conn[k].ts, type>>]
    <3>1. PICK w \in Mc : w = <<conn[k].ts, type>>
      BY <2>3
    <3>2. w[1] = conn[k].ts
      BY <3>1
    <3>3. sock'[w] = sock[w]
      BY <2>1, <3>2
    <3> QED
      BY <3>1, <3>3
  <2> QED
    BY <2>1, <2>2, <2>3, SameChannels
<1>5. ASSUME NEW k \in Conns, Kick(k) PROVE ChannelInv'
  <2>1. \A j \in Conns : SameStream(conn[j], conn'[j])
    BY <1>0, <1>5 DEF Kick, SameStream, Conn
  <2> QED
    BY <1>1, <1>5, <2>1 DEF Kick
<1>6. ASSUME NEW k \in Conns, Start(k) PROVE ChannelInv'
  <2>1. conn' = [conn EXCEPT ![k].pc = "loop"] /\ UNCHANGED sock
    BY <1>6, NoWaits DEF Start
  <2>2. \A j \in Conns : SameStream(conn[j], conn'[j])
    BY <1>0, <2>1 DEF SameStream, Conn
  <2>3. CASE conn[k].type = "SND" /\ conn[k].rx # None
    <3>1. Streams(k) /\ conn[k].rx \in Chans
      BY <1>6, <2>3, ChannelFacts DEF Start, Streams
    <3>2. PICK ch \in Chans : ch = conn[k].rx
      BY <3>1
    <3> DEFINE r == Enabled(rx, ch, TRUE)
    <3>3. /\ r \in [Chans -> Chan]
          /\ \A c \in Chans : SameUser(rx[c], r[c]) /\ (c # ch => r[c] = rx[c])
      BY <1>0, SwitchedFields
    <3>4. rx' = r
      BY <1>6, <2>3, <3>2 DEF Start
    <3> HIDE DEF r
    <3> QED
      BY <2>1, <2>2, <2>3, <3>1, <3>2, <3>3, <3>4, SoundStarts
  <2>4. CASE ~(conn[k].type = "SND" /\ conn[k].rx # None)
    BY <1>1, <1>6, <2>1, <2>2, <2>4 DEF Start
  <2> QED
    BY <2>3, <2>4
<1>7. ASSUME NEW k \in Conns, SpiTransfer(k) \/ Leave(k) PROVE FALSE
  BY <1>0, <1>7 DEF SpiTransfer, Leave
<1>8. ASSUME NEW k \in Conns, ExtSwitch(k) \/ ExtBlur(k) PROVE ChannelInv'
  BY <1>1, <1>8, SameIsSame DEF ExtSwitch, ExtBlur
<1>9. ASSUME NEW k \in Conns, ExtEnds(k) \/ MonitorEnds(k) PROVE ChannelInv'
  <2>1. ~Streams(k) /\ conn' = Removed(conn, k) /\ UNCHANGED <<rx, sock>>
    BY <1>9 DEF ExtEnds, MonitorEnds, InLoop, Task, Streams
  <2>2. conn'[k] = Blank /\ \A j \in Conns \ {k} : SameButKick(conn[j], conn'[j])
    BY <1>0, <2>1, RemovedFields
  <2>3. ~Streams(k)' /\ \A j \in Conns \ {k} : SameStream(conn[j], conn'[j])
    BY <2>2, BlankIs DEF Streams, SameStream, SameButKick
  <2>4. \A m \in Mc : sock'[m] = "new" => sock[m] = "new"
    BY <2>1
  <2> QED
    BY <2>1, <2>3, <2>4, OutsideChannels
<1>10. ASSUME NEW k \in Conns, Stop(k) \/ SoundEnds(k) \/ WaterfallEnds(k) PROVE ChannelInv'
  BY <1>10, StreamEnds
<1> QED
  BY <1>2, <1>3, <1>4, <1>5, <1>6, <1>7, <1>8, <1>9, <1>10, Zenon DEF ConnTask, Ends

----------------------------------------------------------------------------
(* Theorems about channels                                                 *)

LEMMA InitChannels == Init => ChannelInv
<1> SUFFICES ASSUME Init PROVE ChannelInv
  OBVIOUS
<1>1. \A k \in Conns : conn[k] = Blank
  BY DEF Init
<1>2. \A ch \in Chans : rx[ch] = Unused
  BY DEF Init
<1>3. \A k \in Conns : ~Streams(k) /\ ~conn[k].stop_data
  BY <1>1, BlankIs DEF Streams
<1>4. \A ch \in Chans : ~rx[ch].busy /\ ~rx[ch].chan_enabled
  BY <1>2, UnusedIs
<1> QED
  BY <1>3, <1>4 DEF ChannelInv, BusyIffUsed, OneSessionPerChannel, StreamsDiffer, SoundOwns,
                    DataPumpAssertion, StreamsLinked, StoppedAlone

LEMMA StepChannels ==
  Yields = {} /\ ~TasksRunOut =>
    (TableInv /\ ChannelInv /\ VictimsUseAutorun /\ [Next]_vars => ChannelInv')
<1> SUFFICES ASSUME Yields = {}, ~TasksRunOut, TableInv, ChannelInv, VictimsUseAutorun, [Next]_vars
             PROVE  ChannelInv'
  OBVIOUS
<1>1. TableInv'
  BY StepTable
<1>2. CASE UNCHANGED vars
  <2>1. UNCHANGED <<conn, rx, sock>>
    BY <1>2 DEF vars
  <2> QED
    BY <1>1, <2>1, SameIsSame, SameChannels
<1>3. CASE Next
  BY <1>1, <1>3, ChannelAllocates, ChannelOthers, Zenon DEF Next
<1> QED
  BY <1>2, <1>3

(* The inductive invariant of channels: who is on a channel, who owns it   *)
(* in rx_channels[] and what a stream that has been asked to stop relies   *)
(* on.  It needs that rx_autorun_find_victim() finds autoruns only, as a   *)
(* wrong victim's removal frees the channel of somebody else.              *)
THEOREM ChannelInvariant ==
  Yields = {} /\ ~TasksRunOut => (Spec /\ []VictimsUseAutorun => []ChannelInv)
<1> SUFFICES ASSUME Yields = {}, ~TasksRunOut
             PROVE  Spec /\ []VictimsUseAutorun => []ChannelInv
  OBVIOUS
<1>1. TableInv /\ ChannelInv /\ VictimsUseAutorun /\ [Next]_vars => ChannelInv'
  BY StepChannels
<1>2. Spec => []TableInv
  BY TableInvariant
<1> QED
  BY <1>1, <1>2, InitChannels, PTL DEF Spec

(* A channel is busy exactly as long as a stream is on it: the two streams *)
(* of a session, that end in any order and on their own, free it once.     *)
THEOREM ChannelsAreNotLost ==
  Yields = {} /\ ~TasksRunOut => (Spec /\ []VictimsUseAutorun => []BusyIffUsed)
<1>1. ChannelInv => BusyIffUsed
  BY DEF ChannelInv
<1> QED
  BY <1>1, ChannelInvariant, PTL

(* No channel is given to two sessions (rx_chan_free_count).               *)
THEOREM ChannelsAreNotShared ==
  Yields = {} /\ ~TasksRunOut => (Spec /\ []VictimsUseAutorun => []OneSessionPerChannel)
<1>1. ChannelInv => OneSessionPerChannel
  BY DEF ChannelInv
<1> QED
  BY <1>1, ChannelInvariant, PTL

(* data_pump() finds a sound connection on each channel that is enabled:   *)
(* the one that rx_channels[] names, also when the waterfall came first.   *)
THEOREM PumpFindsSound ==
  Yields = {} /\ ~TasksRunOut => (Spec /\ []VictimsUseAutorun => []DataPumpAssertion)
<1>1. ChannelInv => DataPumpAssertion
  BY DEF ChannelInv
<1> QED
  BY <1>1, ChannelInvariant, PTL

(* The streams of a channel know each other (conn_other), so that the one  *)
(* that is kicked also stops the other one, although slots are reused.     *)
THEOREM StreamsKnowEachOther ==
  Yields = {} /\ ~TasksRunOut => (Spec /\ []VictimsUseAutorun => []StreamsLinked)
<1>1. ChannelInv => StreamsLinked
  BY DEF ChannelInv
<1> QED
  BY <1>1, ChannelInvariant, PTL

(* When rx_channels[].conn cannot name the autorun of another channel, and *)
(* no autorun asks for a waterfall (none does: WSPR and FT8 set up SND and *)
(* EXT).                                                                   *)
VictimsAreKnown ==
  Autorun = {} \/ (rx_chans = 1 /\ \A s \in Autorun : <<s, "WF">> \notin Mc)

LEMMA VictimIsAutorun ==
  ASSUME VictimsAreKnown, TableInv, ChannelInv
  PROVE  VictimsUseAutorun
<1> SUFFICES ASSUME NEW ch \in Victims, NEW k \in Conns, Streams(k), conn[k].rx = ch
             PROVE  conn[k].arun
  BY DEF VictimsUseAutorun
<1>1. /\ ch \in Chans /\ rx[ch].conn \in Conns /\ conn[rx[ch].conn].arun
  BY TableFacts, TypeFacts DEF Victims, Chan
<1>2. PICK v \in Conns : v = rx[ch].conn /\ conn[v].arun
  BY <1>1
<1>3. conn[v].type = "SND" /\ conn[v].ts \in Autorun
  BY <1>2, TableFacts DEF SlotsInv, SlotOK
<1>4. /\ rx_chans = 1 /\ \A s \in Autorun : <<s, "WF">> \notin Mc
  BY <1>3 DEF VictimsAreKnown
<1>5. Streams(v) /\ conn[v].rx \in Chans
  BY <1>3, ChannelFacts
<1>6. conn[v].rx = ch
  BY <1>1, <1>4, <1>5 DEF Chans
<1>7. conn[k].ts = conn[v].ts /\ <<conn[k].ts, conn[k].type>> \in Mc
  BY <1>5, <1>6, ChannelFacts
<1>8. conn[k].type = "SND"
  BY <1>3, <1>4, <1>7, ChannelFacts
<1>9. k = v
  BY <1>3, <1>5, <1>6, <1>8, ChannelFacts
<1> QED
  BY <1>2, <1>9

(* The allocator takes channels from autoruns only if there is one channel *)
(* or there are no autoruns.  (With two channels, rx_channels[].conn of a  *)
(* channel whose sound connection has ended may name an autorun that got   *)
(* the slot on the other channel.)                                         *)
THEOREM VictimsAreAutoruns ==
  Yields = {} /\ ~TasksRunOut /\ VictimsAreKnown => (Spec => []VictimsUseAutorun)
<1> SUFFICES ASSUME Yields = {}, ~TasksRunOut, VictimsAreKnown
             PROVE  Spec => []VictimsUseAutorun
  OBVIOUS
<1>1. TableInv /\ ChannelInv /\ VictimsUseAutorun /\ [Next]_vars => ChannelInv'
  BY StepChannels
<1>2. TableInv /\ ChannelInv => VictimsUseAutorun
  BY VictimIsAutorun
<1>3. Spec => []TableInv
  BY TableInvariant
<1> QED
  BY <1>1, <1>2, <1>3, InitChannels, PTL DEF Spec

(* Without autoruns on more channels than one, channels are neither lost   *)
(* nor shared, and the data pump and the streams of a session find whom    *)
(* they look for.                                                          *)
THEOREM ChannelsAreCorrect ==
  Yields = {} /\ ~TasksRunOut /\ VictimsAreKnown =>
    (Spec => [](BusyIffUsed /\ OneSessionPerChannel /\ DataPumpAssertion /\ StreamsLinked))
<1>1. ChannelInv => BusyIffUsed /\ OneSessionPerChannel /\ DataPumpAssertion /\ StreamsLinked
  BY DEF ChannelInv
<1> QED
  BY <1>1, ChannelInvariant, VictimsAreAutoruns, PTL

=============================================================================
