--------------------------- MODULE CampingProofs ---------------------------
(***************************************************************************)
(* Proofs about module Camping, for any number of connections, channels,   *)
(* camp slots and ports, for listening and waiting at the same time.       *)
(***************************************************************************)
EXTENDS Camping, DataLemmas

-----------------------------------------------------------------------------
(* The inductive invariant                                                 *)

\* The slots of a channel that somebody is in.
Taken(c) == {j \in Slots : c.camp_conn[j] # None}

\* A connection that is not in use is as conn_init() leaves it; whoever has
\* asked for a channel is a monitor.
UnusedIsBlank ==
  \A k \in Conns :
    /\ IF conn[k].valid THEN conn[k].remote_port \in Port ELSE conn[k] = Blank
    /\ client[k].asked # None => Mon(k)
    /\ ~conn[k].valid => client[k] = Nobody

\* What a camp slot and the connection that it names know of each other: the
\* port tells whether it is still the same user, who then is on the channel he
\* has asked for.  A user who has asked for one has no slots of a predecessor.
SlotsKnown ==
  \A k \in Conns, ch \in Chans : \A j \in SlotsOf(k, ch) :
    /\ chan[ch].camp_id[j] \in Port
    /\ chan[ch].camp_id[j] = conn[k].remote_port => client[k].asked = ch
    /\ client[k].asked # None => chan[ch].camp_id[j] = conn[k].remote_port

\* The line has exactly those who have entered the queue, each once, in the
\* order of their times of entry.
LineIsQueue ==
  /\ line \in Seq(Conns)
  /\ \A i, j \in 1 .. Len(line) : line[i] = line[j] => i = j
  /\ \A i, j \in 1 .. Len(line) : i <= j => conn[line[i]].arrival <= conn[line[j]].arrival
  /\ \A k \in Conns : conn[k].queued <=> \E i \in 1 .. Len(line) : line[i] = k
  /\ \A k \in Conns : conn[k].queued => Mon(k) /\ conn[k].arrival \in 1 .. timer

IInv ==
  /\ TypeOK /\ CampCount /\ OneCamp /\ AudioWasAsked
  /\ UnusedIsBlank /\ SlotsKnown /\ LineIsQueue

-----------------------------------------------------------------------------
(* Slots and counts                                                        *)

LEMMA ConstantsType ==
  /\ n_camp \in Nat /\ MaxTime \in Nat \ {0} /\ Lockout \in Nat
  /\ IsFiniteSet(Conns)
  /\ None \notin Conns /\ None \notin Chans /\ None \notin Port
BY CampingAssumption DEF None

LEMMA SlotsFinite ==
  /\ IsFiniteSet(Slots) /\ Cardinality(Slots) = n_camp
  /\ \A S \in SUBSET Slots : /\ IsFiniteSet(S) /\ Cardinality(S) \in 0 .. n_camp
                             /\ Cardinality(S) = n_camp => S = Slots
<1>1. IsFiniteSet(Slots) /\ Cardinality(Slots) = n_camp
  BY ConstantsType, FS_Interval DEF Slots
<1>2. ASSUME NEW S \in SUBSET Slots
      PROVE  /\ IsFiniteSet(S) /\ Cardinality(S) \in 0 .. n_camp
             /\ Cardinality(S) = n_camp => S = Slots
  BY <1>1, ConstantsType, FS_Subset, FS_CardinalityType
<1> QED
  BY <1>1, <1>2

(* Taking slots out lowers the count by those that were taken. *)
LEMMA TakeOut ==
  ASSUME NEW S \in SUBSET Slots, NEW T \in SUBSET Slots
  PROVE  Cardinality(S \ T) = Cardinality(S) - Cardinality(S \cap T)
<1>1. IsFiniteSet(S \ T) /\ IsFiniteSet(S \cap T)
  BY SlotsFinite
<1>2. S = (S \ T) \cup (S \cap T) /\ (S \ T) \cap (S \cap T) = {}
  OBVIOUS
<1>3. /\ Cardinality((S \ T) \cup (S \cap T))
           = Cardinality(S \ T) + Cardinality(S \cap T) - Cardinality((S \ T) \cap (S \cap T))
  BY <1>1, FS_Union
<1>4. Cardinality({}) = 0
  BY FS_EmptySet
<1>5. Cardinality(S) = Cardinality(S \ T) + Cardinality(S \cap T) - 0
  BY <1>2, <1>3, <1>4, Zenon
<1>6. Cardinality(S \ T) \in Nat /\ Cardinality(S \cap T) \in Nat
  BY <1>1, FS_CardinalityType
<1> QED
  BY <1>5, <1>6

(* Those who leave their slots leave the channels as they should be. *)
LEMMA WithoutEffect ==
  ASSUME TypeOK, CampCount, NEW out \in [Chans -> SUBSET Slots]
  PROVE  /\ Without(out) \in [Chans -> Chan]
         /\ \A ch \in Chans :
              /\ Without(out)[ch].conn = chan[ch].conn
              /\ Without(out)[ch].n_camp = Cardinality(Taken(Without(out)[ch]))
              /\ \A j \in Slots :
                   /\ Without(out)[ch].camp_conn[j] = IF j \in out[ch] THEN None ELSE chan[ch].camp_conn[j]
                   /\ Without(out)[ch].camp_id[j] = IF j \in out[ch] THEN None ELSE chan[ch].camp_id[j]
<1> DEFINE W == Without(out)
           cc(ch) == [j \in Slots |-> IF j \in out[ch] THEN None ELSE chan[ch].camp_conn[j]]
           ci(ch) == [j \in Slots |-> IF j \in out[ch] THEN None ELSE chan[ch].camp_id[j]]
           n(ch) == chan[ch].n_camp - Cardinality({j \in out[ch] : chan[ch].camp_conn[j] # None})
<1>1. W = [ch \in Chans |-> [chan[ch] EXCEPT !.camp_conn = cc(ch), !.camp_id = ci(ch), !.n_camp = n(ch)]]
  BY Zenon DEF Without
<1> HIDE DEF W
<1>2. ASSUME NEW ch \in Chans
      PROVE  /\ W[ch] = [conn |-> chan[ch].conn, n_camp |-> n(ch), camp_conn |-> cc(ch), camp_id |-> ci(ch)]
             /\ W[ch] \in Chan
             /\ n(ch) = Cardinality(Taken(W[ch]))
  <2>1. chan[ch] \in Chan
    BY DEF TypeOK
  <2>2. W[ch] = [conn |-> chan[ch].conn, n_camp |-> n(ch), camp_conn |-> cc(ch), camp_id |-> ci(ch)]
    <3> HIDE DEF cc, ci, n
    <3> QED BY <1>1, <2>1 DEF Chan
  <2>3. cc(ch) \in [Slots -> Conns \cup {None}] /\ ci(ch) \in [Slots -> Port \cup {None}]
    BY <2>1 DEF Chan
  <2>4. Taken(W[ch]) = Taken(chan[ch]) \ out[ch]
    BY <2>2 DEF Taken
  <2>5. {j \in out[ch] : chan[ch].camp_conn[j] # None} = Taken(chan[ch]) \cap out[ch]
    BY DEF Taken
  <2>6. Taken(chan[ch]) \in SUBSET Slots /\ out[ch] \in SUBSET Slots
    BY DEF Taken
  <2>7. chan[ch].n_camp = Cardinality(Taken(chan[ch]))
    BY DEF CampCount, Taken
  <2>8. n(ch) = Cardinality(Taken(chan[ch]) \ out[ch])
    BY <2>5, <2>6, <2>7, TakeOut, Zenon
  <2>9. n(ch) = Cardinality(Taken(W[ch]))
    BY <2>4, <2>8, Zenon
  <2>10. n(ch) \in 0 .. n_camp
    BY <2>6, <2>8, SlotsFinite
  <2>11. W[ch] \in Chan
    <3> HIDE DEF cc, ci, n
    <3> QED BY <2>1, <2>2, <2>3, <2>10 DEF Chan
  <2> QED
    BY <2>2, <2>9, <2>11
<1>3. W \in [Chans -> Chan]
  BY <1>1, <1>2
<1>4. ASSUME NEW ch \in Chans
      PROVE  /\ W[ch].conn = chan[ch].conn /\ W[ch].n_camp = Cardinality(Taken(W[ch]))
             /\ \A j \in Slots :
                  /\ W[ch].camp_conn[j] = IF j \in out[ch] THEN None ELSE chan[ch].camp_conn[j]
                  /\ W[ch].camp_id[j] = IF j \in out[ch] THEN None ELSE chan[ch].camp_id[j]
  <2>1. /\ W[ch].conn = chan[ch].conn /\ W[ch].n_camp = n(ch)
        /\ W[ch].camp_conn = cc(ch) /\ W[ch].camp_id = ci(ch)
    <3> HIDE DEF cc, ci, n
    <3>1. W[ch] = [conn |-> chan[ch].conn, n_camp |-> n(ch), camp_conn |-> cc(ch), camp_id |-> ci(ch)]
      BY <1>2, Zenon
    <3> QED BY <3>1
  <2>2. \A j \in Slots :
          /\ cc(ch)[j] = IF j \in out[ch] THEN None ELSE chan[ch].camp_conn[j]
          /\ ci(ch)[j] = IF j \in out[ch] THEN None ELSE chan[ch].camp_id[j]
    OBVIOUS
  <2>3. n(ch) = Cardinality(Taken(W[ch]))
    BY <1>2
  <2> QED
    BY <2>1, <2>2, <2>3, Zenon
<1> QED
  BY <1>3, <1>4, Zenon DEF W

(* Where there is room, one slot is the first free one ... *)
LEMMA RoomHasSlot ==
  ASSUME NEW f \in [Chans -> Chan], NEW rx \in Chans,
         f[rx].n_camp = Cardinality(Taken(f[rx])), Room(f, rx)
  PROVE  \E i \in Slots : FirstFree(f, rx) = {i}
<1> DEFINE S == {j \in Slots : f[rx].camp_conn[j] = None}
<1>1. f[rx].n_camp \in 0 .. n_camp
  BY DEF Chan
<1>2. S # {}
  <2>1. SUFFICES ASSUME S = {} PROVE FALSE
    OBVIOUS
  <2>2. Taken(f[rx]) = Slots
    BY <2>1 DEF Taken
  <2> QED
    BY <1>1, <2>2, SlotsFinite, ConstantsType DEF Room
<1>3. S \in SUBSET Nat /\ Min(S) \in S /\ \A j \in S : Min(S) <= j
  <2>1. S \in SUBSET Nat
    BY ConstantsType DEF Slots
  <2> QED
    BY <1>2, <2>1, LeastNumber
<1> DEFINE i == Min(S)
<1> HIDE DEF i
<1>4. i \in Slots /\ f[rx].camp_conn[i] = None /\ \A j \in Slots : f[rx].camp_conn[j] = None => i <= j
  BY <1>3 DEF i
<1>5. FirstFree(f, rx) = {i}
  BY <1>4, ConstantsType DEF FirstFree, Slots
<1> QED
  BY <1>4, <1>5

(* ... which a monitor that enters then has, and the count is right again. *)
LEMMA EnteredEffect ==
  ASSUME NEW f \in [Chans -> Chan], NEW rx \in Chans, NEW k \in Conns, NEW i \in Slots,
         \A ch \in Chans : f[ch].n_camp = Cardinality(Taken(f[ch])),
         Room(f, rx), FirstFree(f, rx) = {i}, conn[k].remote_port \in Port
  PROVE  LET E == Entered(f, k, rx) IN
         /\ E \in [Chans -> Chan]
         /\ \A ch \in Chans :
              /\ E[ch].conn = f[ch].conn /\ E[ch].n_camp = Cardinality(Taken(E[ch]))
              /\ \A j \in Slots :
                   /\ E[ch].camp_conn[j] = IF ch = rx /\ j = i THEN k ELSE f[ch].camp_conn[j]
                   /\ E[ch].camp_id[j] = IF ch = rx /\ j = i THEN conn[k].remote_port ELSE f[ch].camp_id[j]
<1> DEFINE E == Entered(f, k, rx)
           cc == [j \in Slots |-> IF j \in {i} THEN k ELSE f[rx].camp_conn[j]]
           ci == [j \in Slots |-> IF j \in {i} THEN conn[k].remote_port ELSE f[rx].camp_id[j]]
           r == [conn |-> f[rx].conn, n_camp |-> f[rx].n_camp + 1, camp_conn |-> cc, camp_id |-> ci]
<1>0. f[rx] \in Chan
  OBVIOUS
<1>1. cc \in [Slots -> Conns \cup {None}] /\ ci \in [Slots -> Port \cup {None}]
  BY <1>0 DEF Chan
<1>2. E = [f EXCEPT ![rx] = r]
  <2> HIDE DEF cc, ci
  <2>1. E = [f EXCEPT ![rx].camp_conn = cc, ![rx].camp_id = ci, ![rx].n_camp = f[rx].n_camp + 1]
    BY Zenon DEF Entered, cc, ci
  <2> HIDE DEF E
  <2> QED
    BY <1>0, <2>1 DEF Chan
<1>3. Taken(r) = Taken(f[rx]) \cup {i} /\ i \notin Taken(f[rx])
  <2>1. f[rx].camp_conn[i] = None
    BY DEF FirstFree
  <2>2. r.camp_conn = cc
    OBVIOUS
  <2> QED
    BY <2>1, <2>2, ConstantsType DEF Taken
<1>4. r.n_camp = Cardinality(Taken(r))
  <2>1. IsFiniteSet(Taken(f[rx]))
    BY SlotsFinite DEF Taken
  <2>2. Cardinality(Taken(f[rx]) \cup {i}) = Cardinality(Taken(f[rx])) + 1
    BY <1>3, <2>1, FS_AddElement
  <2> QED
    BY <1>3, <2>2
<1>5. r \in Chan
  <2>1. r.n_camp \in 0 .. n_camp
    BY <1>0, ConstantsType DEF Chan, Room
  <2> HIDE DEF cc, ci
  <2> QED
    BY <1>0, <1>1, <2>1 DEF Chan
<1> HIDE DEF E
<1>6. E \in [Chans -> Chan]
  BY <1>2, <1>5
<1>7. ASSUME NEW ch \in Chans
      PROVE  /\ E[ch].conn = f[ch].conn /\ E[ch].n_camp = Cardinality(Taken(E[ch]))
             /\ \A j \in Slots :
                  /\ E[ch].camp_conn[j] = IF ch = rx /\ j = i THEN k ELSE f[ch].camp_conn[j]
                  /\ E[ch].camp_id[j] = IF ch = rx /\ j = i THEN conn[k].remote_port ELSE f[ch].camp_id[j]
  <2>1. CASE ch = rx
    <3>1. E[ch] = r
      BY <1>2, <2>1
    <3>2. r.conn = f[rx].conn /\ r.camp_conn = cc /\ r.camp_id = ci
      OBVIOUS
    <3> QED
      BY <1>4, <2>1, <3>1, <3>2
  <2>2. CASE ch # rx
    BY <1>2, <2>2
  <2> QED
    BY <2>1, <2>2
<1> QED
  BY <1>6, <1>7, Zenon DEF E

-----------------------------------------------------------------------------
(* What the three operations on slots do *)

\* The slots after those in out have been left.
LeftSlots(out) ==
  \A ch \in Chans : \A j \in Slots :
    /\ chan'[ch].camp_conn[j] = IF j \in out[ch] THEN None ELSE chan[ch].camp_conn[j]
    /\ chan'[ch].camp_id[j] = IF j \in out[ch] THEN None ELSE chan[ch].camp_id[j]

\* The slots after k has moved to slot i of rx.
MovedSlots(k, rx, i) ==
  \A ch \in Chans : \A j \in Slots :
    IF ch = rx /\ j = i
    THEN chan'[ch].camp_conn[j] = k /\ chan'[ch].camp_id[j] = conn[k].remote_port
    ELSE /\ chan'[ch].camp_conn[j] = IF j \in SlotsOf(k, ch) THEN None ELSE chan[ch].camp_conn[j]
         /\ chan'[ch].camp_id[j] = IF j \in SlotsOf(k, ch) THEN None ELSE chan[ch].camp_id[j]

SlotsOut(k) == [ch \in Chans |-> SlotsOf(k, ch)]

(* A monitor that changes channels has left all slots; where there is room it *)
(* has the first free one, and nobody else loses his.                         *)
LEMMA MonCampEffect ==
  ASSUME IInv, NEW k \in Conns, NEW rx \in Chans \cup {None}, MonCamp(k, rx)
  PROVE  /\ chan' \in [Chans -> Chan] /\ CampCount'
         /\ \A ch \in Chans : chan'[ch].conn = chan[ch].conn
         /\ \/ /\ rx \in Chans
               /\ \E i \in Slots : MovedSlots(k, rx, i) /\ chan[rx].camp_conn[i] \in {None, k}
               /\ client' = [client EXCEPT ![k].asked = rx, ![k].audio = None]
            \/ /\ LeftSlots(SlotsOut(k))
               /\ client' = [client EXCEPT ![k].asked = None, ![k].audio = None]
<1> DEFINE left == Left(k, rx)
           room == rx # None /\ Room(left, rx)
           okay == room /\ FirstFree(left, rx) # {}
<1>1. left = Without(SlotsOut(k)) /\ SlotsOut(k) \in [Chans -> SUBSET Slots]
  BY DEF Left, SlotsOut, SlotsOf, IsMine
<1>2. /\ left \in [Chans -> Chan]
      /\ \A ch \in Chans :
           /\ left[ch].conn = chan[ch].conn
           /\ left[ch].n_camp = Cardinality(Taken(left[ch]))
           /\ \A j \in Slots :
                /\ left[ch].camp_conn[j] = IF j \in SlotsOf(k, ch) THEN None ELSE chan[ch].camp_conn[j]
                /\ left[ch].camp_id[j] = IF j \in SlotsOf(k, ch) THEN None ELSE chan[ch].camp_id[j]
  <2>1. /\ Without(SlotsOut(k)) \in [Chans -> Chan]
        /\ \A ch \in Chans :
             /\ Without(SlotsOut(k))[ch].conn = chan[ch].conn
             /\ Without(SlotsOut(k))[ch].n_camp = Cardinality(Taken(Without(SlotsOut(k))[ch]))
             /\ \A j \in Slots :
                  /\ Without(SlotsOut(k))[ch].camp_conn[j] = IF j \in SlotsOut(k)[ch] THEN None ELSE chan[ch].camp_conn[j]
                  /\ Without(SlotsOut(k))[ch].camp_id[j] = IF j \in SlotsOut(k)[ch] THEN None ELSE chan[ch].camp_id[j]
    BY <1>1, WithoutEffect DEF IInv
  <2>2. \A ch \in Chans : SlotsOut(k)[ch] = SlotsOf(k, ch)
    BY DEF SlotsOut
  <2> HIDE DEF left
  <2> QED
    BY <1>1, <2>1, <2>2
<1>3. /\ chan' = IF room THEN Entered(left, k, rx) ELSE left
      /\ client' = [client EXCEPT ![k].asked = IF okay THEN rx ELSE None, ![k].audio = None]
      /\ conn[k].remote_port \in Port
  BY Zenon DEF MonCamp, Page, Mon, IInv, UnusedIsBlank
<1> HIDE DEF left
<1>4. CASE room
  <2>0. rx \in Chans
    BY <1>4
  <2>1. PICK i \in Slots : FirstFree(left, rx) = {i}
    BY <1>2, <1>4, <2>0, RoomHasSlot
  <2> DEFINE E == Entered(left, k, rx)
  <2>2. /\ E \in [Chans -> Chan]
        /\ \A ch \in Chans :
             /\ E[ch].conn = left[ch].conn /\ E[ch].n_camp = Cardinality(Taken(E[ch]))
             /\ \A j \in Slots :
                  /\ E[ch].camp_conn[j] = IF ch = rx /\ j = i THEN k ELSE left[ch].camp_conn[j]
                  /\ E[ch].camp_id[j] = IF ch = rx /\ j = i THEN conn[k].remote_port ELSE left[ch].camp_id[j]
    <3> HIDE DEF E
    <3> QED
      BY <1>2, <1>3, <1>4, <2>0, <2>1, EnteredEffect DEF E
  <2>3. chan' = E /\ client' = [client EXCEPT ![k].asked = rx, ![k].audio = None]
    BY <1>3, <1>4, <2>1
  <2> HIDE DEF E
  <2>4. MovedSlots(k, rx, i)
    BY <1>2, <2>2, <2>3 DEF MovedSlots
  <2>5. chan[rx].camp_conn[i] \in {None, k}
    <3>1. left[rx].camp_conn[i] = None
      BY <2>1 DEF FirstFree
    <3> QED
      BY <1>2, <2>0, <3>1 DEF SlotsOf
  <2>6. CampCount'
    BY <2>2, <2>3 DEF CampCount, Taken
  <2> QED
    BY <1>2, <2>0, <2>2, <2>3, <2>4, <2>5, <2>6
<1>5. CASE ~room
  <2>1. chan' = left /\ client' = [client EXCEPT ![k].asked = None, ![k].audio = None]
    BY <1>3, <1>5
  <2>2. LeftSlots(SlotsOut(k))
    BY <1>2, <2>1 DEF LeftSlots, SlotsOut
  <2>3. CampCount'
    BY <1>2, <2>1 DEF CampCount, Taken
  <2> QED
    BY <1>2, <2>1, <2>2, <2>3
<1> QED
  BY <1>4, <1>5

\* The slots that c2s_sound_camp() finds abandoned.
GoneOut(ch) == [c \in Chans |-> IF c = ch THEN {j \in Slots : chan[ch].camp_conn[j] # None /\ Gone(ch, j)} ELSE {}]

(* The sound task takes out those that are gone, and has counted the others. *)
LEMMA SoundEffect ==
  ASSUME IInv, NEW ch \in Chans, Sound(ch)
  PROVE  /\ chan' \in [Chans -> Chan] /\ CampCount'
         /\ \A c \in Chans : chan'[c].conn = chan[c].conn
         /\ LeftSlots(GoneOut(ch))
<1> DEFINE left == Without(GoneOut(ch))
<1>1. GoneOut(ch) \in [Chans -> SUBSET Slots]
  BY DEF GoneOut
<1>2. /\ left \in [Chans -> Chan]
      /\ \A c \in Chans :
           /\ left[c].conn = chan[c].conn
           /\ left[c].n_camp = Cardinality(Taken(left[c]))
           /\ \A j \in Slots :
                /\ left[c].camp_conn[j] = IF j \in GoneOut(ch)[c] THEN None ELSE chan[c].camp_conn[j]
                /\ left[c].camp_id[j] = IF j \in GoneOut(ch)[c] THEN None ELSE chan[c].camp_id[j]
  BY <1>1, WithoutEffect DEF IInv
<1>3. chan' = [left EXCEPT ![ch].n_camp = Cardinality(Taken(left[ch]))]
  BY Zenon DEF Sound, GoneOut, Taken
<1> HIDE DEF left
<1>4. chan' = left
  <2>1. left[ch] \in Chan /\ left[ch].n_camp = Cardinality(Taken(left[ch]))
    BY <1>2
  <2>2. chan' = [left EXCEPT ![ch].n_camp = left[ch].n_camp]
    BY <1>3, <2>1
  <2> QED
    BY <1>2, <2>1, <2>2 DEF Chan
<1> QED
  BY <1>2, <1>4 DEF CampCount, Taken, LeftSlots

-----------------------------------------------------------------------------
(* Each step keeps the invariant *)

(* The line is as it was if nobody in it has changed and no time is lost. *)
LEMMA LineStays ==
  ASSUME LineIsQueue, TypeOK, line' = line, timer' \in Nat, timer <= timer',
         \A k \in Conns : /\ conn'[k].valid = conn[k].valid /\ conn'[k].type = conn[k].type
                          /\ conn'[k].queued = conn[k].queued /\ conn'[k].arrival = conn[k].arrival
  PROVE  LineIsQueue'
<1>1. \A i \in 1 .. Len(line) : line[i] \in Conns
  BY ElementOfSeq DEF LineIsQueue
<1>2. \A k \in Conns : conn'[k].queued => Mon(k)' /\ conn'[k].arrival \in 1 .. timer'
  BY DEF LineIsQueue, Mon, TypeOK
<1>3. \A i, j \in 1 .. Len(line') : i <= j => conn'[line'[i]].arrival <= conn'[line'[j]].arrival
  BY <1>1 DEF LineIsQueue
<1> QED
  BY <1>2, <1>3 DEF LineIsQueue

LEMMA InitInv == Init => IInv
<1> SUFFICES ASSUME Init PROVE IInv
  OBVIOUS
<1> USE DEF Init
<1>0. Blank \in Conn /\ Unused \in Chan /\ Nobody \in Client
  BY ConstantsType DEF Blank, Conn, Unused, Chan, Nobody, Client
<1>1. TypeOK
  BY <1>0, ConstantsType DEF TypeOK
<1>2. \A ch \in Chans : chan[ch] = Unused /\ Taken(chan[ch]) = {}
  BY DEF Unused, Taken
<1>3. CampCount
  BY <1>2, FS_EmptySet DEF CampCount, Taken, Unused
<1>4. \A k \in Conns, ch \in Chans : SlotsOf(k, ch) = {}
  BY ConstantsType DEF SlotsOf, Unused
<1>5. OneCamp /\ SlotsKnown
  BY <1>4 DEF OneCamp, SlotsKnown
<1>6. AudioWasAsked /\ UnusedIsBlank
  BY DEF AudioWasAsked, UnusedIsBlank, Nobody, Blank
<1>7. LineIsQueue
  BY EmptySeq DEF LineIsQueue, Blank
<1> QED
  BY <1>1, <1>3, <1>5, <1>6, <1>7 DEF IInv

(* What a new connection looks like. *)
LEMMA NewConn ==
  ASSUME TypeOK, NEW type \in {"MONITOR", "other"}, NEW port \in Port, NEW new,
         new = [Blank EXCEPT !.valid = TRUE, !.type = type, !.remote_port = port, !.arrival = timer]
  PROVE  new \in Conn /\ new.valid = TRUE /\ new.queued = FALSE /\ new.remote_port = port
<1>1. Blank \in Conn /\ Blank.queued = FALSE
  BY ConstantsType DEF Blank, Conn
<1>2. timer \in 0 .. MaxTime
  BY ConstantsType DEF TypeOK
<1> QED
  BY <1>1, <1>2 DEF Conn

(* A new connection has a port that no slot of its predecessor names. *)
LEMMA ArriveInv ==
  ASSUME IInv, NEW k \in Conns, NEW type \in {"MONITOR", "other"}, NEW port \in Port,
         Arrive(k, type, port)
  PROVE  IInv'
<1> DEFINE new == [Blank EXCEPT !.valid = TRUE, !.type = type, !.remote_port = port, !.arrival = timer]
<1>0. /\ ~conn[k].valid /\ conn' = [conn EXCEPT ![k] = new]
      /\ \A ch \in Chans : \A j \in SlotsOf(k, ch) : chan[ch].camp_id[j] # port
      /\ UNCHANGED <<camped_rx, chan, client, timer, lockout, line>>
  BY DEF Arrive, camp, queue
<1>1. new \in Conn /\ new.valid = TRUE /\ new.queued = FALSE /\ new.remote_port = port
  <2> HIDE DEF new
  <2> QED
    BY NewConn DEF IInv, new
<1> HIDE DEF new
<1>7. new \in Conn /\ new.valid /\ ~new.queued /\ new.remote_port = port /\ conn \in [Conns -> Conn]
  BY <1>1 DEF IInv, TypeOK
<1>8. TypeOK'
  BY <1>0, <1>7 DEF IInv, TypeOK
<1>2. CampCount' /\ OneCamp' /\ AudioWasAsked'
  BY <1>0 DEF IInv, CampCount, OneCamp, AudioWasAsked, SlotsOf
<1>3. client[k].asked = None
  BY <1>0 DEF IInv, UnusedIsBlank, Nobody
<1>4. UnusedIsBlank'
  BY <1>0, <1>3, <1>7 DEF IInv, UnusedIsBlank, Mon
<1>5. SlotsKnown'
  <2>1. ASSUME NEW m \in Conns, NEW ch \in Chans, NEW j \in SlotsOf(m, ch)'
        PROVE  /\ chan[ch].camp_id[j] \in Port
               /\ chan[ch].camp_id[j] = conn'[m].remote_port => client[m].asked = ch
               /\ client[m].asked # None => chan[ch].camp_id[j] = conn'[m].remote_port
    <3>1. j \in SlotsOf(m, ch)
      BY <1>0 DEF SlotsOf
    <3>2. CASE m # k
      BY <1>0, <1>7, <3>1, <3>2 DEF IInv, SlotsKnown
    <3>3. CASE m = k
      BY <1>0, <1>3, <1>7, <3>1, <3>3 DEF IInv, SlotsKnown
    <3> QED
      BY <3>2, <3>3
  <2> QED
    BY <1>0, <2>1 DEF SlotsKnown
<1>6. LineIsQueue'
  <2>1. ~conn[k].queued
    BY <1>0 DEF IInv, UnusedIsBlank, Blank
  <2>2. \A i \in 1 .. Len(line) : line[i] \in Conns /\ line[i] # k
    BY <2>1, ElementOfSeq DEF IInv, LineIsQueue
  <2>3. \A i, j \in 1 .. Len(line) : i <= j => conn'[line[i]].arrival <= conn'[line[j]].arrival
    BY <1>0, <1>7, <2>2 DEF IInv, LineIsQueue
  <2>4. \A m \in Conns : m # k => conn'[m] = conn[m]
    BY <1>0, <1>7
  <2>5. ASSUME NEW m \in Conns
        PROVE  /\ conn'[m].queued <=> \E i \in 1 .. Len(line) : line[i] = m
               /\ conn'[m].queued => Mon(m)' /\ conn'[m].arrival \in 1 .. timer
    <3>1. CASE m # k
      BY <2>4, <3>1 DEF IInv, LineIsQueue, Mon
    <3>2. CASE m = k
      BY <1>0, <1>7, <2>2, <3>2
    <3> QED
      BY <3>1, <3>2
  <2> QED
    BY <1>0, <2>3, <2>5 DEF IInv, LineIsQueue
<1> QED
  BY <1>2, <1>4, <1>5, <1>6, <1>8 DEF IInv

(* The line without k: the others in their order. *)
LEMMA LineWithoutEffect ==
  ASSUME IInv, NEW k \in Conns
  PROVE  LET rest == LineWithout(k) IN
         /\ rest \in Seq(Conns)
         /\ \A i, j \in 1 .. Len(rest) : rest[i] = rest[j] => i = j
         /\ \A i, j \in 1 .. Len(rest) : i <= j => conn[rest[i]].arrival <= conn[rest[j]].arrival
         /\ \A m \in Conns : (conn[m].queued /\ m # k) <=> \E i \in 1 .. Len(rest) : rest[i] = m
<1>0. line \in Seq(Conns) /\ Len(line) \in Nat
  BY LenProperties DEF IInv, LineIsQueue
<1>1. CASE \E p \in 1 .. Len(line) : line[p] = k
  <2>1. PICK p \in 1 .. Len(line) : line[p] = k
    BY <1>1
  <2>2. LineWithout(k) = RemoveAt(line, p)
    BY <1>0, <2>1, RemoveFirstThere DEF LineWithout, IInv, LineIsQueue
  <2> DEFINE rest == LineWithout(k)
             from(i) == IF i < p THEN i ELSE i + 1
  <2> HIDE DEF rest
  <2>3. /\ rest \in Seq(Conns) /\ Len(rest) = Len(line) - 1
        /\ \A i \in 1 .. Len(rest) : rest[i] = line[from(i)] /\ from(i) \in 1 .. Len(line) /\ from(i) # p
    <3>1. /\ rest \in Seq(Conns) /\ Len(rest) = Len(line) - 1
          /\ \A i \in 1 .. Len(line) - 1 : rest[i] = IF i < p THEN line[i] ELSE line[i + 1]
      BY <1>0, <2>2, RemoveAtProperties DEF rest
    <3>2. ASSUME NEW i \in 1 .. Len(line) - 1
          PROVE  rest[i] = line[from(i)] /\ from(i) \in 1 .. Len(line) /\ from(i) # p
      BY <1>0, <3>1
    <3> QED
      BY <3>1, <3>2
  <2>4. \A i, j \in 1 .. Len(rest) : (from(i) = from(j) => i = j) /\ (i <= j => from(i) <= from(j))
    BY <1>0, <2>3
  <2>5. \A q \in 1 .. Len(line) : q # p => \E i \in 1 .. Len(rest) : from(i) = q
    <3>1. ASSUME NEW q \in 1 .. Len(line), q < p PROVE q \in 1 .. Len(rest) /\ from(q) = q
      BY <1>0, <2>3, <3>1
    <3>2. ASSUME NEW q \in 1 .. Len(line), q > p PROVE q - 1 \in 1 .. Len(rest) /\ from(q - 1) = q
      BY <1>0, <2>3, <3>2
    <3> QED
      BY <1>0, <3>1, <3>2
  <2> HIDE DEF from
  <2>6. \A i, j \in 1 .. Len(rest) : rest[i] = rest[j] => i = j
    BY <2>3, <2>4 DEF IInv, LineIsQueue
  <2>7. \A i, j \in 1 .. Len(rest) : i <= j => conn[rest[i]].arrival <= conn[rest[j]].arrival
    BY <2>3, <2>4 DEF IInv, LineIsQueue
  <2>8. ASSUME NEW m \in Conns
        PROVE  (conn[m].queued /\ m # k) <=> \E i \in 1 .. Len(rest) : rest[i] = m
    <3>1. ASSUME conn[m].queued, m # k PROVE \E i \in 1 .. Len(rest) : rest[i] = m
      <4>1. PICK q \in 1 .. Len(line) : line[q] = m
        BY <3>1 DEF IInv, LineIsQueue
      <4>2. PICK i \in 1 .. Len(rest) : from(i) = q
        BY <2>1, <2>5, <3>1, <4>1
      <4> QED
        BY <2>3, <4>1, <4>2
    <3>2. ASSUME NEW i \in 1 .. Len(rest), rest[i] = m PROVE conn[m].queued /\ m # k
      BY <2>1, <2>3, <3>2 DEF IInv, LineIsQueue
    <3> QED
      BY <3>1, <3>2
  <2> QED
    BY <2>3, <2>6, <2>7, <2>8 DEF rest
<1>2. CASE ~ \E p \in 1 .. Len(line) : line[p] = k
  <2>1. LineWithout(k) = line
    BY <1>2, RemoveFirstNotThere DEF LineWithout
  <2> QED
    BY <1>0, <1>2, <2>1 DEF IInv, LineIsQueue
<1> QED
  BY <1>1, <1>2

(* Whoever leaves is out of the line; the slots that name him are nobody's. *)
LEMMA DepartInv ==
  ASSUME IInv, NEW k \in Conns, Depart(k)
  PROVE  IInv'
<1>0. /\ conn' = [conn EXCEPT ![k] = Blank] /\ camped_rx' = [camped_rx EXCEPT ![k] = None]
      /\ client' = [client EXCEPT ![k] = Nobody] /\ line' = LineWithout(k)
      /\ UNCHANGED <<chan, timer, lockout>>
  BY DEF Depart, Cleared
<1>1. /\ Blank \in Conn /\ ~Blank.valid /\ Blank.remote_port = None /\ ~Blank.queued
      /\ Nobody \in Client /\ Nobody.asked = None /\ Nobody.audio = None
      /\ conn \in [Conns -> Conn] /\ client \in [Conns -> Client]
  BY ConstantsType DEF Blank, Conn, Nobody, Client, IInv, TypeOK
<1>2. TypeOK'
  BY <1>0, <1>1 DEF IInv, TypeOK
<1>3. CampCount' /\ OneCamp'
  BY <1>0 DEF IInv, CampCount, OneCamp, SlotsOf
<1>4. AudioWasAsked' /\ UnusedIsBlank'
  BY <1>0, <1>1 DEF IInv, AudioWasAsked, UnusedIsBlank, Mon
<1>5. SlotsKnown'
  <2>1. \A m \in Conns, ch \in Chans : SlotsOf(m, ch)' = SlotsOf(m, ch)
    BY <1>0 DEF SlotsOf
  <2>2. \A m \in Conns : m # k => conn'[m] = conn[m] /\ client'[m] = client[m]
    BY <1>0, <1>1
  <2>3. conn'[k].remote_port \notin Port /\ client'[k].asked = None
    BY <1>0, <1>1, ConstantsType
  <2> QED
    BY <1>0, <2>1, <2>2, <2>3 DEF IInv, SlotsKnown
<1>6. LineIsQueue'
  <2> DEFINE rest == LineWithout(k)
  <2>1. /\ rest \in Seq(Conns)
        /\ \A i, j \in 1 .. Len(rest) : rest[i] = rest[j] => i = j
        /\ \A i, j \in 1 .. Len(rest) : i <= j => conn[rest[i]].arrival <= conn[rest[j]].arrival
        /\ \A m \in Conns : (conn[m].queued /\ m # k) <=> \E i \in 1 .. Len(rest) : rest[i] = m
    BY LineWithoutEffect, Zenon
  <2> HIDE DEF rest
  <2>2. \A m \in Conns : m # k => conn'[m] = conn[m]
    BY <1>0, <1>1
  <2>3. conn'[k] = Blank
    BY <1>0, <1>1
  <2>4. \A i \in 1 .. Len(rest) : rest[i] \in Conns /\ rest[i] # k
    BY <2>1, ElementOfSeq
  <2>5. \A i, j \in 1 .. Len(rest) : i <= j => conn'[rest[i]].arrival <= conn'[rest[j]].arrival
    BY <2>1, <2>2, <2>4
  <2>6. ASSUME NEW m \in Conns
        PROVE  /\ conn'[m].queued <=> \E i \in 1 .. Len(rest) : rest[i] = m
               /\ conn'[m].queued => Mon(m)' /\ conn'[m].arrival \in 1 .. timer
    <3>1. CASE m # k
      BY <2>1, <2>2, <3>1 DEF IInv, LineIsQueue, Mon
    <3>2. CASE m = k
      BY <1>1, <2>3, <2>4, <3>2
    <3> QED
      BY <3>1, <3>2
  <2>7. line' = rest /\ timer' = timer
    BY <1>0 DEF rest
  <2> QED
    BY <2>1, <2>5, <2>6, <2>7 DEF LineIsQueue
<1> QED
  BY <1>2, <1>3, <1>4, <1>5, <1>6 DEF IInv

(* A channel whose stream changes keeps its slots. *)
LEMMA StreamInv ==
  ASSUME IInv, NEW ch \in Chans, NEW type \in {"SND", "WF", "stale"},
         chan' = [chan EXCEPT ![ch].conn = type],
         UNCHANGED <<conn, camped_rx, client, queue>>
  PROVE  IInv'
<1>0. chan \in [Chans -> Chan] /\ UNCHANGED <<timer, lockout, line>>
  BY DEF IInv, TypeOK, queue
<1>1. chan' \in [Chans -> Chan]
  BY <1>0 DEF Chan
<1>2. \A c \in Chans : /\ chan'[c].n_camp = chan[c].n_camp /\ chan'[c].camp_conn = chan[c].camp_conn
                       /\ chan'[c].camp_id = chan[c].camp_id
  BY <1>0 DEF Chan
<1>3. TypeOK'
  BY <1>0, <1>1 DEF IInv, TypeOK
<1>4. CampCount' /\ OneCamp' /\ SlotsKnown'
  BY <1>2 DEF IInv, CampCount, OneCamp, SlotsKnown, SlotsOf
<1>5. AudioWasAsked' /\ UnusedIsBlank' /\ LineIsQueue'
  BY <1>0 DEF IInv, AudioWasAsked, UnusedIsBlank, LineIsQueue, Mon
<1> QED
  BY <1>3, <1>4, <1>5 DEF IInv

(* A channel that is given back has no slots taken. *)
LEMMA FreeChanInv ==
  ASSUME IInv, NEW ch \in Chans, FreeChan(ch)
  PROVE  IInv'
<1>0. /\ chan \in [Chans -> Chan] /\ chan' = [chan EXCEPT ![ch] = Unused]
      /\ UNCHANGED <<conn, camped_rx, client, timer, lockout, line>>
  BY DEF IInv, TypeOK, FreeChan, Freed, queue
<1>1. /\ Unused \in Chan /\ Unused.n_camp = 0 /\ \A j \in Slots : Unused.camp_conn[j] = None
  BY ConstantsType DEF Unused, Chan
<1>2. chan'[ch] = Unused /\ \A c \in Chans : c # ch => chan'[c] = chan[c]
  BY <1>0
<1>3. TypeOK'
  BY <1>0, <1>1 DEF IInv, TypeOK
<1>4. CampCount'
  <2>1. {j \in Slots : chan'[ch].camp_conn[j] # None} = {}
    BY <1>1, <1>2
  <2>2. chan'[ch].n_camp = Cardinality({j \in Slots : chan'[ch].camp_conn[j] # None})
    BY <1>1, <1>2, <2>1, FS_EmptySet
  <2> QED
    BY <1>2, <2>2 DEF IInv, CampCount
<1>5. \A k \in Conns, c \in Chans : SlotsOf(k, c)' = IF c = ch THEN {} ELSE SlotsOf(k, c)
  BY <1>1, <1>2, ConstantsType DEF SlotsOf
<1>6. OneCamp'
  BY <1>5 DEF IInv, OneCamp
<1>7. SlotsKnown'
  BY <1>0, <1>2, <1>5 DEF IInv, SlotsKnown
<1>8. AudioWasAsked' /\ UnusedIsBlank' /\ LineIsQueue'
  BY <1>0 DEF IInv, AudioWasAsked, UnusedIsBlank, LineIsQueue, Mon
<1> QED
  BY <1>3, <1>4, <1>6, <1>7, <1>8 DEF IInv

(* The connections after camp_init has changed in some of them. *)
LEMMA InitFlagSet ==
  ASSUME IInv, NEW f \in [Conns -> BOOLEAN],
         conn' = [k \in Conns |-> [conn[k] EXCEPT !.camp_init = f[k]]]
  PROVE  /\ conn' \in [Conns -> Conn]
         /\ \A k \in Conns : /\ conn'[k].valid = conn[k].valid /\ conn'[k].type = conn[k].type
                             /\ conn'[k].remote_port = conn[k].remote_port
                             /\ conn'[k].queued = conn[k].queued /\ conn'[k].arrival = conn[k].arrival
                             /\ f[k] = conn[k].camp_init => conn'[k] = conn[k]
<1>1. ASSUME NEW k \in Conns
      PROVE  /\ conn'[k] \in Conn
             /\ conn'[k].valid = conn[k].valid /\ conn'[k].type = conn[k].type
             /\ conn'[k].remote_port = conn[k].remote_port
             /\ conn'[k].queued = conn[k].queued /\ conn'[k].arrival = conn[k].arrival
             /\ f[k] = conn[k].camp_init => conn'[k] = conn[k]
  <2>1. conn[k] \in Conn /\ f[k] \in BOOLEAN /\ conn'[k] = [conn[k] EXCEPT !.camp_init = f[k]]
    BY DEF IInv, TypeOK
  <2> QED
    BY <2>1 DEF Conn
<1> QED
  BY <1>1

(* A monitor that changes channels is in one slot or in none, under its port. *)
LEMMA MonCampInv ==
  ASSUME IInv, NEW k \in Conns, NEW rx \in Chans \cup {None}, MonCamp(k, rx)
  PROVE  IInv'
<1>0. /\ Mon(k) /\ \E b \in BOOLEAN : conn' = [conn EXCEPT ![k].camp_init = b]
      /\ \E c \in Chans \cup {None} : camped_rx' = [camped_rx EXCEPT ![k] = c]
      /\ UNCHANGED <<timer, lockout, line>>
  <2>1. conn[k].camp_init \in BOOLEAN
    BY DEF IInv, TypeOK, Conn
  <2> QED
    BY <2>1 DEF MonCamp, Page, queue
<1>1. /\ conn' \in [Conns -> Conn]
      /\ \A m \in Conns : /\ conn'[m].valid = conn[m].valid /\ conn'[m].type = conn[m].type
                          /\ conn'[m].remote_port = conn[m].remote_port
                          /\ conn'[m].queued = conn[m].queued /\ conn'[m].arrival = conn[m].arrival
                          /\ m # k => conn'[m] = conn[m]
  BY <1>0 DEF IInv, TypeOK, Conn
<1>2. /\ chan' \in [Chans -> Chan] /\ CampCount'
      /\ \/ /\ rx \in Chans
            /\ \E i \in Slots : MovedSlots(k, rx, i)
            /\ client' = [client EXCEPT ![k].asked = rx, ![k].audio = None]
         \/ /\ LeftSlots(SlotsOut(k))
            /\ client' = [client EXCEPT ![k].asked = None, ![k].audio = None]
  BY MonCampEffect, Zenon
<1>3. PICK to \in Chans \cup {None} : client' = [client EXCEPT ![k].asked = to, ![k].audio = None]
  BY <1>2
<1>4. /\ client' \in [Conns -> Client] /\ client'[k].asked = to /\ client'[k].audio = None
      /\ \A m \in Conns : m # k => client'[m] = client[m]
  BY <1>3 DEF IInv, TypeOK, Client
<1>5. TypeOK'
  BY <1>0, <1>1, <1>2, <1>4 DEF IInv, TypeOK
<1>6. AudioWasAsked' /\ UnusedIsBlank'
  BY <1>0, <1>1, <1>4 DEF IInv, AudioWasAsked, UnusedIsBlank, Mon
<1>7. LineIsQueue'
  BY <1>0, <1>1, LineStays DEF IInv, TypeOK
<1>8. ASSUME NEW m \in Conns, m # k, NEW ch \in Chans, NEW j \in SlotsOf(m, ch)'
      PROVE  j \in SlotsOf(m, ch) /\ chan'[ch].camp_id[j] = chan[ch].camp_id[j]
  BY <1>2, <1>8, ConstantsType DEF MovedSlots, LeftSlots, SlotsOut, SlotsOf
<1>9. CASE rx \in Chans /\ \E i \in Slots : MovedSlots(k, rx, i) /\ client'[k].asked = rx
  <2>1. PICK i \in Slots : MovedSlots(k, rx, i)
    BY <1>9
  <2>2. ASSUME NEW ch \in Chans, NEW j \in SlotsOf(k, ch)'
        PROVE  ch = rx /\ j = i /\ chan'[ch].camp_id[j] = conn[k].remote_port
    BY <2>1, <2>2, ConstantsType DEF MovedSlots, SlotsOf
  <2>3. conn[k].remote_port \in Port
    BY <1>0 DEF IInv, UnusedIsBlank, Mon
  <2>4. OneCamp'
    BY <1>8, <2>2 DEF IInv, OneCamp
  <2>5. SlotsKnown'
    BY <1>1, <1>4, <1>8, <1>9, <2>2, <2>3 DEF IInv, SlotsKnown
  <2> QED
    BY <1>2, <1>5, <1>6, <1>7, <2>4, <2>5 DEF IInv
<1>10. CASE LeftSlots(SlotsOut(k)) /\ client'[k].asked = None
  <2>1. \A ch \in Chans : SlotsOf(k, ch)' = {}
    BY <1>10, ConstantsType DEF LeftSlots, SlotsOut, SlotsOf
  <2>2. OneCamp'
    BY <1>8, <2>1 DEF IInv, OneCamp
  <2>3. SlotsKnown'
    BY <1>1, <1>4, <1>8, <2>1 DEF IInv, SlotsKnown
  <2> QED
    BY <1>2, <1>5, <1>6, <1>7, <2>2, <2>3 DEF IInv
<1>11. client \in [Conns -> Client]
  BY DEF IInv, TypeOK
<1> QED
  BY <1>2, <1>9, <1>10, <1>11 DEF Client

LEMMA MonPollInv ==
  ASSUME IInv, NEW k \in Conns, MonPoll(k)
  PROVE  IInv'
<1>0. /\ Mon(k) /\ conn' = [conn EXCEPT ![k].camp_init = FALSE]
      /\ camped_rx' = [camped_rx EXCEPT ![k] = None]
      /\ UNCHANGED <<chan, client, timer, lockout, line>>
  BY DEF MonPoll, queue
<1>1. /\ conn' \in [Conns -> Conn]
      /\ \A m \in Conns : /\ conn'[m].valid = conn[m].valid /\ conn'[m].type = conn[m].type
                          /\ conn'[m].remote_port = conn[m].remote_port
                          /\ conn'[m].queued = conn[m].queued /\ conn'[m].arrival = conn[m].arrival
                          /\ m # k => conn'[m] = conn[m]
  BY <1>0 DEF IInv, TypeOK, Conn
<1>2. TypeOK'
  BY <1>0, <1>1 DEF IInv, TypeOK
<1>3. AudioWasAsked' /\ UnusedIsBlank'
  BY <1>0, <1>1 DEF IInv, AudioWasAsked, UnusedIsBlank, Mon
<1>4. LineIsQueue'
  BY <1>0, <1>1, LineStays DEF IInv, TypeOK
<1>5. CampCount' /\ OneCamp' /\ SlotsKnown'
  BY <1>0, <1>1 DEF IInv, CampCount, OneCamp, SlotsKnown, SlotsOf
<1> QED
  BY <1>2, <1>3, <1>4, <1>5 DEF IInv

(* The sound task only gives audio to those whose port is in the slot. *)
LEMMA SoundInv ==
  ASSUME IInv, NEW ch \in Chans, Sound(ch)
  PROVE  IInv'
<1> DEFINE flag == [k \in Conns |-> conn[k].camp_init \/ k \in Campers(ch)]
<1>0. /\ conn' = [k \in Conns |-> [conn[k] EXCEPT !.camp_init = conn[k].camp_init \/ k \in Campers(ch)]]
      /\ client' = [k \in Conns |-> IF k \in Campers(ch) /\ conn[k].camp_init
                                    THEN [client[k] EXCEPT !.audio = ch] ELSE client[k]]
      /\ UNCHANGED <<camped_rx, timer, lockout, line>>
  BY DEF Sound, queue
<1>1. \A k \in Campers(ch) : k \in Conns /\ Mon(k) /\ client[k].asked = ch
  BY DEF Campers, Gone, SlotsOf, IInv, SlotsKnown
<1>2. flag \in [Conns -> BOOLEAN] /\ conn' = [k \in Conns |-> [conn[k] EXCEPT !.camp_init = flag[k]]]
  BY <1>0 DEF IInv, TypeOK, Conn
<1>3. ASSUME NEW k \in Conns, ~conn[k].valid PROVE flag[k] = conn[k].camp_init
  <2>1. conn[k].camp_init \in BOOLEAN /\ k \notin Campers(ch)
    BY <1>1, <1>3 DEF IInv, TypeOK, Conn, Mon
  <2> QED
    BY <2>1
<1> HIDE DEF flag
<1>4. /\ conn' \in [Conns -> Conn]
      /\ \A k \in Conns : /\ conn'[k].valid = conn[k].valid /\ conn'[k].type = conn[k].type
                          /\ conn'[k].remote_port = conn[k].remote_port
                          /\ conn'[k].queued = conn[k].queued /\ conn'[k].arrival = conn[k].arrival
                          /\ ~conn[k].valid => conn'[k] = conn[k]
  BY <1>2, <1>3, InitFlagSet, Zenon
<1>5. ASSUME NEW k \in Conns
      PROVE  /\ client'[k] \in Client /\ client'[k].asked = client[k].asked
             /\ client'[k].audio \in {client[k].audio, client[k].asked}
             /\ k \notin Campers(ch) => client'[k] = client[k]
  <2>1. client[k] \in Client
    BY DEF IInv, TypeOK
  <2>2. CASE k \in Campers(ch) /\ conn[k].camp_init
    <3>1. client'[k] = [client[k] EXCEPT !.audio = ch] /\ client[k].asked = ch
      BY <1>0, <1>1, <2>2
    <3> QED
      BY <2>1, <2>2, <3>1 DEF Client
  <2>3. CASE ~ (k \in Campers(ch) /\ conn[k].camp_init)
    <3>1. client'[k] = client[k]
      BY <1>0, <2>3
    <3> QED
      BY <2>1, <3>1
  <2> QED
    BY <2>2, <2>3
<1>6. client' \in [Conns -> Client]
  <2>1. client' = [k \in Conns |-> client'[k]]
    BY <1>0
  <2> QED
    BY <1>5, <2>1
<1>7. chan' \in [Chans -> Chan] /\ CampCount' /\ LeftSlots(GoneOut(ch))
  BY SoundEffect
<1>8. TypeOK'
  BY <1>0, <1>4, <1>6, <1>7 DEF IInv, TypeOK
<1>9. AudioWasAsked'
  BY <1>5 DEF IInv, AudioWasAsked
<1>10. UnusedIsBlank'
  <2>1. ASSUME NEW k \in Conns
        PROVE  /\ IF conn'[k].valid THEN conn'[k].remote_port \in Port ELSE conn'[k] = Blank
               /\ client'[k].asked # None => Mon(k)'
               /\ ~conn'[k].valid => client'[k] = Nobody
    BY <1>1, <1>4, <1>5 DEF IInv, UnusedIsBlank, Mon
  <2> QED
    BY <2>1 DEF UnusedIsBlank
<1>11. LineIsQueue'
  BY <1>0, <1>4, LineStays DEF IInv, TypeOK
<1>12. ASSUME NEW m \in Conns, NEW c \in Chans, NEW j \in SlotsOf(m, c)'
       PROVE  j \in SlotsOf(m, c) /\ chan'[c].camp_id[j] = chan[c].camp_id[j]
  BY <1>7, <1>12, ConstantsType DEF LeftSlots, SlotsOf
<1>13. OneCamp'
  BY <1>12 DEF IInv, OneCamp
<1>14. SlotsKnown'
  BY <1>4, <1>5, <1>12 DEF IInv, SlotsKnown
<1> QED
  BY <1>7, <1>8, <1>9, <1>10, <1>11, <1>13, <1>14 DEF IInv

(* A monitor's button changes whether it is queued and since when. *)
LEMMA QueuedSet ==
  ASSUME TypeOK, NEW k \in Conns, NEW b \in BOOLEAN, NEW t \in 0 .. MaxTime,
         conn' = [conn EXCEPT ![k].queued = b, ![k].arrival = t]
  PROVE  /\ conn' \in [Conns -> Conn]
         /\ \A m \in Conns : /\ conn'[m].valid = conn[m].valid /\ conn'[m].type = conn[m].type
                             /\ conn'[m].remote_port = conn[m].remote_port
                             /\ m # k => conn'[m] = conn[m]
         /\ conn'[k].queued = b /\ conn'[k].arrival = t
BY DEF TypeOK, Conn

(* Whoever enters the queue has come after the others, and whoever leaves it *)
(* leaves them in their order.                                              *)
LEMMA QSetInv ==
  ASSUME IInv, NEW k \in Conns, QSet(k)
  PROVE  IInv'
<1>0. /\ Mon(k)
      /\ conn' = [conn EXCEPT ![k].queued = ~conn[k].queued,
                              ![k].arrival = IF conn[k].queued THEN 0 ELSE timer]
      /\ line' = IF conn[k].queued THEN LineWithout(k) ELSE Append(line, k)
      /\ UNCHANGED <<camped_rx, chan, client, timer, lockout>>
  BY DEF QSet, Page, camp
<1>1. timer \in 1 .. MaxTime /\ MaxTime \in Nat
  BY ConstantsType DEF IInv, TypeOK
<1> DEFINE b == ~conn[k].queued
           t == IF conn[k].queued THEN 0 ELSE timer
<1>2. /\ conn' \in [Conns -> Conn]
      /\ \A m \in Conns : /\ conn'[m].valid = conn[m].valid /\ conn'[m].type = conn[m].type
                          /\ conn'[m].remote_port = conn[m].remote_port
                          /\ m # k => conn'[m] = conn[m]
      /\ conn'[k].queued = b /\ conn'[k].arrival = t
  <2>1. b \in BOOLEAN /\ t \in 0 .. MaxTime /\ conn' = [conn EXCEPT ![k].queued = b, ![k].arrival = t]
    BY <1>0, <1>1
  <2> HIDE DEF b, t
  <2> QED
    BY <2>1, QueuedSet DEF IInv
<1>3. TypeOK'
  BY <1>0, <1>2 DEF IInv, TypeOK
<1>4. AudioWasAsked' /\ UnusedIsBlank'
  BY <1>0, <1>2 DEF IInv, AudioWasAsked, UnusedIsBlank, Mon
<1>5. CampCount' /\ OneCamp' /\ SlotsKnown'
  BY <1>0, <1>2 DEF IInv, CampCount, OneCamp, SlotsKnown, SlotsOf
<1>6. ASSUME conn[k].queued PROVE LineIsQueue'
  <2> DEFINE rest == LineWithout(k)
  <2>1. /\ rest \in Seq(Conns)
        /\ \A i, j \in 1 .. Len(rest) : rest[i] = rest[j] => i = j
        /\ \A i, j \in 1 .. Len(rest) : i <= j => conn[rest[i]].arrival <= conn[rest[j]].arrival
        /\ \A m \in Conns : (conn[m].queued /\ m # k) <=> \E i \in 1 .. Len(rest) : rest[i] = m
    BY LineWithoutEffect, Zenon
  <2>2. line' = rest
    BY <1>0, <1>6
  <2> HIDE DEF rest
  <2>3. \A i \in 1 .. Len(rest) : rest[i] \in Conns /\ rest[i] # k
    BY <2>1, ElementOfSeq
  <2>4. \A i, j \in 1 .. Len(rest) : i <= j => conn'[rest[i]].arrival <= conn'[rest[j]].arrival
    BY <1>2, <2>1, <2>3
  <2>5. ASSUME NEW m \in Conns
        PROVE  /\ conn'[m].queued <=> \E i \in 1 .. Len(rest) : rest[i] = m
               /\ conn'[m].queued => Mon(m)' /\ conn'[m].arrival \in 1 .. timer'
    <3>1. CASE m # k
      BY <1>0, <1>2, <2>1, <3>1 DEF IInv, LineIsQueue, Mon
    <3>2. CASE m = k
      BY <1>2, <1>6, <2>3, <3>2
    <3> QED
      BY <3>1, <3>2
  <2> QED
    BY <2>1, <2>2, <2>4, <2>5 DEF LineIsQueue
<1>7. ASSUME ~conn[k].queued PROVE LineIsQueue'
  <2> DEFINE all == Append(line, k)
  <2>0. line \in Seq(Conns) /\ Len(line) \in Nat /\ \A i \in 1 .. Len(line) : line[i] \in Conns /\ line[i] # k
    BY <1>7, LenProperties, ElementOfSeq DEF IInv, LineIsQueue
  <2>1. /\ all \in Seq(Conns) /\ Len(all) = Len(line) + 1
        /\ \A i \in 1 .. Len(line) : all[i] = line[i]
        /\ all[Len(line) + 1] = k
    BY <2>0, AppendProperties
  <2>2. line' = all
    BY <1>0, <1>7
  <2> HIDE DEF all
  <2>3. \A i \in 1 .. Len(all) : i \in 1 .. Len(line) \/ i = Len(line) + 1
    BY <2>0, <2>1
  <2>4. \A i, j \in 1 .. Len(all) : all[i] = all[j] => i = j
    BY <2>0, <2>1, <2>3 DEF IInv, LineIsQueue
  <2>5. \A i \in 1 .. Len(line) : conn'[all[i]].arrival = conn[line[i]].arrival
    BY <1>2, <2>0, <2>1
  <2>6. \A i \in 1 .. Len(line) : conn[line[i]].arrival \in 1 .. timer
    BY <2>0 DEF IInv, LineIsQueue
  <2>7. conn'[all[Len(line) + 1]].arrival = timer
    BY <1>2, <1>7, <2>1
  <2>8. ASSUME NEW i \in 1 .. Len(all), NEW j \in 1 .. Len(all), i <= j
        PROVE  conn'[all[i]].arrival <= conn'[all[j]].arrival
    <3>1. CASE i = Len(line) + 1
      BY <1>1, <2>0, <2>1, <2>3, <2>7, <2>8, <3>1
    <3>2. CASE i \in 1 .. Len(line) /\ j = Len(line) + 1
      BY <1>1, <2>5, <2>6, <2>7, <3>2
    <3>3. CASE i \in 1 .. Len(line) /\ j \in 1 .. Len(line)
      BY <2>5, <2>8, <3>3 DEF IInv, LineIsQueue
    <3> QED
      BY <2>3, <3>1, <3>2, <3>3
  <2>9. ASSUME NEW m \in Conns
        PROVE  /\ conn'[m].queued <=> \E i \in 1 .. Len(all) : all[i] = m
               /\ conn'[m].queued => Mon(m)' /\ conn'[m].arrival \in 1 .. timer'
    <3>1. CASE m # k
      <4>1. (\E i \in 1 .. Len(all) : all[i] = m) <=> \E i \in 1 .. Len(line) : line[i] = m
        BY <2>0, <2>1, <2>3, <3>1
      <4> QED
        BY <1>0, <1>2, <3>1, <4>1 DEF IInv, LineIsQueue, Mon
    <3>2. CASE m = k
      <4>1. Len(line) + 1 \in 1 .. Len(all) /\ all[Len(line) + 1] = m
        BY <2>0, <2>1, <3>2
      <4>2. conn'[m].queued = TRUE /\ conn'[m].arrival = timer /\ Mon(m)' /\ timer' = timer
        BY <1>0, <1>2, <1>7, <3>2 DEF Mon
      <4> QED
        BY <1>1, <4>1, <4>2
    <3> QED
      BY <3>1, <3>2
  <2> QED
    BY <2>1, <2>2, <2>4, <2>8, <2>9 DEF LineIsQueue
<1>8. LineIsQueue'
  BY <1>6, <1>7
<1> QED
  BY <1>3, <1>4, <1>5, <1>8 DEF IInv

LEMMA QPosInv ==
  ASSUME IInv, NEW k \in Conns, QPos(k)
  PROVE  IInv'
<1>0. /\ lockout' = timer + Lockout /\ client' = [client EXCEPT ![k].told = TRUE] /\ Mon(k)
      /\ UNCHANGED <<conn, camped_rx, chan, timer, line>>
  BY DEF QPos, camp, Page
<1>1. /\ client' \in [Conns -> Client]
      /\ \A m \in Conns : /\ client'[m].asked = client[m].asked /\ client'[m].audio = client[m].audio
                          /\ m # k => client'[m] = client[m]
  BY <1>0 DEF IInv, TypeOK, Client
<1>2. TypeOK'
  BY <1>0, <1>1, ConstantsType DEF IInv, TypeOK
<1>3. AudioWasAsked' /\ UnusedIsBlank'
  BY <1>0, <1>1 DEF IInv, AudioWasAsked, UnusedIsBlank, Mon
<1>4. CampCount' /\ OneCamp' /\ SlotsKnown'
  BY <1>0, <1>1 DEF IInv, CampCount, OneCamp, SlotsKnown, SlotsOf
<1>5. LineIsQueue'
  BY <1>0 DEF IInv, LineIsQueue, Mon
<1> QED
  BY <1>2, <1>3, <1>4, <1>5 DEF IInv

LEMMA TickInv ==
  ASSUME IInv, Tick
  PROVE  IInv'
<1>0. /\ timer' = timer + 1 /\ timer < MaxTime /\ timer \in 1 .. MaxTime
      /\ UNCHANGED <<conn, camped_rx, chan, client, lockout, line>>
  BY DEF Tick, camp, IInv, TypeOK
<1>1. TypeOK'
  BY <1>0, ConstantsType DEF IInv, TypeOK
<1>2. AudioWasAsked' /\ UnusedIsBlank' /\ CampCount' /\ OneCamp' /\ SlotsKnown'
  BY <1>0 DEF IInv, AudioWasAsked, UnusedIsBlank, CampCount, OneCamp, SlotsKnown, SlotsOf, Mon
<1>3. LineIsQueue'
  BY <1>0, ConstantsType, LineStays DEF IInv
<1> QED
  BY <1>1, <1>2, <1>3 DEF IInv

LEMMA NextInv == IInv /\ [Next]_vars => IInv'
<1> SUFFICES ASSUME IInv, [Next]_vars PROVE IInv'
  OBVIOUS
<1>1. CASE Traffic
  <2>1. ASSUME NEW k \in Conns, NEW port \in Port, NEW type \in {"MONITOR", "other"}, Arrive(k, type, port)
        PROVE  IInv'
    BY <2>1, ArriveInv
  <2>2. ASSUME NEW k \in Conns, Depart(k) PROVE IInv'
    BY <2>2, DepartInv
  <2>3. ASSUME NEW ch \in Chans, NEW type \in {"SND", "WF"}, TakeChan(ch, type) PROVE IInv'
    BY <2>3, StreamInv DEF TakeChan
  <2>4. ASSUME NEW ch \in Chans, SoundEnds(ch) PROVE IInv'
    BY <2>4, StreamInv DEF SoundEnds
  <2>5. ASSUME NEW ch \in Chans, FreeChan(ch) PROVE IInv'
    BY <2>5, FreeChanInv
  <2> QED
    BY <1>1, <2>1, <2>2, <2>3, <2>4, <2>5, Zenon DEF Traffic
<1>2. CASE Listen
  BY <1>2, MonPollInv, MonCampInv, SoundInv, Zenon DEF Listen
<1>3. CASE Wait
  BY <1>3, QSetInv, QPosInv, TickInv, Zenon DEF Wait
<1>4. CASE UNCHANGED vars
  <2>1. UNCHANGED <<conn, camped_rx, chan, client, timer, lockout, line>>
    BY <1>4 DEF vars
  <2>2. TypeOK' /\ CampCount' /\ OneCamp' /\ AudioWasAsked'
    BY <2>1 DEF IInv, TypeOK, CampCount, OneCamp, AudioWasAsked, SlotsOf
  <2>3. UnusedIsBlank' /\ SlotsKnown' /\ LineIsQueue'
    BY <2>1 DEF IInv, UnusedIsBlank, SlotsKnown, LineIsQueue, SlotsOf, Mon
  <2> QED
    BY <2>2, <2>3 DEF IInv
<1> QED
  BY <1>1, <1>2, <1>3, <1>4 DEF Next

-----------------------------------------------------------------------------
(* Theorems *)

(* The slots and their counts, the connections they name, what the clients    *)
(* hear and the queue are always as they should be.                           *)
THEOREM CampingInv == Spec => []IInv
<1>1. Init => IInv
  BY InitInv
<1>2. IInv /\ [Next]_vars => IInv'
  BY NextInv
<1> QED
  BY <1>1, <1>2, PTL DEF Spec

(* Everything is of its type. *)
THEOREM TypeCorrect == Spec => []TypeOK
<1>1. IInv => TypeOK
  BY DEF IInv
<1> QED
  BY <1>1, CampingInv, PTL

(* n_camp is the number of slots taken, after any steps of the two tasks. *)
THEOREM CountsAreRight == Spec => []CampCount
<1>1. IInv => CampCount
  BY DEF IInv
<1> QED
  BY <1>1, CampingInv, PTL

(* Nobody is in two slots. *)
THEOREM InOneCamp == Spec => []OneCamp
<1>1. IInv => OneCamp
  BY DEF IInv
<1> QED
  BY <1>1, CampingInv, PTL

(* Nobody hears a channel that only a predecessor has asked for. *)
THEOREM HearsWhatWasAsked == Spec => []AudioWasAsked
<1>1. IInv => AudioWasAsked
  BY DEF IInv
<1> QED
  BY <1>1, CampingInv, PTL

(* Who waits is in the line, and the first of it has come no later than any. *)
LEMMA FirstCameFirst ==
  ASSUME IInv, NEW m \in Conns, Waits(m)
  PROVE  /\ Len(line) \in Nat \ {0} /\ line[1] \in Conns /\ Waits(line[1])
         /\ conn[line[1]].arrival \in Nat /\ conn[m].arrival \in Nat
         /\ conn[line[1]].arrival <= conn[m].arrival
<1>1. line \in Seq(Conns) /\ Len(line) \in Nat
  BY LenProperties DEF IInv, LineIsQueue
<1>2. PICK i \in 1 .. Len(line) : line[i] = m
  BY DEF IInv, LineIsQueue, Waits
<1>3. Len(line) # 0 /\ 1 \in 1 .. Len(line) /\ 1 <= i
  BY <1>1, <1>2
<1>4. line[1] \in Conns
  BY <1>1, <1>3, ElementOfSeq
<1>5. conn[line[1]].queued
  BY <1>3, <1>4 DEF IInv, LineIsQueue
<1>6. conn[line[1]].arrival \in 1 .. timer /\ conn[m].arrival \in 1 .. timer /\ Waits(line[1])
  BY <1>4, <1>5, ConstantsType DEF IInv, LineIsQueue, Waits, Mon, TypeOK
<1> QED
  BY <1>1, <1>2, <1>3, <1>4, <1>6 DEF IInv, LineIsQueue

(* Only the first of the line is in the first place. *)
LEMMA FirstPlace ==
  ASSUME IInv, NEW k \in Conns, conn[k].queued, Pos(k) = 1
  PROVE  line # <<>> /\ line[1] = k
<1> DEFINE W == {m \in Conns : Waits(m) /\ conn[m].arrival <= conn[k].arrival}
<1>1. conn[k].arrival \in Nat /\ Waits(k)
  BY ConstantsType DEF IInv, LineIsQueue, Waits, Mon, TypeOK
<1>2. /\ Len(line) \in Nat \ {0} /\ line[1] \in Conns /\ Waits(line[1])
      /\ conn[line[1]].arrival <= conn[k].arrival
  BY <1>1, FirstCameFirst
<1>3. k \in W /\ line[1] \in W
  BY <1>1, <1>2
<1>4. IsFiniteSet(W) /\ Cardinality(W) = 1
  BY ConstantsType, FS_Subset DEF Pos
<1> HIDE DEF W
<1>5. \E x : W = {x}
  BY <1>4, FS_Singleton
<1> QED
  BY <1>2, <1>3, <1>5

(* Nothing but an answer to "SET MON_QPOS" tells a client to reload. *)
LEMMA ToldByQPos ==
  ASSUME IInv, Next, NEW k \in Conns, ~client[k].told, client'[k].told
  PROVE  QPos(k)
<1>0. client \in [Conns -> Client]
  BY DEF IInv, TypeOK
<1>1. CASE Traffic
  <2>1. client' = client \/ \E m \in Conns : client' = [client EXCEPT ![m] = Nobody]
    BY <1>1, Zenon DEF Traffic, Arrive, Depart, TakeChan, SoundEnds, FreeChan
  <2> QED
    BY <1>0, <2>1 DEF Nobody
<1>2. CASE Listen
  <2>1. ASSUME NEW m \in Conns, NEW rx \in Chans \cup {None}, MonCamp(m, rx) PROVE FALSE
    <3>1. \E to : client' = [client EXCEPT ![m].asked = to, ![m].audio = None]
      BY <2>1, Zenon DEF MonCamp
    <3> QED
      BY <1>0, <3>1 DEF Client
  <2>2. ASSUME NEW ch \in Chans, Sound(ch) PROVE FALSE
    <3>1. client'[k] \in {[client[k] EXCEPT !.audio = ch], client[k]}
      BY <2>2 DEF Sound
    <3> QED
      BY <1>0, <3>1 DEF Client
  <2>3. ASSUME NEW m \in Conns, MonPoll(m) PROVE FALSE
    BY <2>3 DEF MonPoll
  <2> QED
    BY <1>2, <2>1, <2>2, <2>3, Zenon DEF Listen
<1>3. CASE Wait
  <2>1. ASSUME NEW m \in Conns, QPos(m), m # k PROVE FALSE
    BY <1>0, <2>1 DEF QPos
  <2>2. ~Tick /\ \A m \in Conns : ~QSet(m)
    BY Zenon DEF Tick, QSet
  <2> QED
    BY <1>3, <2>1, <2>2, Zenon DEF Wait
<1> QED
  BY <1>1, <1>2, <1>3 DEF Next

(* Whoever is sent to a free channel is the first of the line. *)
THEOREM QueueOrder == Spec => QueueIsFifo
<1> DEFINE A == \A k \in Conns : ~client[k].told /\ client'[k].told => line # <<>> /\ line[1] = k
<1>1. IInv /\ [Next]_vars => [A]_vars
  <2> SUFFICES ASSUME IInv, Next, NEW k \in Conns, ~client[k].told, client'[k].told
               PROVE  line # <<>> /\ line[1] = k
    BY Zenon
  <2>1. QPos(k)
    BY ToldByQPos
  <2> QED
    BY <2>1, FirstPlace DEF QPos, Reload
<1> QED
  BY <1>1, CampingInv, PTL DEF QueueIsFifo, Spec

(* If there is a channel and the lockout is over, the first of the line is in *)
(* the first place, unless the second has come in the same second.            *)
THEOREM FirstGetsChannel == Spec => []FirstIsServed
<1>1. ASSUME IInv, line # <<>>, chan_avail, lockout <= timer,
             ~ (Len(line) > 1 /\ conn[line[2]].arrival = conn[line[1]].arrival)
      PROVE  Reload(line[1])
  <2> DEFINE k == line[1]
             W == {m \in Conns : Waits(m) /\ conn[m].arrival <= conn[k].arrival}
  <2>1. line \in Seq(Conns) /\ Len(line) \in Nat \ {0}
    BY <1>1, LenProperties, EmptySeq DEF IInv, LineIsQueue
  <2>2. \A i \in 1 .. Len(line) : line[i] \in Conns
    BY <2>1, ElementOfSeq
  <2>3. \A i \in 1 .. Len(line) : Waits(line[i]) /\ conn[line[i]].arrival \in Nat
    BY <1>1, <2>2, ConstantsType DEF IInv, LineIsQueue, Waits, Mon, TypeOK
  <2>4. ASSUME NEW m \in Conns, Waits(m), conn[m].arrival <= conn[k].arrival PROVE m = k
    <3>1. PICK i \in 1 .. Len(line) : line[i] = m
      BY <1>1, <2>4 DEF IInv, LineIsQueue, Waits
    <3>2. SUFFICES ASSUME i # 1 PROVE FALSE
      BY <3>1
    <3>3. 1 \in 1 .. Len(line) /\ 2 \in 1 .. Len(line) /\ 1 <= 2 /\ 2 <= i /\ Len(line) > 1
      BY <2>1, <3>2
    <3>4. /\ conn[line[1]].arrival <= conn[line[2]].arrival
          /\ conn[line[2]].arrival <= conn[line[i]].arrival
      BY <1>1, <3>3 DEF IInv, LineIsQueue
    <3>5. conn[line[2]].arrival = conn[line[1]].arrival
      BY <2>3, <2>4, <3>1, <3>3, <3>4
    <3> QED
      BY <1>1, <3>3, <3>5
  <2>5. W = {k}
    <3>1. k \in Conns /\ Waits(k) /\ conn[k].arrival \in Nat
      BY <2>1, <2>2, <2>3
    <3> QED
      BY <2>4, <3>1
  <2>6. Pos(k) = 1
    BY <2>5, FS_Singleton DEF Pos
  <2>7. ~ (lockout > timer)
    BY <1>1, ConstantsType DEF IInv, TypeOK
  <2> QED
    BY <1>1, <2>6, <2>7 DEF Reload
<1>2. IInv => FirstIsServed
  BY <1>1 DEF FirstIsServed
<1> QED
  BY <1>2, CampingInv, PTL

(* A camper only loses its slot with the channel, by leaving or by camping    *)
(* elsewhere: other monitors take their own slots or free ones, and the sound *)
(* task finds its port in the slot.                                           *)
THEOREM CamperStays == Spec => KeepsCamping
<1> DEFINE Was(k, ch) == /\ Mon(k) /\ conn'[k].valid
                         /\ client[k].asked = ch /\ client'[k].asked = ch
                         /\ SlotsOf(k, ch) # {} /\ chan'[ch].conn # "NULL"
           Is(k, ch) == \E j \in Slots : chan'[ch].camp_conn[j] = k
           A == \A k \in Conns, ch \in Chans : Was(k, ch) => Is(k, ch)
<1>1. ASSUME IInv, Next, NEW k \in Conns, NEW ch \in Chans, Was(k, ch)
      PROVE  Is(k, ch)
  <2>0. ch # None /\ chan \in [Chans -> Chan] /\ client \in [Conns -> Client]
    BY <1>1, ConstantsType DEF IInv, TypeOK
  <2>1. PICK j \in Slots : chan[ch].camp_conn[j] = k
    BY <1>1 DEF SlotsOf
  <2>2. chan' = chan => Is(k, ch)
    BY <2>1
  <2>3. ASSUME NEW c \in Chans, NEW type, chan' = [chan EXCEPT ![c].conn = type] PROVE Is(k, ch)
    BY <2>0, <2>1, <2>3 DEF Chan
  <2>4. ASSUME NEW c \in Chans, FreeChan(c) PROVE Is(k, ch)
    <3>1. chan' = [chan EXCEPT ![c] = Unused] /\ Unused.conn = "NULL"
      BY <2>4 DEF FreeChan, Freed, Unused
    <3>2. c # ch
      BY <1>1, <2>0, <3>1
    <3> QED
      BY <2>0, <2>1, <3>1, <3>2
  <2>5. ASSUME NEW m \in Conns, NEW rx \in Chans \cup {None}, MonCamp(m, rx) PROVE Is(k, ch)
    <3>1. \/ /\ rx \in Chans
             /\ \E i \in Slots : MovedSlots(m, rx, i) /\ chan[rx].camp_conn[i] \in {None, m}
             /\ client' = [client EXCEPT ![m].asked = rx, ![m].audio = None]
          \/ /\ LeftSlots(SlotsOut(m))
             /\ client' = [client EXCEPT ![m].asked = None, ![m].audio = None]
      BY <1>1, <2>5, MonCampEffect, Zenon
    <3>2. CASE m # k
      <4>1. j \notin SlotsOf(m, ch) /\ k # None
        BY <2>1, <3>2, ConstantsType DEF SlotsOf
      <4> QED
        BY <2>1, <3>1, <3>2, <4>1 DEF MovedSlots, LeftSlots, SlotsOut
    <3>3. CASE m = k
      <4>1. rx = ch /\ \E i \in Slots : MovedSlots(m, rx, i)
        BY <1>1, <2>0, <3>1, <3>3 DEF Client
      <4> QED
        BY <3>3, <4>1 DEF MovedSlots
    <3> QED
      BY <3>2, <3>3
  <2>6. ASSUME NEW c \in Chans, Sound(c) PROVE Is(k, ch)
    <3>1. LeftSlots(GoneOut(c))
      BY <1>1, <2>6, SoundEffect
    <3>2. j \notin GoneOut(c)[ch]
      <4>1. chan[ch].camp_id[j] = conn[k].remote_port
        BY <1>1, <2>0, <2>1 DEF IInv, SlotsKnown, SlotsOf
      <4> QED
        BY <1>1, <2>1, <4>1 DEF GoneOut, Gone
    <3> QED
      BY <2>1, <3>1, <3>2 DEF LeftSlots
  <2>7. CASE Traffic
    <3>1. \/ chan' = chan
          \/ \E c \in Chans : FreeChan(c)
          \/ \E c \in Chans : \E type : chan' = [chan EXCEPT ![c].conn = type]
      BY <2>7, Zenon DEF Traffic, Arrive, Depart, TakeChan, SoundEnds, camp
    <3> QED
      BY <2>2, <2>3, <2>4, <3>1, Zenon
  <2>8. CASE Listen
    <3>1. \A m \in Conns : MonPoll(m) => chan' = chan
      BY Zenon DEF MonPoll
    <3> QED
      BY <2>2, <2>5, <2>6, <2>8, <3>1, Zenon DEF Listen
  <2>9. CASE Wait
    <3>1. chan' = chan
      BY <2>9, Zenon DEF Wait, QSet, QPos, Tick, camp
    <3> QED
      BY <2>2, <3>1
  <2> QED
    BY <1>1, <2>7, <2>8, <2>9 DEF Next
<1>2. IInv /\ [Next]_vars => [A]_vars
  BY <1>1, Zenon
<1> QED
  BY <1>2, CampingInv, PTL DEF KeepsCamping, Spec
=============================================================================
