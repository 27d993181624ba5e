--------------------------- MODULE CfgSaveProofs ----------------------------
(***************************************************************************)
(* Proofs about module CfgSave, for any number of users, administrators,   *)
(* page loads, saves and parts.                                            *)
(***************************************************************************)
EXTENDS CfgSave, SequenceTheorems, TLAPS

-----------------------------------------------------------------------------
(* The inductive invariant                                                 *)

Fragment == [who : Client \cup {"factory"}, ts : Nat, seq : Nat, i : Nat, last : BOOLEAN]

Types ==
  /\ page \in [Client -> [on : BOOLEAN, ts : Nat, len : Seq(Nat \ {0}), sent : Seq(Nat)]]
  /\ \A c \in Client :
       /\ Len(page[c].sent) = Len(page[c].len)
       /\ \A s \in 1 .. Len(page[c].len) : page[c].sent[s] <= page[c].len[s]
       /\ ~page[c].on => Len(page[c].len) = 0
  /\ save_cfg \in [conn : Client \cup {"nobody"}, ts : Nat, seq : Nat, json : Seq(Fragment)]
  /\ json \in Seq(Fragment) /\ file \in Seq(Fragment) /\ job \in [Client -> Seq(Fragment)]
  /\ json_write \in BOOLEAN /\ panicked \in BOOLEAN /\ clash \in BOOLEAN /\ torn \in BOOLEAN

\* Part way through a save of c.
Sending(c, s) == page[c].sent[s] < page[c].len[s]

\* One user at a time saves, and no one writes a file while an administrator
\* is there, except himself.
TurnsInv ==
  /\ \A c, d \in User : Busy(c) /\ Busy(d) => c = d
  /\ \A a \in Admin, d \in Client :
       page[a].on /\ d # a => ~Saving(d) /\ (d \in Admin => ~page[d].on)
  /\ \A c \in User, a \in Admin : InFlight(c) /\ Saving(a) => page[a].on
  /\ \A c, d \in Client : Saving(c) /\ Saving(d) => c = d

\* What has been received of the saves of c: nothing of those after the one that
\* is being put together, and all of that one.  While the file is written that
\* is the save which the file is for.
ReceivedInv(c) ==
  /\ ~Other(c) /\ page[c].on =>
       /\ save_cfg.seq <= Len(page[c].len)
       /\ save_cfg.seq # 0 => /\ page[c].sent[save_cfg.seq] > 0
                              /\ Saving(c) => ~Sending(c, save_cfg.seq)
  /\ rx_auth_okay(c) =>
       \A s \in 1 .. Len(page[c].len) : Sending(c, s) /\ page[c].sent[s] > 0 =>
         /\ ~Other(c) /\ s <= save_cfg.seq
         /\ s = save_cfg.seq =>
              /\ Len(save_cfg.json) = page[c].sent[s]
              /\ \A i \in 1 .. page[c].sent[s] : save_cfg.json[i] = Part(c, s, i)

\* A save that is older than what is stored will be recognised as such.
OlderInv(c) ==
  page[c].on /\ json[1].who = c /\ json[1].ts = page[c].ts =>
    /\ json[1].seq <= Len(page[c].len)
    /\ rx_auth_okay(c) =>
         \/ ~Other(c) /\ json[1].seq <= save_cfg.seq
         \/ \A s \in 1 .. Len(page[c].len) : Sending(c, s) => json[1].seq < s

\* Nothing is from a page that has not been loaded yet.
LoadsInv(c) ==
  /\ save_cfg.conn = c => save_cfg.ts <= page[c].ts
  /\ json[1].who = c => json[1].ts <= page[c].ts
  /\ file # <<>> /\ file[1].who = c => file[1].ts <= page[c].ts

\* The file is what the program uses, or is going to be.
FileInv ==
  /\ Whole(json) /\ ~panicked /\ (file = <<>> \/ Whole(file))
  /\ \A c \in Client : Saving(c) => job[c] = json /\ json_write
  /\ file = json \/ \E c \in Client : Saving(c)

Good ==
  /\ TurnsInv /\ FileInv
  /\ \A c \in Client : ReceivedInv(c) /\ OlderInv(c) /\ LoadsInv(c)

IInv == Types /\ (~clash /\ ~torn => Good)

-----------------------------------------------------------------------------
LEMMA ClientConstants ==
  /\ "nobody" \notin Client /\ "factory" \notin Client
  /\ Client = User \cup Admin /\ User \cap Admin = {}
BY CfgSaveAssumption DEF Client

LEMMA PageTypes ==
  ASSUME Types, NEW c \in Client
  PROVE  /\ page[c] \in [on : BOOLEAN, ts : Nat, len : Seq(Nat \ {0}), sent : Seq(Nat)]
         /\ page[c].on \in BOOLEAN /\ page[c].ts \in Nat
         /\ page[c].len \in Seq(Nat \ {0}) /\ page[c].sent \in Seq(Nat)
         /\ Len(page[c].len) \in Nat /\ Len(page[c].sent) = Len(page[c].len)
         /\ Saves(c) = 1 .. Len(page[c].len)
         /\ \A s \in 1 .. Len(page[c].len) :
              page[c].len[s] \in Nat \ {0} /\ page[c].sent[s] \in Nat /\ page[c].sent[s] <= page[c].len[s]
         /\ InFlight(c) <=> \E s \in 1 .. Len(page[c].len) : Sending(c, s)
<1>1. page[c] \in [on : BOOLEAN, ts : Nat, len : Seq(Nat \ {0}), sent : Seq(Nat)]
  BY DEF Types
<1>2. /\ page[c].on \in BOOLEAN /\ page[c].ts \in Nat
      /\ page[c].len \in Seq(Nat \ {0}) /\ page[c].sent \in Seq(Nat)
  BY <1>1
<1>3. Len(page[c].len) \in Nat /\ DOMAIN page[c].len = 1 .. Len(page[c].len)
  BY <1>2, LenProperties
<1>4. /\ Len(page[c].sent) = Len(page[c].len)
      /\ \A s \in 1 .. Len(page[c].len) : page[c].sent[s] <= page[c].len[s]
  BY DEF Types
<1>5. \A s \in 1 .. Len(page[c].len) : page[c].len[s] \in Nat \ {0} /\ page[c].sent[s] \in Nat
  BY <1>2, <1>4, ElementOfSeq
<1> QED
  BY <1>1, <1>2, <1>3, <1>4, <1>5 DEF Saves, InFlight, Sending

LEMMA DocTypes ==
  ASSUME NEW doc \in Seq(Fragment), doc # <<>>
  PROVE  /\ Len(doc) \in Nat \ {0} /\ DOMAIN doc = 1 .. Len(doc)
         /\ doc[1] \in Fragment /\ doc[1].ts \in Nat /\ doc[1].seq \in Nat
<1>1. Len(doc) \in Nat /\ DOMAIN doc = 1 .. Len(doc) /\ Len(doc) # 0
  BY LenProperties, EmptySeq
<1>2. 1 \in 1 .. Len(doc)
  BY <1>1
<1>3. doc[1] \in Fragment
  BY <1>2, ElementOfSeq
<1> QED
  BY <1>1, <1>3 DEF Fragment

(* What the program uses is a configuration. *)
LEMMA JsonTypes ==
  ASSUME Types, Whole(json)
  PROVE  json # <<>> /\ json \in Seq(Fragment) /\ json[1].ts \in Nat /\ json[1].seq \in Nat
BY DocTypes DEF Types, Whole

(* For a client who does nothing, nothing changes. *)
LEMMA Frame ==
  ASSUME NEW d \in Client, page'[d] = page[d], save_cfg' = save_cfg, json' = json,
         Saving(d)' => Saving(d), rx_auth_okay(d)' => rx_auth_okay(d), ReceivedInv(d), OlderInv(d)
  PROVE  ReceivedInv(d)' /\ OlderInv(d)'
BY DEF ReceivedInv, OlderInv, Other, Sending, Part

\* The page of a client with no saves.
Blank(on, ts) == [NewPage(ts) EXCEPT !.on = on]

LEMMA BlankTypes ==
  ASSUME NEW on \in BOOLEAN, NEW ts \in Nat
  PROVE  /\ Blank(on, ts) \in [on : BOOLEAN, ts : Nat, len : Seq(Nat \ {0}), sent : Seq(Nat)]
         /\ Blank(on, ts).on = on /\ Blank(on, ts).ts = ts
         /\ Len(Blank(on, ts).len) = 0 /\ Len(Blank(on, ts).sent) = 0
         /\ DOMAIN Blank(on, ts).len = 1 .. 0
<1>1. <<>> \in Seq(Nat) /\ <<>> \in Seq(Nat \ {0}) /\ DOMAIN <<>> = 1 .. 0
  BY EmptySeq, LenProperties
<1>2. Blank(on, ts) = [on |-> on, ts |-> ts, len |-> <<>>, sent |-> <<>>]
  BY DEF Blank, NewPage
<1> QED
  BY <1>1, <1>2, EmptySeq

(* A page that is loaded or left has no saves. *)
LEMMA PageIsBlank ==
  ASSUME Types, NEW c \in Client, NEW on \in BOOLEAN, NEW ts \in Nat,
         page' = [page EXCEPT ![c] = Blank(on, ts)], clash' \in BOOLEAN,
         UNCHANGED <<save_cfg, json, file, job, json_write, panicked, torn>>
  PROVE  /\ Types' /\ page'[c].on = on /\ page'[c].ts = ts /\ Len(page'[c].len) = 0
         /\ \A d \in Client : d # c => page'[d] = page[d]
         /\ \A d \in Client : InFlight(d)' => d # c /\ InFlight(d)
<1>1. /\ page' \in [Client -> [on : BOOLEAN, ts : Nat, len : Seq(Nat \ {0}), sent : Seq(Nat)]]
      /\ page'[c] = Blank(on, ts)
      /\ \A d \in Client : d # c => page'[d] = page[d]
  BY BlankTypes DEF Types
<1>2. \A d \in Client :
       /\ Len(page'[d].sent) = Len(page'[d].len)
       /\ \A s \in 1 .. Len(page'[d].len) : page'[d].sent[s] <= page'[d].len[s]
       /\ ~page'[d].on => Len(page'[d].len) = 0
  <2>1. \A d \in Client :
         /\ Len(page[d].sent) = Len(page[d].len)
         /\ \A s \in 1 .. Len(page[d].len) : page[d].sent[s] <= page[d].len[s]
         /\ ~page[d].on => Len(page[d].len) = 0
    BY DEF Types
  <2>2. \A s \in 1 .. Len(page'[c].len) : FALSE
    BY <1>1, BlankTypes
  <2> QED
    BY <1>1, <2>1, <2>2, BlankTypes
<1>3. \A d \in Client : InFlight(d)' => d # c /\ InFlight(d)
  <2>1. DOMAIN page'[c].len = 1 .. 0
    BY <1>1, BlankTypes
  <2> QED
    BY <1>1, <2>1 DEF InFlight, Saves
<1>4. Types'
  BY <1>1, <1>2 DEF Types
<1>5. page'[c].on = on /\ page'[c].ts = ts /\ Len(page'[c].len) = 0
  BY <1>1, BlankTypes
<1> QED
  BY <1>1, <1>3, <1>4, <1>5

LEMMA ConnectPage ==
  ASSUME Types, NEW c \in Client, Connect(c)
  PROVE  /\ Types' /\ page'[c].on /\ page'[c].ts = page[c].ts + 1 /\ Len(page'[c].len) = 0
         /\ \A d \in Client : d # c => page'[d] = page[d]
         /\ \A d \in Client : InFlight(d)' => d # c /\ InFlight(d)
<1>1. page[c].ts + 1 \in Nat
  BY PageTypes
<1>2. /\ page' = [page EXCEPT ![c] = Blank(TRUE, page[c].ts + 1)] /\ clash' \in BOOLEAN
      /\ UNCHANGED <<save_cfg, json, file, job, json_write, panicked, torn>>
  BY DEF Connect, Types, Clash, Blank, NewPage
<1> QED
  BY <1>1, <1>2, PageIsBlank

LEMMA LeavePage ==
  ASSUME Types, NEW c \in Client, Leave(c)
  PROVE  /\ Types' /\ ~page'[c].on /\ page'[c].ts = page[c].ts /\ Len(page'[c].len) = 0
         /\ \A d \in Client : d # c => page'[d] = page[d]
         /\ \A d \in Client : InFlight(d)' => d # c /\ InFlight(d)
<1>1. page[c].ts \in Nat
  BY PageTypes
<1>2. /\ page' = [page EXCEPT ![c] = Blank(FALSE, page[c].ts)] /\ clash' \in BOOLEAN
      /\ UNCHANGED <<save_cfg, json, file, job, json_write, panicked, torn>>
  BY DEF Leave, Types, Clash, Blank
<1> QED
  BY <1>1, <1>2, PageIsBlank

LEMMA ConnectGood ==
  ASSUME Types, Good, NEW c \in Client, Connect(c), ~clash'
  PROVE  Good'
<1>0. /\ ~page[c].on /\ ~Saving(c) /\ (c \in Admin => \A d \in Admin : ~page[d].on)
      /\ (c \in Admin => \A d \in Client : ~Saving(d))
      /\ UNCHANGED <<save_cfg, json, file, job, json_write, panicked, torn>>
  BY DEF Connect, Clash
<1>1. page[c].ts \in Nat /\ page[c].ts + 1 \in Nat
  BY PageTypes
<1>2. /\ Types' /\ page'[c].on /\ page'[c].ts = page[c].ts + 1 /\ Len(page'[c].len) = 0
      /\ \A d \in Client : d # c => page'[d] = page[d]
      /\ \A d \in Client : InFlight(d)' => d # c /\ InFlight(d)
  BY <1>1, ConnectPage
<1>4. \A d \in Client : Saving(d)' <=> Saving(d)
  BY <1>0 DEF Saving
<1>5. \A d \in Client : rx_auth_okay(d)' => rx_auth_okay(d)
  BY <1>0, <1>2, ClientConstants DEF rx_auth_okay
<1>6. TurnsInv'
  <2>1. \A d \in Client : (Busy(d)' => Busy(d)) /\ (InFlight(d)' => d # c /\ InFlight(d))
    BY <1>2, <1>4 DEF Busy
  <2>2. \A d \in Client : d # c => (page'[d].on <=> page[d].on)
    BY <1>2
  <2>3. User \subseteq Client /\ Admin \subseteq Client /\ \A d \in User : d \notin Admin
    BY ClientConstants
  <2>4. \A a \in Admin, d \in Client :
          page'[a].on /\ d # a => ~Saving(d) /\ (d \in Admin => ~page'[d].on)
    <3>1. CASE c \in Admin
      BY <1>0, <2>2, <2>3, <3>1
    <3>2. CASE c \notin Admin
      BY <2>2, <2>3, <3>2 DEF Good, TurnsInv
    <3> QED
      BY <3>1, <3>2
  <2>5. \A d \in User, a \in Admin : InFlight(d)' /\ Saving(a) => page'[a].on
    BY <1>2, <2>1, <2>2, <2>3 DEF Good, TurnsInv
  <2> QED
    BY <1>4, <2>1, <2>3, <2>4, <2>5 DEF Good, TurnsInv
<1>7. FileInv'
  BY <1>0, <1>4 DEF Good, FileInv, Whole
<1>8. ASSUME NEW d \in Client PROVE LoadsInv(d)'
  <2>1. page[d].ts \in Nat /\ page'[d].ts \in Nat /\ page[d].ts <= page'[d].ts
    <3>1. page[d].ts \in Nat
      BY PageTypes
    <3> QED
      BY <1>2, <3>1
  <2>2. file # <<>> => file[1].ts \in Nat
    BY DocTypes DEF Types
  <2>3. json[1].ts \in Nat
    BY JsonTypes DEF Good, FileInv
  <2>4. save_cfg.ts \in Nat
    BY DEF Types
  <2> QED
    BY <1>0, <2>1, <2>2, <2>3, <2>4 DEF Good, LoadsInv
<1>9. ASSUME NEW d \in Client PROVE ReceivedInv(d)' /\ OlderInv(d)'
  <2>1. CASE d # c
    BY <1>0, <1>2, <1>4, <1>5, <2>1, Frame DEF Good
  <2>2. CASE d = c
    <3>1. save_cfg.conn = c => save_cfg.ts # page[c].ts + 1
      <4>1. save_cfg.ts \in Nat
        BY DEF Types
      <4> QED
        BY <1>1, <4>1 DEF Good, LoadsInv
    <3>2. json[1].who = c => json[1].ts # page[c].ts + 1
      <4>1. json[1].ts \in Nat
        BY JsonTypes DEF Good, FileInv
      <4> QED
        BY <1>1, <4>1 DEF Good, LoadsInv
    <3>3. ReceivedInv(c)'
      BY <1>0, <1>2, <3>1 DEF ReceivedInv, Other
    <3>4. OlderInv(c)'
      BY <1>0, <1>2, <3>2 DEF OlderInv
    <3> QED
      BY <2>2, <3>3, <3>4
  <2> QED
    BY <2>1, <2>2
<1> QED
  BY <1>6, <1>7, <1>8, <1>9 DEF Good

\* Nobody leaves an administrator's rights behind while a user is saving.
LEMMA LeaveGood ==
  ASSUME Types, Good, NEW c \in Client, Leave(c), ~clash'
  PROVE  Good'
<1>0. /\ page[c].on /\ (c \in Admin => \A d \in User : ~InFlight(d))
      /\ UNCHANGED <<save_cfg, json, file, job, json_write, panicked, torn>>
  BY DEF Leave, Clash
<1>1. /\ Types' /\ ~page'[c].on /\ page'[c].ts = page[c].ts /\ Len(page'[c].len) = 0
      /\ \A d \in Client : d # c => page'[d] = page[d]
      /\ \A d \in Client : InFlight(d)' => d # c /\ InFlight(d)
  BY LeavePage
<1>2. \A d \in Client : (Saving(d)' <=> Saving(d)) /\ (Busy(d)' => Busy(d))
  BY <1>0, <1>1 DEF Saving, Busy
<1>3. User \subseteq Client /\ Admin \subseteq Client /\ \A d \in User : d \notin Admin
  BY ClientConstants
<1>4. \A d \in Client : page'[d].on => page[d].on
  BY <1>1
<1>5. TurnsInv'
  <2>1. \A d \in User, a \in Admin : InFlight(d)' /\ Saving(a) => page'[a].on
    BY <1>0, <1>1, <1>3 DEF Good, TurnsInv
  <2> QED
    BY <1>2, <1>3, <1>4, <2>1 DEF Good, TurnsInv
<1>6. FileInv'
  BY <1>0, <1>2 DEF Good, FileInv, Whole
<1>7. \A d \in Client : LoadsInv(d)'
  <2>1. \A d \in Client : page'[d].ts = page[d].ts
    BY <1>1
  <2> QED
    BY <1>0, <2>1 DEF Good, LoadsInv
<1>8. ASSUME NEW d \in Client PROVE ReceivedInv(d)' /\ OlderInv(d)'
  <2>1. CASE d = c
    BY <1>1, <2>1 DEF ReceivedInv, OlderInv
  <2>2. CASE d # c /\ (rx_auth_okay(d)' => rx_auth_okay(d))
    BY <1>0, <1>1, <1>2, <2>2, Frame DEF Good
  <2>3. CASE d # c /\ rx_auth_okay(d)' /\ ~rx_auth_okay(d)
    <3>1. d \in User /\ c \in Admin
      BY <1>1, <1>3, <2>3, ClientConstants DEF rx_auth_okay
    <3>2. \A s \in 1 .. Len(page[d].len) : ~Sending(d, s)
      BY <1>0, <3>1, PageTypes
    <3>3. page'[d] = page[d] /\ \A s \in 1 .. Len(page[d].len) : ~Sending(d, s)'
      BY <1>1, <2>3, <3>2 DEF Sending
    <3>4. ReceivedInv(d) /\ OlderInv(d) /\ (Other(d)' <=> Other(d)) /\ (Saving(d)' <=> Saving(d))
      BY <1>0, <1>2, <3>3 DEF Good, Other
    <3>5. ~Other(d) /\ page[d].on /\ save_cfg.seq # 0 /\ Saving(d)' => ~Sending(d, save_cfg.seq)'
      BY <1>0, <3>3, <3>4 DEF ReceivedInv, Sending
    <3>6. ReceivedInv(d)'
      BY <1>0, <3>3, <3>4, <3>5 DEF ReceivedInv
    <3>7. OlderInv(d)'
      BY <1>0, <3>3, <3>4 DEF OlderInv
    <3> QED
      BY <3>6, <3>7
  <2> QED
    BY <2>1, <2>2, <2>3
<1> QED
  BY <1>5, <1>6, <1>7, <1>8 DEF Good

(* Another save, nothing of which is sent yet. *)
LEMMA BeginPage ==
  ASSUME Types, NEW c \in Client, NEW n \in 1 .. Parts, Begin(c, n)
  PROVE  /\ Types' /\ page'[c].on = page[c].on /\ page'[c].ts = page[c].ts
         /\ Len(page[c].len) \in Nat /\ Len(page'[c].len) = Len(page[c].len) + 1
         /\ \A s \in 1 .. Len(page[c].len) :
              page'[c].len[s] = page[c].len[s] /\ page'[c].sent[s] = page[c].sent[s]
         /\ page'[c].sent[Len(page[c].len) + 1] = 0
         /\ \A d \in Client : d # c => page'[d] = page[d] /\ (InFlight(d)' <=> InFlight(d))
<1> DEFINE p == page[c]
           q == [p EXCEPT !.len = Append(@, n), !.sent = Append(@, 0)]
<1>0. page[c].on /\ page' = [page EXCEPT ![c] = q] /\ clash' \in BOOLEAN
      /\ UNCHANGED <<save_cfg, json, file, job, json_write, panicked, torn>>
  BY DEF Begin, Types, Clash
<1>1. /\ p \in [on : BOOLEAN, ts : Nat, len : Seq(Nat \ {0}), sent : Seq(Nat)]
      /\ p.len \in Seq(Nat \ {0}) /\ p.sent \in Seq(Nat)
      /\ Len(p.len) \in Nat /\ Len(p.sent) = Len(p.len)
      /\ \A s \in 1 .. Len(p.len) : p.sent[s] <= p.len[s]
  BY PageTypes
<1>2. n \in Nat \ {0}
  BY CfgSaveAssumption
<1> HIDE DEF p
<1>3. /\ Append(p.len, n) \in Seq(Nat \ {0}) /\ Len(Append(p.len, n)) = Len(p.len) + 1
      /\ \A s \in 1 .. Len(p.len) : Append(p.len, n)[s] = p.len[s]
      /\ Append(p.len, n)[Len(p.len) + 1] = n
  BY <1>1, <1>2, AppendProperties
<1>4. /\ Append(p.sent, 0) \in Seq(Nat) /\ Len(Append(p.sent, 0)) = Len(p.len) + 1
      /\ \A s \in 1 .. Len(p.len) : Append(p.sent, 0)[s] = p.sent[s]
      /\ Append(p.sent, 0)[Len(p.len) + 1] = 0
  BY <1>1, AppendProperties
<1>5. /\ q \in [on : BOOLEAN, ts : Nat, len : Seq(Nat \ {0}), sent : Seq(Nat)]
      /\ q.on = p.on /\ q.ts = p.ts /\ q.len = Append(p.len, n) /\ q.sent = Append(p.sent, 0)
  <2>1. q.on = p.on /\ q.ts = p.ts /\ q.len = Append(p.len, n) /\ q.sent = Append(p.sent, 0)
    BY <1>1
  <2>2. q \in [on : BOOLEAN, ts : Nat, len : Seq(Nat \ {0}), sent : Seq(Nat)]
    BY <1>1, <1>3, <1>4
  <2> QED
    BY <2>1, <2>2
<1>6. \A s \in 1 .. Len(q.len) : q.sent[s] <= q.len[s]
  <2> SUFFICES ASSUME NEW s \in 1 .. Len(p.len) + 1 PROVE q.sent[s] <= q.len[s]
    BY <1>3, <1>5
  <2>1. CASE s \in 1 .. Len(p.len)
    BY <1>1, <1>3, <1>4, <1>5, <2>1
  <2>2. CASE s = Len(p.len) + 1
    BY <1>2, <1>3, <1>4, <1>5, <2>2
  <2> QED
    BY <1>1, <2>1, <2>2
<1> HIDE DEF q
<1>7. /\ page' \in [Client -> [on : BOOLEAN, ts : Nat, len : Seq(Nat \ {0}), sent : Seq(Nat)]]
      /\ page'[c] = q
      /\ \A d \in Client : d # c => page'[d] = page[d]
  BY <1>0, <1>5 DEF Types
<1>8. Types'
  <2>1. \A d \in Client :
         /\ Len(page'[d].sent) = Len(page'[d].len)
         /\ \A s \in 1 .. Len(page'[d].len) : page'[d].sent[s] <= page'[d].len[s]
         /\ ~page'[d].on => Len(page'[d].len) = 0
    BY <1>0, <1>3, <1>4, <1>5, <1>6, <1>7 DEF Types, p
  <2> QED
    BY <1>0, <1>7, <2>1 DEF Types
<1>9. \A d \in Client : d # c => (InFlight(d)' <=> InFlight(d))
  BY <1>7 DEF InFlight, Saves
<1> QED
  BY <1>1, <1>3, <1>4, <1>5, <1>7, <1>8, <1>9 DEF p

\* A user begins when no other user saves and no administrator does.
LEMMA BeginGood ==
  ASSUME Types, Good, NEW c \in Client, NEW n \in 1 .. Parts, Begin(c, n), ~clash'
  PROVE  Good'
<1>0. /\ page[c].on /\ UNCHANGED <<save_cfg, json, file, job, json_write, panicked, torn>>
      /\ c \in User => \A d \in Client \ {c} : IF d \in User THEN ~Busy(d) ELSE ~Saving(d)
  BY ClientConstants DEF Begin, Clash
<1>1. /\ Types' /\ page'[c].on = page[c].on /\ page'[c].ts = page[c].ts
      /\ Len(page[c].len) \in Nat /\ Len(page'[c].len) = Len(page[c].len) + 1
      /\ \A s \in 1 .. Len(page[c].len) :
           page'[c].len[s] = page[c].len[s] /\ page'[c].sent[s] = page[c].sent[s]
      /\ page'[c].sent[Len(page[c].len) + 1] = 0
      /\ \A d \in Client : d # c => page'[d] = page[d] /\ (InFlight(d)' <=> InFlight(d))
  BY BeginPage
<1>2. \A d \in Client : (Saving(d)' <=> Saving(d)) /\ (d # c => (Busy(d)' <=> Busy(d)))
  BY <1>0, <1>1 DEF Saving, Busy
<1>3. User \subseteq Client /\ Admin \subseteq Client /\ \A d \in User : d \notin Admin
  BY ClientConstants
<1>4. \A d \in Client : page'[d].on = page[d].on /\ page'[d].ts = page[d].ts
  BY <1>1
<1>5. TurnsInv'
  <2>1. \A d, e \in User : Busy(d)' /\ Busy(e)' => d = e
    <3>1. c \in User => \A d \in User : d # c => ~Busy(d)'
      BY <1>0, <1>2, <1>3
    <3>2. c \notin User => \A d \in User : Busy(d)' <=> Busy(d)
      BY <1>2, <1>3
    <3> QED
      BY <3>1, <3>2 DEF Good, TurnsInv
  <2>2. \A d \in User, a \in Admin : InFlight(d)' /\ Saving(a)' => page'[a].on
    <3>1. c \in User => \A a \in Admin : ~Saving(a)
      BY <1>0, <1>3
    <3>2. c \notin User => \A d \in User : InFlight(d)' <=> InFlight(d)
      BY <1>1, <1>3
    <3> QED
      BY <1>2, <1>3, <1>4, <3>1, <3>2 DEF Good, TurnsInv
  <2> QED
    BY <1>2, <1>3, <1>4, <2>1, <2>2 DEF Good, TurnsInv
<1>6. FileInv'
  BY <1>0, <1>2 DEF Good, FileInv, Whole
<1>7. \A d \in Client : LoadsInv(d)'
  BY <1>0, <1>4 DEF Good, LoadsInv
<1>8. \A d \in Client : rx_auth_okay(d)' <=> rx_auth_okay(d)
  BY <1>3, <1>4 DEF rx_auth_okay
<1>9. \A s \in 1 .. Len(page'[c].len) : s \in 1 .. Len(page[c].len) \/ s = Len(page[c].len) + 1
  BY <1>1
<1>10. ReceivedInv(c)'
  <2>1. \A s \in 1 .. Len(page[c].len) : \A i \in Nat : Part(c, s, i)' = Part(c, s, i)
    BY <1>1 DEF Part
  <2>2. /\ Other(c)' <=> Other(c)
        /\ \A s \in 1 .. Len(page[c].len) : (Sending(c, s)' <=> Sending(c, s))
    BY <1>0, <1>1 DEF Other, Sending
  <2>3. ~Other(c) => /\ save_cfg.seq <= Len(page'[c].len)
                     /\ save_cfg.seq # 0 => /\ page'[c].sent[save_cfg.seq] > 0
                                            /\ Saving(c)' => ~Sending(c, save_cfg.seq)'
    <3>1. save_cfg.seq \in Nat
      BY DEF Types
    <3> QED
      BY <1>0, <1>1, <1>2, <2>2, <3>1 DEF Good, ReceivedInv
  <2>4. ASSUME rx_auth_okay(c), NEW s \in 1 .. Len(page'[c].len),
               Sending(c, s)', page'[c].sent[s] > 0
        PROVE  /\ ~Other(c) /\ s <= save_cfg.seq
               /\ s = save_cfg.seq =>
                    /\ Len(save_cfg.json) = page'[c].sent[s]
                    /\ \A i \in 1 .. page'[c].sent[s] : save_cfg.json[i] = Part(c, s, i)'
    <3>1. s \in 1 .. Len(page[c].len) /\ page'[c].sent[s] = page[c].sent[s]
      BY <1>1, <1>9, <2>4
    <3>2. page[c].sent[s] \in Nat
      BY <3>1, PageTypes
    <3>3. /\ ~Other(c) /\ s <= save_cfg.seq
          /\ s = save_cfg.seq =>
               /\ Len(save_cfg.json) = page[c].sent[s]
               /\ \A i \in 1 .. page[c].sent[s] : save_cfg.json[i] = Part(c, s, i)
      BY <2>2, <2>4, <3>1 DEF Good, ReceivedInv
    <3> QED
      BY <2>1, <3>1, <3>2, <3>3
  <2> QED
    BY <1>0, <1>8, <2>2, <2>3, <2>4 DEF ReceivedInv
<1>11. OlderInv(c)'
  <2> SUFFICES ASSUME json[1].who = c, json[1].ts = page[c].ts
               PROVE  /\ json[1].seq <= Len(page'[c].len)
                      /\ rx_auth_okay(c) =>
                           \/ ~Other(c) /\ json[1].seq <= save_cfg.seq
                           \/ \A s \in 1 .. Len(page'[c].len) : Sending(c, s)' => json[1].seq < s
    BY <1>0, <1>4, <1>8 DEF OlderInv, Other
  <2>1. json[1].seq \in Nat
    BY JsonTypes DEF Good, FileInv
  <2>2. json[1].seq <= Len(page[c].len)
    BY <1>0 DEF Good, OlderInv
  <2>3. ASSUME \A s \in 1 .. Len(page[c].len) : Sending(c, s) => json[1].seq < s
        PROVE  \A s \in 1 .. Len(page'[c].len) : Sending(c, s)' => json[1].seq < s
    <3>1. \A s \in 1 .. Len(page[c].len) : Sending(c, s)' <=> Sending(c, s)
      BY <1>1 DEF Sending
    <3>2. json[1].seq < Len(page[c].len) + 1
      BY <1>1, <2>1, <2>2
    <3> QED
      BY <1>9, <2>3, <3>1, <3>2
  <2> QED
    BY <1>0, <1>1, <2>1, <2>2, <2>3 DEF Good, OlderInv
<1>12. \A d \in Client : d # c => ReceivedInv(d)' /\ OlderInv(d)'
  BY <1>0, <1>1, <1>2, <1>8, Frame DEF Good
<1> QED
  BY <1>5, <1>6, <1>7, <1>10, <1>11, <1>12 DEF Good

-----------------------------------------------------------------------------
(* A part is received                                                      *)

\* It is accepted, and put after what is there.
Okay(c, s) == rx_auth_okay(c) /\ ~Delayed(s, Reset(c))
New(c, s) == Joined(s, Reset(c), Part(c, s, page[c].sent[s] + 1))
Stores(c, s) == Okay(c, s) /\ page[c].sent[s] + 1 = page[c].len[s]

LEMMA ReceivePage ==
  ASSUME Types, NEW c \in Client, NEW s \in Saves(c), Receive(c, s)
  PROVE  /\ page' \in [Client -> [on : BOOLEAN, ts : Nat, len : Seq(Nat \ {0}), sent : Seq(Nat)]]
         /\ \A d \in Client :
              /\ Len(page'[d].sent) = Len(page'[d].len)
              /\ \A r \in 1 .. Len(page'[d].len) : page'[d].sent[r] <= page'[d].len[r]
              /\ ~page'[d].on => Len(page'[d].len) = 0
         /\ page'[c].on = page[c].on /\ page'[c].ts = page[c].ts /\ page'[c].len = page[c].len
         /\ page'[c].sent[s] = page[c].sent[s] + 1
         /\ \A r \in 1 .. Len(page[c].len) : r # s => page'[c].sent[r] = page[c].sent[r]
         /\ \A d \in Client : d # c => page'[d] = page[d]
<1> DEFINE p == page[c]
           sent == [p.sent EXCEPT ![s] = @ + 1]
           q == [p EXCEPT !.sent = sent]
<1>0. page' = [page EXCEPT ![c] = q] /\ p.sent[s] < p.len[s]
  BY DEF Receive
<1>1. /\ p \in [on : BOOLEAN, ts : Nat, len : Seq(Nat \ {0}), sent : Seq(Nat)]
      /\ p.len \in Seq(Nat \ {0}) /\ p.sent \in Seq(Nat)
      /\ Len(p.len) \in Nat /\ Len(p.sent) = Len(p.len) /\ s \in 1 .. Len(p.len)
      /\ \A r \in 1 .. Len(p.len) : p.len[r] \in Nat \ {0} /\ p.sent[r] \in Nat /\ p.sent[r] <= p.len[r]
  BY PageTypes
<1> HIDE DEF p
<1>2. p.sent[s] + 1 \in Nat
  BY <1>1
<1>3. /\ sent \in Seq(Nat) /\ Len(sent) = Len(p.len) /\ sent[s] = p.sent[s] + 1
      /\ \A r \in 1 .. Len(p.len) : r # s => sent[r] = p.sent[r]
  BY <1>1, <1>2, ExceptSeq
<1>4. \A r \in 1 .. Len(p.len) : sent[r] <= p.len[r]
  <2>1. p.sent[s] + 1 <= p.len[s]
    BY <1>0, <1>1
  <2> QED
    BY <1>1, <1>3, <2>1
<1> HIDE DEF sent
<1>5. /\ q \in [on : BOOLEAN, ts : Nat, len : Seq(Nat \ {0}), sent : Seq(Nat)]
      /\ q.on = p.on /\ q.ts = p.ts /\ q.len = p.len /\ q.sent = sent
  BY <1>1, <1>3
<1> HIDE DEF q
<1>6. /\ page' \in [Client -> [on : BOOLEAN, ts : Nat, len : Seq(Nat \ {0}), sent : Seq(Nat)]]
      /\ page'[c] = q
      /\ \A d \in Client : d # c => page'[d] = page[d]
  BY <1>0, <1>5 DEF Types
<1>7. \A d \in Client :
       /\ Len(page'[d].sent) = Len(page'[d].len)
       /\ \A r \in 1 .. Len(page'[d].len) : page'[d].sent[r] <= page'[d].len[r]
       /\ ~page'[d].on => Len(page'[d].len) = 0
  BY <1>1, <1>3, <1>4, <1>5, <1>6 DEF Types, p
<1> QED
  BY <1>3, <1>5, <1>6, <1>7 DEF p

(* What the task of the connection has of the page. *)
LEMMA ResetTypes ==
  ASSUME Types, NEW c \in Client
  PROVE  /\ Reset(c) \in [conn : Client \cup {"nobody"}, ts : Nat, seq : Nat, json : Seq(Fragment)]
         /\ Reset(c).conn = c /\ Reset(c).ts = page[c].ts
         /\ Reset(c).seq \in Nat /\ Reset(c).json \in Seq(Fragment)
         /\ Other(c) => Reset(c).seq = 0
         /\ ~Other(c) => Reset(c) = save_cfg
<1>1. page[c].ts \in Nat /\ <<>> \in Seq(Fragment)
  BY PageTypes, EmptySeq
<1>2. save_cfg \in [conn : Client \cup {"nobody"}, ts : Nat, seq : Nat, json : Seq(Fragment)]
  BY DEF Types
<1>3. CASE Other(c)
  BY <1>1, <1>3 DEF Reset
<1>4. CASE ~Other(c)
  BY <1>2, <1>4 DEF Reset, Other
<1> QED
  BY <1>3, <1>4

LEMMA NewTypes ==
  ASSUME Types, NEW c \in Client, NEW s \in Saves(c)
  PROVE  /\ New(c, s) \in [conn : Client \cup {"nobody"}, ts : Nat, seq : Nat, json : Seq(Fragment)]
         /\ New(c, s).conn = c /\ New(c, s).ts = page[c].ts /\ New(c, s).seq = s
         /\ New(c, s).json = Append(Kept(s, Reset(c)), Part(c, s, page[c].sent[s] + 1))
         /\ New(c, s).json \in Seq(Fragment)
<1> DEFINE old == Reset(c)
           part == Part(c, s, page[c].sent[s] + 1)
           json1 == Append(Kept(s, old), part)
<1>1. s \in Nat /\ page[c].ts \in Nat /\ page[c].sent[s] + 1 \in Nat
  BY PageTypes
<1>2. part \in Fragment
  BY <1>1 DEF Part, Fragment
<1>3. Kept(s, old) \in Seq(Fragment)
  BY ResetTypes, EmptySeq DEF Kept
<1>4. json1 \in Seq(Fragment)
  BY <1>2, <1>3, AppendProperties
<1>5. New(c, s) = [old EXCEPT !.seq = s, !.json = json1]
  BY DEF New, Joined
<1>6. /\ old \in [conn : Client \cup {"nobody"}, ts : Nat, seq : Nat, json : Seq(Fragment)]
      /\ old.conn = c /\ old.ts = page[c].ts
  BY ResetTypes
<1> HIDE DEF old, json1
<1>7. New(c, s).conn = c /\ New(c, s).ts = page[c].ts /\ New(c, s).seq = s /\ New(c, s).json = json1
  BY <1>5, <1>6
<1>8. New(c, s) \in [conn : Client \cup {"nobody"}, ts : Nat, seq : Nat, json : Seq(Fragment)]
  BY <1>1, <1>4, <1>5, <1>6
<1> QED
  BY <1>4, <1>7, <1>8 DEF old, json1

\* Nothing is missing in what is put together, nothing is there twice, and
\* nothing is from another save.
LEMMA AllParts ==
  ASSUME Types, NEW c \in Client, ReceivedInv(c), NEW s \in Saves(c), page[c].on,
         Sending(c, s), Okay(c, s)
  PROVE  /\ Len(New(c, s).json) = page[c].sent[s] + 1
         /\ \A i \in 1 .. page[c].sent[s] + 1 : New(c, s).json[i] = Part(c, s, i)
<1> DEFINE old == Reset(c)
           part == Part(c, s, page[c].sent[s] + 1)
<1>1. s \in 1 .. Len(page[c].len) /\ s \in Nat \ {0} /\ page[c].ts \in Nat /\ page[c].sent[s] \in Nat
  BY PageTypes
<1>2. part \in Fragment
  BY <1>1 DEF Part, Fragment
<1>3. Kept(s, old) \in Seq(Fragment) /\ old.seq \in Nat
  BY ResetTypes, EmptySeq DEF Kept
<1>4. /\ Len(Kept(s, old)) = page[c].sent[s]
      /\ \A i \in 1 .. page[c].sent[s] : Kept(s, old)[i] = Part(c, s, i)
  <2>1. CASE s > old.seq
    <3>1. page[c].sent[s] = 0
      <4> SUFFICES ASSUME page[c].sent[s] > 0 PROVE FALSE
        BY <1>1
      <4>1. ~Other(c) /\ s <= save_cfg.seq
        BY <1>1 DEF ReceivedInv, Okay
      <4>2. old = save_cfg
        BY <4>1, ResetTypes
      <4> QED
        BY <1>1, <1>3, <2>1, <4>1, <4>2
    <3> QED
      BY <2>1, <3>1, EmptySeq DEF Kept
  <2>2. CASE ~ (s > old.seq)
    <3>1. s = old.seq
      BY <1>1, <1>3, <2>2 DEF Okay, Delayed
    <3>2. ~Other(c) /\ old = save_cfg
      BY <1>1, <3>1, ResetTypes
    <3>3. page[c].sent[s] > 0
      BY <1>1, <3>1, <3>2 DEF ReceivedInv
    <3>4. /\ Len(save_cfg.json) = page[c].sent[s]
          /\ \A i \in 1 .. page[c].sent[s] : save_cfg.json[i] = Part(c, s, i)
      BY <1>1, <3>1, <3>2, <3>3 DEF ReceivedInv, Okay
    <3> QED
      BY <2>2, <3>2, <3>4 DEF Kept
  <2> QED
    BY <2>1, <2>2
<1>5. New(c, s).json = Append(Kept(s, old), part)
  BY NewTypes
<1> HIDE DEF old
<1>6. /\ Len(New(c, s).json) = page[c].sent[s] + 1
      /\ \A i \in 1 .. page[c].sent[s] : New(c, s).json[i] = Kept(s, old)[i]
      /\ New(c, s).json[page[c].sent[s] + 1] = part
  BY <1>2, <1>3, <1>4, <1>5, AppendProperties
<1>7. \A i \in 1 .. page[c].sent[s] + 1 : i \in 1 .. page[c].sent[s] \/ i = page[c].sent[s] + 1
  BY <1>1
<1> QED
  BY <1>4, <1>6, <1>7

(* The last part makes it whole. *)
LEMMA LastPart ==
  ASSUME Types, NEW c \in Client, ReceivedInv(c), NEW s \in Saves(c), page[c].on,
         Sending(c, s), Stores(c, s)
  PROVE  Whole(New(c, s).json) /\ New(c, s).json[1] = Part(c, s, 1)
<1> DEFINE doc == New(c, s).json
           n == page[c].len[s]
<1>1. s \in 1 .. Len(page[c].len) /\ page[c].sent[s] \in Nat /\ n \in Nat \ {0} /\ page[c].sent[s] + 1 = n
  BY PageTypes DEF Stores
<1>2. Len(doc) = n /\ \A i \in 1 .. n : doc[i] = Part(c, s, i)
  BY <1>1, AllParts DEF Stores
<1>3. doc \in Seq(Fragment)
  BY NewTypes
<1> HIDE DEF doc
<1>4. doc # <<>> /\ DOMAIN doc = 1 .. n
  BY <1>1, <1>2, <1>3, EmptySeq, LenProperties
<1>5. doc[1] = Part(c, s, 1)
  BY <1>1, <1>2
<1>6. ASSUME NEW i \in 1 .. n PROVE doc[i] = [doc[1] EXCEPT !.i = i, !.last = (i = Len(doc))]
  <2> DEFINE last == (i = n)
             first == (1 = n)
  <2>1. doc[i] = [who |-> c, ts |-> page[c].ts, seq |-> s, i |-> i, last |-> last]
    BY <1>2 DEF Part
  <2>2. doc[1] = [who |-> c, ts |-> page[c].ts, seq |-> s, i |-> 1, last |-> first]
    BY <1>5 DEF Part
  <2>3. last = (i = Len(doc))
    BY <1>2
  <2> HIDE DEF last, first
  <2>4. [doc[1] EXCEPT !.i = i] = [who |-> c, ts |-> page[c].ts, seq |-> s, i |-> i, last |-> first]
    BY <2>2
  <2>5. [[doc[1] EXCEPT !.i = i] EXCEPT !.last = last] = doc[i]
    <3>1. [[who |-> c, ts |-> page[c].ts, seq |-> s, i |-> i, last |-> first] EXCEPT !.last = last]
            = [who |-> c, ts |-> page[c].ts, seq |-> s, i |-> i, last |-> last]
      OBVIOUS
    <3> QED
      BY <2>1, <2>4, <3>1, Zenon
  <2>6. [doc[1] EXCEPT !.i = i, !.last = last] = [[doc[1] EXCEPT !.i = i] EXCEPT !.last = last]
    OBVIOUS
  <2> QED
    BY <2>3, <2>5, <2>6, Zenon
<1> QED
  BY <1>4, <1>5, <1>6 DEF Whole, doc

LEMMA StoredEffect ==
  ASSUME Types, NEW c \in Client, NEW doc, Stored(c, doc)
  PROVE  /\ json' = doc /\ json_write' /\ (\A d \in Client : d # c => job'[d] = job[d])
         /\ Whole(doc) => (panicked' <=> panicked) /\ job'[c] = doc
<1>1. /\ json' = doc /\ json_write' = TRUE /\ panicked' = (panicked \/ ~Whole(doc))
      /\ job' = IF Whole(doc) THEN [job EXCEPT ![c] = doc] ELSE job
  BY DEF Stored, Copied
<1>2. job \in [Client -> Seq(Fragment)] /\ panicked \in BOOLEAN
  BY DEF Types
<1>3. CASE Whole(doc)
  <2>1. job' = [job EXCEPT ![c] = doc]
    BY <1>1, <1>3, Zenon
  <2> QED
    BY <1>1, <1>2, <1>3, <2>1
<1>4. CASE ~Whole(doc)
  <2>1. job' = job
    BY <1>1, <1>4, Zenon
  <2> QED
    BY <1>1, <1>4, <2>1
<1> QED
  BY <1>3, <1>4

LEMMA ReceiveEffect ==
  ASSUME Types, NEW c \in Client, NEW s \in Saves(c), Receive(c, s)
  PROVE  /\ page[c].on /\ ~Saving(c) /\ ~panicked /\ Sending(c, s) /\ file' = file /\ torn' = torn
         /\ clash' = (clash \/ Discards(c))
         /\ save_cfg' = IF Okay(c, s) THEN New(c, s) ELSE Reset(c)
         /\ Stores(c, s) => Stored(c, New(c, s).json)
         /\ ~Stores(c, s) => UNCHANGED <<json, job, json_write, panicked>>
<1>1. Part(c, s, page[c].sent[s] + 1).last <=> page[c].sent[s] + 1 = page[c].len[s]
  BY DEF Part
<1> QED
  BY <1>1 DEF Receive, Okay, New, Stores, Sending

LEMMA ReceiveTypes ==
  ASSUME Types, NEW c \in Client, NEW s \in Saves(c), Receive(c, s)
  PROVE  Types'
<1>1. save_cfg' \in [conn : Client \cup {"nobody"}, ts : Nat, seq : Nat, json : Seq(Fragment)]
  BY ReceiveEffect, NewTypes, ResetTypes
<1>2. /\ json' \in Seq(Fragment) /\ job' \in [Client -> Seq(Fragment)]
      /\ json_write' \in BOOLEAN /\ panicked' \in BOOLEAN
  <2>1. CASE Stores(c, s)
    <3> DEFINE doc == New(c, s).json
    <3>1. doc \in Seq(Fragment)
      BY NewTypes
    <3>2. Stored(c, doc)
      BY <2>1, ReceiveEffect
    <3> HIDE DEF doc
    <3>3. job' \in [Client -> Seq(Fragment)]
      BY <3>1, <3>2 DEF Stored, Copied, Types
    <3>4. panicked' \in BOOLEAN
      BY <3>2 DEF Stored, Types, Whole
    <3> QED
      BY <3>1, <3>2, <3>3, <3>4 DEF Stored
  <2>2. CASE ~Stores(c, s)
    BY <2>2, ReceiveEffect DEF Types
  <2> QED
    BY <2>1, <2>2
<1>3. file' = file /\ torn' = torn /\ clash' \in BOOLEAN
  BY ReceiveEffect DEF Types, Discards
<1> QED
  BY <1>1, <1>2, <1>3, ReceivePage DEF Types

LEMMA ReceiveTurns ==
  ASSUME Types, Good, NEW c \in Client, NEW s \in Saves(c), Receive(c, s)
  PROVE  /\ TurnsInv' /\ InFlight(c)
         /\ \A d \in Client : Saving(d)' => Saving(d) \/ (d = c /\ Stores(c, s))
         /\ \A d \in Client : rx_auth_okay(d)' <=> rx_auth_okay(d)
<1>0. page[c].on /\ InFlight(c) /\ ~Saving(c)
  BY ReceiveEffect DEF InFlight, Sending
<1>1. /\ page'[c].on = page[c].on /\ \A d \in Client : d # c => page'[d] = page[d]
  BY ReceivePage
<1>2. \A d \in Client : page'[d].on = page[d].on
  BY <1>1
<1>3. \A d \in Client : InFlight(d)' => InFlight(d)
  BY <1>0, <1>1 DEF InFlight, Saves
<1>4. \A d \in Client : Saving(d)' => Saving(d) \/ (d = c /\ Stores(c, s))
  <2>1. CASE Stores(c, s)
    <3>1. \A d \in Client : d # c => job'[d] = job[d]
      BY <2>1, ReceiveEffect, StoredEffect
    <3> QED
      BY <2>1, <3>1 DEF Saving
  <2>2. CASE ~Stores(c, s)
    BY <2>2, ReceiveEffect DEF Saving
  <2> QED
    BY <2>1, <2>2
<1>5. User \subseteq Client /\ Admin \subseteq Client /\ (\A d \in User : d \notin Admin) /\ Client = User \cup Admin
  BY ClientConstants
<1>6. \A d \in Client : Busy(d)' => Busy(d)
  BY <1>0, <1>3, <1>4 DEF Busy
<1>7. Stores(c, s) => c \in Admin \/ \A a \in Admin : ~page[a].on
  BY DEF Stores, Okay, rx_auth_okay
<1>8. \A a \in Admin, d \in Client : page[a].on /\ d # a => ~Saving(d)' /\ (d \in Admin => ~page[d].on)
  BY <1>0, <1>4, <1>5, <1>7 DEF Good, TurnsInv
<1>9. \A d \in User, a \in Admin : InFlight(d) /\ Saving(a)' => page[a].on
  BY <1>0, <1>4, <1>5 DEF Good, TurnsInv
<1>10. Stores(c, s) => \A d \in Client : ~Saving(d)
  <2> SUFFICES ASSUME Stores(c, s), NEW d \in Client, Saving(d) PROVE FALSE
    OBVIOUS
  <2>1. d # c
    BY <1>0
  <2>2. CASE c \in Admin
    BY <1>0, <2>1, <2>2 DEF Good, TurnsInv
  <2>3. CASE c \in User /\ d \in User
    BY <1>0, <2>1, <2>3 DEF Good, TurnsInv, Busy
  <2>4. CASE c \in User /\ d \in Admin
    BY <1>0, <1>5, <1>7, <2>4 DEF Good, TurnsInv
  <2> QED
    BY <1>5, <2>2, <2>3, <2>4
<1>11. \A d, e \in Client : Saving(d)' /\ Saving(e)' => d = e
  BY <1>4, <1>10 DEF Good, TurnsInv
<1>12. TurnsInv'
  <2>1. \A d, e \in User : Busy(d)' /\ Busy(e)' => d = e
    BY <1>5, <1>6 DEF Good, TurnsInv
  <2> QED
    BY <1>2, <1>3, <1>5, <1>8, <1>9, <1>11, <2>1 DEF TurnsInv
<1> QED
  BY <1>0, <1>2, <1>4, <1>5, <1>12 DEF rx_auth_okay

LEMMA ReceiveFile ==
  ASSUME Types, Good, NEW c \in Client, NEW s \in Saves(c), Receive(c, s)
  PROVE  /\ FileInv' /\ file' = file
         /\ json' = json \/ (Stores(c, s) /\ json'[1] = Part(c, s, 1))
<1>0. /\ file' = file /\ page[c].on /\ Sending(c, s) /\ ~panicked
      /\ ReceivedInv(c)
  BY ReceiveEffect DEF Good
<1>1. CASE Stores(c, s)
  <2> DEFINE doc == New(c, s).json
  <2>1. Stored(c, doc) /\ Whole(doc) /\ doc[1] = Part(c, s, 1)
    BY <1>0, <1>1, ReceiveEffect, LastPart
  <2> HIDE DEF doc
  <2>2. json' = doc /\ json_write' /\ ~panicked' /\ job'[c] = doc
    BY <1>0, <2>1, StoredEffect
  <2>3. Whole(json)'
    BY <2>1, <2>2 DEF Whole
  <2>4. Whole(file)' <=> Whole(file)
    BY <1>0 DEF Whole
  <2>5. doc # <<>>
    BY <2>1 DEF Whole
  <2>6. \A d \in Client : Saving(d)' => d = c
    BY <2>2, <2>5, ReceiveTurns DEF TurnsInv, Saving, NoJob
  <2> QED
    BY <1>0, <1>1, <2>1, <2>2, <2>3, <2>4, <2>5, <2>6 DEF Good, FileInv, Saving, NoJob
<1>2. CASE ~Stores(c, s)
  <2>1. UNCHANGED <<json, job, json_write, panicked>>
    BY <1>2, ReceiveEffect
  <2> QED
    BY <1>0, <2>1 DEF Good, FileInv, Whole, Saving
<1> QED
  BY <1>1, <1>2

(* What this means for the client itself ... *)
LEMMA ReceiveOwn ==
  ASSUME Types, Good, NEW c \in Client, NEW s \in Saves(c), Receive(c, s)
  PROVE  ReceivedInv(c)' /\ OlderInv(c)'
<1>0. /\ page[c].on /\ Sending(c, s) /\ ReceivedInv(c) /\ OlderInv(c)
      /\ save_cfg' = IF Okay(c, s) THEN New(c, s) ELSE Reset(c)
  BY ReceiveEffect DEF Good
<1>1. /\ page'[c].on = page[c].on /\ page'[c].ts = page[c].ts /\ page'[c].len = page[c].len
      /\ page'[c].sent[s] = page[c].sent[s] + 1
      /\ \A r \in 1 .. Len(page[c].len) : r # s => page'[c].sent[r] = page[c].sent[r]
  BY ReceivePage
<1>2. /\ Len(page[c].len) \in Nat /\ s \in 1 .. Len(page[c].len)
      /\ \A r \in 1 .. Len(page[c].len) : page[c].len[r] \in Nat \ {0} /\ page[c].sent[r] \in Nat
  BY PageTypes
<1>3. ~Other(c)'
  BY <1>0, <1>1, NewTypes, ResetTypes DEF Other
<1>4. \A r \in 1 .. Len(page[c].len) :
        /\ page'[c].sent[r] >= page[c].sent[r] /\ page'[c].sent[r] \in Nat
        /\ Sending(c, r)' => Sending(c, r)
  BY <1>0, <1>1, <1>2 DEF Sending
<1>5. \A r, i : Part(c, r, i)' = Part(c, r, i)
  BY <1>1 DEF Part
<1>6. rx_auth_okay(c)' <=> rx_auth_okay(c)
  BY ReceiveTurns
<1>7. Reset(c).seq \in Nat /\ (Other(c) => Reset(c).seq = 0) /\ (~Other(c) => Reset(c) = save_cfg)
  BY ResetTypes
<1>8. save_cfg'.seq \in Nat /\ json[1].seq \in Nat
  BY <1>0, <1>2, <1>7, NewTypes, JsonTypes DEF Good, FileInv
<1>9. CASE Okay(c, s)
  <2>0. save_cfg' = New(c, s) /\ save_cfg'.seq = s /\ rx_auth_okay(c) /\ Reset(c).seq <= s
    BY <1>0, <1>2, <1>7, <1>9, NewTypes DEF Okay, Delayed
  <2>1. /\ Len(save_cfg'.json) = page[c].sent[s] + 1
        /\ \A i \in 1 .. page[c].sent[s] + 1 : save_cfg'.json[i] = Part(c, s, i)
    BY <1>0, <1>9, <2>0, AllParts
  <2>2. ASSUME NEW r \in 1 .. Len(page[c].len), Sending(c, r)', page'[c].sent[r] > 0
        PROVE  r <= s
    <3>1. CASE r # s
      <4>1. Sending(c, r) /\ page[c].sent[r] > 0
        BY <1>1, <1>4, <2>2, <3>1
      <4>2. ~Other(c) /\ r <= save_cfg.seq
        BY <1>0, <2>0, <4>1 DEF ReceivedInv
      <4> QED
        BY <1>2, <1>7, <2>0, <4>2
    <3> QED
      BY <1>2, <3>1
  <2>3. ReceivedInv(c)'
    <3>1. s <= Len(page'[c].len) /\ page'[c].sent[s] > 0 /\ (Saving(c)' => ~Sending(c, s)')
      <4>1. Saving(c)' => Stores(c, s)
        BY ReceiveTurns, ReceiveEffect
      <4>2. Stores(c, s) => ~Sending(c, s)'
        BY <1>1, <1>2 DEF Stores, Sending
      <4> QED
        BY <1>1, <1>2, <4>1, <4>2
    <3>2. ASSUME NEW r \in 1 .. Len(page'[c].len), Sending(c, r)', page'[c].sent[r] > 0
          PROVE  /\ ~Other(c)' /\ r <= save_cfg'.seq
                 /\ r = save_cfg'.seq =>
                      /\ Len(save_cfg'.json) = page'[c].sent[r]
                      /\ \A i \in 1 .. page'[c].sent[r] : save_cfg'.json[i] = Part(c, r, i)'
      BY <1>1, <1>3, <1>5, <2>0, <2>1, <2>2, <3>2
    <3> QED
      BY <2>0, <3>1, <3>2 DEF ReceivedInv
  <2>4. OlderInv(c)'
    <3>1. CASE json' = json
      <4> SUFFICES ASSUME json[1].who = c, json[1].ts = page[c].ts
                   PROVE  json[1].seq <= Len(page[c].len) /\ json[1].seq <= s
        BY <1>1, <1>3, <2>0, <3>1 DEF OlderInv
      <4>1. /\ json[1].seq <= Len(page[c].len)
            /\ \/ ~Other(c) /\ json[1].seq <= save_cfg.seq
               \/ json[1].seq < s
        BY <1>0, <1>2, <2>0 DEF OlderInv
      <4> QED
        BY <1>2, <1>7, <1>8, <2>0, <4>1
    <3>2. CASE json'[1] = Part(c, s, 1)
      <4>1. json'[1].seq = s
        BY <3>2 DEF Part
      <4> QED
        BY <1>1, <1>2, <1>3, <2>0, <4>1 DEF OlderInv
    <3> QED
      BY <3>1, <3>2, ReceiveFile
  <2> QED
    BY <2>3, <2>4
<1>10. CASE ~Okay(c, s)
  <2>0. save_cfg' = Reset(c) /\ json' = json
    <3>1. ~Stores(c, s)
      BY <1>10 DEF Stores
    <3> QED
      BY <1>0, <1>10, <3>1, ReceiveFile
  <2>1. rx_auth_okay(c) => s < Reset(c).seq
    BY <1>10 DEF Okay, Delayed
  <2>2. rx_auth_okay(c) => ~Other(c) /\ Reset(c) = save_cfg /\ save_cfg' = save_cfg /\ s < save_cfg.seq
    BY <1>2, <1>7, <2>0, <2>1
  <2>3. ReceivedInv(c)'
    <3>1. /\ save_cfg'.seq <= Len(page[c].len)
          /\ save_cfg'.seq # 0 => page'[c].sent[save_cfg'.seq] > 0
          /\ ~Saving(c)'
      <4>0. ~Saving(c)'
        BY <1>10, ReceiveTurns, ReceiveEffect DEF Stores
      <4>1. CASE Other(c)
        BY <1>2, <1>7, <2>0, <4>0, <4>1
      <4>2. CASE ~Other(c)
        <5>1. save_cfg' = save_cfg /\ save_cfg.seq <= Len(page[c].len)
              /\ (save_cfg.seq # 0 => page[c].sent[save_cfg.seq] > 0)
          BY <1>0, <1>7, <2>0, <4>2 DEF ReceivedInv
        <5>2. save_cfg.seq # 0 => save_cfg.seq \in 1 .. Len(page[c].len)
          BY <1>2, <1>8, <5>1
        <5> QED
          BY <1>2, <1>4, <4>0, <5>1, <5>2
      <4> QED
        BY <4>1, <4>2
    <3>2. ASSUME rx_auth_okay(c), NEW r \in 1 .. Len(page[c].len), Sending(c, r)', page'[c].sent[r] > 0
          PROVE  /\ r <= save_cfg.seq
                 /\ r = save_cfg.seq =>
                      /\ Len(save_cfg.json) = page'[c].sent[r]
                      /\ \A i \in 1 .. page'[c].sent[r] : save_cfg.json[i] = Part(c, r, i)
      <4>1. CASE r = s
        BY <1>2, <1>7, <2>2, <3>2, <4>1
      <4>2. CASE r # s
        <5>1. Sending(c, r) /\ page[c].sent[r] > 0 /\ page'[c].sent[r] = page[c].sent[r]
          BY <1>1, <1>4, <3>2, <4>2
        <5> QED
          BY <1>0, <3>2, <5>1 DEF ReceivedInv
      <4> QED
        BY <4>1, <4>2
    <3> QED
      BY <1>1, <1>3, <1>5, <1>6, <2>2, <3>1, <3>2 DEF ReceivedInv
  <2>4. OlderInv(c)'
    <3> SUFFICES ASSUME json[1].who = c, json[1].ts = page[c].ts
                 PROVE  /\ json[1].seq <= Len(page[c].len)
                        /\ rx_auth_okay(c) =>
                             \/ json[1].seq <= save_cfg.seq
                             \/ \A r \in 1 .. Len(page[c].len) : Sending(c, r)' => json[1].seq < r
      BY <1>1, <1>3, <1>6, <2>0, <2>2 DEF OlderInv
    <3> QED
      BY <1>0, <1>4 DEF OlderInv
  <2> QED
    BY <2>3, <2>4
<1> QED
  BY <1>9, <1>10

(* ... and for the others: nobody who has sent part of a save loses it. *)
LEMMA ReceiveOthers ==
  ASSUME Types, Good, NEW c \in Client, NEW s \in Saves(c), Receive(c, s), ~clash',
         NEW d \in Client, d # c
  PROVE  ReceivedInv(d)' /\ OlderInv(d)'
<1>0. /\ page[c].on /\ InFlight(c) /\ ReceivedInv(d) /\ OlderInv(d) /\ ~Discards(c)
      /\ save_cfg' = IF Okay(c, s) THEN New(c, s) ELSE Reset(c)
  BY ReceiveEffect, ReceiveTurns DEF Good
<1>1. page'[d] = page[d] /\ (rx_auth_okay(d)' <=> rx_auth_okay(d))
  BY ReceivePage, ReceiveTurns
<1>2. Other(d)'
  BY <1>0, NewTypes, ResetTypes DEF Other
<1>3. ~Other(d) /\ rx_auth_okay(d) => ~InFlight(d)
  <2> SUFFICES ASSUME ~Other(d), rx_auth_okay(d), InFlight(d) PROVE FALSE
    OBVIOUS
  <2>1. page[d].on
    <3>1. Len(page[d].len) # 0
      BY PageTypes
    <3> QED
      BY <3>1 DEF Types
  <2>2. save_cfg.conn = d /\ Other(c)
    BY DEF Other
  <2>3. CASE d \in Admin
    <3>1. rx_auth_okay(c)
      BY <1>0, <2>2, <2>3 DEF Discards
    <3>2. c \in Admin
      BY <2>1, <2>3, <3>1 DEF rx_auth_okay
    <3> QED
      BY <1>0, <2>1, <2>3, <3>2 DEF Good, TurnsInv
  <2>4. CASE d \in User
    <3>1. c \in User
      BY <1>0, <2>4, ClientConstants DEF rx_auth_okay
    <3> QED
      BY <1>0, <2>4, <3>1 DEF Good, TurnsInv, Busy
  <2> QED
    BY <2>3, <2>4, ClientConstants
<1>4. /\ InFlight(d) <=> \E r \in 1 .. Len(page[d].len) : Sending(d, r)
      /\ \A r \in 1 .. Len(page[d].len) : Sending(d, r)' <=> Sending(d, r)
  BY <1>1, PageTypes DEF Sending
<1>5. rx_auth_okay(d) => \A r \in 1 .. Len(page[d].len) : ~ (Sending(d, r) /\ page[d].sent[r] > 0)
  BY <1>0, <1>3, <1>4 DEF ReceivedInv
<1>6. ReceivedInv(d)'
  BY <1>1, <1>2, <1>4, <1>5 DEF ReceivedInv
<1>7. OlderInv(d)'
  <2>1. CASE json' = json
    <3>1. page[d].on /\ json[1].who = d /\ json[1].ts = page[d].ts =>
            /\ json[1].seq <= Len(page[d].len)
            /\ rx_auth_okay(d) => \A r \in 1 .. Len(page[d].len) : Sending(d, r) => json[1].seq < r
      BY <1>0, <1>3, <1>4 DEF OlderInv
    <3> QED
      BY <1>1, <1>4, <2>1, <3>1 DEF OlderInv
  <2>2. CASE json'[1] = Part(c, s, 1)
    BY <2>2 DEF OlderInv, Part
  <2> QED
    BY <2>1, <2>2, ReceiveFile
<1> QED
  BY <1>6, <1>7

LEMMA ReceiveGood ==
  ASSUME Types, Good, NEW c \in Client, NEW s \in Saves(c), Receive(c, s), ~clash'
  PROVE  Good'
<1>1. \A d \in Client : ReceivedInv(d)' /\ OlderInv(d)'
  BY ReceiveOwn, ReceiveOthers
<1>2. ASSUME NEW d \in Client PROVE LoadsInv(d)'
  <2>1. page'[d].ts = page[d].ts /\ page[d].ts \in Nat
    BY ReceivePage, PageTypes
  <2>2. save_cfg'.conn = d => save_cfg'.ts <= page[d].ts
    <3>1. save_cfg'.conn = c /\ save_cfg'.ts = page[c].ts
      BY ReceiveEffect, NewTypes, ResetTypes
    <3> QED
      BY <2>1, <3>1
  <2>3. json'[1].who = d => json'[1].ts <= page[d].ts
    <3>1. CASE json' = json
      BY <3>1 DEF Good, LoadsInv
    <3>2. CASE json'[1] = Part(c, s, 1)
      BY <2>1, <3>2 DEF Part
    <3> QED
      BY <3>1, <3>2, ReceiveFile
  <2> QED
    BY <2>1, <2>2, <2>3, ReceiveFile DEF Good, LoadsInv
<1>3. TurnsInv' /\ FileInv'
  BY ReceiveTurns, ReceiveFile
<1> QED
  BY <1>1, <1>2, <1>3 DEF Good

-----------------------------------------------------------------------------
(* The file                                                                *)

LEMMA TruncateInv ==
  ASSUME Types, NEW c \in Client, Truncate(c)
  PROVE  Types' /\ (Good => Good')
<1>0. /\ Saving(c) /\ file' = <<>>
      /\ UNCHANGED <<page, save_cfg, json, job, json_write, panicked, clash, torn>>
  BY DEF Truncate
<1>1. Types'
  BY <1>0, EmptySeq DEF Types
<1>2. ASSUME Good PROVE Good'
  <2>1. TurnsInv' /\ FileInv'
    BY <1>0, <1>2 DEF Good, TurnsInv, FileInv, Whole, Saving, Busy, InFlight, Saves
  <2>2. \A d \in Client : ReceivedInv(d)' /\ OlderInv(d)'
    BY <1>0, <1>2, Frame DEF Good, rx_auth_okay, Saving
  <2>3. \A d \in Client : LoadsInv(d)'
    BY <1>0, <1>2 DEF Good, LoadsInv
  <2> QED
    BY <2>1, <2>2, <2>3 DEF Good
<1> QED
  BY <1>1, <1>2

LEMMA WriteInv ==
  ASSUME Types, NEW c \in Client, Write(c)
  PROVE  Types' /\ (Good => Good')
<1>0. /\ Saving(c) /\ file' = job[c]
      /\ UNCHANGED <<page, save_cfg, json, job, json_write, panicked, clash, torn>>
  BY DEF Write
<1>1. Types'
  BY <1>0 DEF Types
<1>2. ASSUME Good PROVE Good'
  <2>0. file' = json
    BY <1>0, <1>2 DEF Good, FileInv
  <2>1. TurnsInv' /\ FileInv'
    BY <1>0, <1>2, <2>0 DEF Good, TurnsInv, FileInv, Whole, Saving, Busy, InFlight, Saves
  <2>2. \A d \in Client : ReceivedInv(d)' /\ OlderInv(d)'
    BY <1>0, <1>2, Frame DEF Good, rx_auth_okay, Saving
  <2>3. \A d \in Client : LoadsInv(d)'
    BY <1>0, <1>2, <2>0 DEF Good, LoadsInv
  <2> QED
    BY <2>1, <2>2, <2>3 DEF Good
<1> QED
  BY <1>1, <1>2

\* What is being put together is forgotten: it is that of the client himself,
\* who has just sent all of it.
LEMMA DoneInv ==
  ASSUME Types, NEW c \in Client, Done(c)
  PROVE  Types' /\ (Good => Good')
<1>0. /\ Saving(c) /\ file = job[c] /\ job' = [job EXCEPT ![c] = NoJob] /\ json_write' = FALSE
      /\ panicked' = (panicked \/ ~json_write) /\ save_cfg' = [save_cfg EXCEPT !.json = <<>>]
      /\ UNCHANGED <<page, json, file, clash, torn>>
  BY DEF Done
<1>1. Types'
  <2>1. /\ job' \in [Client -> Seq(Fragment)]
        /\ save_cfg' \in [conn : Client \cup {"nobody"}, ts : Nat, seq : Nat, json : Seq(Fragment)]
    BY <1>0, EmptySeq DEF Types, NoJob
  <2> QED
    BY <1>0, <2>1 DEF Types
<1>2. ASSUME Good PROVE Good'
  <2>0. /\ save_cfg'.conn = save_cfg.conn /\ save_cfg'.ts = save_cfg.ts /\ save_cfg'.seq = save_cfg.seq
    BY <1>0 DEF Types
  <2>1. /\ \A d \in Client : d # c => job'[d] = job[d] /\ ~Saving(d)
        /\ ~Saving(c)'
    BY <1>0, <1>2 DEF Types, Good, TurnsInv, Saving
  <2>2. \A d \in Client : ~Saving(d)' /\ (InFlight(d)' <=> InFlight(d)) /\ (Busy(d)' => Busy(d))
    BY <1>0, <2>1 DEF Saving, InFlight, Saves, Busy
  <2>3. User \subseteq Client /\ Admin \subseteq Client /\ Client = User \cup Admin
    BY ClientConstants
  <2>4. TurnsInv'
    BY <1>0, <1>2, <2>2, <2>3 DEF Good, TurnsInv
  <2>5. FileInv'
    <3>1. json_write /\ file = json
      BY <1>0, <1>2 DEF Good, FileInv
    <3>2. ~panicked'
      BY <1>0, <1>2, <3>1 DEF Good, FileInv
    <3>3. \A d \in Client : ~Saving(d)'
      BY <2>1 DEF Saving
    <3> QED
      BY <1>0, <1>2, <3>1, <3>2, <3>3 DEF Good, FileInv, Whole
  <2>6. ASSUME NEW d \in Client PROVE ReceivedInv(d)' /\ OlderInv(d)' /\ LoadsInv(d)'
    <3>1. /\ ReceivedInv(d) /\ OlderInv(d) /\ LoadsInv(d)
          /\ Other(d)' <=> Other(d)
          /\ rx_auth_okay(d)' <=> rx_auth_okay(d)
          /\ \A s \in 1 .. Len(page[d].len) : Sending(d, s)' <=> Sending(d, s)
      BY <1>0, <1>2, <2>0 DEF Good, Other, rx_auth_okay, Sending
    <3>2. save_cfg.seq \in Nat /\ Len(page[d].len) \in Nat
      BY PageTypes DEF Types
    <3>3. ~Other(d) /\ page[d].on =>
            /\ save_cfg.seq <= Len(page[d].len)
            /\ save_cfg.seq # 0 => page[d].sent[save_cfg.seq] > 0 /\ (Saving(d)' => ~Sending(d, save_cfg.seq)')
      <4>1. save_cfg.seq # 0 /\ save_cfg.seq <= Len(page[d].len) => save_cfg.seq \in 1 .. Len(page[d].len)
        BY <3>2
      <4>2. ~Other(d) /\ page[d].on =>
              /\ save_cfg.seq <= Len(page[d].len)
              /\ save_cfg.seq # 0 => page[d].sent[save_cfg.seq] > 0 /\ (Saving(d) => ~Sending(d, save_cfg.seq))
        BY <3>1 DEF ReceivedInv
      <4> QED
        BY <2>2, <3>1, <4>1, <4>2
    <3>4. ASSUME rx_auth_okay(d), NEW s \in 1 .. Len(page[d].len), Sending(d, s), page[d].sent[s] > 0
          PROVE  ~Other(d) /\ s <= save_cfg.seq /\ s # save_cfg.seq
      <4>1. ~Other(d) /\ s <= save_cfg.seq /\ InFlight(d)
        BY <3>1, <3>4, PageTypes DEF ReceivedInv
      <4>2. page[d].on
        BY <3>4 DEF Types
      <4>3. CASE d = c
        BY <1>0, <3>1, <3>4, <4>1, <4>2, <4>3 DEF ReceivedInv
      <4>4. CASE d # c /\ d \in Admin
        BY <1>0, <1>2, <4>2, <4>4 DEF Good, TurnsInv
      <4>5. CASE d # c /\ d \in User /\ c \in User
        BY <1>0, <1>2, <4>1, <4>5 DEF Good, TurnsInv, Busy
      <4>6. CASE d \in User /\ c \in Admin
        BY <1>0, <1>2, <3>4, <4>1, <4>6, ClientConstants DEF Good, TurnsInv, rx_auth_okay
      <4> QED
        BY <2>3, <4>3, <4>4, <4>5, <4>6
    <3>5. ReceivedInv(d)'
      BY <1>0, <2>0, <3>1, <3>3, <3>4 DEF ReceivedInv
    <3>6. OlderInv(d)' /\ LoadsInv(d)'
      BY <1>0, <2>0, <3>1 DEF OlderInv, LoadsInv
    <3> QED
      BY <3>5, <3>6
  <2> QED
    BY <2>4, <2>5, <2>6 DEF Good
<1> QED
  BY <1>1, <1>2

(* A restart leaves the file: the program uses it, and nothing is under way. *)
LEMMA RestartInv ==
  ASSUME Types, Restart
  PROVE  Types' /\ (Good /\ ~torn' => Good')
<1>0. /\ torn' = (torn \/ file = <<>>)
      /\ page' = [c \in Client |-> Blank(FALSE, page[c].ts)]
      /\ save_cfg' = [conn |-> "nobody", ts |-> 0, seq |-> 0, json |-> <<>>]
      /\ json' = file /\ job' = [c \in Client |-> NoJob]
      /\ json_write' = FALSE /\ panicked' = FALSE /\ file' = file /\ clash' = clash
  BY DEF Restart, Blank
<1>1. \A c \in Client :
        /\ page'[c] \in [on : BOOLEAN, ts : Nat, len : Seq(Nat \ {0}), sent : Seq(Nat)]
        /\ ~page'[c].on /\ page'[c].ts = page[c].ts /\ Len(page'[c].len) = 0 /\ Len(page'[c].sent) = 0
        /\ DOMAIN page'[c].len = 1 .. 0
  <2> SUFFICES ASSUME NEW c \in Client
               PROVE  /\ page'[c] \in [on : BOOLEAN, ts : Nat, len : Seq(Nat \ {0}), sent : Seq(Nat)]
                      /\ ~page'[c].on /\ page'[c].ts = page[c].ts
                      /\ Len(page'[c].len) = 0 /\ Len(page'[c].sent) = 0
                      /\ DOMAIN page'[c].len = 1 .. 0
    OBVIOUS
  <2>1. page'[c] = Blank(FALSE, page[c].ts) /\ page[c].ts \in Nat
    BY <1>0, PageTypes
  <2> QED
    BY <2>1, BlankTypes
<1>2. Types'
  <2>1. page' \in [Client -> [on : BOOLEAN, ts : Nat, len : Seq(Nat \ {0}), sent : Seq(Nat)]]
    BY <1>0, <1>1
  <2>2. \A c \in Client :
         /\ Len(page'[c].sent) = Len(page'[c].len)
         /\ \A s \in 1 .. Len(page'[c].len) : page'[c].sent[s] <= page'[c].len[s]
         /\ ~page'[c].on => Len(page'[c].len) = 0
    BY <1>1
  <2>3. /\ save_cfg' \in [conn : Client \cup {"nobody"}, ts : Nat, seq : Nat, json : Seq(Fragment)]
        /\ job' \in [Client -> Seq(Fragment)]
    BY <1>0, EmptySeq DEF NoJob
  <2>4. /\ json' \in Seq(Fragment) /\ file' \in Seq(Fragment) /\ json_write' \in BOOLEAN
        /\ panicked' \in BOOLEAN /\ clash' \in BOOLEAN /\ torn' \in BOOLEAN
    BY <1>0 DEF Types
  <2> QED
    BY <2>1, <2>2, <2>3, <2>4 DEF Types
<1>3. ASSUME Good, ~torn' PROVE Good'
  <2>1. \A c \in Client : ~Saving(c)' /\ ~InFlight(c)'
    <3>1. \A c \in Client : job'[c] = NoJob
      BY <1>0
    <3>2. \A c \in Client : DOMAIN page'[c].len = {}
      BY <1>1
    <3> QED
      BY <3>1, <3>2 DEF Saving, InFlight, Saves
  <2>2. User \subseteq Client /\ Admin \subseteq Client
    BY ClientConstants
  <2>3. TurnsInv'
    BY <1>1, <2>1, <2>2 DEF TurnsInv, Busy
  <2>4. FileInv'
    BY <1>0, <1>3, <2>1 DEF Good, FileInv, Whole
  <2>5. \A c \in Client : ReceivedInv(c)' /\ OlderInv(c)'
    BY <1>1 DEF ReceivedInv, OlderInv
  <2>6. \A c \in Client : LoadsInv(c)'
    BY <1>0, <1>1, <1>3, ClientConstants DEF Good, LoadsInv
  <2> QED
    BY <2>3, <2>4, <2>5, <2>6 DEF Good
<1> QED
  BY <1>2, <1>3

-----------------------------------------------------------------------------
(* All behaviours                                                          *)

LEMMA InitInv == Init => IInv
<1> SUFFICES ASSUME Init PROVE IInv
  OBVIOUS
<1>0. /\ page = [c \in Client |-> Blank(FALSE, 0)]
      /\ save_cfg = [conn |-> "nobody", ts |-> 0, seq |-> 0, json |-> <<>>]
      /\ json = Factory /\ file = Factory /\ job = [c \in Client |-> NoJob]
      /\ json_write = FALSE /\ panicked = FALSE /\ clash = FALSE /\ torn = FALSE
  BY DEF Init, Blank
<1>1. \A c \in Client :
        /\ page[c] \in [on : BOOLEAN, ts : Nat, len : Seq(Nat \ {0}), sent : Seq(Nat)]
        /\ ~page[c].on /\ Len(page[c].len) = 0 /\ Len(page[c].sent) = 0
        /\ DOMAIN page[c].len = 1 .. 0
  BY <1>0, BlankTypes
<1>2. Factory \in Seq(Fragment) /\ Whole(Factory) /\ Factory # <<>> /\ Factory[1].who = "factory"
  <2> DEFINE yes == TRUE
             part == [who |-> "factory", ts |-> 0, seq |-> 0, i |-> 1, last |-> yes]
  <2>1. part \in Fragment /\ Factory = <<part>> /\ part.who = "factory"
    BY DEF Fragment, Factory
  <2> HIDE DEF yes
  <2>2. [part EXCEPT !.i = 1, !.last = yes] = part
    <3>1. [part EXCEPT !.i = 1] = part
      OBVIOUS
    <3>2. [part EXCEPT !.last = yes] = part
      OBVIOUS
    <3> HIDE DEF part
    <3>3. [part EXCEPT !.i = 1, !.last = yes] = [[part EXCEPT !.i = 1] EXCEPT !.last = yes]
      OBVIOUS
    <3> QED
      BY <3>1, <3>2, <3>3, Zenon
  <2> HIDE DEF part
  <2>3. /\ <<part>> \in Seq(Fragment) /\ <<part>> # <<>> /\ <<part>>[1] = part
        /\ Len(<<part>>) = 1 /\ DOMAIN <<part>> = {1}
    BY <2>1
  <2>4. (1 = Len(<<part>>)) = yes
    BY <2>3 DEF yes
  <2>5. \A i \in DOMAIN <<part>> : <<part>>[i] = [<<part>>[1] EXCEPT !.i = i, !.last = (i = Len(<<part>>))]
    <3>1. <<part>>[1] = [<<part>>[1] EXCEPT !.i = 1, !.last = (1 = Len(<<part>>))]
      BY <2>2, <2>3, <2>4, Zenon
    <3> QED
      BY <2>3, <3>1
  <2> QED
    BY <2>1, <2>3, <2>5 DEF Whole
<1>3. Types
  <2>1. page \in [Client -> [on : BOOLEAN, ts : Nat, len : Seq(Nat \ {0}), sent : Seq(Nat)]]
    BY <1>0, <1>1
  <2>2. \A c \in Client :
         /\ Len(page[c].sent) = Len(page[c].len)
         /\ \A s \in 1 .. Len(page[c].len) : page[c].sent[s] <= page[c].len[s]
         /\ ~page[c].on => Len(page[c].len) = 0
    BY <1>1
  <2>3. /\ save_cfg \in [conn : Client \cup {"nobody"}, ts : Nat, seq : Nat, json : Seq(Fragment)]
        /\ job \in [Client -> Seq(Fragment)]
    BY <1>0, EmptySeq DEF NoJob
  <2> QED
    BY <1>0, <1>2, <2>1, <2>2, <2>3 DEF Types
<1>4. \A c \in Client : ~Saving(c) /\ ~InFlight(c)
  <2>1. \A c \in Client : job[c] = NoJob
    BY <1>0
  <2>2. \A c \in Client : DOMAIN page[c].len = {}
    BY <1>1
  <2> QED
    BY <2>1, <2>2 DEF Saving, InFlight, Saves
<1>5. TurnsInv
  BY <1>1, <1>4, ClientConstants DEF TurnsInv, Busy
<1>6. FileInv
  BY <1>0, <1>2, <1>4 DEF FileInv
<1>7. \A c \in Client : ReceivedInv(c) /\ OlderInv(c) /\ LoadsInv(c)
  <2>1. \A c \in Client : ReceivedInv(c) /\ OlderInv(c)
    BY <1>1 DEF ReceivedInv, OlderInv
  <2>2. save_cfg.conn = "nobody"
    BY <1>0
  <2>3. \A c \in Client : LoadsInv(c)
    BY <1>0, <1>2, <2>2, ClientConstants DEF LoadsInv
  <2> QED
    BY <2>1, <2>3
<1> QED
  BY <1>3, <1>5, <1>6, <1>7 DEF IInv, Good

LEMMA UnchangedInv ==
  ASSUME IInv, UNCHANGED vars
  PROVE  IInv'
<1>0. UNCHANGED <<page, save_cfg, json, file, job, json_write, panicked, clash, torn>>
  BY DEF vars
<1>1. Types'
  BY <1>0 DEF IInv, Types
<1>2. ASSUME Good PROVE Good'
  <2>1. TurnsInv' /\ FileInv'
    BY <1>0, <1>2 DEF Good, TurnsInv, FileInv, Whole, Saving, Busy, InFlight, Saves
  <2>2. \A d \in Client : ReceivedInv(d)' /\ OlderInv(d)'
    BY <1>0, <1>2, Frame DEF Good, rx_auth_okay, Saving
  <2>3. \A d \in Client : LoadsInv(d)'
    BY <1>0, <1>2 DEF Good, LoadsInv
  <2> QED
    BY <2>1, <2>2, <2>3 DEF Good
<1> QED
  BY <1>0, <1>1, <1>2 DEF IInv

LEMMA NextInv == IInv /\ [Next]_vars => IInv'
<1> SUFFICES ASSUME IInv, [Next]_vars PROVE IInv'
  OBVIOUS
<1>0. Types /\ (~clash /\ ~torn => Good)
  BY DEF IInv
<1>1. ASSUME NEW c \in Client, Connect(c) PROVE IInv'
  <2>1. (~clash' => ~clash) /\ torn' = torn
    BY <1>1 DEF Connect
  <2> QED
    BY <1>0, <1>1, <2>1, ConnectPage, ConnectGood DEF IInv
<1>2. ASSUME NEW c \in Client, Leave(c) PROVE IInv'
  <2>1. (~clash' => ~clash) /\ torn' = torn
    BY <1>2 DEF Leave
  <2> QED
    BY <1>0, <1>2, <2>1, LeavePage, LeaveGood DEF IInv
<1>3. ASSUME NEW c \in Client, NEW n \in 1 .. Parts, Begin(c, n) PROVE IInv'
  <2>1. (~clash' => ~clash) /\ torn' = torn
    BY <1>3 DEF Begin
  <2> QED
    BY <1>0, <1>3, <2>1, BeginPage, BeginGood DEF IInv
<1>4. ASSUME NEW c \in Client, NEW s \in Saves(c), Receive(c, s) PROVE IInv'
  <2>1. (~clash' => ~clash) /\ torn' = torn
    BY <1>4 DEF Receive
  <2> QED
    BY <1>0, <1>4, <2>1, ReceiveTypes, ReceiveGood DEF IInv
<1>5. ASSUME NEW c \in Client, Truncate(c) PROVE IInv'
  <2>1. clash' = clash /\ torn' = torn
    BY <1>5 DEF Truncate
  <2> QED
    BY <1>0, <1>5, <2>1, TruncateInv DEF IInv
<1>6. ASSUME NEW c \in Client, Write(c) PROVE IInv'
  <2>1. clash' = clash /\ torn' = torn
    BY <1>6 DEF Write
  <2> QED
    BY <1>0, <1>6, <2>1, WriteInv DEF IInv
<1>7. ASSUME NEW c \in Client, Done(c) PROVE IInv'
  <2>1. clash' = clash /\ torn' = torn
    BY <1>7 DEF Done
  <2> QED
    BY <1>0, <1>7, <2>1, DoneInv DEF IInv
<1>8. CASE Restart
  <2>1. clash' = clash /\ (~torn' => ~torn)
    BY <1>8 DEF Restart
  <2> QED
    BY <1>0, <1>8, <2>1, RestartInv DEF IInv
<1>9. CASE UNCHANGED vars
  BY <1>9, UnchangedInv
<1> QED
  BY <1>1, <1>2, <1>3, <1>4, <1>5, <1>6, <1>7, <1>8, <1>9 DEF Next

\* As long as no two clients save at the same time and the power does not fail
\* while the file is written, the parts are put together as described above.
THEOREM SavingInvariant == Spec => []IInv
BY InitInv, NextInv, PTL DEF Spec

\* What the program uses is always one whole configuration (save_config(),
\* _cfg_save_json()), for any number of clients, page loads, saves and parts.
THEOREM WhatIsSavedWasSent == Spec => []SavedIsSent
<1>1. IInv => SavedIsSent
  BY DEF IInv, Good, FileInv, SavedIsSent
<1> QED
  BY <1>1, SavingInvariant, PTL

\* The file has what the program uses when no child process is writing it.
THEOREM FileFollows == Spec => []FileIsCurrent
<1>1. IInv => FileIsCurrent
  BY DEF IInv, Good, FileInv, FileIsCurrent
<1> QED
  BY <1>1, SavingInvariant, PTL

\* What a step may not do to what is stored, unless it is a restart.
Newer ==
  Restart \/ clash \/ torn \/ (
    json[1].who = json'[1].who /\ json[1].ts = json'[1].ts
      => json[1].seq <= json'[1].seq )

\* No save of a page is replaced by an older one, whatever the order in which
\* the parts of several arrive ("IGNORE DELAYED, OUT-OF-SEQ FRAG").
THEOREM NewestStays == Spec => NewestWins
<1>1. IInv /\ [Next]_vars => [Newer]_vars
  <2> SUFFICES ASSUME IInv, Next, ~clash, ~torn PROVE Newer
    BY Zenon DEF Newer
  <2>0. Types /\ Good /\ json[1].seq \in Nat
    BY JsonTypes DEF IInv, Good, FileInv
  <2>1. ASSUME NEW c \in Client, NEW s \in Saves(c), Receive(c, s) PROVE Newer
    <3>1. CASE json' = json
      BY <2>0, <3>1 DEF Newer
    <3>2. CASE Stores(c, s) /\ json'[1] = Part(c, s, 1)
      <4> SUFFICES ASSUME json[1].who = c, json[1].ts = page[c].ts PROVE json[1].seq <= s
        BY <3>2 DEF Newer, Part
      <4>1. page[c].on /\ Sending(c, s) /\ s \in 1 .. Len(page[c].len)
        BY <2>0, <2>1, ReceiveEffect, PageTypes
      <4>2. (~Other(c) /\ json[1].seq <= save_cfg.seq) \/ json[1].seq < s
        BY <2>0, <3>2, <4>1 DEF Good, OlderInv, Stores, Okay
      <4>3. ~ (s < Reset(c).seq) /\ s \in Nat
        BY <2>0, <3>2, <4>1, PageTypes DEF Stores, Okay, Delayed
      <4>4. ~Other(c) => Reset(c) = save_cfg /\ save_cfg.seq \in Nat
        BY <2>0, ResetTypes
      <4> QED
        BY <2>0, <4>2, <4>3, <4>4
    <3> QED
      BY <2>0, <2>1, <3>1, <3>2, ReceiveFile
  <2>2. CASE json' = json
    BY <2>0, <2>2 DEF Newer
  <2>3. json' = json \/ Restart \/ \E c \in Client : \E s \in Saves(c) : Receive(c, s)
    BY DEF Next, Connect, Leave, Truncate, Write, Done, Begin
  <2> QED
    BY <2>1, <2>2, <2>3 DEF Newer
<1> QED
  BY <1>1, SavingInvariant, PTL DEF NewestWins, Newer, Spec
=============================================================================
