------------------------------- MODULE CfgSave -------------------------------
(***************************************************************************)
(* How a configuration is saved: save_config() in rx/rx_util.cpp and       *)
(* _cfg_save_json() in init/cfg.cpp.                                       *)
(*                                                                         *)
(* A web page sends the whole configuration in parts.  All connections     *)
(* share one place where the parts are put together.  The last part has    *)
(* the result put into memory, checked, and written to the file by a child *)
(* process, while the task of the connection waits and other tasks run.    *)
(* A page may have several saves under way (ext_send_cfg() in              *)
(* web/extensions/ext.js), each with a number; users may only save while   *)
(* there is no administrator.  The power may fail at any time.             *)
(*                                                                         *)
(* Left out: what is in the parts, their decoding, the other two           *)
(* configurations that are saved by the same code, and single values that  *)
(* the server itself changes.                                              *)
(***************************************************************************)
EXTENDS Integers, SequencesExt

CONSTANTS
  User, Admin,  \* the connections that may save: auth_admin is set
  Parts,        \* bound: the parts of a configuration
  MaxSeq,       \* bound: saves of a page
  MaxLoads      \* bound: how often a page is loaded

ASSUME CfgSaveAssumption ==
  /\ User \cap Admin = {} /\ {"nobody", "factory"} \cap (User \cup Admin) = {}
  /\ Parts \in Nat \ {0} /\ MaxSeq \in Nat /\ MaxLoads \in Nat

Client == User \cup Admin

VARIABLES
  page,       \* the page of each client, and how far it has sent its saves
  save_cfg,   \* the static structure of that name
  json,       \* cfg_cfg.json, what the program uses
  file,       \* kiwi.json
  job,        \* job[c]: what the child writes that c's task waits for
  json_write, \* whether the string of that name is allocated
  panicked,   \* panic("json integrity fail"), or a double free()
  clash,      \* history: two clients have saved at the same time (see Clash)
  torn        \* history: the power has failed while the file was written

vars == <<page, save_cfg, json, file, job, json_write, panicked, clash, torn>>

-----------------------------------------------------------------------------
(* A save is named by who has sent it, from which page, and its number.    *)
(* Its configuration is the sequence of its parts, the last one marked.    *)

NoJob == <<>>
Part(c, s, i) == [who |-> c, ts |-> page[c].ts, seq |-> s, i |-> i, last |-> i = page[c].len[s]]
Whole(doc) ==
  /\ doc # <<>>
  /\ \A i \in DOMAIN doc : doc[i] = [doc[1] EXCEPT !.i = i, !.last = (i = Len(doc))]

Factory == <<[who |-> "factory", ts |-> 0, seq |-> 0, i |-> 1, last |-> TRUE]>>

Saves(c) == DOMAIN page[c].len
InFlight(c) == \E s \in Saves(c) : page[c].sent[s] < page[c].len[s]
Saving(c) == job[c] # NoJob
Busy(c) == InFlight(c) \/ Saving(c)

NewPage(ts) == [on |-> TRUE, ts |-> ts, len |-> <<>>, sent |-> <<>>]

-----------------------------------------------------------------------------
(* The clients *)

\* What the code does not prevent: two users save at the same time; an
\* administrator comes while a configuration is being written, or goes while
\* that of a user is still being sent, some of it rejected.
\* Discards(c) below is one more.
Clash(c) ==
  \/ c \in User /\ \E d \in Client \ {c} : IF d \in User THEN Busy(d) ELSE Saving(d)
  \/ c \in Admin /\ ~page[c].on /\ \E d \in Client : Saving(d)
  \/ c \in Admin /\ page[c].on /\ \E d \in User : InFlight(d)

\* One administrator at a time; a page that is loaded again has another time stamp.
Connect(c) ==
  /\ ~page[c].on /\ page[c].ts < MaxLoads /\ ~Saving(c)
  /\ c \in Admin => \A d \in Admin : ~page[d].on
  /\ page' = [page EXCEPT ![c] = NewPage(page[c].ts + 1)]
  /\ clash' = (clash \/ (c \in Admin /\ Clash(c)))
  /\ UNCHANGED <<save_cfg, json, file, job, json_write, panicked, torn>>

Leave(c) ==
  /\ page[c].on
  /\ page' = [page EXCEPT ![c] = [NewPage(page[c].ts) EXCEPT !.on = FALSE]]
  /\ clash' = (clash \/ (c \in Admin /\ Clash(c)))
  /\ UNCHANGED <<save_cfg, json, file, job, json_write, panicked, torn>>

\* ext_send_cfg(): another save, before or after the others are sent.
Begin(c, n) ==
  /\ page[c].on /\ Len(page[c].len) < MaxSeq
  /\ page' = [page EXCEPT ![c].len = Append(@, n), ![c].sent = Append(@, 0)]
  /\ clash' = (clash \/ (c \in User /\ Clash(c)))
  /\ UNCHANGED <<save_cfg, json, file, job, json_write, panicked, torn>>

-----------------------------------------------------------------------------
(* save_config() *)

rx_auth_okay_Any(c) == TRUE
rx_auth_okay(c) == c \in Admin \/ \A d \in Admin : ~page[d].on

\* The parts are of another connection, or of another use of it.
Other(c) == save_cfg.conn # c \/ save_cfg.ts # page[c].ts

Reset(c) ==
  IF Other(c) THEN [conn |-> c, ts |-> page[c].ts, seq |-> 0, json |-> <<>>] ELSE save_cfg

\* "IGNORE DELAYED, OUT-OF-SEQ FRAG", "NEW SEQ, DISCARD ACCUMULATED FRAGS"
Delayed_Not(s, old) == FALSE
Delayed(s, old) == s < old.seq

Kept(s, old) == IF s > old.seq THEN <<>> ELSE old.json

\* A part that will be rejected makes the code forget what an administrator has
\* sent of a save so far, and its number: the reset comes before the check.
Discards(c) ==
  Other(c) /\ ~rx_auth_okay(c) /\ save_cfg.conn \in Admin /\ InFlight(save_cfg.conn)

Joined(s, old, part) == [old EXCEPT !.seq = s, !.json = Append(Kept(s, old), part)]

\* _cfg_save_json() up to the child process: the string for the file is a copy
\* of the new configuration, made and checked before other tasks run.
Copied_First(doc) == json
Copied(doc) == doc

Stored(c, doc) ==
  /\ json' = doc
  /\ json_write' = TRUE
  /\ panicked' = (panicked \/ ~Whole(doc))
  /\ job' = IF Whole(doc) THEN [job EXCEPT ![c] = Copied(doc)] ELSE job

Receive(c, s) ==
  LET old == Reset(c)
      part == Part(c, s, page[c].sent[s] + 1)
      new == Joined(s, old, part)
      okay == rx_auth_okay(c) /\ ~Delayed(s, old)
  IN
  /\ page[c].on /\ ~Saving(c) /\ ~panicked
  /\ page[c].sent[s] < page[c].len[s]
  /\ page' = [page EXCEPT ![c].sent[s] = @ + 1]
  /\ save_cfg' = IF okay THEN new ELSE old
  /\ IF okay /\ part.last THEN Stored(c, new.json)
                          ELSE UNCHANGED <<json, job, json_write, panicked>>
  /\ clash' = (clash \/ Discards(c))
  /\ UNCHANGED <<file, torn>>

\* The child opens the file for writing, which empties it, and writes it.
Truncate(c) ==
  /\ Saving(c) /\ file # <<>> /\ file # job[c]
  /\ file' = <<>>
  /\ UNCHANGED <<page, save_cfg, json, job, json_write, panicked, clash, torn>>

Write(c) ==
  /\ Saving(c) /\ file = <<>>
  /\ file' = job[c]
  /\ UNCHANGED <<page, save_cfg, json, job, json_write, panicked, clash, torn>>

\* The task finds that the child has ended: "cfg->json = NULL here is extremely
\* important".
Done(c) ==
  /\ Saving(c) /\ file = job[c]
  /\ job' = [job EXCEPT ![c] = NoJob]
  /\ json_write' = FALSE
  /\ panicked' = (panicked \/ ~json_write)
  /\ save_cfg' = [save_cfg EXCEPT !.json = <<>>]
  /\ UNCHANGED <<page, json, file, clash, torn>>

\* The power fails, and the program starts with what is in the file.
Restart ==
  /\ torn' = (torn \/ file = <<>>)
  /\ page' = [c \in Client |-> [NewPage(page[c].ts) EXCEPT !.on = FALSE]]
  /\ save_cfg' = [conn |-> "nobody", ts |-> 0, seq |-> 0, json |-> <<>>]
  /\ json' = file
  /\ job' = [c \in Client |-> NoJob]
  /\ json_write' = FALSE /\ panicked' = FALSE
  /\ UNCHANGED <<file, clash>>

-----------------------------------------------------------------------------
Init ==
  /\ page = [c \in Client |-> [NewPage(0) EXCEPT !.on = FALSE]]
  /\ save_cfg = [conn |-> "nobody", ts |-> 0, seq |-> 0, json |-> <<>>]
  /\ json = Factory /\ file = Factory
  /\ job = [c \in Client |-> NoJob] /\ json_write = FALSE
  /\ panicked = FALSE /\ clash = FALSE /\ torn = FALSE

Next ==
  \/ \E c \in Client : Connect(c) \/ Leave(c) \/ Truncate(c) \/ Write(c) \/ Done(c)
  \/ \E c \in Client, n \in 1 .. Parts : Begin(c, n)
  \/ \E c \in Client : \E s \in Saves(c) : Receive(c, s)
  \/ Restart

Spec == Init /\ [][Next]_vars

-----------------------------------------------------------------------------
(* Properties *)

\* What the program uses is one whole configuration that somebody has sent,
\* whatever saves, page loads and rejected or delayed parts come between its
\* parts; the integrity check never fails.
SavedIsSent == clash \/ torn \/ (Whole(json) /\ ~panicked)

\* "Handle web socket fragmentation by sending in parts which can be reassembled
\* on server side" (rx_util.cpp:487): what is stored has all its parts.
PartsReassembled == torn \/ Whole(json)

\* When nothing is being saved, the next start will find in the file what the
\* program uses now.
FileIsCurrent == clash \/ torn \/ (\E c \in Client : Saving(c)) \/ file = json

\* The saves of a page take effect in the order in which it has made them,
\* although the parts of several are sent in any order; only a power failure
\* takes one back.
NewestWins ==
  [][Restart \/ clash \/ torn \/ (
       json[1].who = json'[1].who /\ json[1].ts = json'[1].ts
         => json[1].seq <= json'[1].seq )]_vars
=============================================================================
