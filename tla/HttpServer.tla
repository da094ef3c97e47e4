----------------------------- MODULE HttpServer -----------------------------
(***************************************************************************)
(* The HTTP file manager: httpsrv.c, run by the callbacks of lwIP, and     *)
(* wifi.c, which starts and stops it and whose wifi_poll is the only place *)
(* where the callbacks run.                                                *)
(*                                                                         *)
(* One action is one callback.  srv is what the server has: a record that  *)
(* the operators below take and give, as the C functions change it.  A     *)
(* freed conn_t is one whose live is FALSE; a function that is given one   *)
(* sets srv.touched.  srv.tcp is what lwIP and the client at the other end *)
(* have of a connection (external).  Of the volume there is the size of    *)
(* each file and whether a mount made the open one stale; SdVolume has the *)
(* rest of it.                                                             *)
(***************************************************************************)
EXTENDS Integers, Sequences, FiniteSets

CONSTANTS
  Conns,          \* the connections there can be at a time
  Paths,          \* the files clients name
  BodyLens,       \* lengths of the uploads (0: no Content-Length)
  HdrMax,         \* room of conn_t.hdr (799), in the unit of the streams below
  SndBuf,         \* room of lwIP's send buffer
  PageLen,        \* length of the page and of a listing; a text has length 1
  MaxReqs,        \* bound: requests
  MaxFaults       \* bound: failures of the card, of memory, of clients and of the radio

ASSUME HttpAssumption ==
  /\ Paths # {} /\ BodyLens \subseteq Nat
  /\ HdrMax \in Nat /\ SndBuf \in Nat /\ PageLen \in Nat /\ MaxReqs \in Nat /\ MaxFaults \in Nat

VARIABLES srv, s_inited, s_up, s_listen, reqs, faults

vars == <<srv, s_inited, s_up, s_listen, reqs, faults>>
wifi == <<s_inited, s_up, s_listen>>

Absent == -1
NoFile == [path |-> CHOOSE p \in Paths : TRUE, stale |-> TRUE, err |-> FALSE, size |-> 0]
Freed == [live |-> FALSE, hdrlen |-> 0, hdr_done |-> FALSE, body_recv |-> 0, mine_upload |-> FALSE,
          resp |-> "none", resp_off |-> 0, resp_len |-> 0]
NoTcp == [state |-> "none", req |-> [route |-> "page"], todo |-> <<>>, inflight |-> 0, said |-> "none"]

(***************************************************************************)
(* What clients send: a stream of units, "h" in the header, "e" the end of *)
(* the header, "b" in the body.                                            *)
(***************************************************************************)
Requests ==
  [route : {"page", "other", "list", "mkdir", "long"}] \union [route : {"delete"}, path : Paths]
  \union [route : {"upload"}, path : Paths, len : BodyLens]

Stream(req) ==
  CASE req.route = "long" -> [i \in 1..HdrMax |-> "h"] \o <<"e">>
    [] req.route = "upload" -> <<"h", "e">> \o [i \in 1..req.len |-> "b"]
    [] OTHER -> <<"h", "e">>

(***************************************************************************)
(* FatFs as the server sees it.  luck names what fails in this callback.   *)
(***************************************************************************)
\* A mount makes every open file stale.
f_mount(s) == [s EXCEPT !.g_upfile.stale = TRUE]
Stale(s) == s.g_upfile.stale

\* f_open(path, FA_CREATE_ALWAYS)
Opened(s, path) ==
  [s EXCEPT !.files[path] = 0, !.g_upfile = [path |-> path, stale |-> FALSE, err |-> FALSE, size |-> 0]]

\* How many of n units f_write writes.
Written(s, n, luck) ==
  IF Stale(s) \/ s.g_upfile.err THEN 0 ELSE IF luck = "write" THEN n - 1 ELSE n
f_write(s, n, luck) ==
  [s EXCEPT !.g_upfile.size = @ + Written(s, n, luck),
            !.g_upfile.err = @ \/ (luck = "write" /\ ~Stale(s))]

\* The size reaches the directory when the file is closed, or never.
f_close(s, luck) ==
  IF Stale(s) THEN s
  ELSE IF luck = "close" THEN [s EXCEPT !.g_upfile = NoFile, !.unsynced = TRUE]
  ELSE [s EXCEPT !.g_upfile = NoFile, !.files[s.g_upfile.path] = s.g_upfile.size]

(***************************************************************************)
(* httpsrv.c.  c is the connection, s the server; the result is the server *)
(* afterwards.                                                             *)
(***************************************************************************)
Release(s, c, luck) ==
  IF s.conn[c].mine_upload /\ s.g_uploading
  THEN [f_close(s, luck) EXCEPT !.g_uploading = FALSE, !.conn[c].mine_upload = FALSE] ELSE s

\* tcp_close ends the connection behind what is queued; if it fails, tcp_abort resets it.
close_conn(s, c, luck) ==
  [Release(s, c, luck) EXCEPT !.conn[c] = Freed,
                              !.tcp[c].state = IF luck = "fin" THEN "reset" ELSE "closed"]

Room(s, c) == SndBuf - s.tcp[c].inflight
Pending(s, c) == s.conn[c].resp_len - s.conn[c].resp_off
Wrote(s, c, n) == [s EXCEPT !.conn[c].resp_off = @ + n, !.tcp[c].inflight = @ + n]
Said(s, c) == [s EXCEPT !.tcp[c].said = s.conn[c].resp]

\* Closes the connection once everything is in the send buffer; until then tcp_sent comes back.
push_send(s, c, luck) ==
  IF luck = "mem" THEN s
  ELSE IF Pending(s, c) > Room(s, c) THEN Wrote(s, c, Room(s, c))
  ELSE close_conn(Said(Wrote(s, c, Pending(s, c)), c), c, luck)

respond(s, c, code, len, luck) ==
  IF luck = "malloc" THEN close_conn(s, c, luck)
  ELSE push_send([s EXCEPT !.conn[c].resp = code, !.conn[c].resp_len = len], c, luck)

build_listing(s, c, luck) ==
  IF luck = "open" THEN respond(s, c, "404", 1, luck) ELSE respond(s, c, "200", PageLen, luck)

UploadOpened(s, c, luck) ==
  IF s.tcp[c].req.len = 0 THEN respond(f_close(s, luck), c, "200", 1, luck)
  ELSE [s EXCEPT !.g_uploading = TRUE, !.conn[c].mine_upload = TRUE]

UploadMounted(s, c, luck) ==
  IF luck = "open" THEN respond(s, c, "500", 1, luck) ELSE UploadOpened(Opened(s, s.tcp[c].req.path), c, luck)

\* (mutant) the slot is not looked at
UploadAnyway(s, c, luck) == UploadMounted(f_mount(s), c, luck)
Upload(s, c, luck) ==
  IF s.g_uploading THEN respond(s, c, "500", 1, luck) ELSE UploadMounted(f_mount(s), c, luck)

Delete(s, c, path, luck) ==
  IF s.files[path] = Absent \/ luck = "open" THEN respond(s, c, "500", 1, luck)
  ELSE respond([s EXCEPT !.files[path] = Absent], c, "200", 1, luck)

handle_headers(s, c, luck) ==
  CASE s.tcp[c].req.route = "page" -> respond(s, c, "200", PageLen, luck)
    [] s.tcp[c].req.route = "list" -> build_listing(f_mount(s), c, luck)
    [] s.tcp[c].req.route = "upload" -> Upload(s, c, luck)
    [] s.tcp[c].req.route = "delete" -> Delete(f_mount(s), c, s.tcp[c].req.path, luck)
    [] s.tcp[c].req.route = "mkdir" ->
         respond(f_mount(s), c, IF luck = "open" THEN "500" ELSE "200", 1, luck)
    [] OTHER -> respond(s, c, "404", 1, luck)

finish_upload(s, c, luck) == respond(Release(s, c, luck), c, "200", 1, luck)

\* (mutant) what was received is counted, not what was written
CountedReceived(s, c, n, luck) == [f_write(s, n, luck) EXCEPT !.conn[c].body_recv = @ + n]
Counted(s, c, n, luck) == [f_write(s, n, luck) EXCEPT !.conn[c].body_recv = @ + Written(s, n, luck)]
FinishIfWhole(s, c, luck) ==
  IF s.conn[c].body_recv >= s.tcp[c].req.len THEN finish_upload(s, c, luck) ELSE s

Body(s, c, units, luck) ==
  IF s.conn[c].live /\ s.conn[c].hdr_done /\ s.conn[c].mine_upload /\ s.g_uploading /\ units # <<>>
  THEN FinishIfWhole(Counted(s, c, Len(units), luck), c, luck) ELSE s

\* The header buffer takes no more than HdrMax; the end of the header must be in it.
\* (mutant) without the bound
HeaderUnbounded(s, c, units) == [s EXCEPT !.conn[c].hdrlen = @ + Len(units)]
Header(s, c, units) == [s EXCEPT !.conn[c].hdrlen = IF @ + Len(units) < HdrMax THEN @ + Len(units) ELSE HdrMax]
EndsAt(s, c, units) == {i \in 1..Len(units) : units[i] = "e" /\ s.conn[c].hdrlen + i <= HdrMax}
HeaderDone(s, c) == [s EXCEPT !.conn[c].hdr_done = TRUE]

\* One pbuf.
process_bytes(s, c, units, luck) ==
  CASE ~s.conn[c].live -> [s EXCEPT !.touched = TRUE]
    [] s.conn[c].live /\ s.conn[c].hdr_done -> Body(s, c, units, luck)
    [] OTHER ->
         IF EndsAt(s, c, units) = {} THEN Header(s, c, units)
         ELSE Body(handle_headers(HeaderDone(Header(s, c, units), c), c, luck), c,
                   SubSeq(units, 1 + CHOOSE i \in EndsAt(s, c, units) : TRUE, Len(units)), luck)

\* The next pbuf of the chain, unless the connection was closed.
\* (mutant) in any case
NextPbufAnyway(s, c, units, luck) == process_bytes(s, c, units, luck)
NextPbuf(s, c, units, luck) ==
  IF s.conn[c].live /\ units # <<>> THEN process_bytes(s, c, units, luck) ELSE s

(***************************************************************************)
(* The callbacks.                                                          *)
(***************************************************************************)
Lucks == {"none"} \union (IF faults < MaxFaults THEN {"open", "write", "close", "mem", "malloc", "fin"} ELSE {})
Spend(luck) == faults' = faults + (IF luck = "none" THEN 0 ELSE 1)

on_accept(c) ==
  /\ s_up /\ srv.tcp[c].state = "syn"
  /\ srv' = [srv EXCEPT !.tcp[c].state = "est", !.conn[c] = [Freed EXCEPT !.live = TRUE]]
  /\ UNCHANGED <<wifi, reqs, faults>>

\* Data: a chain of one or two pbufs.
on_recv(c) ==
  /\ s_up /\ srv.tcp[c].state = "est"
  /\ \E n \in 1..Len(srv.tcp[c].todo), m \in 0..(Len(srv.tcp[c].todo) - 1), luck \in Lucks :
       /\ n + m <= Len(srv.tcp[c].todo)
       /\ srv' = [NextPbuf(process_bytes(srv, c, SubSeq(srv.tcp[c].todo, 1, n), luck), c,
                           SubSeq(srv.tcp[c].todo, n + 1, n + m), luck)
                    EXCEPT !.tcp[c].todo = SubSeq(@, n + m + 1, Len(@))]
       /\ Spend(luck)
  /\ UNCHANGED <<wifi, reqs>>

\* The client has closed its side.
\* (mutant) not while it is uploading
on_recv_nullIdle(c) ==
  /\ s_up /\ srv.tcp[c].state = "fin" /\ ~srv.conn[c].mine_upload
  /\ srv' = close_conn(srv, c, "none")
  /\ UNCHANGED <<wifi, reqs, faults>>

on_recv_null(c) ==
  /\ s_up /\ srv.tcp[c].state = "fin"
  /\ srv' = close_conn(srv, c, "none")
  /\ UNCHANGED <<wifi, reqs, faults>>

\* The client has acknowledged some of what is in flight.
Acked(s, c, n) == [s EXCEPT !.tcp[c].inflight = @ - n]
\* (mutant) the rest of a response is not sent
ContinueNot(s, c, luck) == s
Continue(s, c, luck) == IF s.conn[c].resp # "none" THEN push_send(s, c, luck) ELSE s
on_sent(c) ==
  /\ s_up /\ srv.tcp[c].inflight > 0 /\ srv.tcp[c].state \in {"est", "fin"}
  /\ \E n \in 1..srv.tcp[c].inflight, luck \in Lucks \ {"open", "write", "close"} :
       /\ srv' = Continue(Acked(srv, c, n), c, luck)
       /\ Spend(luck)
  /\ UNCHANGED <<wifi, reqs>>

\* A reset by the client, or data that was never acknowledged.
on_err(c) ==
  /\ faults < MaxFaults /\ faults' = faults + 1
  /\ srv.tcp[c].state \in {"est", "fin"} /\ (s_up \/ srv.tcp[c].inflight > 0)
  /\ srv' = [Release(srv, c, "none") EXCEPT !.conn[c] = Freed, !.tcp[c].state = "reset"]
  /\ UNCHANGED <<wifi, reqs>>

(***************************************************************************)
(* Clients.                                                                *)
(***************************************************************************)
Connect(c) ==
  /\ s_up /\ s_listen /\ srv.tcp[c].state \in {"none", "closed", "reset"} /\ reqs < MaxReqs
  /\ \E req \in Requests :
       srv' = [srv EXCEPT !.tcp[c] = [NoTcp EXCEPT !.state = "syn", !.req = req, !.todo = Stream(req)]]
  /\ reqs' = reqs + 1
  /\ UNCHANGED <<wifi, faults>>

\* The client gives up and closes.
GiveUp(c) ==
  /\ srv.tcp[c].state = "est"
  /\ srv' = [srv EXCEPT !.tcp[c].state = "fin", !.tcp[c].todo = <<>>]
  /\ UNCHANGED <<wifi, reqs, faults>>

\* The client is no longer there.
Vanish(c) ==
  /\ faults < MaxFaults /\ faults' = faults + 1
  /\ srv.tcp[c].state = "est"
  /\ srv' = [srv EXCEPT !.tcp[c].todo = <<>>]
  /\ UNCHANGED <<wifi, reqs>>

(***************************************************************************)
(* wifi.c                                                                  *)
(***************************************************************************)
\* read_creds mounts the card; the driver is initialised once; joining may fail.
wifi_on ==
  /\ ~s_up
  /\ srv' = f_mount(srv)
  /\ \/ s_inited' = TRUE /\ s_up' = TRUE /\ s_listen' = TRUE /\ UNCHANGED faults
     \/ /\ faults < MaxFaults /\ faults' = faults + 1
        /\ s_inited' \in {s_inited, TRUE} /\ UNCHANGED <<s_up, s_listen>>
  /\ UNCHANGED reqs

\* The connections stay, without a network.
wifi_off ==
  /\ s_inited /\ (s_up \/ s_listen) /\ faults < MaxFaults /\ faults' = faults + 1
  /\ s_up' = FALSE /\ s_listen' = FALSE
  /\ UNCHANGED <<srv, s_inited, reqs>>

Init ==
  /\ srv = [conn |-> [c \in Conns |-> Freed], tcp |-> [c \in Conns |-> NoTcp], g_uploading |-> FALSE,
            g_upfile |-> NoFile, files |-> [p \in Paths |-> Absent], touched |-> FALSE,
            unsynced |-> FALSE]
  /\ s_inited = FALSE /\ s_up = FALSE /\ s_listen = FALSE /\ reqs = 0 /\ faults = 0

Callback(c) == on_accept(c) \/ on_recv(c) \/ on_recv_null(c) \/ on_sent(c)

Next ==
  \/ \E c \in Conns : Callback(c) \/ on_err(c) \/ Connect(c) \/ GiveUp(c) \/ Vanish(c)
  \/ wifi_on \/ wifi_off

\* main's loop calls wifi_poll for ever, and lwIP its callbacks for what has arrived.
Fairness == \A c \in Conns : WF_vars(Callback(c))

Spec == Init /\ [][Next]_vars /\ Fairness

(***************************************************************************)
(* Properties.                                                             *)
(***************************************************************************)
Owners == {c \in Conns : srv.conn[c].live /\ srv.conn[c].mine_upload}

TypeOK ==
  /\ \A c \in Conns : /\ srv.conn[c].hdrlen \in 0..HdrMax /\ srv.tcp[c].inflight \in 0..SndBuf
                      /\ srv.tcp[c].state \in {"none", "syn", "est", "fin", "closed", "reset"}
                      /\ srv.tcp[c].said \in {"none", "200", "404", "500"}
                      /\ srv.conn[c].live <=> srv.tcp[c].state \in {"est", "fin"}
  /\ srv.g_uploading \in BOOLEAN /\ \A p \in Paths : srv.files[p] \in {Absent} \union Nat
  /\ s_up \in BOOLEAN /\ s_listen \in BOOLEAN /\ reqs \in 0..MaxReqs /\ faults \in 0..MaxFaults

\* The one upload slot is taken exactly when one living connection will give it back,
\* however connections end.
SlotHasOneOwner == Cardinality(Owners) = IF srv.g_uploading THEN 1 ELSE 0

\* No callback, and no further buffer of a chain, works on a conn_t that was freed.
NeverTouchesFreed == ~srv.touched

\* An upload answered 200 is on the card with the length the client gave, whatever failed
\* in between or remounted the card; only the error of its own f_close goes unseen.
Promised(s, c) == s.tcp[c].req.route = "upload" /\ "200" \in {s.tcp[c].said, s.conn[c].resp}
UploadOkIsStored ==
  [][\A c \in Conns : (Promised(srv', c) /\ ~Promised(srv, c))
       => srv'.files[srv.tcp[c].req.path] = srv.tcp[c].req.len \/ srv'.unsynced]_vars

\* A request whose header fits is answered whole, unless something failed, the client or the
\* network left, or its upload was cut off by a mount of the card.
CutOff(c) == c \in Owners /\ Stale(srv)
Answered ==
  \A c \in Conns :
    (srv.tcp[c].state = "est" /\ srv.tcp[c].req.route # "long")
      ~> (srv.tcp[c].state # "est" \/ CutOff(c) \/ faults > 0)

\* An upload that cannot go on holds the slot no longer than its client stays.
SlotFreed ==
  \A c \in Conns : (c \in Owners /\ srv.tcp[c].state = "fin") ~> (c \notin Owners \/ ~s_up)

=============================================================================
