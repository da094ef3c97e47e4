-------------------------- MODULE HttpServerProofs --------------------------
(***************************************************************************)
(* Proofs about HttpServer: ranges, the one upload slot, freed connections *)
(* and what a 200 to an upload promises.                                   *)
(*                                                                         *)
(* Good is the inductive invariant.  It is about the record srv, so that   *)
(* the operators that take and give one (close_conn, push_send, respond,   *)
(* handle_headers, Body, process_bytes) each have a lemma of the form      *)
(* Good(s) => Good(Op(s)), with what Op leaves alone (Kept) and what it    *)
(* may promise (Told).                                                     *)
(***************************************************************************)
EXTENDS HttpServer, SequenceTheorems, FiniteSetTheorems, TLAPS

Codes == {"none", "200", "404", "500"}
States == {"none", "syn", "est", "fin", "closed", "reset"}
ConnSet ==
  [live : BOOLEAN, hdrlen : 0..HdrMax, hdr_done : BOOLEAN, body_recv : Nat, mine_upload : BOOLEAN,
   resp : Codes, resp_off : Nat, resp_len : Nat]
TcpSet ==
  [state : States, req : Requests, todo : Seq({"h", "e", "b"}), inflight : 0..SndBuf, said : Codes]
FileSet == [path : Paths, stale : BOOLEAN, err : BOOLEAN, size : Nat]
Servers ==
  [conn : [Conns -> ConnSet], tcp : [Conns -> TcpSet], g_uploading : BOOLEAN, g_upfile : FileSet,
   files : [Paths -> {Absent} \union Nat], touched : BOOLEAN, unsynced : BOOLEAN]

\* What the open file has of the upload of c, unless a mount made it stale.
Matches(s, c) ==
  ~s.g_upfile.stale => /\ s.g_upfile.size = s.conn[c].body_recv
                       /\ s.g_upfile.path = s.tcp[c].req.path

\* A connection that holds the slot is answered nothing yet and has no more than its body.
Uploading(s, c) ==
  /\ s.conn[c].live /\ s.conn[c].resp = "none"
  /\ s.tcp[c].req.route = "upload" /\ s.conn[c].body_recv <= s.tcp[c].req.len
  /\ Matches(s, c)

ConnGood(s, c) ==
  /\ ~s.conn[c].live => s.conn[c] = Freed
  /\ s.conn[c].live <=> s.tcp[c].state \in {"est", "fin"}
  /\ ~s.conn[c].hdr_done => /\ ~s.conn[c].mine_upload /\ s.conn[c].body_recv = 0
                            /\ s.conn[c].resp = "none"
  /\ s.conn[c].resp = "none" => s.conn[c].resp_off = 0
  /\ s.conn[c].resp_off <= s.conn[c].resp_len
  /\ s.conn[c].mine_upload => Uploading(s, c)

\* The slot is taken when one connection holds it, and nobody else does.
Slot(s) ==
  /\ s.g_uploading => \E c \in Conns : s.conn[c].mine_upload
  /\ \A c \in Conns : s.conn[c].mine_upload =>
       s.g_uploading /\ \A d \in Conns : s.conn[d].mine_upload => d = c

Good(s) == s \in Servers /\ Slot(s) /\ \A c \in Conns : ConnGood(s, c)

\* What follows in the stream of an upload, units and then rest more: behind the end of the
\* header there is the body, as long as the client said.
StreamGood(req, units, rest) ==
  req.route = "upload" =>
    \A i \in 1..Len(units) : units[i] = "e" => Len(units) - i + rest = req.len

\* The holder of the slot has some of its body to come, and no more than its body.
Left(s, c, n) ==
  s.conn[c].mine_upload => /\ s.conn[c].body_recv < s.tcp[c].req.len
                           /\ s.conn[c].body_recv + n <= s.tcp[c].req.len

\* What a callback of c leaves alone.
Kept(s, t, c) ==
  /\ \A d \in Conns \ {c} : t.conn[d] = s.conn[d] /\ t.tcp[d] = s.tcp[d]
  /\ t.tcp[c].req = s.tcp[c].req /\ t.tcp[c].todo = s.tcp[c].todo
  /\ t.touched = s.touched

\* A 200 for an upload is new only with the file stored, or its close failed, and then nothing
\* that c still sends is looked at.
Stored(s, c) == s.files[s.tcp[c].req.path] = s.tcp[c].req.len \/ s.unsynced
Over(s, c) == s.conn[c].live => s.conn[c].resp # "none"
Told(s, t, c) == Promised(t, c) => (Promised(s, c) \/ (Stored(t, c) /\ Over(t, c)))

-----------------------------------------------------------------------------
(* Shapes. *)

LEMMA ReqFields ==
  ASSUME NEW req \in Requests, req.route = "upload"
  PROVE  req.len \in Nat /\ req.path \in Paths
BY HttpAssumption DEF Requests

LEMMA NoFileType == NoFile \in FileSet /\ NoFile.stale
BY HttpAssumption DEF NoFile, FileSet

LEMMA FreedType == Freed \in ConnSet /\ ~Freed.live /\ ~Freed.mine_upload /\ ~Freed.hdr_done
BY HttpAssumption DEF Freed, ConnSet, Codes

\* The connection of a good server: its fields.
LEMMA Fields ==
  ASSUME NEW s \in Servers, NEW c \in Conns
  PROVE  /\ s.conn[c] \in ConnSet /\ s.tcp[c] \in TcpSet /\ s.g_upfile \in FileSet
         /\ s.conn[c].resp_off \in Nat /\ s.conn[c].resp_len \in Nat /\ s.conn[c].body_recv \in Nat
         /\ s.conn[c].hdrlen \in 0..HdrMax /\ s.tcp[c].inflight \in 0..SndBuf
BY DEF Servers, ConnSet, TcpSet

-----------------------------------------------------------------------------
(* FatFs. *)

LEMMA MountGood ==
  ASSUME NEW s, Good(s), NEW c \in Conns
  PROVE  /\ Good(f_mount(s)) /\ Kept(s, f_mount(s), c) /\ Told(s, f_mount(s), c)
         /\ f_mount(s).conn = s.conn /\ f_mount(s).tcp = s.tcp /\ f_mount(s).g_uploading = s.g_uploading
<1> DEFINE t == f_mount(s)
<1>1. t \in Servers /\ t.g_upfile.stale
  BY DEF f_mount, Good, Servers, FileSet
<1>2. t.conn = s.conn /\ t.tcp = s.tcp /\ t.g_uploading = s.g_uploading /\ t.files = s.files
      /\ t.touched = s.touched /\ t.unsynced = s.unsynced
  BY DEF f_mount, Good, Servers
<1> HIDE DEF t
<1>3. Slot(t)
  BY <1>2 DEF Good, Slot
<1>4. ASSUME NEW d \in Conns PROVE ConnGood(t, d)
  BY <1>1, <1>2 DEF Good, ConnGood, Uploading, Matches
<1>5. Kept(s, t, c) /\ Told(s, t, c)
  BY <1>2 DEF Kept, Told, Promised
<1> QED
  BY <1>1, <1>2, <1>3, <1>4, <1>5 DEF t, Good

\* With the slot free, the file that is open is nobody's.
LEMMA OpenedGood ==
  ASSUME NEW s, Good(s), ~s.g_uploading, NEW path \in Paths, NEW c \in Conns
  PROVE  /\ Good(Opened(s, path)) /\ Kept(s, Opened(s, path), c) /\ Told(s, Opened(s, path), c)
         /\ Opened(s, path).conn = s.conn /\ Opened(s, path).tcp = s.tcp /\ ~Opened(s, path).g_uploading
         /\ Opened(s, path).files[path] = 0
         /\ Opened(s, path).g_upfile = [path |-> path, stale |-> FALSE, err |-> FALSE, size |-> 0]
<1> DEFINE t == Opened(s, path)
<1>1. t \in Servers
  BY DEF Opened, Good, Servers, FileSet
<1>2. t.conn = s.conn /\ t.tcp = s.tcp /\ t.g_uploading = s.g_uploading
      /\ t.touched = s.touched /\ t.unsynced = s.unsynced /\ t.files[path] = 0
      /\ t.g_upfile = [path |-> path, stale |-> FALSE, err |-> FALSE, size |-> 0]
  BY DEF Opened, Good, Servers
<1> HIDE DEF t
<1>3. Slot(t)
  BY <1>2 DEF Good, Slot
<1>4. ASSUME NEW d \in Conns PROVE ConnGood(t, d)
  BY <1>2, <1>3 DEF Good, ConnGood, Slot
<1>5. Kept(s, t, c) /\ Told(s, t, c)
  BY <1>2 DEF Kept, Told, Promised
<1> QED
  BY <1>1, <1>2, <1>3, <1>4, <1>5 DEF t, Good

\* Closing changes the open file and its size in the directory, or the sync is lost.
LEMMA CloseFile ==
  ASSUME NEW s, s \in Servers, NEW luck
  PROVE  LET t == f_close(s, luck) IN
         /\ t \in Servers
         /\ t.conn = s.conn /\ t.tcp = s.tcp /\ t.g_uploading = s.g_uploading /\ t.touched = s.touched
         /\ ~Stale(s) => t.unsynced \/ t.files[s.g_upfile.path] = s.g_upfile.size
         /\ t.g_upfile.stale
<1>1. CASE Stale(s)
  BY <1>1 DEF f_close, Stale
<1>2. CASE ~Stale(s) /\ luck = "close"
  BY <1>2, NoFileType DEF f_close, Stale, Servers
<1>3. CASE ~Stale(s) /\ luck # "close"
  <2>1. s.g_upfile.path \in Paths /\ s.g_upfile.size \in Nat
    BY DEF Servers, FileSet
  <2> QED
    BY <1>3, <2>1, NoFileType DEF f_close, Stale, Servers
<1> QED
  BY <1>1, <1>2, <1>3

\* Giving the slot back: the file is stored, unless it was stale or its close failed.
LEMMA ReleaseGood ==
  ASSUME NEW s, Good(s), NEW c \in Conns, NEW luck
  PROVE  LET t == Release(s, c, luck) IN
         /\ Good(t) /\ Kept(s, t, c) /\ t.tcp = s.tcp
         /\ t.conn[c] = [s.conn[c] EXCEPT !.mine_upload = FALSE]
         /\ (s.conn[c].mine_upload /\ ~Stale(s)) => t.unsynced \/ t.files[s.g_upfile.path] = s.g_upfile.size
<1> DEFINE t == Release(s, c, luck)
           u == f_close(s, luck)
<1>1. CASE ~s.conn[c].mine_upload
  <2>1. t = s /\ [s.conn[c] EXCEPT !.mine_upload = FALSE] = s.conn[c]
    BY <1>1 DEF Release, Good, Servers, ConnSet
  <2> QED
    BY <1>1, <2>1 DEF Kept
<1>2. CASE s.conn[c].mine_upload
  <2>1. u \in Servers /\ u.conn = s.conn /\ u.tcp = s.tcp /\ u.touched = s.touched /\ u.g_upfile.stale
        /\ (~Stale(s) => u.unsynced \/ u.files[s.g_upfile.path] = s.g_upfile.size)
    BY CloseFile DEF Good
  <2>2. t = [u EXCEPT !.g_uploading = FALSE, !.conn[c].mine_upload = FALSE]
    BY <1>2 DEF Release, Good, Slot
  <2> HIDE DEF t, u
  <2>a. t.tcp = s.tcp /\ ~t.g_uploading /\ t.touched = s.touched /\ t.g_upfile = u.g_upfile
        /\ t.conn = [s.conn EXCEPT ![c] = [s.conn[c] EXCEPT !.mine_upload = FALSE]]
        /\ t.unsynced = u.unsynced /\ t.files = u.files
    BY <2>1, <2>2 DEF Servers
  <2>b. t.conn \in [Conns -> ConnSet]
    <3>1. [s.conn[c] EXCEPT !.mine_upload = FALSE] \in ConnSet
      BY Fields DEF Good, ConnSet
    <3> QED
      BY <2>a, <3>1 DEF Good, Servers
  <2>3. t \in Servers /\ t.g_upfile.stale
    BY <2>1, <2>2, <2>a, <2>b DEF Servers
  <2>4. t.conn[c] = [s.conn[c] EXCEPT !.mine_upload = FALSE]
        /\ \A d \in Conns \ {c} : t.conn[d] = s.conn[d]
    BY <2>a DEF Good, Servers
  <2>5. s.conn[c] \in ConnSet
    BY Fields DEF Good
  <2>6. /\ t.conn[c].live = s.conn[c].live /\ t.conn[c].hdr_done = s.conn[c].hdr_done
        /\ t.conn[c].body_recv = s.conn[c].body_recv /\ t.conn[c].resp = s.conn[c].resp
        /\ t.conn[c].resp_off = s.conn[c].resp_off /\ t.conn[c].resp_len = s.conn[c].resp_len
        /\ ~t.conn[c].mine_upload
    BY <2>4, <2>5 DEF ConnSet
  <2>7. \A d \in Conns : ~t.conn[d].mine_upload
    BY <1>2, <2>4, <2>6 DEF Good, Slot
  <2>8. ConnGood(t, c)
    BY <1>2, <2>3, <2>a, <2>6 DEF Good, ConnGood, Uploading
  <2>9. ASSUME NEW d \in Conns \ {c} PROVE ConnGood(t, d)
    BY <2>3, <2>a, <2>4, <2>7, <2>9 DEF Good, ConnGood
  <2> QED
    BY <2>1, <2>3, <2>a, <2>4, <2>7, <2>8, <2>9 DEF t, Good, Slot, Kept
<1> QED
  BY <1>1, <1>2

-----------------------------------------------------------------------------
(* httpsrv.c *)

\* However a connection ends, it is freed and holds nothing.
LEMMA CloseConnGood ==
  ASSUME NEW s, Good(s), NEW c \in Conns, NEW luck
  PROVE  LET t == close_conn(s, c, luck) IN
         /\ Good(t) /\ Kept(s, t, c) /\ t.conn[c] = Freed /\ t.tcp[c].said = s.tcp[c].said
         /\ ~s.conn[c].mine_upload => t.files = s.files /\ t.unsynced = s.unsynced
<1> DEFINE u == Release(s, c, luck)
           t == close_conn(s, c, luck)
<1>1. Good(u) /\ Kept(s, u, c) /\ u.tcp = s.tcp /\ u.conn[c] = [s.conn[c] EXCEPT !.mine_upload = FALSE]
  BY ReleaseGood
<1>2. ~s.conn[c].mine_upload => u = s
  BY DEF Release
<1>3. PICK state \in {"reset", "closed"} :
        t = [u EXCEPT !.conn[c] = Freed, !.tcp[c].state = state]
  BY DEF close_conn
<1>4. u.conn[c] \in ConnSet /\ s.conn[c] \in ConnSet
  BY <1>1, Fields DEF Good
<1> HIDE DEF t, u
<1>5. ~u.conn[c].mine_upload
  BY <1>1, <1>4 DEF ConnSet
<1>6. u \in Servers
  BY <1>1 DEF Good
<1>7. t \in Servers
  <2>1. [u.tcp[c] EXCEPT !.state = state] \in TcpSet
    BY <1>6, Fields DEF TcpSet, States
  <2>2. t = [u EXCEPT !.conn = [u.conn EXCEPT ![c] = Freed],
                      !.tcp = [u.tcp EXCEPT ![c] = [u.tcp[c] EXCEPT !.state = state]]]
    BY <1>3
  <2> QED
    BY <1>6, <2>1, <2>2, FreedType DEF Servers
<1>8. /\ t.conn[c] = Freed /\ \A d \in Conns \ {c} : t.conn[d] = u.conn[d] /\ t.tcp[d] = u.tcp[d]
      /\ t.tcp[c].state = state /\ t.tcp[c].said = u.tcp[c].said /\ t.tcp[c].req = u.tcp[c].req
      /\ t.tcp[c].todo = u.tcp[c].todo /\ t.touched = u.touched /\ t.g_uploading = u.g_uploading
      /\ t.g_upfile = u.g_upfile /\ t.files = u.files /\ t.unsynced = u.unsynced
  BY <1>3, <1>6 DEF Servers, TcpSet
<1>9. Slot(t)
  BY <1>1, <1>5, <1>8, FreedType DEF Good, Slot
<1>10. ConnGood(t, c)
  BY <1>8, HttpAssumption DEF ConnGood, Freed
<1>11. ASSUME NEW d \in Conns \ {c} PROVE ConnGood(t, d)
  BY <1>1, <1>8, <1>11 DEF Good, ConnGood, Uploading, Matches
<1> QED
  BY <1>1, <1>2, <1>7, <1>8, <1>9, <1>10, <1>11 DEF t, Good, Kept

\* What c has in lwIP and in its conn_t is put in place.
Put(s, c, x, y) == [s EXCEPT !.conn = [s.conn EXCEPT ![c] = x], !.tcp = [s.tcp EXCEPT ![c] = y]]

LEMMA PutFields ==
  ASSUME NEW s \in Servers, NEW c \in Conns, NEW x \in ConnSet, NEW y \in TcpSet
  PROVE  LET t == Put(s, c, x, y) IN
         /\ t \in Servers /\ t.conn[c] = x /\ t.tcp[c] = y
         /\ \A d \in Conns \ {c} : t.conn[d] = s.conn[d] /\ t.tcp[d] = s.tcp[d]
         /\ t.g_uploading = s.g_uploading /\ t.g_upfile = s.g_upfile
         /\ t.files = s.files /\ t.unsynced = s.unsynced /\ t.touched = s.touched
BY DEF Put, Servers

LEMMA PutGood ==
  ASSUME NEW s, Good(s), NEW c \in Conns, NEW x \in ConnSet, NEW y \in TcpSet,
         x.mine_upload = s.conn[c].mine_upload, ConnGood(Put(s, c, x, y), c)
  PROVE  Good(Put(s, c, x, y))
<1> DEFINE t == Put(s, c, x, y)
<1>1. /\ t \in Servers /\ t.conn[c] = x /\ t.tcp[c] = y
      /\ \A d \in Conns \ {c} : t.conn[d] = s.conn[d] /\ t.tcp[d] = s.tcp[d]
      /\ t.g_uploading = s.g_uploading /\ t.g_upfile = s.g_upfile
  BY PutFields DEF Good
<1>2. ConnGood(t, c)
  OBVIOUS
<1> HIDE DEF t
<1>3. Slot(t)
  <2>1. \A d \in Conns : t.conn[d].mine_upload = s.conn[d].mine_upload
    BY <1>1
  <2> QED
    BY <1>1, <2>1 DEF Good, Slot
<1>4. ASSUME NEW d \in Conns \ {c} PROVE ConnGood(t, d)
  BY <1>1, <1>4 DEF Good, ConnGood, Uploading, Matches
<1> QED
  BY <1>1, <1>2, <1>3, <1>4 DEF t, Good

\* A connection with a response: it sends what there is room for and closes behind the last of it.
LEMMA PushSendGood ==
  ASSUME NEW s, Good(s), NEW c \in Conns, s.conn[c].resp # "none", NEW luck
  PROVE  LET t == push_send(s, c, luck) IN
         /\ Good(t) /\ Kept(s, t, c) /\ ~t.conn[c].mine_upload
         /\ t.files = s.files /\ t.unsynced = s.unsynced
         /\ Over(t, c) /\ (Promised(t, c) => Promised(s, c))
<1> DEFINE cn == s.conn[c]
           tc == s.tcp[c]
           W(n) == Wrote(s, c, n)
<1>1. s \in Servers /\ cn \in ConnSet /\ tc \in TcpSet /\ ConnGood(s, c)
  BY Fields DEF Good
<1>2. cn.live /\ cn.hdr_done /\ ~cn.mine_upload /\ cn.resp_off <= cn.resp_len
      /\ cn.resp_off \in Nat /\ cn.resp_len \in Nat /\ tc.inflight \in 0..SndBuf
  <2>1. cn.live
    BY <1>1 DEF ConnGood, Freed
  <2> QED
    BY <1>1, <2>1, Fields DEF ConnGood, Uploading
<1>3. ASSUME NEW n \in Nat, n <= Room(s, c), n <= Pending(s, c)
      PROVE  /\ Good(W(n)) /\ Kept(s, W(n), c)
             /\ W(n).conn[c].resp = cn.resp /\ W(n).tcp[c].said = tc.said
             /\ ~W(n).conn[c].mine_upload
             /\ W(n).files = s.files /\ W(n).unsynced = s.unsynced
  <2> DEFINE x == [cn EXCEPT !.resp_off = @ + n]
             y == [tc EXCEPT !.inflight = @ + n]
             t == Put(s, c, x, y)
  <2>1. W(n) = t
    BY DEF Wrote, Put
  <2>2. x \in ConnSet /\ y \in TcpSet
    <3>1. cn.resp_off + n \in Nat
      BY <1>2
    <3>2. tc.inflight + n \in 0..SndBuf
      BY <1>2, <1>3, HttpAssumption DEF Room
    <3>3. x \in ConnSet
      BY <1>1, <3>1 DEF ConnSet
    <3> QED
      BY <1>1, <3>2, <3>3 DEF TcpSet
  <2>3. /\ x.resp_off = cn.resp_off + n /\ x.live = cn.live /\ x.hdr_done = cn.hdr_done
        /\ x.mine_upload = cn.mine_upload /\ x.resp = cn.resp /\ x.resp_len = cn.resp_len
        /\ y.state = tc.state /\ y.said = tc.said /\ y.req = tc.req /\ y.todo = tc.todo
    BY <1>1 DEF ConnSet, TcpSet
  <2> HIDE DEF x, y
  <2>4. /\ t.conn[c] = x /\ t.tcp[c] = y
        /\ \A d \in Conns \ {c} : t.conn[d] = s.conn[d] /\ t.tcp[d] = s.tcp[d]
        /\ t.files = s.files /\ t.unsynced = s.unsynced /\ t.touched = s.touched
    BY <1>1, <2>2, PutFields
  <2>5. ConnGood(t, c)
    <3>1. x.resp_off <= x.resp_len
      BY <1>2, <1>3, <2>3 DEF Pending
    <3> HIDE DEF t
    <3> QED
      BY <1>1, <1>2, <2>3, <2>4, <3>1 DEF ConnGood
  <2>6. Good(t)
    BY <2>2, <2>3, <2>5, PutGood
  <2> QED
    BY <1>2, <2>1, <2>3, <2>4, <2>6 DEF Kept
<1>4. CASE luck = "mem"
  BY <1>2, <1>4 DEF push_send, Kept, Over
<1>5. CASE luck # "mem" /\ Pending(s, c) > Room(s, c)
  <2>1. Room(s, c) \in Nat
    BY <1>2, HttpAssumption DEF Room
  <2>2. push_send(s, c, luck) = W(Room(s, c))
    BY <1>5 DEF push_send
  <2>3. Room(s, c) <= Pending(s, c)
    BY <1>2, <1>5, <2>1 DEF Pending
  <2> HIDE DEF W
  <2> QED
    BY <1>3, <2>1, <2>2, <2>3 DEF Promised, Kept, Over
<1>6. CASE luck # "mem" /\ ~(Pending(s, c) > Room(s, c))
  <2> DEFINE n == Pending(s, c)
             u == Said(W(n), c)
  <2>1. n \in Nat /\ n <= Room(s, c)
    BY <1>2, <1>6, HttpAssumption DEF Pending, Room
  <2>2. push_send(s, c, luck) = close_conn(u, c, luck)
    BY <1>6 DEF push_send
  <2> HIDE DEF W
  <2>3. /\ Good(W(n)) /\ Kept(s, W(n), c)
        /\ W(n).conn[c].resp = cn.resp /\ W(n).tcp[c].said = tc.said
        /\ ~W(n).conn[c].mine_upload
        /\ W(n).files = s.files /\ W(n).unsynced = s.unsynced
    BY <1>3, <2>1
  <2> HIDE DEF n
  <2> DEFINE w == W(n)
             y == [w.tcp[c] EXCEPT !.said = cn.resp]
  <2> HIDE DEF w
  <2>4. w \in Servers /\ w.conn[c] \in ConnSet /\ w.tcp[c] \in TcpSet /\ ConnGood(w, c)
    BY <2>3, Fields DEF Good, w
  <2>5. u = Put(w, c, w.conn[c], y)
    BY <2>3, <2>4 DEF Said, Put, w, Servers
  <2>6. /\ y \in TcpSet /\ y.said = cn.resp /\ y.state = w.tcp[c].state /\ y.req = w.tcp[c].req
        /\ y.todo = w.tcp[c].todo
    BY <1>1, <2>4 DEF TcpSet, ConnSet
  <2>7. /\ u.conn[c] = w.conn[c] /\ u.tcp[c] = y
        /\ \A d \in Conns \ {c} : u.conn[d] = w.conn[d] /\ u.tcp[d] = w.tcp[d]
        /\ u.files = w.files /\ u.unsynced = w.unsynced /\ u.touched = w.touched
    BY <2>4, <2>5, <2>6, PutFields
  <2>8. Good(u)
    <3>1. ConnGood(u, c)
      BY <2>3, <2>4, <2>6, <2>7 DEF ConnGood, w
    <3> QED
      BY <2>3, <2>4, <2>5, <2>6, <3>1, PutGood DEF w
  <2>9. LET t == close_conn(u, c, luck) IN
         /\ Good(t) /\ Kept(u, t, c) /\ t.conn[c] = Freed /\ t.tcp[c].said = u.tcp[c].said
         /\ t.files = u.files /\ t.unsynced = u.unsynced
    <3> HIDE DEF u
    <3>1. ~u.conn[c].mine_upload
      BY <2>3, <2>7 DEF w
    <3> QED
      BY <2>8, <3>1, CloseConnGood
  <2> HIDE DEF u, y
  <2> QED
    BY <2>2, <2>3, <2>6, <2>7, <2>9, FreedType DEF Promised, Kept, w, Freed, Over
<1> QED
  BY <1>4, <1>5, <1>6

\* A connection whose header is in and that has no response yet.
Asked(s, c) ==
  /\ s.conn[c].live /\ s.conn[c].hdr_done /\ s.conn[c].resp = "none" /\ ~s.conn[c].mine_upload

LEMMA RespondGood ==
  ASSUME NEW s, Good(s), NEW c \in Conns, Asked(s, c),
         NEW code \in {"200", "404", "500"}, NEW len \in Nat, NEW luck
  PROVE  LET t == respond(s, c, code, len, luck) IN
         /\ Good(t) /\ Kept(s, t, c) /\ ~t.conn[c].mine_upload
         /\ t.files = s.files /\ t.unsynced = s.unsynced /\ Over(t, c)
         /\ Promised(t, c) => (Promised(s, c) \/ (code = "200" /\ s.tcp[c].req.route = "upload"))
<1> DEFINE x == [s.conn[c] EXCEPT !.resp = code, !.resp_len = len]
           u == Put(s, c, x, s.tcp[c])
<1>0. s \in Servers /\ s.conn[c] \in ConnSet /\ s.tcp[c] \in TcpSet /\ ConnGood(s, c)
  BY Fields DEF Good
<1>1. CASE luck = "malloc"
  <2>1. respond(s, c, code, len, luck) = close_conn(s, c, luck)
    BY <1>1 DEF respond
  <2>2. LET t == close_conn(s, c, luck) IN
         /\ Good(t) /\ Kept(s, t, c) /\ t.conn[c] = Freed /\ t.tcp[c].said = s.tcp[c].said
         /\ t.files = s.files /\ t.unsynced = s.unsynced
    BY CloseConnGood DEF Asked
  <2> QED
    BY <2>1, <2>2, FreedType DEF Kept, Promised, Freed, Over
<1>2. CASE luck # "malloc"
  <2>1. respond(s, c, code, len, luck) = push_send(u, c, luck)
    <3>1. [s EXCEPT !.conn[c].resp = code, !.conn[c].resp_len = len] = u
      BY <1>0 DEF Put, Servers
    <3> QED
      BY <1>2, <3>1 DEF respond
  <2>2. /\ x \in ConnSet /\ x.resp = code /\ x.resp_len = len /\ x.resp_off = s.conn[c].resp_off
        /\ x.live = s.conn[c].live /\ x.hdr_done = s.conn[c].hdr_done
        /\ x.mine_upload = s.conn[c].mine_upload
    BY <1>0 DEF ConnSet, Codes
  <2> HIDE DEF x
  <2>3. /\ u.conn[c] = x /\ u.tcp[c] = s.tcp[c]
        /\ \A d \in Conns \ {c} : u.conn[d] = s.conn[d] /\ u.tcp[d] = s.tcp[d]
        /\ u.files = s.files /\ u.unsynced = s.unsynced /\ u.touched = s.touched
    BY <1>0, <2>2, PutFields
  <2>4. ConnGood(u, c)
    <3>1. x.resp_off <= x.resp_len
      BY <1>0, <2>2 DEF ConnGood, Asked
    <3> HIDE DEF u
    <3> QED
      BY <1>0, <2>2, <2>3, <3>1 DEF ConnGood, Asked
  <2>5. Good(u)
    BY <1>0, <2>2, <2>4, PutGood
  <2> HIDE DEF u
  <2>6. LET t == push_send(u, c, luck) IN
        /\ Good(t) /\ Kept(u, t, c) /\ ~t.conn[c].mine_upload
        /\ t.files = u.files /\ t.unsynced = u.unsynced /\ Over(t, c)
        /\ Promised(t, c) => Promised(u, c)
    BY <2>2, <2>3, <2>5, PushSendGood
  <2>7. Promised(u, c) => (Promised(s, c) \/ (code = "200" /\ s.tcp[c].req.route = "upload"))
    BY <2>2, <2>3 DEF Promised
  <2> QED
    BY <2>1, <2>3, <2>6, <2>7 DEF Kept
<1> QED
  BY <1>1, <1>2

\* A response that is not a 200 to an upload, or is one to an upload that is stored.
LEMMA RespondTold ==
  ASSUME NEW s, Good(s), NEW c \in Conns, Asked(s, c),
         NEW code \in {"200", "404", "500"}, NEW len \in Nat, NEW luck,
         code # "200" \/ s.tcp[c].req.route # "upload" \/ Stored(s, c)
  PROVE  LET t == respond(s, c, code, len, luck) IN
         /\ Good(t) /\ Kept(s, t, c) /\ Told(s, t, c) /\ ~t.conn[c].mine_upload
<1> DEFINE t == respond(s, c, code, len, luck)
<1>1. /\ Good(t) /\ Kept(s, t, c) /\ ~t.conn[c].mine_upload
      /\ t.files = s.files /\ t.unsynced = s.unsynced /\ Over(t, c)
      /\ Promised(t, c) => (Promised(s, c) \/ (code = "200" /\ s.tcp[c].req.route = "upload"))
  BY RespondGood
<1> HIDE DEF t
<1> QED
  BY <1>1 DEF t, Told, Stored, Kept

\* The server after a step of a callback of c, followed by another.
LEMMA Then ==
  ASSUME NEW s, NEW u, NEW t, NEW c \in Conns, Kept(s, u, c), Kept(u, t, c), Told(u, t, c),
         Promised(u, c) => Promised(s, c)
  PROVE  Kept(s, t, c) /\ Told(s, t, c)
BY DEF Kept, Told

\* The request is carried out: an upload that was begun has received nothing yet.
LEMMA UploadGood ==
  ASSUME NEW s, Good(s), NEW c \in Conns, Asked(s, c), NEW luck,
         s.tcp[c].req.route = "upload", s.conn[c].body_recv = 0
  PROVE  LET t == Upload(s, c, luck) IN
         /\ Good(t) /\ Kept(s, t, c) /\ Told(s, t, c)
         /\ t.conn[c].mine_upload => t.conn[c].body_recv = 0 /\ s.tcp[c].req.len # 0
<1> DEFINE m == f_mount(s)
           o == Opened(m, s.tcp[c].req.path)
<1>0. s.tcp[c].req.len \in Nat /\ s.tcp[c].req.path \in Paths
  BY Fields, ReqFields DEF Good, TcpSet
<1>1. CASE s.g_uploading
  BY <1>1, RespondTold DEF Upload
<1>2. CASE ~s.g_uploading /\ luck = "open"
  <2>1. /\ Good(m) /\ Kept(s, m, c) /\ m.conn = s.conn /\ m.tcp = s.tcp
    BY MountGood
  <2>2. Upload(s, c, luck) = respond(m, c, "500", 1, luck)
    BY <1>2 DEF Upload, UploadMounted
  <2> HIDE DEF m
  <2>3. Asked(m, c) /\ (Promised(m, c) => Promised(s, c))
    BY <2>1 DEF Asked, Promised
  <2>4. LET t == respond(m, c, "500", 1, luck) IN
         /\ Good(t) /\ Kept(m, t, c) /\ Told(m, t, c) /\ ~t.conn[c].mine_upload
    BY <2>1, <2>3, RespondTold
  <2> QED
    BY <2>1, <2>2, <2>3, <2>4, Then
<1>3. CASE ~s.g_uploading /\ luck # "open"
  <2>1. /\ Good(m) /\ Kept(s, m, c) /\ m.conn = s.conn /\ m.tcp = s.tcp /\ ~m.g_uploading
    BY <1>3, MountGood
  <2>2. Upload(s, c, luck) = UploadOpened(o, c, luck)
    BY <1>3, <2>1 DEF Upload, UploadMounted
  <2> HIDE DEF m
  <2>3. /\ Good(o) /\ Kept(m, o, c) /\ o.conn = m.conn /\ o.tcp = m.tcp /\ ~o.g_uploading
        /\ o.files[s.tcp[c].req.path] = 0
        /\ o.g_upfile = [path |-> s.tcp[c].req.path, stale |-> FALSE, err |-> FALSE, size |-> 0]
    BY <1>0, <2>1, OpenedGood
  <2> HIDE DEF o
  <2>4. o \in Servers /\ Kept(s, o, c) /\ Asked(o, c) /\ (Promised(o, c) => Promised(s, c)) /\ ~Stale(o)
    BY <2>1, <2>3 DEF Good, Kept, Asked, Promised, Stale
  <2>5. CASE s.tcp[c].req.len = 0
    <3> DEFINE v == f_close(o, luck)
    <3>1. Upload(s, c, luck) = respond(v, c, "200", 1, luck)
      BY <2>1, <2>2, <2>3, <2>5 DEF UploadOpened
    <3>2. /\ v \in Servers
          /\ v.conn = o.conn /\ v.tcp = o.tcp /\ v.g_uploading = o.g_uploading /\ v.touched = o.touched
          /\ v.unsynced \/ v.files[s.tcp[c].req.path] = 0
      BY <2>3, <2>4, CloseFile
    <3> HIDE DEF v
    <3>3. Slot(v)
      BY <2>3, <3>2 DEF Good, Slot
    <3>4. ASSUME NEW d \in Conns PROVE ConnGood(v, d)
      BY <2>3, <3>2, <3>3 DEF Good, ConnGood, Slot
    <3>5. /\ Good(v) /\ Asked(v, c) /\ Stored(v, c) /\ Kept(s, v, c)
          /\ Promised(v, c) => Promised(s, c)
      BY <2>1, <2>3, <2>4, <2>5, <3>2, <3>3, <3>4 DEF Good, Asked, Kept, Promised, Stored
    <3>6. LET t == respond(v, c, "200", 1, luck) IN
          /\ Good(t) /\ Kept(v, t, c) /\ Told(v, t, c) /\ ~t.conn[c].mine_upload
      BY <3>5, RespondTold
    <3> QED
      BY <3>1, <3>5, <3>6, Then
  <2>6. CASE s.tcp[c].req.len # 0
    <3> DEFINE t == Upload(s, c, luck)
               x == [o.conn[c] EXCEPT !.mine_upload = TRUE]
    <3>1. t = [o EXCEPT !.g_uploading = TRUE, !.conn[c].mine_upload = TRUE]
      BY <2>1, <2>2, <2>3, <2>6 DEF UploadOpened
    <3>2. /\ t.conn = [o.conn EXCEPT ![c] = x] /\ t.tcp = o.tcp /\ t.g_uploading /\ t.g_upfile = o.g_upfile
          /\ t.touched = o.touched
      BY <2>4, <3>1 DEF Servers
    <3>3. o.conn[c] \in ConnSet
      BY <2>4, Fields
    <3>4. /\ x \in ConnSet /\ x.mine_upload /\ x.live = o.conn[c].live /\ x.hdr_done = o.conn[c].hdr_done
          /\ x.resp = o.conn[c].resp /\ x.body_recv = o.conn[c].body_recv
          /\ x.resp_off = o.conn[c].resp_off /\ x.resp_len = o.conn[c].resp_len
      BY <3>3 DEF ConnSet
    <3>a. t = [o EXCEPT !.g_uploading = TRUE, !.conn = [o.conn EXCEPT ![c] = x]]
      BY <3>1
    <3> HIDE DEF x, t
    <3>b. [o.conn EXCEPT ![c] = x] \in [Conns -> ConnSet]
      BY <2>4, <3>4 DEF Servers
    <3>5. t \in Servers
      BY <2>4, <3>a, <3>b DEF Servers
    <3>6. t.conn[c] = x /\ \A d \in Conns \ {c} : t.conn[d] = o.conn[d]
      BY <2>4, <3>2 DEF Servers
    <3>7. Uploading(t, c)
      BY <1>0, <2>1, <2>3, <2>4, <2>6, <3>2, <3>4, <3>6 DEF Uploading, Matches, Asked
    <3>8. ConnGood(t, c)
      BY <2>3, <2>4, <3>2, <3>4, <3>6, <3>7 DEF Good, ConnGood, Asked
    <3>9. ASSUME NEW d \in Conns \ {c} PROVE ConnGood(t, d) /\ ~t.conn[d].mine_upload
      BY <2>3, <3>2, <3>6, <3>9 DEF Good, ConnGood, Slot
    <3>10. Slot(t)
      BY <3>2, <3>4, <3>6, <3>9 DEF Slot
    <3>11. Kept(s, t, c) /\ (Promised(t, c) => Promised(s, c))
      BY <2>4, <3>2, <3>4, <3>6 DEF Kept, Promised
    <3>12. t.conn[c].body_recv = 0
      BY <2>1, <2>3, <3>4, <3>6
    <3> QED
      BY <2>6, <3>5, <3>8, <3>9, <3>10, <3>11, <3>12 DEF t, Good, Told
  <2> QED
    BY <2>5, <2>6
<1> QED
  BY <1>1, <1>2, <1>3

\* Deleting, with the slot taken or not, changes nothing of a connection.
LEMMA DeletedGood ==
  ASSUME NEW s, Good(s), NEW path \in Paths
  PROVE  LET t == [s EXCEPT !.files[path] = Absent] IN
         Good(t) /\ t.conn = s.conn /\ t.tcp = s.tcp /\ t.touched = s.touched
<1> DEFINE t == [s EXCEPT !.files[path] = Absent]
<1>1. t \in Servers /\ t.conn = s.conn /\ t.tcp = s.tcp /\ t.touched = s.touched
      /\ t.g_uploading = s.g_uploading /\ t.g_upfile = s.g_upfile
  BY DEF Good, Servers
<1> HIDE DEF t
<1>2. Slot(t)
  BY <1>1 DEF Good, Slot
<1>3. ASSUME NEW d \in Conns PROVE ConnGood(t, d)
  BY <1>1 DEF Good, ConnGood, Uploading, Matches
<1> QED
  BY <1>1, <1>2, <1>3 DEF Good, t

LEMMA DeleteGood ==
  ASSUME NEW s, Good(s), NEW c \in Conns, Asked(s, c), NEW luck, NEW path \in Paths,
         s.tcp[c].req.route # "upload"
  PROVE  LET t == Delete(s, c, path, luck) IN
         Good(t) /\ Kept(s, t, c) /\ Told(s, t, c) /\ ~t.conn[c].mine_upload
<1>1. CASE s.files[path] = Absent \/ luck = "open"
  BY <1>1, RespondTold DEF Delete
<1>2. CASE ~(s.files[path] = Absent \/ luck = "open")
  <2> DEFINE u == [s EXCEPT !.files[path] = Absent]
  <2>1. Delete(s, c, path, luck) = respond(u, c, "200", 1, luck)
    BY <1>2 DEF Delete
  <2>2. Good(u) /\ u.conn = s.conn /\ u.tcp = s.tcp /\ u.touched = s.touched
    BY DeletedGood
  <2> HIDE DEF u
  <2>3. Asked(u, c) /\ Kept(s, u, c) /\ (Promised(u, c) => Promised(s, c))
    BY <2>2 DEF Asked, Kept, Promised
  <2>4. LET t == respond(u, c, "200", 1, luck) IN
        Good(t) /\ Kept(u, t, c) /\ Told(u, t, c) /\ ~t.conn[c].mine_upload
    BY <2>2, <2>3, RespondTold
  <2> QED
    BY <2>1, <2>3, <2>4, Then
<1> QED
  BY <1>1, <1>2

LEMMA HandleHeadersGood ==
  ASSUME NEW s, Good(s), NEW c \in Conns, Asked(s, c), NEW luck, s.conn[c].body_recv = 0
  PROVE  LET t == handle_headers(s, c, luck) IN
         /\ Good(t) /\ Kept(s, t, c) /\ Told(s, t, c)
         /\ t.conn[c].mine_upload => /\ t.conn[c].body_recv = 0 /\ s.tcp[c].req.len # 0
                                     /\ s.tcp[c].req.route = "upload"
<1> DEFINE m == f_mount(s)
           route == s.tcp[c].req.route
<1>1. Good(m) /\ Kept(s, m, c) /\ m.conn = s.conn /\ m.tcp = s.tcp
  BY MountGood
<1> HIDE DEF m
<1>2. Asked(m, c) /\ (Promised(m, c) => Promised(s, c))
  BY <1>1 DEF Asked, Promised
<1>3. ASSUME NEW t, Good(t), Kept(m, t, c), Told(m, t, c), ~t.conn[c].mine_upload
      PROVE  Good(t) /\ Kept(s, t, c) /\ Told(s, t, c) /\ ~t.conn[c].mine_upload
  BY <1>1, <1>2, <1>3, Then
<1>4. CASE route = "page"
  <2>1. handle_headers(s, c, luck) = respond(s, c, "200", PageLen, luck)
    BY <1>4 DEF handle_headers
  <2> QED
    BY <1>4, <2>1, RespondTold, HttpAssumption
<1>5. CASE route = "list"
  <2>1. handle_headers(s, c, luck) = build_listing(m, c, luck)
    BY <1>5 DEF handle_headers, m
  <2>2. \/ build_listing(m, c, luck) = respond(m, c, "404", 1, luck)
        \/ build_listing(m, c, luck) = respond(m, c, "200", PageLen, luck)
    BY DEF build_listing
  <2>3. m.tcp[c].req.route # "upload"
    BY <1>1, <1>5
  <2> DEFINE t == build_listing(m, c, luck)
  <2>4. Good(t) /\ Kept(m, t, c) /\ Told(m, t, c) /\ ~t.conn[c].mine_upload
    BY <1>1, <1>2, <2>2, <2>3, RespondTold, HttpAssumption
  <2> QED
    BY <1>3, <2>1, <2>4
<1>6. CASE route = "upload"
  <2>1. handle_headers(s, c, luck) = Upload(s, c, luck)
    BY <1>6 DEF handle_headers
  <2> QED
    BY <1>6, <2>1, UploadGood
<1>7. CASE route = "delete"
  <2> DEFINE t == Delete(m, c, s.tcp[c].req.path, luck)
  <2>1. handle_headers(s, c, luck) = t
    BY <1>7 DEF handle_headers, m
  <2>2. s.tcp[c].req.path \in Paths
    BY <1>7, Fields DEF Good, TcpSet, Requests
  <2>3. Good(t) /\ Kept(m, t, c) /\ Told(m, t, c) /\ ~t.conn[c].mine_upload
    BY <1>1, <1>2, <1>7, <2>2, DeleteGood
  <2> QED
    BY <1>3, <2>1, <2>3
<1>8. CASE route = "mkdir"
  <2> DEFINE code == IF luck = "open" THEN "500" ELSE "200"
             t == respond(m, c, code, 1, luck)
  <2>1. handle_headers(s, c, luck) = t
    BY <1>8 DEF handle_headers, m
  <2>2. code \in {"200", "404", "500"} /\ m.tcp[c].req.route # "upload"
    BY <1>1, <1>8
  <2> HIDE DEF code
  <2>3. Good(t) /\ Kept(m, t, c) /\ Told(m, t, c) /\ ~t.conn[c].mine_upload
    BY <1>1, <1>2, <2>2, RespondTold
  <2> QED
    BY <1>3, <2>1, <2>3
<1>9. CASE route \notin {"page", "list", "upload", "delete", "mkdir"}
  <2>1. handle_headers(s, c, luck) = respond(s, c, "404", 1, luck)
    BY <1>9 DEF handle_headers
  <2> QED
    BY <2>1, RespondTold
<1> QED
  BY <1>4, <1>5, <1>6, <1>7, <1>8, <1>9

\* What f_write takes is counted by the connection and by the file alike.
LEMMA CountedGood ==
  ASSUME NEW s, Good(s), NEW c \in Conns, s.conn[c].mine_upload, NEW n \in Nat \ {0}, NEW luck,
         s.conn[c].body_recv + n <= s.tcp[c].req.len
  PROVE  LET w == Counted(s, c, n, luck)
             k == Written(s, n, luck) IN
         /\ k \in 0..n /\ (Stale(s) => k = 0)
         /\ Good(w) /\ Kept(s, w, c) /\ w.tcp = s.tcp /\ w.conn[c].mine_upload /\ w.conn[c].hdr_done
         /\ w.conn[c].body_recv = s.conn[c].body_recv + k
         /\ w.g_upfile.stale = s.g_upfile.stale
         /\ Promised(w, c) => Promised(s, c)
<1> DEFINE k == Written(s, n, luck)
           f == f_write(s, n, luck)
           x == [s.conn[c] EXCEPT !.body_recv = @ + k]
           w == Counted(s, c, n, luck)
<1>1. k \in 0..n /\ (Stale(s) => k = 0)
  BY DEF Written
<1>2. w = [f EXCEPT !.conn[c].body_recv = @ + k]
  BY DEF Counted
<1> HIDE DEF k
<1>3. s \in Servers /\ s.conn[c] \in ConnSet /\ ConnGood(s, c) /\ s.g_upfile \in FileSet
  BY Fields DEF Good
<1> DEFINE file == [s.g_upfile EXCEPT !.size = @ + k, !.err = @ \/ (luck = "write" /\ ~Stale(s))]
<1>4. file \in FileSet /\ file.size = s.g_upfile.size + k /\ file.path = s.g_upfile.path
      /\ file.stale = s.g_upfile.stale
  <2>1. s.g_upfile.size + k \in Nat
    BY <1>1, <1>3 DEF FileSet
  <2>2. (s.g_upfile.err \/ (luck = "write" /\ ~Stale(s))) \in BOOLEAN
    OBVIOUS
  <2> QED
    BY <1>3, <2>1, <2>2 DEF FileSet
<1>5. f = [s EXCEPT !.g_upfile = file]
  BY <1>3 DEF f_write, k, Servers
<1> HIDE DEF file, f
<1>6. f \in Servers /\ f.conn = s.conn /\ f.tcp = s.tcp /\ f.g_uploading = s.g_uploading
      /\ f.g_upfile = file /\ f.touched = s.touched
  BY <1>3, <1>4, <1>5 DEF Servers
<1>7. /\ x \in ConnSet /\ x.body_recv = s.conn[c].body_recv + k /\ x.live = s.conn[c].live
      /\ x.mine_upload = s.conn[c].mine_upload /\ x.hdr_done = s.conn[c].hdr_done
      /\ x.resp = s.conn[c].resp /\ x.resp_off = s.conn[c].resp_off /\ x.resp_len = s.conn[c].resp_len
  <2>1. s.conn[c].body_recv + k \in Nat
    BY <1>1, <1>3 DEF ConnSet
  <2> QED
    BY <1>3, <2>1 DEF ConnSet
<1>8. w = [f EXCEPT !.conn = [s.conn EXCEPT ![c] = x]]
  BY <1>2, <1>6
<1> HIDE DEF x, w
<1>9. [s.conn EXCEPT ![c] = x] \in [Conns -> ConnSet]
  BY <1>3, <1>7 DEF Servers
<1>10. w \in Servers /\ w.conn = [s.conn EXCEPT ![c] = x] /\ w.tcp = s.tcp
       /\ w.g_uploading = s.g_uploading /\ w.g_upfile = file /\ w.touched = s.touched
  BY <1>6, <1>8, <1>9 DEF Servers
<1>11. w.conn[c] = x /\ \A d \in Conns \ {c} : w.conn[d] = s.conn[d]
  BY <1>3, <1>10 DEF Servers
<1>12. Slot(w)
  <2>1. \A d \in Conns : w.conn[d].mine_upload = s.conn[d].mine_upload
    BY <1>7, <1>11
  <2> QED
    BY <1>10, <2>1 DEF Good, Slot
<1>13. ConnGood(w, c)
  <2>1. Uploading(s, c) /\ s.conn[c].hdr_done
    BY <1>3 DEF ConnGood
  <2>2. Matches(w, c)
    BY <1>4, <1>7, <1>10, <1>11, <2>1 DEF Uploading, Matches
  <2>3. w.conn[c].body_recv <= s.tcp[c].req.len
    <3>1. s.conn[c].body_recv \in Nat /\ s.tcp[c].req.len \in Nat
      BY <1>3, <2>1, Fields, ReqFields DEF Uploading, TcpSet
    <3> QED
      BY <1>1, <1>7, <1>11, <3>1
  <2>4. Uploading(w, c)
    BY <1>7, <1>10, <1>11, <2>1, <2>2, <2>3 DEF Uploading
  <2> QED
    BY <1>3, <1>7, <1>10, <1>11, <2>1, <2>4 DEF ConnGood, Uploading
<1>14. ASSUME NEW d \in Conns \ {c} PROVE ConnGood(w, d)
  BY <1>10, <1>11, <1>14 DEF Good, ConnGood, Slot
<1>15. Good(w)
  BY <1>10, <1>12, <1>13, <1>14 DEF Good
<1>16. s.conn[c].hdr_done
  BY <1>3 DEF ConnGood
<1>17. Kept(s, w, c) /\ (Promised(w, c) => Promised(s, c))
  BY <1>7, <1>10, <1>11 DEF Kept, Promised
<1> QED
  BY <1>1, <1>4, <1>7, <1>10, <1>11, <1>15, <1>16, <1>17 DEF k, w

\* The body is in: the file is closed and then the client is told.
LEMMA FinishGood ==
  ASSUME NEW s, Good(s), NEW c \in Conns, s.conn[c].mine_upload, NEW luck,
         ~Stale(s), s.conn[c].body_recv = s.tcp[c].req.len
  PROVE  LET t == finish_upload(s, c, luck) IN
         Good(t) /\ Kept(s, t, c) /\ Told(s, t, c) /\ ~t.conn[c].mine_upload
<1> DEFINE r == Release(s, c, luck)
<1>1. /\ Good(r) /\ Kept(s, r, c) /\ r.tcp = s.tcp
      /\ r.conn[c] = [s.conn[c] EXCEPT !.mine_upload = FALSE]
      /\ r.unsynced \/ r.files[s.g_upfile.path] = s.g_upfile.size
  BY ReleaseGood
<1>2. finish_upload(s, c, luck) = respond(r, c, "200", 1, luck)
  BY DEF finish_upload
<1> HIDE DEF r
<1>3. s.conn[c] \in ConnSet /\ Uploading(s, c) /\ s.conn[c].hdr_done
  BY Fields DEF Good, ConnGood
<1>4. Asked(r, c) /\ (Promised(r, c) => Promised(s, c))
  BY <1>1, <1>3 DEF Asked, ConnSet, Uploading, Promised
<1>5. Stored(r, c)
  BY <1>1, <1>3 DEF Stored, Uploading, Matches, Stale
<1>6. LET t == respond(r, c, "200", 1, luck) IN
      Good(t) /\ Kept(r, t, c) /\ Told(r, t, c) /\ ~t.conn[c].mine_upload
  BY <1>1, <1>4, <1>5, RespondTold
<1> QED
  BY <1>1, <1>2, <1>4, <1>6, Then

\* Some of the body, k units of it still being to come.
LEMMA BodyGood ==
  ASSUME NEW s, Good(s), NEW c \in Conns, NEW units \in Seq({"h", "e", "b"}), NEW luck,
         NEW k \in Nat, Left(s, c, Len(units) + k)
  PROVE  LET t == Body(s, c, units, luck) IN
         Good(t) /\ Kept(s, t, c) /\ Told(s, t, c) /\ Left(t, c, k)
<1> DEFINE t == Body(s, c, units, luck)
           len == s.tcp[c].req.len
           n == Len(units)
<1>0. n \in Nat /\ (units # <<>> => n # 0)
  BY EmptySeq, LenProperties
<1>1. CASE ~s.conn[c].mine_upload
  <2>1. t = s
    BY <1>1 DEF Body
  <2> QED
    BY <1>1, <2>1 DEF Kept, Told, Left
<1>2. CASE s.conn[c].mine_upload
  <2>0. s.conn[c].body_recv \in Nat /\ len \in Nat /\ s.conn[c].body_recv < len
        /\ s.conn[c].body_recv + (n + k) <= len
    BY <1>2, Fields, ReqFields DEF Good, ConnGood, Uploading, TcpSet, Left
  <2>1. CASE units = <<>> \/ ~s.conn[c].live \/ ~s.conn[c].hdr_done \/ ~s.g_uploading
    <3>1. t = s
      BY <2>1 DEF Body
    <3>2. Left(s, c, k)
      BY <1>0, <2>0 DEF Left
    <3> QED
      BY <3>1, <3>2 DEF Kept, Told
  <2>2. CASE ~(units = <<>> \/ ~s.conn[c].live \/ ~s.conn[c].hdr_done \/ ~s.g_uploading)
    <3> DEFINE w == Counted(s, c, n, luck)
               got == Written(s, n, luck)
    <3>0. n \in Nat \ {0} /\ s.conn[c].body_recv + n <= len
      BY <1>0, <2>0, <2>2
    <3>1. /\ got \in 0..n /\ (Stale(s) => got = 0)
          /\ Good(w) /\ Kept(s, w, c) /\ w.tcp = s.tcp /\ w.conn[c].mine_upload
          /\ w.conn[c].body_recv = s.conn[c].body_recv + got
          /\ w.g_upfile.stale = s.g_upfile.stale /\ (Promised(w, c) => Promised(s, c))
      BY <1>2, <3>0, CountedGood
    <3>2. t = FinishIfWhole(w, c, luck)
      BY <1>2, <2>2 DEF Body
    <3> HIDE DEF w, got, n
    <3>3. CASE w.conn[c].body_recv >= len
      <4>1. ~Stale(w) /\ w.conn[c].body_recv = len
        <5>1. got # 0 /\ w.conn[c].body_recv = len
          BY <1>0, <2>0, <3>1, <3>3
        <5> QED
          BY <3>1, <5>1 DEF Stale
      <4>2. t = finish_upload(w, c, luck)
        BY <3>1, <3>2, <3>3 DEF FinishIfWhole
      <4> HIDE DEF t
      <4>3. Good(t) /\ Kept(w, t, c) /\ Told(w, t, c) /\ ~t.conn[c].mine_upload
        BY <3>1, <4>1, <4>2, FinishGood
      <4> QED
        BY <3>1, <4>3, Then DEF Left, t
    <3>4. CASE ~(w.conn[c].body_recv >= len)
      <4>1. t = w
        BY <3>1, <3>2, <3>4 DEF FinishIfWhole
      <4>2. Left(w, c, k)
        BY <1>0, <2>0, <3>1, <3>4 DEF Left
      <4> QED
        BY <3>1, <4>1, <4>2 DEF Told
    <3> QED
      BY <3>3, <3>4
  <2> QED
    BY <2>1, <2>2
<1> QED
  BY <1>1, <1>2

\* What is answered is not looked at again.
LEMMA ThenOver ==
  ASSUME NEW s, NEW u, NEW t, NEW c \in Conns, Kept(s, u, c), Kept(u, t, c), Told(s, u, c), Told(u, t, c),
         Over(u, c) => t = u
  PROVE  Kept(s, t, c) /\ Told(s, t, c)
BY DEF Kept, Told

LEMMA OverIsQuiet ==
  ASSUME NEW s, Good(s), NEW c \in Conns, Over(s, c)
  PROVE  ~s.conn[c].mine_upload /\ (s.conn[c].live => s.conn[c].hdr_done)
BY FreedType DEF Good, ConnGood, Uploading, Over

\* The header grows, or ends.
LEMMA HeaderGood ==
  ASSUME NEW s, Good(s), NEW c \in Conns, s.conn[c].live, ~s.conn[c].hdr_done,
         NEW units \in Seq({"h", "e", "b"})
  PROVE  LET h == Header(s, c, units)
             d == HeaderDone(h, c) IN
         /\ Good(h) /\ Kept(s, h, c) /\ (Promised(h, c) => Promised(s, c)) /\ ~h.conn[c].mine_upload
         /\ Good(d) /\ Kept(s, d, c) /\ (Promised(d, c) => Promised(s, c)) /\ Asked(d, c)
         /\ d.conn[c].body_recv = 0
<1> DEFINE n == IF s.conn[c].hdrlen + Len(units) < HdrMax THEN s.conn[c].hdrlen + Len(units) ELSE HdrMax
           x(done) == [s.conn[c] EXCEPT !.hdrlen = n, !.hdr_done = done]
           t(done) == Put(s, c, x(done), s.tcp[c])
<1>1. s \in Servers /\ s.conn[c] \in ConnSet /\ s.tcp[c] \in TcpSet /\ ConnGood(s, c)
  BY Fields DEF Good
<1>2. n \in 0..HdrMax
  BY <1>1, LenProperties, HttpAssumption DEF ConnSet
<1>3. Header(s, c, units) = t(FALSE)
  <2>1. [s.conn[c] EXCEPT !.hdrlen = n] = x(FALSE)
    BY <1>1 DEF ConnSet
  <2> QED
    BY <1>1, <2>1 DEF Header, Put, Servers
<1>4. HeaderDone(t(FALSE), c) = t(TRUE)
  BY <1>1 DEF HeaderDone, Put, Servers, ConnSet
<1> HIDE DEF n
<1>5. ASSUME NEW done \in BOOLEAN
      PROVE  /\ Good(t(done)) /\ Kept(s, t(done), c) /\ (Promised(t(done), c) => Promised(s, c))
             /\ ~t(done).conn[c].mine_upload /\ (done => Asked(t(done), c))
             /\ t(done).conn[c].body_recv = 0
  <2>1. x(done) \in ConnSet
    BY <1>1, <1>2 DEF ConnSet
  <2>2. /\ x(done).live /\ ~x(done).mine_upload /\ x(done).resp = "none" /\ x(done).body_recv = 0
        /\ x(done).resp_off = 0 /\ x(done).resp_len = s.conn[c].resp_len /\ (x(done).hdr_done <=> done)
        /\ x(done).mine_upload = s.conn[c].mine_upload
    BY <1>1 DEF ConnSet, ConnGood
  <2>3. s.conn[c].resp = "none" /\ ~s.conn[c].mine_upload
    BY <1>1 DEF ConnGood
  <2> HIDE DEF x
  <2>4. /\ t(done).conn[c] = x(done) /\ t(done).tcp[c] = s.tcp[c] /\ t(done).touched = s.touched
        /\ \A d \in Conns \ {c} : t(done).conn[d] = s.conn[d] /\ t(done).tcp[d] = s.tcp[d]
    BY <1>1, <2>1, PutFields
  <2>5. ConnGood(t(done), c)
    <3>1. x(done).resp_off <= x(done).resp_len
      BY <1>1, <2>2 DEF ConnSet
    <3> HIDE DEF t
    <3> QED
      BY <1>1, <2>2, <2>4, <3>1 DEF ConnGood
  <2>6. Good(t(done))
    BY <1>1, <2>1, <2>2, <2>3, <2>5, PutGood
  <2> HIDE DEF t
  <2> QED
    BY <2>2, <2>3, <2>4, <2>6 DEF Kept, Promised, Asked
<1> HIDE DEF t
<1> QED
  BY <1>3, <1>4, <1>5

\* One pbuf of a connection that lives, k units being behind it.
LEMMA ProcessBytesGood ==
  ASSUME NEW s, Good(s), NEW c \in Conns, s.conn[c].live, NEW units \in Seq({"h", "e", "b"}),
         NEW luck, NEW k \in Nat, Left(s, c, Len(units) + k), StreamGood(s.tcp[c].req, units, k)
  PROVE  LET t == process_bytes(s, c, units, luck) IN
         Good(t) /\ Kept(s, t, c) /\ Told(s, t, c) /\ Left(t, c, k) /\ (Over(s, c) => t = s)
<1> DEFINE t == process_bytes(s, c, units, luck)
<1>1. CASE s.conn[c].hdr_done
  <2>1. t = Body(s, c, units, luck)
    BY <1>1 DEF process_bytes
  <2>2. Over(s, c) => t = s
    BY <2>1, OverIsQuiet DEF Body
  <2> QED
    BY <2>1, <2>2, BodyGood
<1>2. CASE ~s.conn[c].hdr_done
  <2> DEFINE h == Header(s, c, units)
             d == HeaderDone(h, c)
             i == CHOOSE i \in EndsAt(s, c, units) : TRUE
             g == handle_headers(d, c, luck)
             rest == SubSeq(units, 1 + i, Len(units))
  <2>1. /\ Good(h) /\ Kept(s, h, c) /\ (Promised(h, c) => Promised(s, c)) /\ ~h.conn[c].mine_upload
        /\ Good(d) /\ Kept(s, d, c) /\ (Promised(d, c) => Promised(s, c)) /\ Asked(d, c)
        /\ d.conn[c].body_recv = 0
    BY <1>2, HeaderGood
  <2>2. ~Over(s, c)
    BY <1>2, OverIsQuiet
  <2>3. CASE EndsAt(s, c, units) = {}
    <3>1. t = h
      BY <1>2, <2>3 DEF process_bytes
    <3> QED
      BY <2>1, <2>2, <3>1 DEF Told, Left
  <2>4. CASE EndsAt(s, c, units) # {}
    <3>1. t = Body(g, c, rest, luck)
      BY <1>2, <2>4 DEF process_bytes
    <3>2. i \in 1..Len(units) /\ units[i] = "e"
      BY <2>4 DEF EndsAt
    <3> HIDE DEF i, d, h
    <3>3. /\ Good(g) /\ Kept(d, g, c) /\ Told(d, g, c)
          /\ g.conn[c].mine_upload => /\ g.conn[c].body_recv = 0 /\ d.tcp[c].req.len # 0
                                      /\ d.tcp[c].req.route = "upload"
      BY <2>1, HandleHeadersGood
    <3> HIDE DEF g
    <3>4. rest \in Seq({"h", "e", "b"}) /\ Len(rest) = Len(units) - i
      <4>1. Len(units) \in Nat /\ \A j \in 1..Len(units) : units[j] \in {"h", "e", "b"}
        BY LenProperties, ElementOfSeq
      <4>2. 1 + i \in 1..(Len(units) + 1)
        BY <3>2, <4>1
      <4> QED
        BY <3>2, <4>1, <4>2, SubSeqProperties
    <3>5. g.tcp[c].req = s.tcp[c].req /\ d.tcp[c].req = s.tcp[c].req
      BY <2>1, <3>3 DEF Kept
    <3>6. Left(g, c, Len(rest) + k)
      <4> SUFFICES ASSUME g.conn[c].mine_upload
                   PROVE  0 < s.tcp[c].req.len /\ 0 + (Len(rest) + k) <= s.tcp[c].req.len
        BY <3>3, <3>5 DEF Left
      <4>1. s.tcp[c].req.route = "upload" /\ s.tcp[c].req.len # 0
        BY <3>3, <3>5
      <4>2. s.tcp[c].req.len \in Nat
        BY <4>1, Fields, ReqFields DEF Good, TcpSet
      <4>3. Len(units) - i + k = s.tcp[c].req.len
        BY <3>2, <4>1 DEF StreamGood
      <4> HIDE DEF rest
      <4> QED
        BY <3>4, <4>1, <4>2, <4>3, LenProperties
    <3> HIDE DEF rest
    <3>7. LET b == Body(g, c, rest, luck) IN
          Good(b) /\ Kept(g, b, c) /\ Told(g, b, c) /\ Left(b, c, k)
      BY <3>3, <3>4, <3>6, BodyGood
    <3>8. Over(g, c) => t = g
      BY <3>1, <3>3, OverIsQuiet DEF Body
    <3> HIDE DEF t
    <3>9. Kept(d, t, c) /\ Told(d, t, c)
      BY <3>1, <3>3, <3>7, <3>8, ThenOver
    <3>10. Kept(s, t, c) /\ Told(s, t, c)
      BY <2>1, <3>9, Then
    <3> QED
      BY <2>2, <3>1, <3>7, <3>10 DEF t
  <2> QED
    BY <2>3, <2>4
<1> QED
  BY <1>1, <1>2

-----------------------------------------------------------------------------
(* The streams. *)

Units == {"h", "e", "b"}

LEMMA StreamIsGood ==
  ASSUME NEW req \in Requests
  PROVE  Stream(req) \in Seq(Units) /\ StreamGood(req, Stream(req), 0)
<1>1. CASE req.route = "long"
  <2> DEFINE h == [i \in 1..HdrMax |-> "h"]
  <2>1. h \in Seq(Units)
    BY HttpAssumption, IsASeq DEF Units
  <2>2. <<"e">> \in Seq(Units)
    BY DEF Units
  <2>3. Stream(req) = h \o <<"e">>
    BY <1>1 DEF Stream
  <2> HIDE DEF h
  <2> QED
    BY <1>1, <2>1, <2>2, <2>3, ConcatProperties DEF StreamGood
<1>2. CASE req.route = "upload"
  <2> DEFINE h == <<"h", "e">>
             b == [i \in 1..req.len |-> "b"]
             x == Stream(req)
  <2>0. req.len \in Nat
    BY <1>2, ReqFields
  <2>1. b \in Seq(Units) /\ Len(b) = req.len /\ \A i \in 1..req.len : b[i] = "b"
    BY <2>0, IsASeq DEF Units
  <2>2. h \in Seq(Units) /\ Len(h) = 2 /\ h[1] = "h"
    BY DEF Units
  <2>3. x = h \o b
    BY <1>2 DEF Stream
  <2> HIDE DEF h, b, x
  <2>4. x \in Seq(Units) /\ Len(x) = 2 + req.len
        /\ \A i \in 1..Len(x) : x[i] = IF i <= 2 THEN h[i] ELSE b[i - 2]
    <3>1. x \in Seq(Units) /\ Len(x) = Len(h) + Len(b)
          /\ \A i \in 1..(Len(h) + Len(b)) : x[i] = IF i <= Len(h) THEN h[i] ELSE b[i - Len(h)]
      BY <2>1, <2>2, <2>3, ConcatProperties
    <3> QED
      BY <2>1, <2>2, <3>1
  <2>5. ASSUME NEW i \in 1..Len(x), x[i] = "e" PROVE Len(x) - i + 0 = req.len
    <3>1. i = 2
      <4>1. CASE i > 2
        BY <2>0, <2>1, <2>4, <2>5, <4>1
      <4>2. CASE i = 1
        BY <2>2, <2>4, <2>5, <4>2
      <4> QED
        BY <2>0, <2>4, <4>1, <4>2
    <3> QED
      BY <2>0, <2>4, <3>1
  <2> QED
    BY <2>4, <2>5 DEF StreamGood, x
<1>3. CASE req.route \notin {"long", "upload"}
  <2>1. Stream(req) = <<"h", "e">>
    BY <1>3 DEF Stream
  <2>2. <<"h", "e">> \in Seq(Units)
    BY DEF Units
  <2> QED
    BY <1>3, <2>1, <2>2 DEF StreamGood
<1> QED
  BY <1>1, <1>2, <1>3

LEMMA StreamPart ==
  ASSUME NEW req, NEW todo \in Seq(Units), StreamGood(req, todo, 0),
         NEW a \in 1..(Len(todo) + 1), NEW b \in 0..Len(todo), a <= b + 1
  PROVE  LET part == SubSeq(todo, a, b) IN
         part \in Seq(Units) /\ Len(part) = b - a + 1 /\ StreamGood(req, part, Len(todo) - b)
<1> DEFINE part == SubSeq(todo, a, b)
<1>1. Len(todo) \in Nat /\ \A i \in a..b : todo[i] \in Units
  BY LenProperties, ElementOfSeq
<1>2. part \in Seq(Units) /\ Len(part) = b - a + 1
      /\ \A i \in 1..(b - a + 1) : part[i] = todo[a + i - 1]
  <2>1. a = b + 1 \/ a \in 1..b
    OBVIOUS
  <2>2. part \in Seq(Units) /\ Len(part) = (IF a <= b THEN b - a + 1 ELSE 0)
        /\ \A i \in 1..(b - a + 1) : part[i] = todo[a + i - 1]
    BY <1>1, <2>1, SubSeqProperties
  <2> QED
    BY <2>2, <1>1
<1> HIDE DEF part
<1>3. ASSUME NEW i \in 1..Len(part), part[i] = "e", req.route = "upload"
      PROVE  Len(part) - i + (Len(todo) - b) = req.len
  <2>1. a + i - 1 \in 1..Len(todo) /\ todo[a + i - 1] = "e"
    BY <1>1, <1>2, <1>3
  <2>2. Len(todo) - (a + i - 1) + 0 = req.len
    BY <1>3, <2>1 DEF StreamGood
  <2> QED
    BY <1>1, <1>2, <2>2
<1> QED
  BY <1>2, <1>3 DEF StreamGood, part

-----------------------------------------------------------------------------
(* The steps. *)

ServerInv ==
  /\ Good(srv) /\ ~srv.touched
  /\ \A c \in Conns : /\ StreamGood(srv.tcp[c].req, srv.tcp[c].todo, 0)
                      /\ Left(srv, c, Len(srv.tcp[c].todo))
  /\ s_up \in BOOLEAN /\ s_listen \in BOOLEAN /\ reqs \in 0..MaxReqs /\ faults \in 0..MaxFaults

\* What UploadOkIsStored says of a step.
OkStored ==
  \A c \in Conns : (Promised(srv', c) /\ ~Promised(srv, c))
    => srv'.files[srv.tcp[c].req.path] = srv.tcp[c].req.len \/ srv'.unsynced

ServerStep == Good(srv') /\ ~srv'.touched /\ OkStored
              /\ \A c \in Conns : /\ StreamGood(srv'.tcp[c].req, srv'.tcp[c].todo, 0)
                                  /\ Left(srv', c, Len(srv'.tcp[c].todo))

\* A step of c: what must be shown of it.
LEMMA StepOf ==
  ASSUME ServerInv, NEW c \in Conns, NEW t, srv' = t, Good(t), t.touched = srv.touched,
         \A d \in Conns \ {c} : t.conn[d] = srv.conn[d] /\ t.tcp[d] = srv.tcp[d],
         Promised(t, c) => \/ Promised(srv, c)
                           \/ t.files[srv.tcp[c].req.path] = srv.tcp[c].req.len \/ t.unsynced,
         StreamGood(t.tcp[c].req, t.tcp[c].todo, 0), Left(t, c, Len(t.tcp[c].todo))
  PROVE  ServerStep
<1>1. ASSUME NEW d \in Conns PROVE StreamGood(t.tcp[d].req, t.tcp[d].todo, 0)
                                    /\ Left(t, d, Len(t.tcp[d].todo))
  BY <1>1 DEF ServerInv, Left
<1>2. OkStored
  BY DEF OkStored, Promised
<1> QED
  BY <1>1, <1>2 DEF ServerStep, ServerInv

\* A step of c that keeps its stream.
LEMMA StepOfKept ==
  ASSUME ServerInv, NEW c \in Conns, NEW t, srv' = t, Good(t), Kept(srv, t, c), Told(srv, t, c),
         Left(t, c, Len(srv.tcp[c].todo))
  PROVE  ServerStep
<1>1. StreamGood(t.tcp[c].req, t.tcp[c].todo, 0) /\ Left(t, c, Len(t.tcp[c].todo))
  BY DEF ServerInv, Kept
<1> QED
  BY <1>1, StepOf DEF Kept, Told, Stored

\* A step that leaves the conn_t of c alone, and what it may still be sent is less.
LEMMA StepOfTcp ==
  ASSUME ServerInv, NEW c \in Conns, NEW y \in TcpSet, srv' = Put(srv, c, srv.conn[c], y),
         y.state \in {"est", "fin"} <=> srv.tcp[c].state \in {"est", "fin"},
         y.req = srv.tcp[c].req, y.said = srv.tcp[c].said,
         y.todo = <<>> \/ y.todo = srv.tcp[c].todo
  PROVE  ServerStep
<1> DEFINE t == Put(srv, c, srv.conn[c], y)
<1>1. srv \in Servers /\ srv.conn[c] \in ConnSet /\ ConnGood(srv, c)
  BY Fields DEF ServerInv, Good
<1>2. /\ t.conn[c] = srv.conn[c] /\ t.tcp[c] = y /\ t.touched = srv.touched /\ t.g_upfile = srv.g_upfile
      /\ \A d \in Conns \ {c} : t.conn[d] = srv.conn[d] /\ t.tcp[d] = srv.tcp[d]
  BY <1>1, PutFields
<1>3. ConnGood(t, c)
  <2> HIDE DEF t
  <2> QED
    BY <1>1, <1>2 DEF ConnGood, Uploading, Matches
<1>4. Good(t)
  BY <1>1, <1>3, PutGood DEF ServerInv
<1> HIDE DEF t
<1>5. StreamGood(y.req, y.todo, 0) /\ Left(t, c, Len(y.todo))
  <2>1. CASE y.todo = srv.tcp[c].todo
    BY <1>2, <2>1 DEF ServerInv, Left
  <2>2. CASE y.todo = <<>>
    <3>1. Len(y.todo) = 0 /\ Len(srv.tcp[c].todo) \in Nat
      BY <1>1, <2>2, Fields, EmptySeq, LenProperties DEF TcpSet
    <3>2. ASSUME srv.conn[c].mine_upload
          PROVE  srv.conn[c].body_recv \in Nat /\ srv.tcp[c].req.len \in Nat
      BY <1>1, <3>2, Fields, ReqFields DEF ConnGood, Uploading, TcpSet
    <3>3. Left(srv, c, Len(srv.tcp[c].todo))
      BY DEF ServerInv
    <3>4. Left(t, c, 0)
      BY <1>2, <3>1, <3>2, <3>3 DEF Left
    <3> QED
      BY <3>1, <3>4 DEF StreamGood
  <2> QED
    BY <2>1, <2>2
<1>6. Promised(t, c) => Promised(srv, c)
  BY <1>2 DEF Promised
<1> QED
  BY <1>2, <1>4, <1>5, <1>6, StepOf DEF t

LEMMA AcceptStep ==
  ASSUME ServerInv, NEW c \in Conns, on_accept(c)
  PROVE  ServerStep
<1> DEFINE x == [Freed EXCEPT !.live = TRUE]
           y == [srv.tcp[c] EXCEPT !.state = "est"]
           t == Put(srv, c, x, y)
<1>1. srv \in Servers /\ srv.tcp[c] \in TcpSet /\ srv.conn[c] = Freed
  BY Fields DEF ServerInv, Good, ConnGood, on_accept
<1>2. srv' = t
  BY <1>1 DEF on_accept, Put, Servers
<1>3. /\ x \in ConnSet /\ x.live /\ ~x.mine_upload /\ ~x.hdr_done /\ x.resp = "none" /\ x.body_recv = 0
      /\ x.resp_off = 0 /\ x.resp_len = 0 /\ x.mine_upload = Freed.mine_upload
  <2>1. x \in ConnSet
    BY FreedType DEF ConnSet
  <2> QED
    BY <2>1 DEF Freed
<1>4. /\ y \in TcpSet /\ y.state = "est" /\ y.req = srv.tcp[c].req /\ y.todo = srv.tcp[c].todo
      /\ y.said = srv.tcp[c].said
  BY <1>1 DEF TcpSet, States
<1> HIDE DEF x, y
<1>5. /\ t.conn[c] = x /\ t.tcp[c] = y /\ t.touched = srv.touched
      /\ \A d \in Conns \ {c} : t.conn[d] = srv.conn[d] /\ t.tcp[d] = srv.tcp[d]
  BY <1>1, <1>3, <1>4, PutFields
<1>6. ConnGood(t, c)
  <2> HIDE DEF t
  <2> QED
    BY <1>3, <1>4, <1>5 DEF ConnGood
<1>7. Good(t)
  BY <1>1, <1>3, <1>4, <1>6, PutGood DEF ServerInv
<1> HIDE DEF t
<1>8. Kept(srv, t, c) /\ Told(srv, t, c) /\ Left(t, c, Len(srv.tcp[c].todo))
  BY <1>3, <1>4, <1>5 DEF Kept, Told, Promised, Left
<1> QED
  BY <1>2, <1>7, <1>8, StepOfKept

\* What is still to come of the body only gets less.
LEMMA LeftLess ==
  ASSUME NEW s, Good(s), NEW c \in Conns, NEW a \in Nat, NEW b \in Nat, b <= a, Left(s, c, a)
  PROVE  Left(s, c, b)
<1> SUFFICES ASSUME s.conn[c].mine_upload
             PROVE  /\ s.conn[c].body_recv < s.tcp[c].req.len
                    /\ s.conn[c].body_recv + b <= s.tcp[c].req.len
  BY DEF Left
<1>1. s.conn[c].body_recv \in Nat /\ s.tcp[c].req.len \in Nat
  BY Fields, ReqFields DEF Good, ConnGood, Uploading, TcpSet
<1>2. s.conn[c].body_recv < s.tcp[c].req.len /\ s.conn[c].body_recv + a <= s.tcp[c].req.len
  BY DEF Left
<1> QED
  BY <1>1, <1>2

\* A chain of two pbufs: the second is looked at when the connection lives.
LEMMA RecvStep ==
  ASSUME ServerInv, NEW c \in Conns, on_recv(c)
  PROVE  ServerStep
<1> DEFINE todo == srv.tcp[c].todo
           req == srv.tcp[c].req
<1>1. PICK n \in 1..Len(todo), m \in 0..(Len(todo) - 1), luck \in Lucks :
        /\ n + m <= Len(todo)
        /\ srv' = [NextPbuf(process_bytes(srv, c, SubSeq(todo, 1, n), luck), c,
                            SubSeq(todo, n + 1, n + m), luck)
                     EXCEPT !.tcp[c].todo = SubSeq(@, n + m + 1, Len(@))]
  BY DEF on_recv
<1> DEFINE first == SubSeq(todo, 1, n)
           second == SubSeq(todo, n + 1, n + m)
           rest == SubSeq(todo, n + m + 1, Len(todo))
           len == Len(todo)
           u == process_bytes(srv, c, first, luck)
           v == NextPbuf(u, c, second, luck)
<1>2. Good(srv) /\ todo \in Seq(Units) /\ StreamGood(req, todo, 0) /\ Left(srv, c, len) /\ len \in Nat
  BY Fields, LenProperties DEF ServerInv, Good, TcpSet, Units
<1>a. n \in Nat /\ m \in Nat /\ n >= 1 /\ n + m <= len
  <2>1. n \in 1..len /\ m \in 0..(len - 1) /\ n + m <= len
    BY <1>1, Zenon
  <2>2. len \in Nat
    BY <1>2, Zenon
  <2> HIDE DEF len
  <2> QED
    BY <2>1, <2>2
<1>b. /\ 1 \in 1..(len + 1) /\ n \in 0..len /\ 1 <= n + 1 /\ n - 1 + 1 = n
      /\ n + 1 \in 1..(len + 1) /\ n + m \in 0..len /\ n + 1 <= n + m + 1 /\ n + m - (n + 1) + 1 = m
      /\ n + m + 1 \in 1..(len + 1) /\ len \in 0..len /\ n + m + 1 <= len + 1
      /\ len - (n + m + 1) + 1 = len - (n + m) /\ len - len = 0
      /\ len - n \in Nat /\ n + (len - n) = len
      /\ len - (n + m) \in Nat /\ m + (len - (n + m)) = len - n /\ len - (n + m) <= len - n
  <2>1. len \in Nat
    BY <1>2
  <2> HIDE DEF len
  <2> QED
    BY <1>a, <2>1
<1>3. first \in Seq(Units) /\ Len(first) = n /\ StreamGood(req, first, len - n)
  BY <1>2, <1>b, StreamPart
<1>4. second \in Seq(Units) /\ Len(second) = m /\ StreamGood(req, second, len - (n + m))
  <2> DEFINE a == n + 1
             b == n + m
  <2>1. a \in 1..(len + 1) /\ b \in 0..len /\ a <= b + 1 /\ b - a + 1 = m
    BY <1>b
  <2> HIDE DEF a, b
  <2>2. LET part == SubSeq(todo, a, b) IN
        part \in Seq(Units) /\ Len(part) = b - a + 1 /\ StreamGood(req, part, len - b)
    BY <1>2, <2>1, StreamPart
  <2> QED
    BY <2>1, <2>2 DEF a, b
<1>5. rest \in Seq(Units) /\ Len(rest) = len - (n + m) /\ StreamGood(req, rest, 0)
  <2>1. rest \in Seq(Units) /\ Len(rest) = len - (n + m + 1) + 1 /\ StreamGood(req, rest, len - len)
    BY <1>2, <1>b, StreamPart
  <2> QED
    BY <1>b, <2>1
<1> HIDE DEF first, second, rest, len
<1>6. srv.conn[c].live
  BY DEF on_recv, ServerInv, Good, ConnGood
<1>7. Good(u) /\ Kept(srv, u, c) /\ Told(srv, u, c) /\ Left(u, c, len - n)
  <2>2. Left(srv, c, Len(first) + (len - n))
    BY <1>2, <1>3, <1>b
  <2> QED
    BY <1>2, <1>3, <1>6, <1>b, <2>2, ProcessBytesGood DEF Units
<1> HIDE DEF u
<1>8. Good(v) /\ Kept(srv, v, c) /\ Told(srv, v, c) /\ Left(v, c, len - (n + m))
  <2>1. CASE u.conn[c].live /\ second # <<>>
    <3>1. v = process_bytes(u, c, second, luck)
      BY <2>1 DEF NextPbuf
    <3>2. len - (n + m) \in Nat /\ m + (len - (n + m)) = len - n
      BY <1>b
    <3>3. Left(u, c, Len(second) + (len - (n + m))) /\ StreamGood(u.tcp[c].req, second, len - (n + m))
      BY <1>4, <1>7, <3>2 DEF Kept
    <3> HIDE DEF v
    <3>4. /\ Good(v) /\ Kept(u, v, c) /\ Told(u, v, c) /\ Left(v, c, len - (n + m))
          /\ Over(u, c) => v = u
      BY <1>4, <1>7, <2>1, <3>1, <3>2, <3>3, ProcessBytesGood DEF Units
    <3> QED
      BY <1>7, <3>4, ThenOver
  <2>2. CASE ~(u.conn[c].live /\ second # <<>>)
    <3>1. v = u
      BY <2>2 DEF NextPbuf
    <3>3. Left(u, c, len - (n + m))
      BY <1>7, <1>b, LeftLess
    <3> QED
      BY <1>7, <3>1, <3>3
  <2> QED
    BY <2>1, <2>2
<1> HIDE DEF v
<1> DEFINE y == [v.tcp[c] EXCEPT !.todo = rest]
           t == Put(v, c, v.conn[c], y)
<1>9. v \in Servers /\ v.conn[c] \in ConnSet /\ v.tcp[c] \in TcpSet /\ v.tcp[c].todo = todo /\ v.tcp[c].req = req
  BY <1>8, Fields DEF Good, Kept
<1>10. srv' = t
  <2>1. srv' = [v EXCEPT !.tcp[c].todo = rest]
    BY <1>1, <1>9 DEF v, u, first, second, rest
  <2> QED
    BY <1>9, <2>1 DEF Put, Servers
<1>11. /\ y \in TcpSet /\ y.todo = rest /\ y.req = v.tcp[c].req /\ y.state = v.tcp[c].state
       /\ y.said = v.tcp[c].said
  BY <1>5, <1>9 DEF TcpSet, Units
<1> HIDE DEF y
<1>12. /\ t.conn[c] = v.conn[c] /\ t.tcp[c] = y /\ t.touched = v.touched
       /\ \A d \in Conns \ {c} : t.conn[d] = v.conn[d] /\ t.tcp[d] = v.tcp[d]
       /\ t.g_upfile = v.g_upfile /\ t.files = v.files /\ t.unsynced = v.unsynced
  BY <1>9, <1>11, PutFields
<1>13. Good(t)
  <2>1. ConnGood(t, c)
    <3>1. ConnGood(v, c)
      BY <1>8 DEF Good
    <3> HIDE DEF t
    <3> QED
      BY <1>11, <1>12, <3>1 DEF ConnGood, Uploading, Matches
  <2> QED
    BY <1>8, <1>9, <1>11, <2>1, PutGood
<1> HIDE DEF t
<1>14. Left(t, c, Len(t.tcp[c].todo)) /\ StreamGood(t.tcp[c].req, t.tcp[c].todo, 0)
  BY <1>5, <1>8, <1>9, <1>11, <1>12 DEF Left
<1>15. Promised(t, c) => \/ Promised(srv, c)
                         \/ t.files[req.path] = req.len \/ t.unsynced
  BY <1>8, <1>9, <1>11, <1>12 DEF Told, Promised, Stored
<1>16. t.touched = srv.touched /\ \A d \in Conns \ {c} : t.conn[d] = srv.conn[d] /\ t.tcp[d] = srv.tcp[d]
  BY <1>8, <1>12 DEF Kept
<1> QED
  BY <1>10, <1>13, <1>14, <1>15, <1>16, StepOf

\* An acknowledgement: what is left of the response goes on.
LEMMA SentStep ==
  ASSUME ServerInv, NEW c \in Conns, on_sent(c)
  PROVE  ServerStep
<1>1. PICK n \in 1..srv.tcp[c].inflight, luck \in Lucks : srv' = Continue(Acked(srv, c, n), c, luck)
  BY DEF on_sent
<1> DEFINE y == [srv.tcp[c] EXCEPT !.inflight = @ - n]
           a == Acked(srv, c, n)
           t == Continue(a, c, luck)
<1>2. srv \in Servers /\ srv.conn[c] \in ConnSet /\ srv.tcp[c] \in TcpSet /\ ConnGood(srv, c) /\ Good(srv)
      /\ srv.tcp[c].inflight \in 0..SndBuf
  BY Fields DEF ServerInv, Good
<1>3. a = Put(srv, c, srv.conn[c], y)
  BY <1>2 DEF Acked, Put, Servers
<1>4. /\ y \in TcpSet /\ y.state = srv.tcp[c].state /\ y.req = srv.tcp[c].req /\ y.todo = srv.tcp[c].todo
      /\ y.said = srv.tcp[c].said
  <2>1. srv.tcp[c].inflight - n \in 0..SndBuf
    BY <1>2, HttpAssumption
  <2> QED
    BY <1>2, <2>1 DEF TcpSet
<1> HIDE DEF y, a
<1>5. /\ a.conn[c] = srv.conn[c] /\ a.tcp[c] = y /\ a.touched = srv.touched /\ a.g_upfile = srv.g_upfile
      /\ \A d \in Conns \ {c} : a.conn[d] = srv.conn[d] /\ a.tcp[d] = srv.tcp[d]
  BY <1>2, <1>3, <1>4, PutFields
<1>6. ConnGood(a, c)
  BY <1>2, <1>4, <1>5 DEF ConnGood, Uploading, Matches
<1>7. Good(a)
  BY <1>2, <1>3, <1>4, <1>6, PutGood
<1>8. Kept(srv, a, c) /\ (Promised(a, c) => Promised(srv, c))
  BY <1>4, <1>5 DEF Kept, Promised
<1>9. Good(t) /\ Kept(a, t, c) /\ Told(a, t, c) /\ Left(t, c, Len(srv.tcp[c].todo))
  <2>1. CASE a.conn[c].resp # "none"
    <3>1. t = push_send(a, c, luck)
      BY <2>1 DEF Continue
    <3> HIDE DEF t
    <3>2. Good(t) /\ Kept(a, t, c) /\ ~t.conn[c].mine_upload /\ (Promised(t, c) => Promised(a, c))
      BY <1>7, <2>1, <3>1, PushSendGood
    <3> QED
      BY <3>2 DEF Told, Left
  <2>2. CASE a.conn[c].resp = "none"
    <3>1. t = a
      BY <2>2 DEF Continue
    <3> QED
      BY <1>4, <1>5, <1>7, <3>1 DEF Kept, Told, Left, ServerInv
  <2> QED
    BY <2>1, <2>2
<1>10. srv' = t
  BY <1>1 DEF a
<1> HIDE DEF t
<1>11. Kept(srv, t, c) /\ Told(srv, t, c)
  BY <1>8, <1>9, Then
<1> QED
  BY <1>9, <1>10, <1>11, StepOfKept

\* The connection ends: the client's close, its reset, or data never acknowledged.
LEMMA EndStep ==
  ASSUME ServerInv, NEW c \in Conns, NEW luck, srv' = close_conn(srv, c, luck)
  PROVE  ServerStep
<1> DEFINE t == close_conn(srv, c, luck)
<1>1. Good(t) /\ Kept(srv, t, c) /\ t.conn[c] = Freed /\ t.tcp[c].said = srv.tcp[c].said
  BY CloseConnGood DEF ServerInv
<1> HIDE DEF t
<1>2. Told(srv, t, c) /\ Left(t, c, Len(srv.tcp[c].todo))
  BY <1>1, FreedType DEF Told, Promised, Kept, Freed, Left
<1> QED
  BY <1>1, <1>2, StepOfKept DEF t

LEMMA ErrStep ==
  ASSUME ServerInv, NEW c \in Conns, on_err(c)
  PROVE  ServerStep
<1>1. Release(srv, c, "fin") = Release(srv, c, "none")
  BY DEF Release, f_close
<1>2. srv' = close_conn(srv, c, "fin")
  BY <1>1 DEF on_err, close_conn
<1> QED
  BY <1>2, EndStep

\* A new connection: its conn_t is not there yet.
LEMMA ConnectStep ==
  ASSUME ServerInv, NEW c \in Conns, Connect(c)
  PROVE  ServerStep
<1>1. PICK req \in Requests :
        srv' = [srv EXCEPT !.tcp[c] = [NoTcp EXCEPT !.state = "syn", !.req = req, !.todo = Stream(req)]]
  BY DEF Connect
<1> DEFINE y == [NoTcp EXCEPT !.state = "syn", !.req = req, !.todo = Stream(req)]
           t == Put(srv, c, srv.conn[c], y)
<1>2. srv \in Servers /\ Good(srv) /\ srv.conn[c] = Freed
  BY DEF ServerInv, Good, ConnGood, Connect
<1>3. srv' = t
  BY <1>1, <1>2 DEF Put, Servers
<1>4. /\ y \in TcpSet /\ y.state = "syn" /\ y.req = req /\ y.todo = Stream(req) /\ y.said = "none"
  <2>1. NoTcp \in TcpSet
    BY HttpAssumption, EmptySeq DEF NoTcp, TcpSet, Codes, States, Requests
  <2>2. y \in TcpSet
    BY <2>1, StreamIsGood DEF TcpSet, Units, States
  <2> QED
    BY <2>1, <2>2 DEF NoTcp
<1> HIDE DEF y
<1>5. /\ t.conn[c] = Freed /\ t.tcp[c] = y /\ t.touched = srv.touched
      /\ \A d \in Conns \ {c} : t.conn[d] = srv.conn[d] /\ t.tcp[d] = srv.tcp[d]
  BY <1>2, <1>4, FreedType, PutFields
<1>6. ConnGood(t, c)
  <2> HIDE DEF t
  <2> QED
    BY <1>4, <1>5 DEF ConnGood, Freed
<1>7. Good(t)
  BY <1>2, <1>4, <1>6, FreedType, PutGood
<1> HIDE DEF t
<1>8. StreamGood(t.tcp[c].req, t.tcp[c].todo, 0) /\ Left(t, c, Len(t.tcp[c].todo)) /\ ~Promised(t, c)
  BY <1>4, <1>5, StreamIsGood, FreedType DEF Left, Promised, Freed
<1> QED
  BY <1>3, <1>5, <1>7, <1>8, StepOf

LEMMA ClientStep ==
  ASSUME ServerInv, NEW c \in Conns, GiveUp(c) \/ Vanish(c)
  PROVE  ServerStep
<1>1. srv \in Servers /\ srv.tcp[c] \in TcpSet
  BY Fields DEF ServerInv, Good
<1>2. PICK state \in {"est", "fin"} :
        srv' = Put(srv, c, srv.conn[c], [srv.tcp[c] EXCEPT !.state = state, !.todo = <<>>])
  <2>1. CASE GiveUp(c)
    BY <1>1, <2>1 DEF GiveUp, Put, Servers, TcpSet
  <2>2. CASE Vanish(c)
    <3>1. [srv.tcp[c] EXCEPT !.todo = <<>>] = [srv.tcp[c] EXCEPT !.state = "est", !.todo = <<>>]
      BY <1>1, <2>2 DEF Vanish, TcpSet
    <3>2. srv' = Put(srv, c, srv.conn[c], [srv.tcp[c] EXCEPT !.todo = <<>>])
      BY <1>1, <2>2 DEF Vanish, Put, Servers
    <3> QED
      BY <3>1, <3>2
  <2> QED
    BY <2>1, <2>2
<1> DEFINE y == [srv.tcp[c] EXCEPT !.state = state, !.todo = <<>>]
<1>3. /\ y \in TcpSet /\ y.state = state /\ y.req = srv.tcp[c].req /\ y.todo = <<>>
      /\ y.said = srv.tcp[c].said
  BY <1>1, EmptySeq DEF TcpSet, States
<1>4. srv.tcp[c].state = "est"
  BY DEF GiveUp, Vanish
<1>5. srv' = Put(srv, c, srv.conn[c], y)
  BY <1>2
<1> HIDE DEF y
<1> QED
  BY <1>3, <1>4, <1>5, StepOfTcp

\* A mount cuts an upload off, and changes nothing else.
LEMMA MountStep ==
  ASSUME ServerInv, srv' = f_mount(srv)
  PROVE  ServerStep
<1> DEFINE t == f_mount(srv)
<1>1. t.conn = srv.conn /\ t.tcp = srv.tcp /\ t.touched = srv.touched
  BY DEF ServerInv, Good, Servers, f_mount
<1>2. Good(t)
  <2>1. CASE Conns = {}
    <3>1. t \in Servers
      BY DEF f_mount, ServerInv, Good, Servers, FileSet
    <3>2. t.g_uploading = srv.g_uploading
      BY DEF f_mount, ServerInv, Good, Servers
    <3> HIDE DEF t
    <3> QED
      BY <2>1, <3>1, <3>2 DEF Good, Slot, ServerInv
  <2>2. CASE Conns # {}
    BY <2>2, MountGood DEF ServerInv
  <2> QED
    BY <2>1, <2>2
<1> HIDE DEF t
<1>3. srv' = t
  BY DEF t
<1> QED
  BY <1>1, <1>2, <1>3 DEF ServerStep, ServerInv, OkStored, Promised, Left

LEMMA NoStep ==
  ASSUME ServerInv, UNCHANGED srv
  PROVE  ServerStep
BY DEF ServerStep, ServerInv, OkStored, Promised, Left

LEMMA HttpStep == ServerInv /\ [Next]_vars => ServerStep
<1> SUFFICES ASSUME ServerInv, [Next]_vars PROVE ServerStep
  OBVIOUS
<1>1. ASSUME NEW c \in Conns, Callback(c) PROVE ServerStep
  <2>1. CASE on_recv_null(c)
    BY <2>1, EndStep DEF on_recv_null
  <2> QED
    BY <1>1, <2>1, AcceptStep, RecvStep, SentStep DEF Callback
<1>2. CASE \E c \in Conns : Callback(c) \/ on_err(c) \/ Connect(c) \/ GiveUp(c) \/ Vanish(c)
  BY <1>1, <1>2, ErrStep, ConnectStep, ClientStep
<1>3. CASE wifi_on
  BY <1>3, MountStep DEF wifi_on
<1>4. CASE wifi_off \/ UNCHANGED vars
  BY <1>4, NoStep DEF wifi_off, vars
<1> QED
  BY <1>2, <1>3, <1>4 DEF Next

LEMMA CountersStep ==
  ASSUME reqs \in 0..MaxReqs, faults \in 0..MaxFaults, [Next]_vars
  PROVE  reqs' \in 0..MaxReqs /\ faults' \in 0..MaxFaults
<1>0. MaxReqs \in Nat /\ MaxFaults \in Nat
  BY HttpAssumption
<1>1. ASSUME NEW luck \in Lucks, Spend(luck) PROVE faults' \in 0..MaxFaults
  BY <1>0, <1>1 DEF Lucks, Spend
<1>2. ASSUME NEW c \in Conns, Callback(c)
      PROVE  faults' \in 0..MaxFaults /\ UNCHANGED reqs
  <2>1. CASE on_recv(c) \/ on_sent(c)
    BY <1>1, <2>1 DEF on_recv, on_sent
  <2>2. CASE on_accept(c) \/ on_recv_null(c)
    BY <2>2 DEF on_accept, on_recv_null
  <2> QED
    BY <1>2, <2>1, <2>2 DEF Callback
<1>3. ASSUME (faults < MaxFaults /\ faults' = faults + 1) \/ UNCHANGED faults PROVE faults' \in 0..MaxFaults
  BY <1>0, <1>3
<1>4. ASSUME NEW c \in Conns, on_err(c) \/ GiveUp(c) \/ Vanish(c)
      PROVE  faults' \in 0..MaxFaults /\ UNCHANGED reqs
  BY <1>3, <1>4 DEF on_err, GiveUp, Vanish
<1>5. ASSUME NEW c \in Conns, Connect(c)
      PROVE  faults' \in 0..MaxFaults /\ reqs' \in 0..MaxReqs
  <2>1. reqs < MaxReqs /\ reqs' = reqs + 1 /\ UNCHANGED faults
    BY <1>5 DEF Connect
  <2> QED
    BY <1>0, <2>1
<1>6. CASE wifi_on
  BY <1>3, <1>6 DEF wifi_on
<1>7. CASE wifi_off
  BY <1>3, <1>7 DEF wifi_off
<1>8. CASE UNCHANGED vars
  BY <1>8 DEF vars
<1> QED
  BY <1>2, <1>4, <1>5, <1>6, <1>7, <1>8 DEF Next

LEMMA SwitchesStep ==
  ASSUME s_up \in BOOLEAN, s_listen \in BOOLEAN, [Next]_vars
  PROVE  s_up' \in BOOLEAN /\ s_listen' \in BOOLEAN
<1>1. ASSUME NEW c \in Conns, Callback(c) \/ on_err(c) \/ Connect(c) \/ GiveUp(c) \/ Vanish(c)
      PROVE  UNCHANGED <<s_up, s_listen>>
  BY <1>1 DEF Callback, on_accept, on_recv, on_recv_null, on_sent, on_err, Connect, GiveUp, Vanish, wifi
<1>2. CASE wifi_on
  BY <1>2, Zenon DEF wifi_on
<1>3. CASE wifi_off
  BY <1>3, Zenon DEF wifi_off
<1> QED
  BY <1>1, <1>2, <1>3 DEF Next, vars

-----------------------------------------------------------------------------
(* The theorems. *)

LEMMA HttpInit == Init => ServerInv
<1> SUFFICES ASSUME Init PROVE ServerInv
  OBVIOUS
<1>1. NoTcp \in TcpSet /\ NoTcp.state = "none" /\ NoTcp.todo = <<>>
  BY HttpAssumption, EmptySeq DEF NoTcp, TcpSet, States, Codes, Requests
<1>2. srv \in Servers
  BY <1>1, FreedType, NoFileType DEF Init, Servers
<1>3. ASSUME NEW c \in Conns
      PROVE  srv.conn[c] = Freed /\ srv.tcp[c] = NoTcp
  BY DEF Init
<1>4. ~srv.g_uploading /\ ~srv.touched
  BY DEF Init
<1>5. Slot(srv)
  BY <1>3, <1>4, FreedType DEF Slot
<1>6. ASSUME NEW c \in Conns PROVE ConnGood(srv, c)
  BY <1>1, <1>3 DEF ConnGood, Freed
<1>7. ASSUME NEW c \in Conns
      PROVE  StreamGood(srv.tcp[c].req, srv.tcp[c].todo, 0) /\ Left(srv, c, Len(srv.tcp[c].todo))
  BY <1>1, <1>3, FreedType, EmptySeq DEF StreamGood, Left
<1>8. s_up \in BOOLEAN /\ s_listen \in BOOLEAN /\ reqs \in 0..MaxReqs /\ faults \in 0..MaxFaults
  <2>1. reqs = 0 /\ faults = 0 /\ s_up = FALSE /\ s_listen = FALSE
    BY DEF Init
  <2>2. reqs \in 0..MaxReqs /\ faults \in 0..MaxFaults
    BY <2>1, HttpAssumption
  <2> QED
    BY <2>1, <2>2, Zenon
<1> QED
  BY <1>2, <1>4, <1>5, <1>6, <1>7, <1>8 DEF ServerInv, Good

LEMMA HttpInvStep == ServerInv /\ [Next]_vars => ServerInv'
<1> SUFFICES ASSUME ServerInv, [Next]_vars PROVE ServerInv'
  OBVIOUS
<1>1. ServerStep
  BY HttpStep
<1>2. reqs' \in 0..MaxReqs /\ faults' \in 0..MaxFaults /\ s_up' \in BOOLEAN /\ s_listen' \in BOOLEAN
  BY CountersStep, SwitchesStep DEF ServerInv
<1> QED
  BY <1>1, <1>2 DEF ServerStep, ServerInv

LEMMA HttpInvariant == Spec => []ServerInv
<1> QED
  BY HttpInit, HttpInvStep, PTL DEF Spec

\* Ranges: the header buffer and the send buffer are never overrun, and a conn_t lives exactly
\* as long as its connection.
THEOREM HttpTypes == Spec => []TypeOK
<1>1. ASSUME ServerInv PROVE TypeOK
  <2>1. ASSUME NEW c \in Conns
        PROVE  /\ srv.conn[c].hdrlen \in 0..HdrMax /\ srv.tcp[c].inflight \in 0..SndBuf
               /\ srv.tcp[c].state \in States /\ srv.tcp[c].said \in Codes
               /\ srv.conn[c].live <=> srv.tcp[c].state \in {"est", "fin"}
    BY <1>1, Fields DEF ServerInv, Good, ConnGood, TcpSet
  <2>2. srv.g_uploading \in BOOLEAN /\ \A p \in Paths : srv.files[p] \in {Absent} \union Nat
    BY <1>1 DEF ServerInv, Good, Servers
  <2> QED
    BY <1>1, <2>1, <2>2 DEF ServerInv, TypeOK, States, Codes
<1> QED
  BY <1>1, HttpInvariant, PTL

\* However connections end (Release in close_conn and on_err, finish_upload), the upload slot is
\* taken exactly while one living connection will give it back.
THEOREM OneOwner == Spec => []SlotHasOneOwner
<1>1. ASSUME ServerInv PROVE SlotHasOneOwner
  <2>1. Owners = {c \in Conns : srv.conn[c].mine_upload}
    BY <1>1 DEF Owners, ServerInv, Good, ConnGood, Uploading
  <2>2. CASE srv.g_uploading
    <3>1. PICK c \in Conns : srv.conn[c].mine_upload
      BY <1>1, <2>2 DEF ServerInv, Good, Slot
    <3>2. Owners = {c}
      BY <1>1, <2>1, <3>1 DEF ServerInv, Good, Slot
    <3> QED
      BY <2>2, <3>2, FS_Singleton DEF SlotHasOneOwner
  <2>3. CASE ~srv.g_uploading
    <3>1. Owners = {}
      BY <1>1, <2>1, <2>3 DEF ServerInv, Good, Slot
    <3> QED
      BY <2>3, <3>1, FS_EmptySet DEF SlotHasOneOwner
  <2> QED
    BY <2>2, <2>3
<1> QED
  BY <1>1, HttpInvariant, PTL

\* No callback, and no further pbuf of a chain that on_recv walks, works on a freed conn_t.
THEOREM FreedStaysFreed == Spec => []NeverTouchesFreed
<1>1. ServerInv => NeverTouchesFreed
  BY DEF ServerInv, NeverTouchesFreed
<1> QED
  BY <1>1, HttpInvariant, PTL

\* A 200 to an upload is given only when the file has the length the client announced, whatever
\* failed in between; only f_close's own error (its result is dropped) goes unseen.
THEOREM OkMeansStored == Spec => UploadOkIsStored
<1>1. ServerInv /\ [Next]_vars => [OkStored]_vars
  BY HttpStep DEF ServerStep
<1> QED
  BY <1>1, HttpInvariant, PTL DEF Spec, UploadOkIsStored, OkStored
=============================================================================
