------------------------------ MODULE SdVolume ------------------------------
(***************************************************************************)
(* The SD card and everybody who uses it: the boot and the SIO drives       *)
(* (main.c, sio.c), the console's file push, the menu's configuration       *)
(* (config.c), the web server's uploads, listings and edits (httpsrv.c),    *)
(* and the USB host, which writes raw sectors (msc_disk.c).  They share the *)
(* one volume of FatFs without a lock: whoever wants the card mounts it     *)
(* anew, which makes every open FIL stale.                                  *)
(*                                                                          *)
(* The firmware is one thread, so a handler is a step; the card may fail in *)
(* any access of it, and power may go in any access of it.                  *)
(***************************************************************************)
EXTENDS FatFs, SequencesExt

CONSTANTS
  CfgPath, ImgPath,  \* the machine's configuration and the disk image of D1:
  FilePaths,         \* files uploaded, pushed and deleted
  DirPaths,          \* directories made and deleted
  HostPath,          \* the file the USB host writes
  HostWaits,         \* the host writes only while the firmware has no volume mounted
  FileLen,           \* cells of a file
  ChunkLens,         \* cells that arrive at once
  MaxOps, MaxFaults, MaxFuse   \* bounds

ASSUME VolumeAssumption ==
  /\ FileLen \in Nat \ {0} /\ ChunkLens \subseteq Nat \ {0}
  /\ HostWaits \in BOOLEAN
  /\ MaxOps \in Nat /\ MaxFaults \in Nat /\ MaxFuse \in Nat

VARIABLES
  vol,     \* the card and the FATFS
  drive,   \* sio.c drives[0]: mounted, its FIL, and the version of its image
  upload,  \* httpsrv.c g_upfile; on = g_uploading, path, ver, got = body_recv
  push,    \* cmd_push_file: the same, while it runs
  saved,   \* history: what was closed with success and not touched since
  seen,    \* history: the last sector read, or the last listing
  ver,     \* history: files written so far
  ops, faults

vars == <<vol, drive, upload, push, saved, seen, ver, ops, faults>>

Idle == [on |-> FALSE, path |-> <<>>, ver |-> 0, got |-> 0, fil |-> ClosedFil]
NoDrive == [mounted |-> FALSE, fil |-> ClosedFil, ver |-> 0, sectors |-> 0]
Nothing == [sector |-> 0, data |-> <<>>, listed |-> FALSE, names |-> {}]

BlankDir == [sclust |-> 0, dptr |-> 0, clust |-> 0, sect |-> 0, blk |-> NoOfs,
             name |-> "", fn |-> [base |-> "", n |-> 0], attr |-> "file"]

\* FATFS and working storage after power on.  Every user brings a FATFS of its
\* own, but f_mount invalidates the one before, so one at a time counts.
PowerOn(disk) ==
  [disk |-> disk, reg |-> FALSE, mounted |-> FALSE, ready |-> FALSE, id |-> 0,
   winsect |-> NoSect, win |-> FillWith(Zero), wflag |-> FALSE, fsi |-> "off",
   free |-> Unknown, last |-> Unknown, dp |-> BlankDir, fp |-> ClosedFil, rc |-> "OK",
   val |-> 0, cnt |-> 0, data |-> <<>>, fuse |-> 0, gone |-> FALSE, lands |-> FALSE, hit |-> FALSE,
   torn |-> FALSE]

Rest(m) == [PowerOn(m.disk) EXCEPT !.reg = m.reg, !.mounted = m.mounted, !.ready = m.ready,
              !.id = m.id, !.winsect = m.winsect, !.win = m.win, !.wflag = m.wflag,
              !.fsi = m.fsi, !.free = m.free, !.last = m.last]

With(m, fil) == [m EXCEPT !.fp = fil]

\* Contents.  A cell of a file says which file it is of, and where.
Cells(v, from, n) == [i \in 1 .. n |-> [ver |-> v, off |-> from + i - 1, of |-> FileLen]]
Image(v, n) == [attr |-> "file", data |-> Cells(v, 0, n)]
ADir == [attr |-> "dir", data |-> <<>>]
Forget(path) == [p \in DOMAIN saved \ {path} |-> saved[p]]
Keep(path, x) == [p \in DOMAIN saved \cup {path} |-> IF p = path THEN x ELSE saved[p]]

-----------------------------------------------------------------------------
(* A handler works on the volume until it is done, or until power fails.    *)

NoFault == [fuse |-> 0, gone |-> FALSE, lands |-> FALSE]
Faults == {NoFault} \cup
  IF faults >= MaxFaults THEN {}
  ELSE {f \in [fuse : 1 .. MaxFuse, gone : BOOLEAN, lands : BOOLEAN] : ~(f.gone /\ f.lands)}
Faulty(f) == [vol EXCEPT !.fuse = f.fuse, !.gone = f.gone, !.lands = f.lands]

\* The handler leaves m, d, u, p and s; when power failed only the card remains.
Done(m, f, d, u, p, s) ==
  /\ ops' = ops + 1
  /\ f = NoFault \/ m.hit
  /\ faults' = IF m.hit THEN faults + 1 ELSE faults
  /\ vol'    = [(IF f.gone THEN PowerOn(m.disk) ELSE Rest(m)) EXCEPT !.torn = m.torn]
  /\ drive'  = IF f.gone THEN NoDrive ELSE d
  /\ upload' = IF f.gone THEN Idle ELSE u
  /\ push'   = IF f.gone THEN Idle ELSE p
  /\ seen'   = IF f.gone THEN Nothing ELSE s

Live == ops < MaxOps /\ ~vol.torn
Free == Live /\ ~push.on   \* the push does not return to the main loop

PowerLoss ==
  /\ ops < MaxOps /\ ops' = ops + 1
  /\ faults < MaxFaults /\ faults' = faults + 1
  /\ vol' = [PowerOn(vol.disk) EXCEPT !.torn = vol.torn]
  /\ drive' = NoDrive /\ upload' = Idle /\ push' = Idle /\ seen' = Nothing
  /\ UNCHANGED <<saved, ver>>

-----------------------------------------------------------------------------
(* Writing a file.                                                          *)

\* What is on the card under the path of a file that is being written is open.
Opened(m, path) == saved' = IF Ok(m) \/ m.hit THEN Forget(path) ELSE saved
Closed(m, w) == saved' = IF Ok(m) THEN Keep(w.path, Image(w.ver, w.got)) ELSE saved

OpenNew(m, path) == f_open(Forgive(f_mount(m)), path, TRUE)
Writer(m, path) == [on |-> TRUE, path |-> path, ver |-> ver + 1, got |-> 0, fil |-> m.fp]

\* What arrived grows by what f_write took, whatever it returned.
Written(w, m) == [w EXCEPT !.got = @ + m.cnt, !.fil = m.fp]
Write(m, w, n) == f_write(With(m, w.fil), Cells(w.ver, w.got, n))

HttpUpload(path) ==
  /\ Free /\ ~upload.on
  /\ \E f \in Faults : \E m \in {OpenNew(Faulty(f), path)} :
       /\ Done(m, f, drive, IF Ok(m) THEN Writer(m, path) ELSE upload, push, Nothing)
       /\ Opened(m, path)
  /\ ver' = ver + 1

\* process_bytes: the body, and the end of the upload when all of it was taken.
HttpBody(n) ==
  /\ Free /\ upload.on
  /\ \E f \in Faults :
       \E w \in {Write(Faulty(f), upload, n)} :
         LET u == Written(upload, w)
         IN IF u.got >= FileLen
            THEN \E m \in {f_close(Forgive(w))} :
                   Done(m, f, drive, Idle, push, Nothing) /\ Closed(m, u)
            ELSE Done(w, f, drive, u, push, Nothing) /\ saved' = saved
  /\ ver' = ver

\* close_conn: the peer closed the connection.
HttpClose ==
  /\ Free /\ upload.on
  /\ \E f \in Faults : \E m \in {f_close(With(Faulty(f), upload.fil))} :
       Done(m, f, drive, Idle, push, Nothing) /\ Closed(m, upload)
  /\ ver' = ver

PushBegin(path) ==
  /\ Free
  /\ \E f \in Faults : \E m \in {OpenNew(Faulty(f), path)} :
       /\ Done(m, f, drive, upload, IF Ok(m) THEN Writer(m, path) ELSE push, Nothing)
       /\ Opened(m, path)
  /\ ver' = ver + 1

\* A chunk; the file is closed when it is whole and when a write falls short.
PushData(n) ==
  /\ Live /\ push.on
  /\ \E f \in Faults :
       \E w \in {Write(Faulty(f), push, Least(n, FileLen - push.got))} :
         LET p == Written(push, w)
         IN IF ~Ok(w) \/ w.cnt # Least(n, FileLen - push.got) \/ p.got >= FileLen
            THEN \E m \in {f_close(Forgive(w))} :
                   Done(m, f, drive, upload, Idle, Nothing) /\ Closed(m, p)
            ELSE Done(w, f, drive, upload, p, Nothing) /\ saved' = saved
  /\ ver' = ver

PushTimeout ==
  /\ Live /\ push.on
  /\ \E f \in Faults : \E m \in {f_close(With(Faulty(f), push.fil))} :
       Done(m, f, drive, upload, Idle, Nothing) /\ Closed(m, push)
  /\ ver' = ver

\* config_save writes to whatever volume is mounted.
config_save ==
  /\ Free
  /\ \E f \in Faults :
       \E o \in {f_open(Faulty(f), CfgPath, TRUE)} :
         \E w \in {IF Ok(o) THEN f_write(o, Cells(ver + 1, 0, FileLen)) ELSE o} :
           \E m \in {IF Ok(o) THEN f_close(Forgive(w)) ELSE o} :
             /\ Done(m, f, drive, upload, push, Nothing)
             /\ saved' = IF Ok(m) THEN Keep(CfgPath, Image(ver + 1, w.cnt))
                         ELSE IF Ok(o) \/ m.hit THEN Forget(CfgPath) ELSE saved
  /\ ver' = ver + 1

-----------------------------------------------------------------------------
(* Directories.                                                             *)

HttpDelete(path) ==
  /\ Free
  /\ \E f \in Faults :
       \E m \in {f_unlink(Forgive(f_mount(Faulty(f))), path)} :
          /\ Done(m, f, drive, upload, push, Nothing)
          /\ saved' = IF Ok(m) \/ m.hit THEN Forget(path) ELSE saved
  /\ ver' = ver

HttpMkdir(path) ==
  /\ Free
  /\ \E f \in Faults :
       \E m \in {f_mkdir(Forgive(f_mount(Faulty(f))), path)} :
          /\ Done(m, f, drive, upload, push, Nothing)
          /\ saved' = IF Ok(m) THEN Keep(path, ADir) ELSE saved
  /\ ver' = ver

RECURSIVE Listing(_, _)
ShownName(e) == IF e.long = "" THEN e.entry.sfn.base ELSE e.long
ListRest(r, names) ==
  IF ~Ok(r) \/ r.data = <<>> THEN [m |-> r, names |-> names]
  ELSE Listing([r EXCEPT !.data = <<>>], names \cup {ShownName(r.data[1])})
Listing(m, names) == ListRest(f_readdir(m), names)

HttpList ==
  /\ Free
  /\ \E f \in Faults :
       \E d \in {f_opendir(Forgive(f_mount(Faulty(f))), <<>>)} :
         \E l \in {IF Ok(d) THEN Listing(d, {}) ELSE [m |-> d, names |-> {}]} :
          Done(l.m, f, drive, upload, push,
               IF Ok(l.m) THEN [Nothing EXCEPT !.names = l.names, !.listed = TRUE] ELSE Nothing)
  /\ UNCHANGED <<saved, ver>>

-----------------------------------------------------------------------------
(* Booting and the SIO drive.                                               *)

CloseWith(m, rc) == Err(f_close(Forgive(m)), rc)
CloseRead(o, r) == IF Ok(o) THEN CloseWith(r, r.rc) ELSE o
ReadAll(o, n) == CloseRead(o, f_read(o, n))
read_file(m, path, n) == ReadAll(f_open(m, path, FALSE), n)

\* f_open, the 16 bytes of the header (a cell), and f_close when they are bad.
Header(o, h) ==
  IF ~Ok(o) THEN o ELSE IF Ok(h) /\ Len(h.data) = 1 THEN h ELSE CloseWith(h, "NO_HEADER")
ReadHeader(o) == Header(o, f_read(o, 1))
sio_mount(m, path) == ReadHeader(f_open(m, path, FALSE))

\* main, before the USB stack runs: is there a new FPGA image?  The volume is
\* mounted for it and given up again.
Stage ==
  /\ Free /\ ~vol.reg
  /\ \E f \in Faults :
       \E c \in {read_file(f_mount(Faulty(f)), CfgPath, FileLen)} :
         \E m \in {f_unmount(f_stat(c, ImgPath))} :
           Done(m, f, drive, upload, push, Nothing)
  /\ UNCHANGED <<saved, ver>>

\* The configuration first: without it the drive stays as it was.
Remount(c) ==
  IF ~Ok(c) THEN c
  ELSE sio_mount(IF drive.mounted THEN Forgive(f_close(With(c, drive.fil))) ELSE c, ImgPath)

do_boot ==
  /\ Free
  /\ \E f \in Faults :
       \E c \in {read_file(f_mount(Faulty(f)), CfgPath, FileLen)} :
         \E m \in {Remount(c)} :
           Done(m, f, IF ~Ok(c) THEN drive
                      ELSE IF ~Ok(m) THEN NoDrive
                      ELSE [mounted |-> TRUE, fil |-> m.fp, ver |-> m.data[1].ver,
                            sectors |-> m.data[1].of - 1], upload, push, Nothing)
  /\ UNCHANGED <<saved, ver>>

\* cmd_read_sector: a sector is a cell, behind the header.
SioRead(s) ==
  /\ Free /\ drive.mounted /\ s <= drive.sectors
  /\ \E f \in Faults :
       \E m \in {f_read(f_lseek(With(Faulty(f), drive.fil), s), 1)} :
          Done(m, f, [drive EXCEPT !.fil = m.fp], upload, push,
               IF Ok(m) /\ Len(m.data) = 1
               THEN [Nothing EXCEPT !.sector = s, !.data = m.data] ELSE Nothing)
  /\ UNCHANGED <<saved, ver>>

-----------------------------------------------------------------------------
(* The USB host: a file system driver of its own on the same sectors.  It   *)
(* may write whenever no drive is mounted.                                  *)

tud_msc_is_writable_cb == ~drive.mounted

HostWrite ==
  /\ Live /\ ops' = ops + 1
  /\ tud_msc_is_writable_cb
  /\ HostWaits => ~vol.mounted
  /\ \E o \in {f_open(f_mount(PowerOn(vol.disk)), HostPath, TRUE)} :
       /\ Ok(o)
       /\ \E m \in {f_close(f_write(o, Cells(ver + 1, 0, FileLen)))} :
            /\ Ok(m) /\ m.cnt = FileLen
            /\ vol' = [vol EXCEPT !.disk = m.disk]
            /\ saved' = Keep(HostPath, Image(ver + 1, FileLen))
  /\ ver' = ver + 1 /\ seen' = Nothing
  /\ UNCHANGED <<drive, upload, push, faults>>

-----------------------------------------------------------------------------

\* A fresh card, prepared elsewhere: the configuration and the image are on it.
Blank == [s \in Sectors |->
  IF s = VolBase THEN FillWith([vbr |-> TRUE])
  ELSE IF s = 0 THEN FillWith([part |-> VolBase])
  ELSE IF s = VolBase + 1 THEN [FillWith(Zero) EXCEPT ![0] = [free |-> NFatEnt - 3, last |-> 2]]
  ELSE IF RootClst \div SS = s - FatBase THEN [FillWith(Zero) EXCEPT ![RootClst % SS] = Num(EOC)]
  ELSE FillWith(Zero)]

Put(m, path, v) == f_close(f_write(f_open(m, path, TRUE), Cells(v, 0, FileLen)))

Init ==
  /\ vol = PowerOn(Put(Put(f_mount(PowerOn(Blank)), CfgPath, 1), ImgPath, 2).disk)
  /\ drive = NoDrive /\ upload = Idle /\ push = Idle /\ seen = Nothing
  /\ saved = [p \in {CfgPath, ImgPath} |-> Image(IF p = CfgPath THEN 1 ELSE 2, FileLen)]
  /\ ver = 2 /\ ops = 0 /\ faults = 0

Next ==
  \/ \E p \in FilePaths : HttpUpload(p) \/ PushBegin(p)
  \/ \E n \in ChunkLens : HttpBody(n) \/ PushData(n)
  \/ HttpClose \/ PushTimeout
  \/ \E p \in FilePaths \cup DirPaths : HttpDelete(p)
  \/ \E p \in DirPaths : HttpMkdir(p)
  \/ HttpList \/ config_save \/ Stage \/ do_boot
  \/ \E s \in 1 .. FileLen - 1 : SioRead(s)
  \/ HostWrite
  \/ PowerLoss

Spec == Init /\ [][Next]_vars

-----------------------------------------------------------------------------
(* A card, read the way any file system driver would.                       *)

Fat(d, c) == d[FatBase + c \div SS][c % SS].num

\* The chain from c; 0 at its end says that it leads nowhere or back.
RECURSIVE ChainFrom(_, _, _)
ChainFrom(d, c, got) ==
  IF c \notin Clusters \/ c \in Range(got) \/ Fat(d, c) = 0 THEN Append(got, 0)
  ELSE IF Fat(d, c) >= NFatEnt THEN Append(got, c)
  ELSE ChainFrom(d, Fat(d, c), Append(got, c))
Chain(d, c) == IF c = 0 THEN <<>> ELSE ChainFrom(d, c, <<>>)

ClusterCells(d, c) == [i \in 1 .. CSize * SS |-> d[clst2sect(c) + (i - 1) \div SS][(i - 1) % SS]]
ChainCells(d, c) ==
  FoldLeft(LAMBDA got, x : IF x = 0 THEN got ELSE got \o ClusterCells(d, x), <<>>, Chain(d, c))

\* The objects below a directory: path, and entry.
IsSfn(e) == "sfn" \in DOMAIN e
LongName(cells, i) ==
  IF i > 1 /\ IsLfn(cells[i - 1]) /\ cells[i - 1].ord = 1 /\ cells[i - 1].sum = cells[i].sfn
  THEN cells[i - 1].name ELSE cells[i].sfn.base
TableEnd(cells) == CHOOSE n \in 0 .. Len(cells) :
  /\ \A i \in 1 .. n : cells[i] # Zero
  /\ n < Len(cells) => cells[n + 1] = Zero

RECURSIVE Objects(_, _, _)
Objects(d, c, path) ==
  LET cells == ChainCells(d, c)
      here  == {i \in 1 .. TableEnd(cells) : IsSfn(cells[i]) /\ cells[i].attr # "dot"}
      obj(i) == [path |-> Append(path, LongName(cells, i)), entry |-> cells[i]]
  IN {obj(i) : i \in here} \cup
     UNION {Objects(d, cells[i].clst, obj(i).path) :
              i \in {j \in here : cells[j].attr = "dir" /\ Len(path) < 2}}

Tree(d) == Objects(d, RootClst, <<>>)

\* What a path holds: the bytes of a file.
Content(d, o) == [attr |-> o.entry.attr,
                  data |-> IF o.entry.attr = "dir" THEN <<>>
                           ELSE SubSeq(ChainCells(d, o.entry.clst), 1, o.entry.size)]

\* The volume as the firmware sees it, with the window over the card.
Seen(v) == IF v.wflag THEN [v.disk EXCEPT ![v.winsect] = v.win] ELSE v.disk

-----------------------------------------------------------------------------
(* Properties.                                                              *)

Writers == {w \in {upload, push} : w.on}
ValidFil(f) == f.fs /\ vol.mounted /\ vol.ready /\ f.id = vol.id

TypeOK ==
  /\ DOMAIN vol.disk = Sectors /\ \A s \in Sectors : DOMAIN vol.disk[s] = 0 .. SS - 1
  /\ vol.winsect \in Sectors \cup {NoSect}
  /\ vol.wflag => vol.winsect \in Sectors
  /\ vol.fsi \in {"off", "clean", "dirty"} /\ vol.free \in 0 .. Unknown
  /\ drive.sectors \in 0 .. FileLen /\ upload.got \in 0 .. FileLen + 9 /\ push.got \in 0 .. FileLen

\* At every moment the card alone, without what the firmware still keeps in
\* memory, is a sound file system: chains end, share no cluster, and are long
\* enough for their files; directories hold entries only.
SoundDisk(d) ==
  LET t == Tree(d)
      heads == {RootClst} \cup {o.entry.clst : o \in {x \in t : x.entry.clst # 0}}
  IN /\ \A h \in heads : 0 \notin Range(Chain(d, h))
     /\ \A g, h \in heads : g # h => Range(Chain(d, g)) \cap Range(Chain(d, h)) = {}
     /\ \A o, p \in t : o.entry.clst = p.entry.clst /\ o.entry.clst # 0 => o = p
     /\ \A o \in t : o.entry.size <= Len(ChainCells(d, o.entry.clst))
     /\ \A h \in {RootClst} \cup {o.entry.clst : o \in {x \in t : x.entry.attr = "dir"}} :
          \A i \in 1 .. TableEnd(ChainCells(d, h)) :
            LET e == ChainCells(d, h)[i] IN e = Deleted \/ IsLfn(e) \/ IsSfn(e)
CardSound == ~vol.torn => SoundDisk(vol.disk)

\* What was closed with success is on the card, byte for byte, until somebody
\* opens that very path for writing or deletes it.
Durable == \A p \in DOMAIN saved :
  \E o \in Tree(vol.disk) : o.path = p /\ Content(vol.disk, o) = saved[p]

\* A FIL that FatFs accepts owns its clusters: they are allocated, and in no
\* other file or directory.
OpenFilesOwnTheirChains ==
  LET d == Seen(vol)
  IN \A f \in {w.fil : w \in Writers} \cup (IF drive.mounted THEN {drive.fil} ELSE {}) :
       ValidFil(f) /\ f.sclust # 0 =>
         LET own == Range(Chain(d, f.sclust))
         IN /\ 0 \notin own
            /\ \A o \in Tree(d) : o.entry.clst # f.sclust => Range(Chain(d, o.entry.clst)) \cap own = {}

\* A sector the Atari is given is that sector of the image that was mounted.
SectorsAreOfTheImage ==
  seen.sector # 0 => seen.data = Cells(drive.ver, seen.sector, 1)

\* A listing shows what is on the card.
ListingTrue == seen.listed => \A p \in DOMAIN saved : Len(p) = 1 => p[1] \in seen.names
=============================================================================
