-------------------------------- MODULE FatFs --------------------------------
(***************************************************************************)
(* FatFs R0.16 (lib/fatfs/source/ff.c) as the firmware configures it: FAT   *)
(* only, long names, one volume, a private sector buffer in each FIL.  Each *)
(* operator takes and returns a machine m, the card together with the       *)
(* FATFS, the DIR and the FIL in use, and the FRESULT of the call in m.rc;  *)
(* m.val is the value a helper returns and m.cnt the bytes transferred.  A  *)
(* machine that has failed passes through every operator unchanged: that is *)
(* the code's `if (res == FR_OK)', so a chain of calls is a composition.    *)
(*                                                                          *)
(* A sector holds SS cells.  A cell is a FAT entry, a directory entry or a  *)
(* piece of a file's data, whichever the sector is used for; [num |-> 0] is *)
(* a cell of zeros.                                                         *)
(***************************************************************************)
EXTENDS Naturals, Sequences, FiniteSets

CONSTANTS
  SS,        \* cells of a sector
  CSize,     \* sectors of a cluster
  NFatEnt,   \* entries of the FAT: clusters 2 .. NFatEnt - 1
  NFats,     \* copies of the FAT
  VolBase,   \* first sector of the volume; sector 0 is the MBR when it is not 0
  Sfn,       \* name |-> [base, n]: the short name create_name makes of it
  Lossy,     \* names that do not fit a short name: numbered on creation
  LfnEnts    \* name |-> number of long name entries it needs

ASSUME FatFsAssumption ==
  /\ SS \in Nat \ {0} /\ CSize \in Nat \ {0} /\ NFatEnt \in Nat /\ NFatEnt > 3
  /\ NFats \in {1, 2} /\ VolBase \in Nat

Clusters == 2 .. NFatEnt - 1
EOC      == NFatEnt        \* end of chain: any value from NFatEnt on
Unknown  == NFatEnt + 1    \* 0xFFFFFFFF in free_clst and last_clst
FSize    == (NFatEnt + SS - 1) \div SS
FatBase  == VolBase + 2    \* behind the boot sector and the FSInfo
DataBase == FatBase + NFats * FSize
Sectors  == 0 .. DataBase + CSize * (NFatEnt - 2) - 1
NoSect   == DataBase + CSize * NFatEnt
RootClst == 2
NoOfs    == NFatEnt * CSize * SS  \* 0xFFFFFFFF in blk_ofs

Num(n)  == [num |-> n]
Zero    == Num(0)
Deleted == [deleted |-> TRUE]
IsLfn(e) == "ord" \in DOMAIN e
SfnEntry(s, a, c, n) == [sfn |-> s, attr |-> a, clst |-> c, size |-> n]
LfnEntry(nm, o, l, s) == [name |-> nm, ord |-> o, last |-> l, sum |-> s]
FillWith(c) == [i \in 0 .. SS - 1 |-> c]

Ok(m) == m.rc = "OK"
Err(m, rc) == IF Ok(m) THEN [m EXCEPT !.rc = rc] ELSE m
Turn(m, from, to) == IF m.rc = from THEN [m EXCEPT !.rc = to] ELSE m
Forgive(m) == [m EXCEPT !.rc = "OK"]
Ret(m, v) == IF Ok(m) THEN [m EXCEPT !.val = v] ELSE m

-----------------------------------------------------------------------------
(* The card.  The access that burns the fuse fails; when the card is gone   *)
(* so does every later one.  A failed write may have reached the medium.    *)

Burn(m) == [m EXCEPT !.fuse = IF @ > 0 THEN @ - 1 ELSE 0]
Failed(m) == [m EXCEPT !.rc = "DISK_ERR", !.hit = TRUE, !.fuse = IF m.gone THEN 1 ELSE 0]

disk_read(m, s) ==
  IF ~Ok(m) THEN m ELSE IF m.fuse = 1 THEN Failed(m) ELSE Ret(Burn(m), m.disk[s])
disk_write(m, s, sector) ==
  IF ~Ok(m) THEN m
  ELSE IF m.fuse # 1 THEN [Burn(m) EXCEPT !.disk[s] = sector]
  ELSE IF m.lands THEN [Failed(m) EXCEPT !.disk[s] = sector, !.lands = FALSE] ELSE Failed(m)
disk_initialize(m) ==
  IF m.fuse = 1 THEN [Failed(m) EXCEPT !.rc = "NOT_READY", !.ready = FALSE]
  ELSE [Burn(m) EXCEPT !.ready = TRUE]

-----------------------------------------------------------------------------
(* The window, the one sector the FATFS keeps.                              *)

\* The second copy of the FAT may fail unnoticed.
Mirror(m) ==
  IF Ok(m) /\ NFats = 2 /\ m.winsect \in FatBase .. FatBase + FSize - 1
  THEN Forgive(disk_write(m, m.winsect + FSize, m.win)) ELSE m

Cleaned(m) == IF Ok(m) THEN [m EXCEPT !.wflag = FALSE] ELSE m
sync_window(m) ==
  IF m.wflag THEN Mirror(Cleaned(disk_write(m, m.winsect, m.win))) ELSE m

Loaded(r, s) ==
  IF Ok(r) THEN [r EXCEPT !.winsect = s, !.win = r.val] ELSE [r EXCEPT !.winsect = NoSect]
LoadWindow(m, s) == IF Ok(m) THEN Loaded(disk_read(m, s), s) ELSE m
move_window(m, s) == IF ~Ok(m) \/ s = m.winsect THEN m ELSE LoadWindow(sync_window(m), s)

Dirty(m, i, cell) == IF Ok(m) THEN [m EXCEPT !.win[i] = cell, !.wflag = TRUE] ELSE m

\* The FSInfo goes to the card only when the allocation changed.
Info(m) == [FillWith(Zero) EXCEPT ![0] = [free |-> m.free, last |-> m.last]]
SyncInfo(m) ==
  IF ~Ok(m) \/ m.fsi # "dirty" THEN m
  ELSE Forgive(disk_write([m EXCEPT !.fsi = "clean", !.win = Info(m), !.winsect = VolBase + 1],
                          VolBase + 1, Info(m)))
sync_fs(m) == SyncInfo(sync_window(m))

AllocChanged(m) == [m EXCEPT !.fsi = IF @ = "off" THEN "off" ELSE "dirty"]

-----------------------------------------------------------------------------
(* The FAT and its chains.                                                  *)

clst2sect(c) == IF c \in Clusters THEN DataBase + CSize * (c - 2) ELSE 0

FatCell(w, c) == IF Ok(w) THEN Ret(w, w.win[c % SS].num) ELSE w
get_fat(m, c) ==
  IF ~Ok(m) THEN m ELSE IF c \notin Clusters THEN Err(m, "INT_ERR")
  ELSE FatCell(move_window(m, FatBase + c \div SS), c)

put_fat(m, c, v) ==
  IF ~Ok(m) THEN m ELSE IF c \notin Clusters THEN Err(m, "INT_ERR")
  ELSE Dirty(move_window(m, FatBase + c \div SS), c % SS, Num(v))

\* (mutant) counts a cluster free although the count is unknown
CountFreedUnknown(m) == IF Ok(m) THEN AllocChanged([m EXCEPT !.free = @ + 1]) ELSE m
CountFreed(m) ==
  IF Ok(m) /\ m.free < NFatEnt - 2 THEN AllocChanged([m EXCEPT !.free = @ + 1]) ELSE m

RECURSIVE FreeFrom(_, _)
FreeAt(g, c) == IF ~Ok(g) \/ g.val = 0 THEN g ELSE FreeFrom(CountFreed(put_fat(g, c, 0)), g.val)
FreeFrom(m, c) == IF ~Ok(m) \/ c >= NFatEnt THEN m ELSE FreeAt(get_fat(m, c), c)

remove_chain(m, c) == IF c \notin Clusters THEN Err(m, "INT_ERR") ELSE FreeFrom(m, c)

\* The search for a free cluster: from the one behind c, round to scl; 0 if none.
Behind(c) == IF c + 1 >= NFatEnt THEN 2 ELSE c + 1
RECURSIVE FreeCluster(_, _, _)
TryCluster(g, n, scl) ==
  IF ~Ok(g) THEN g ELSE IF g.val = 0 THEN Ret(g, n)
  ELSE IF n = scl THEN Ret(g, 0) ELSE FreeCluster(g, n, scl)
FreeCluster(m, c, scl) ==
  IF c + 1 >= NFatEnt /\ 2 > scl THEN Ret(m, 0)
  ELSE TryCluster(get_fat(m, Behind(c)), Behind(c), scl)

CountTaken(m) ==
  IF Ok(m) /\ m.free \in 1 .. NFatEnt - 2 THEN AllocChanged([m EXCEPT !.free = @ - 1]) ELSE m
Taken(m, n) == IF Ok(m) THEN CountTaken([m EXCEPT !.last = n, !.val = n]) ELSE m
Link(f, c) ==
  IF ~Ok(f) \/ f.val = 0 THEN f
  ELSE Taken(IF c = 0 THEN put_fat(f, f.val, EOC)
             ELSE put_fat(put_fat(f, f.val, EOC), c, f.val), f.val)

\* The cluster behind c when it is free, else the search from the last one taken.
Suggested(m) == IF m.last \in 1 .. NFatEnt - 1 THEN m.last ELSE 1
SearchFrom(m, scl) == FreeCluster(m, scl, scl)
Nearest(h, c) ==
  IF ~Ok(h) THEN h ELSE IF h.val = 0 THEN Ret(h, Behind(c))
  ELSE SearchFrom(h, IF h.last \in Clusters THEN h.last ELSE c)
Extend(g, c) ==
  IF ~Ok(g) THEN g ELSE IF g.val < 2 THEN Err(g, "INT_ERR")
  ELSE IF g.val < NFatEnt THEN g
  ELSE IF g.free = 0 THEN Ret(g, 0)
  ELSE Link(Nearest(get_fat(g, Behind(c)), c), c)

\* The cluster behind c, or the first of a new chain when c = 0; 0 if full.
create_chain(m, c) ==
  IF c # 0 THEN Extend(get_fat(m, c), c)
  ELSE IF m.free = 0 THEN Ret(m, 0) ELSE Link(SearchFrom(m, Suggested(m)), 0)

-----------------------------------------------------------------------------
(* Directories.  m.dp is the DIR in use.                                    *)

Entry(m) == m.win[m.dp.dptr % SS]
PutEntry(m, e) == Dirty(m, m.dp.dptr % SS, e)
Here(m) == move_window(m, m.dp.sect)

RECURSIVE ZeroFrom(_, _, _)
ZeroFrom(m, s, n) ==
  IF ~Ok(m) \/ n = 0 THEN m ELSE ZeroFrom(disk_write(m, s, FillWith(Zero)), s + 1, n - 1)
ClearWindow(m, s) == IF Ok(m) THEN [m EXCEPT !.winsect = s, !.win = FillWith(Zero)] ELSE m
dir_clear(m, c) == ZeroFrom(ClearWindow(sync_window(m), clst2sect(c)), clst2sect(c), CSize)

RECURSIVE Follow(_, _, _)
Onward(g, n) ==
  IF Ok(g) /\ g.val \notin Clusters THEN Err(g, "INT_ERR") ELSE Follow(g, g.val, n)
Follow(m, c, n) == IF ~Ok(m) \/ n = 0 THEN Ret(m, c) ELSE Onward(get_fat(m, c), n - 1)

AtEntry(f, ofs) ==
  IF ~Ok(f) THEN f ELSE IF f.val \notin Clusters THEN Err(f, "INT_ERR")
  ELSE [f EXCEPT !.dp.dptr = ofs, !.dp.clust = f.val,
                 !.dp.sect = clst2sect(f.val) + (ofs % (CSize * SS)) \div SS]
dir_sdi(m, ofs) ==
  IF ~Ok(m) THEN m
  ELSE AtEntry(Follow(m, IF m.dp.sclust = 0 THEN RootClst ELSE m.dp.sclust,
                      ofs \div (CSize * SS)), ofs)

EndOfTable(m) == Err([m EXCEPT !.dp.sect = 0], "NO_FILE")

\* A directory that grows is linked to its new cluster before the zeros are
\* there; when they never come the card is torn.
Zeroed(z, c) == [z EXCEPT !.val = c, !.torn = ~Ok(z)]
Stretched(c) ==
  IF ~Ok(c) THEN c ELSE IF c.val = 0 THEN Err(c, "DENIED") ELSE Zeroed(dir_clear(c, c.val), c.val)
NextCluster(g, stretch) ==
  IF ~Ok(g) THEN g ELSE IF g.val <= 1 THEN Err(g, "INT_ERR")
  ELSE IF g.val < NFatEnt THEN g
  ELSE IF ~stretch THEN EndOfTable(g) ELSE Stretched(create_chain(g, g.dp.clust))

Enter(c) ==
  IF Ok(c) THEN [c EXCEPT !.dp.clust = c.val, !.dp.sect = clst2sect(c.val)] ELSE c
Advance(m) == IF Ok(m) THEN [m EXCEPT !.dp.dptr = @ + 1] ELSE m
dir_next(m, stretch) ==
  IF ~Ok(m) THEN m
  ELSE IF m.dp.sect = 0 THEN Err(m, "NO_FILE")
  ELSE IF (m.dp.dptr + 1) % SS # 0 THEN Advance(m)
  ELSE IF (m.dp.dptr + 1) \div SS % CSize # 0 THEN Advance([m EXCEPT !.dp.sect = @ + 1])
  ELSE Advance(Enter(NextCluster(get_fat(m, m.dp.clust), stretch)))

RECURSIVE Reserve(_, _, _)
Run(w, n, have) == IF have = n THEN w ELSE Reserve(dir_next(w, TRUE), n, have)
\* (mutant) an entry in use does not break the run of free ones
ReserveScattered(w, n, got) ==
  IF Ok(w) THEN Run(w, n, IF Entry(w) \in {Deleted, Zero} THEN got + 1 ELSE got) ELSE w
ReserveHere(w, n, got) ==
  IF Ok(w) THEN Run(w, n, IF Entry(w) \in {Deleted, Zero} THEN got + 1 ELSE 0) ELSE w
Reserve(m, n, got) == ReserveHere(Here(m), n, got)

dir_alloc(m, n) ==
  IF Ok(m) THEN Turn(Reserve(dir_sdi(m, 0), n, 0), "NO_FILE", "DENIED") ELSE m

\* How far a set of long name entries matches: the order number wanted next.
NoLfn == 99
LfnSeen(e, ord, sum, name) ==
  LET o == IF e.last THEN e.ord ELSE ord
      s == IF e.last THEN e.sum ELSE sum
  IN [ord |-> IF e.ord = o /\ e.sum = s /\ e.name = name THEN o - 1 ELSE NoLfn, sum |-> s]

\* The entry of name (its long name, or its short name fn); noLfn: fn only.
RECURSIVE Find(_, _, _, _)
FindNext(w, noLfn, seen, blk) ==
  Find(dir_next([w EXCEPT !.dp.blk = blk], FALSE), noLfn, seen.ord, seen.sum)
FindHere(w, noLfn, ord, sum) ==
  LET e == Entry(w)
      lfn == IsLfn(e) /\ e # Deleted /\ e # Zero
      hit == \/ ord = 0 /\ sum = e.sfn
             \/ (noLfn \/ w.dp.name \notin Lossy) /\ e.sfn = w.dp.fn
  IN IF ~Ok(w) THEN w
     ELSE IF e = Zero THEN Err(w, "NO_FILE")
     ELSE IF e # Deleted /\ ~lfn /\ hit THEN [w EXCEPT !.dp.attr = e.attr]
     ELSE FindNext(w, noLfn,
            IF lfn /\ noLfn THEN [ord |-> ord, sum |-> sum]
            ELSE IF lfn THEN LfnSeen(e, ord, sum, w.dp.name) ELSE [ord |-> NoLfn, sum |-> sum],
            IF ~lfn THEN NoOfs ELSE IF ~noLfn /\ e.last THEN w.dp.dptr ELSE w.dp.blk)
Find(m, noLfn, ord, sum) == FindHere(Here(m), noLfn, ord, sum)

dir_find(m, noLfn) ==
  Find(dir_sdi([m EXCEPT !.dp.blk = NoOfs], 0), noLfn, NoLfn, Sfn[m.dp.name])

\* The next real entry; m.val is its long name, or "" when it has none.
RECURSIVE Read(_, _, _, _)
ReadOn(d, seen, name) ==
  IF Ok(d) THEN Read(d, seen.ord, seen.sum, name) ELSE [d EXCEPT !.dp.sect = 0]
ReadHere(w, ord, sum, name) ==
  LET e == Entry(w)
      lfn == IsLfn(e) /\ e # Deleted /\ e # Zero
      long == ord = 0 /\ sum = e.sfn
  IN IF ~Ok(w) THEN [w EXCEPT !.dp.sect = 0]
     ELSE IF e = Zero THEN EndOfTable(w)
     ELSE IF lfn \/ e = Deleted \/ e.attr = "dot"
     THEN ReadOn(dir_next([w EXCEPT !.dp.blk = IF lfn /\ e.last THEN w.dp.dptr ELSE @], FALSE),
                 IF lfn THEN LfnSeen(e, ord, sum, IF e.last THEN e.name ELSE name)
                 ELSE [ord |-> NoLfn, sum |-> sum],
                 IF lfn THEN e.name ELSE name)
     ELSE [w EXCEPT !.val = IF long THEN name ELSE "", !.dp.blk = IF long THEN @ ELSE NoOfs]
Read(m, ord, sum, name) ==
  IF Ok(m) /\ m.dp.sect = 0 THEN Err(m, "NO_FILE") ELSE ReadHere(Here(m), ord, sum, name)

dir_read(m) == IF Ok(m) THEN Read(m, NoLfn, [base |-> "", n |-> 0], "") ELSE m

gen_numname(s, n) == [s EXCEPT !.n = n]

\* The first number whose short name is not taken.
RECURSIVE NumberedFrom(_, _)
NextNumber(d, n) ==
  IF d.rc = "NO_FILE" THEN Forgive(d) ELSE IF Ok(d) THEN NumberedFrom(d, n) ELSE d
NumberedFrom(m, n) ==
  IF n = 100 THEN Err(m, "DENIED")
  ELSE NextNumber(dir_find([m EXCEPT !.dp.fn = gen_numname(Sfn[m.dp.name], n)], TRUE), n + 1)

RECURSIVE PutLfns(_, _, _)
PutLfn(m, e) == dir_next(PutEntry(Here(m), e), FALSE)
\* (mutant) no entry is marked as the last of the name
PutLfnsUnmarked(m, n, first) ==
  IF ~Ok(m) \/ n = 0 THEN m
  ELSE PutLfns(PutLfn(m, LfnEntry(m.dp.name, n, FALSE, m.dp.fn)), n - 1, FALSE)
PutLfns(m, n, first) ==
  IF ~Ok(m) \/ n = 0 THEN m
  ELSE PutLfns(PutLfn(m, LfnEntry(m.dp.name, n, first, m.dp.fn)), n - 1, FALSE)

Name(a, n) == IF n = 0 THEN a ELSE PutLfns(dir_sdi(a, a.dp.dptr - n), n, TRUE)
PutSfn(m) == PutEntry(Here(m), SfnEntry(m.dp.fn, "file", 0, 0))
Numbered(m) == IF Ok(m) /\ m.dp.name \in Lossy THEN NumberedFrom(m, 1) ELSE m
dir_register(m) ==
  PutSfn(Name(dir_alloc(Numbered(m), LfnEnts[m.dp.name] + 1), LfnEnts[m.dp.name]))

RECURSIVE RemoveTo(_, _)
Removed(p, last) ==
  IF ~Ok(p) \/ p.dp.dptr >= last THEN p ELSE RemoveTo(dir_next(p, FALSE), last)
RemoveTo(m, last) == Removed(PutEntry(Here(m), Deleted), last)

dir_remove(m) ==
  IF ~Ok(m) THEN m
  ELSE Turn(RemoveTo(IF m.dp.blk = NoOfs THEN m ELSE dir_sdi(m, m.dp.blk), m.dp.dptr),
            "NO_FILE", "INT_ERR")

create_name(m, name) == [m EXCEPT !.dp.name = name, !.dp.fn = Sfn[name]]

RECURSIVE Walk(_, _)
Walked(d, path) ==
  IF Len(path) = 1 THEN d
  ELSE IF ~Ok(d) THEN Turn(d, "NO_FILE", "NO_PATH")
  ELSE IF d.dp.attr # "dir" THEN Err(d, "NO_PATH")
  ELSE Walk([d EXCEPT !.dp.sclust = Entry(d).clst], Tail(path))
Walk(m, path) == Walked(dir_find(create_name(m, Head(path)), FALSE), path)

follow_path(m, path) ==
  IF path = <<>> THEN dir_sdi([m EXCEPT !.dp.sclust = 0], 0)
  ELSE Walk([m EXCEPT !.dp.sclust = 0], path)

-----------------------------------------------------------------------------
(* The volume.                                                              *)

\* A window that was dirty is dropped.
check_fs(m, s) ==
  IF Ok(m) THEN move_window([m EXCEPT !.wflag = FALSE, !.winsect = NoSect], s) ELSE m

Partition(b) ==
  IF Ok(b) /\ "part" \in DOMAIN b.win[0] THEN check_fs(b, b.win[0].part) ELSE b
find_volume(m) == Partition(check_fs(m, 0))

\* A volume that has no readable FSInfo is mounted without its counts.
WithInfo(i) ==
  IF Ok(i) THEN [i EXCEPT !.fsi = "clean", !.free = i.win[0].free, !.last = i.win[0].last]
  ELSE [Forgive(i) EXCEPT !.fsi = "off", !.free = Unknown, !.last = Unknown]
LoadInfo(m) == WithInfo(move_window(m, VolBase + 1))

\* (mutant) a mount keeps the number of the one before
MountedSameId(v) == IF Ok(v) THEN [LoadInfo(v) EXCEPT !.mounted = TRUE, !.id = 1] ELSE v
Mounted(v) == IF Ok(v) THEN [LoadInfo(v) EXCEPT !.mounted = TRUE, !.id = @ + 1] ELSE v
mount_volume(m) ==
  IF ~Ok(m) THEN m
  ELSE IF ~m.reg THEN Err(m, "NOT_ENABLED")
  ELSE IF m.mounted /\ m.ready THEN m
  ELSE Mounted(find_volume(disk_initialize([m EXCEPT !.mounted = FALSE])))

f_mount(m) == mount_volume([m EXCEPT !.reg = TRUE, !.mounted = FALSE])
f_unmount(m) == [m EXCEPT !.reg = FALSE, !.mounted = FALSE]

validate(m) ==
  IF m.fp.fs /\ m.mounted /\ m.fp.id = m.id /\ m.ready THEN m ELSE Err(m, "INVALID_OBJECT")

\* What every call with a path begins with.
Resolve(m, path) == follow_path(mount_volume(m), path)

-----------------------------------------------------------------------------
(* Files.  m.fp is the FIL in use.                                          *)

ClosedFil == [fs |-> FALSE, id |-> 0, write |-> FALSE, err |-> "OK", sclust |-> 0, size |-> 0,
              fptr |-> 0, clust |-> 0, sect |-> 0, buf |-> FillWith(Zero),
              dirty |-> FALSE, modified |-> FALSE, dsect |-> 0, dcell |-> 0]

Reset(m) == PutEntry(m, [Entry(m) EXCEPT !.attr = "file", !.clst = 0, !.size = 0])
Freed(r, c, s) == IF Ok(r) THEN [move_window(r, s) EXCEPT !.last = c - 1] ELSE r
\* (mutant) the chain first, then the entry
TruncateLate(m) ==
  IF ~Ok(m) \/ Entry(m).clst = 0 THEN Reset(m)
  ELSE Reset(Freed(remove_chain(m, Entry(m).clst), Entry(m).clst, m.winsect))
\* FA_CREATE_ALWAYS on a file that is there: its entry first, then its chain.
Truncate(m) ==
  IF ~Ok(m) \/ Entry(m).clst = 0 THEN Reset(m)
  ELSE Freed(remove_chain(Reset(m), Entry(m).clst), Entry(m).clst, m.winsect)

NoName(p, path) == IF path = <<>> THEN Err(p, "INVALID_NAME") ELSE p
OpenFound(q, create) ==
  IF Ok(q) /\ q.dp.attr = "dir" THEN Err(q, IF create THEN "DENIED" ELSE "NO_FILE")
  ELSE IF ~create THEN q
  ELSE Truncate(IF q.rc = "NO_FILE" THEN dir_register(Forgive(q)) ELSE q)
InitFil(r, create) ==
  IF ~Ok(r) THEN [r EXCEPT !.fp.fs = FALSE]
  ELSE [r EXCEPT !.fp = [ClosedFil EXCEPT
          !.fs = TRUE, !.id = r.id, !.write = create, !.modified = create,
          !.sclust = Entry(r).clst, !.size = Entry(r).size,
          !.dsect = r.winsect, !.dcell = r.dp.dptr % SS]]
f_open(m, path, create) == InitFil(OpenFound(NoName(Resolve(m, path), path), create), create)

Abort(m) == IF Ok(m) THEN m ELSE [m EXCEPT !.fp.err = m.rc]

Flushed(m) == IF Ok(m) THEN [m EXCEPT !.fp.dirty = FALSE] ELSE m
FlushBuf(m) == IF m.fp.dirty THEN Flushed(disk_write(m, m.fp.sect, m.fp.buf)) ELSE m
Filled(m) == IF Ok(m) THEN [m EXCEPT !.fp.buf = m.val] ELSE m
FillBuf(m, s) == Filled(disk_read(m, s))
AtSect(m, s) == IF Ok(m) THEN [m EXCEPT !.fp.sect = s] ELSE m

CSect(m) == (m.fp.fptr \div SS) % CSize
DataSect(m) == clst2sect(m.fp.clust) + CSect(m)
Least(a, b) == IF a < b THEN a ELSE b
Room(m) == SS - (m.fp.fptr % SS)

\* The cluster of the position, on a sector boundary.
ToCluster(c) ==
  IF Ok(c) /\ c.val \notin Clusters THEN Err(c, "INT_ERR")
  ELSE IF Ok(c) THEN [c EXCEPT !.fp.clust = c.val] ELSE c
ReadCluster(m) ==
  IF ~Ok(m) \/ CSect(m) # 0 THEN m
  ELSE ToCluster(IF m.fp.fptr = 0 THEN Ret(m, m.fp.sclust) ELSE get_fat(m, m.fp.clust))

\* f_read appends what it read to m.data.
Took(m, cells) == IF Ok(m) THEN [m EXCEPT !.data = @ \o cells, !.fp.fptr = @ + Len(cells)] ELSE m
CellsOf(sector, from, n) == [i \in 1 .. n |-> sector[from + i - 1]]
TookSector(r) ==
  Took(r, CellsOf(IF r.fp.dirty /\ r.fp.sect = DataSect(r) THEN r.fp.buf ELSE r.val, 0, SS))

RECURSIVE ReadLoop(_, _)
ReadPart(m, n) == ReadLoop(Took(m, CellsOf(m.fp.buf, m.fp.fptr % SS, Least(Room(m), n))),
                           n - Least(Room(m), n))
BufFor(c, s) == IF c.fp.sect = s THEN c ELSE AtSect(FillBuf(FlushBuf(c), s), s)
ReadAt(c, n) ==
  IF ~Ok(c) THEN c
  ELSE IF n >= SS THEN ReadLoop(TookSector(disk_read(c, DataSect(c))), n - SS)
  ELSE ReadPart(BufFor(c, DataSect(c)), n)
ReadLoop(m, n) ==
  IF ~Ok(m) \/ n = 0 THEN m
  ELSE IF m.fp.fptr % SS # 0 THEN ReadPart(m, n) ELSE ReadAt(ReadCluster(m), n)

Sound(v) == Err(v, v.fp.err)
Usable(m) == Sound(validate(m))

ReadFrom(v, n) ==
  IF ~Ok(v) THEN v ELSE IF v.fp.write THEN Err(v, "DENIED")
  ELSE Abort(ReadLoop(v, Least(n, v.fp.size - v.fp.fptr)))
f_read(m, n) == ReadFrom(Usable([m EXCEPT !.data = <<>>]), n)

\* The cluster to write to; "FULL" when there is none.
WriteTo(c) ==
  IF ~Ok(c) THEN c ELSE IF c.val = 0 THEN Err(c, "FULL")
  ELSE [c EXCEPT !.fp.clust = c.val, !.fp.sclust = IF @ = 0 THEN c.val ELSE @]
WriteCluster(m) ==
  IF ~Ok(m) \/ CSect(m) # 0 THEN m
  ELSE WriteTo(IF m.fp.fptr # 0 THEN create_chain(m, m.fp.clust)
               ELSE IF m.fp.sclust = 0 THEN create_chain(m, 0) ELSE Ret(m, m.fp.sclust))

Wrote(m, n) ==
  IF ~Ok(m) THEN m
  ELSE [m EXCEPT !.cnt = @ + n, !.fp.fptr = @ + n,
                 !.fp.size = IF m.fp.fptr + n > @ THEN m.fp.fptr + n ELSE @]
Patched(buf, at, data, k) ==
  [i \in 0 .. SS - 1 |-> IF i \in at .. at + k - 1 THEN data[i - at + 1] ELSE buf[i]]
Patch(m, data, k) ==
  IF ~Ok(m) THEN m
  ELSE [m EXCEPT !.fp.buf = Patched(@, m.fp.fptr % SS, data, k), !.fp.dirty = TRUE]
SectorOf(data) == [i \in 0 .. SS - 1 |-> data[i + 1]]
Direct(w, sector) ==
  IF Ok(w) /\ w.fp.sect = DataSect(w) THEN [w EXCEPT !.fp.buf = sector, !.fp.dirty = FALSE] ELSE w

RECURSIVE WriteLoop(_, _)
WritePart(m, data) ==
  WriteLoop(Wrote(Patch(m, data, Least(Room(m), Len(data))), Least(Room(m), Len(data))),
            SubSeq(data, Least(Room(m), Len(data)) + 1, Len(data)))
Prefill(c) ==
  AtSect(IF c.fp.sect # DataSect(c) /\ c.fp.fptr < c.fp.size THEN FillBuf(c, DataSect(c)) ELSE c,
         DataSect(c))
WriteAt(c, data) ==
  IF ~Ok(c) THEN c
  ELSE IF Len(data) < SS THEN WritePart(Prefill(c), data)
  ELSE WriteLoop(Wrote(Direct(disk_write(c, DataSect(c), SectorOf(data)), SectorOf(data)), SS),
                 SubSeq(data, SS + 1, Len(data)))
WriteLoop(m, data) ==
  IF ~Ok(m) \/ data = <<>> THEN m
  ELSE IF m.fp.fptr % SS # 0 THEN WritePart(m, data)
  ELSE WriteAt(FlushBuf(WriteCluster(m)), data)

\* A full card ends the call with what could be written, and success.
EndWrite(w) ==
  IF w.rc \in {"OK", "FULL"} THEN [Forgive(w) EXCEPT !.fp.modified = TRUE] ELSE Abort(w)
WriteInto(v, data) ==
  IF ~Ok(v) THEN v ELSE IF v.fp.write THEN EndWrite(WriteLoop(v, data)) ELSE Err(v, "DENIED")
f_write(m, data) == WriteInto(Usable([m EXCEPT !.cnt = 0]), data)

\* The entry is written behind the data and the FAT.  FA_MODIFIED is cleared
\* even when the entry does not reach the card.
Update(w) ==
  Dirty(w, w.fp.dcell, [w.win[w.fp.dcell] EXCEPT !.attr = "file", !.clst = w.fp.sclust,
                                                 !.size = w.fp.size])
SyncEntry(w) == IF Ok(w) THEN [sync_fs(Update(w)) EXCEPT !.fp.modified = FALSE] ELSE w
SyncFil(v) ==
  IF Ok(v) /\ v.fp.modified THEN SyncEntry(move_window(FlushBuf(v), v.fp.dsect)) ELSE v
f_sync(m) == SyncFil(validate(m))

Close(v) == IF Ok(v) THEN [v EXCEPT !.fp.fs = FALSE] ELSE v
f_close(m) == Close(validate(f_sync(m)))

\* Seeking in a file opened for reading.
ByteOf(x, ofs, s) ==
  IF ~Ok(x) THEN x
  ELSE IF ofs % SS = 0 THEN [x EXCEPT !.fp.clust = x.val, !.fp.fptr = ofs]
  ELSE BufFor([x EXCEPT !.fp.clust = x.val, !.fp.fptr = ofs], s)
\* (mutant) the sector of the new position is not read
SoughtUnread(x, ofs, inside) ==
  Abort(IF Ok(x) THEN [x EXCEPT !.fp.clust = x.val, !.fp.fptr = ofs] ELSE x)
Sought(x, ofs, inside) == Abort(ByteOf(x, ofs, clst2sect(x.val) + inside \div SS))

Bcs == CSize * SS
SeekTo(v, ofs) ==
  LET at    == v.fp.fptr
      on    == at > 0 /\ ofs > 0 /\ (ofs - 1) \div Bcs >= (at - 1) \div Bcs
      from  == IF on THEN ((at - 1) \div Bcs) * Bcs ELSE 0
      links == (ofs - from - 1) \div Bcs
  IN IF ~Ok(v) THEN v
     ELSE IF ofs = 0 THEN [v EXCEPT !.fp.fptr = 0]
     ELSE Sought(Follow(v, IF on THEN v.fp.clust ELSE v.fp.sclust, links), ofs,
                 ofs - from - links * Bcs)
f_lseek(m, to) == SeekTo(Usable(m), Least(to, m.fp.size))

-----------------------------------------------------------------------------
(* Directories and names.                                                   *)

Within(p, path) ==
  IF ~Ok(p) THEN Turn(p, "NO_FILE", "NO_PATH") ELSE IF path = <<>> THEN p
  ELSE IF p.dp.attr # "dir" THEN Err(p, "NO_PATH")
  ELSE dir_sdi([p EXCEPT !.dp.sclust = Entry(p).clst], 0)
f_opendir(m, path) == Within(Resolve(m, path), path)

\* m.data gets the entry; nothing at the end of the directory.
Shown(n, long, e) == [Turn(n, "NO_FILE", "OK") EXCEPT !.data = <<[long |-> long, entry |-> e]>>]
Listed(r) ==
  IF Ok(r) THEN Shown(dir_next(r, FALSE), r.val, Entry(r))
  ELSE [Turn(r, "NO_FILE", "OK") EXCEPT !.data = <<>>]
f_readdir(m) == Listed(dir_read(m))

Stat(x) == IF Ok(x) THEN [x EXCEPT !.data = <<[long |-> "", entry |-> Entry(x)]>>] ELSE x
f_stat(m, path) == Stat(NoName(Resolve(m, path), path))

\* A directory goes only when it holds no entry.
NoEntry(d, dp) ==
  IF d.rc = "NO_FILE" THEN [Forgive(d) EXCEPT !.dp = dp] ELSE Err(d, "DENIED")
Empty(m) == NoEntry(dir_read(dir_sdi([m EXCEPT !.dp.sclust = Entry(m).clst], 0)), m.dp)

Unlink(p) ==
  IF ~Ok(p) THEN p
  ELSE IF Entry(p).clst = 0 THEN sync_fs(dir_remove(p))
  ELSE sync_fs(remove_chain(dir_remove(IF p.dp.attr = "dir" THEN Empty(p) ELSE p), Entry(p).clst))
f_unlink(m, path) == Unlink(NoName(Resolve(m, path), path))

Dots(m, c, up) ==
  Dirty(Dirty(m, 0, SfnEntry([base |-> ".", n |-> 0], "dot", c, 0)),
        1, SfnEntry([base |-> "..", n |-> 0], "dot", up, 0))
Registered(r, c) ==
  IF Ok(r) THEN sync_fs(PutEntry(r, [Entry(r) EXCEPT !.attr = "dir", !.clst = c]))
  ELSE [remove_chain(Forgive(r), c) EXCEPT !.rc = r.rc]
NewDir(c, up) ==
  IF ~Ok(c) THEN c ELSE IF c.val = 0 THEN Err(c, "DENIED")
  ELSE Registered(dir_register(Dots(dir_clear(c, c.val), c.val, up)), c.val)
MakeDir(p, path) ==
  IF Ok(p) THEN Err(p, IF path = <<>> THEN "INVALID_NAME" ELSE "EXIST")
  ELSE IF p.rc # "NO_FILE" THEN p
  ELSE NewDir(create_chain(Forgive(p), 0), p.dp.sclust)
f_mkdir(m, path) == MakeDir(Resolve(m, path), path)
=============================================================================
