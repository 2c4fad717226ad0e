--------------------------- MODULE MeterfsMigrate ---------------------------
(***************************************************************************)
(* The meterfs migration tool: it rewrites a partition of the old format   *)
(* into the new one in place.  Files move up by two sectors to make room   *)
(* for reserved ones, files that need more sectors grow, both copies of    *)
(* the header are rewritten, and every record gets a checksum.             *)
(*                                                                         *)
(* The partition is an array of words, W to a sector; a record of the old  *)
(* format is an id and its data, of the new one an id, a checksum and its  *)
(* data.  Each phase prepares the list of its sector operations, todo, and *)
(* every operation can fail, which ends the program where it stands.       *)
(***************************************************************************)
EXTENDS Integers, Sequences, SequencesExt, FiniteSetsExt

CONSTANTS
  W,          \* words in a sector
  NSECT,      \* sectors that can be accessed
  Layouts     \* old partitions: the newer header, the numbers no and other of the
              \* headers (NVALID: erased), and the files, see Table

HEADER_SECTOR_CNT == 2
FirstSector == 2 * HEADER_SECTOR_CNT

NVALID == -1

File == [sectorcnt : Nat, records : Nat, recordsz : Nat, wrote : Nat, kept : Nat]

(* The sectors of the files before file i.                                 *)
Before(fs, i) ==
  LET sum[k \in 0 .. Len(fs)] == IF k = 0 THEN 0 ELSE sum[k - 1] + fs[k].sectorcnt
  IN  sum[i - 1]

(* The old file system was on this device.                                 *)
ASSUME MigrateAssumption ==
  /\ W \in Nat \ {0} /\ NSECT \in Nat
  /\ \A l \in Layouts : /\ l.no \in Int /\ l.other \in Int /\ l.files \in Seq(File)
                        /\ FirstSector + Before(l.files, Len(l.files) + 1) <= NSECT

VARIABLES
  layout,     \* history: the partition before
  part,       \* the sectors, by word address
  hdr,        \* the two copies of the header: no, magic, and the file headers
  oldno,      \* oldheader.id.no
  files,      \* files[]
  freeSector, \* common.freeSector
  id,         \* the file a loop of main is at
  todo,       \* operations the current phase has still to do
  phase

migVars == <<layout, part, hdr, oldno, files, freeSector, id, todo, phase>>

(* Words: the k-th of record n of file f (0 is the id), its checksum, and  *)
(* an erased one.                                                          *)
Word(f, n, k) == <<f, n, k>>
Sum(f, n) == <<f, n, -1>>
Blank == <<0, 0, 0>>
IsId(w) == w # Blank /\ w[3] = 0

OldRec(f, n, size) == [k \in 1 .. size + 1 |-> Word(f, n, k - 1)]
NewRec(f, n, size) == [k \in 1 .. size + 2 |-> IF k = 1 THEN Word(f, n, 0)
                                              ELSE IF k = 2 THEN Sum(f, n) ELSE Word(f, n, k - 2)]

-----------------------------------------------------------------------------
(* What the old driver left: files one after the other, each a ring of     *)
(* records; wrote counts the records ever written, kept those still there. *)
Table(fs) ==
  [i \in 1 .. Len(fs) |->
    [sector |-> FirstSector + Before(fs, i), sectorcnt |-> fs[i].sectorcnt,
     records |-> fs[i].records, recordsz |-> fs[i].recordsz]]

OldMax(f) == (f.sectorcnt * W) \div (f.recordsz + 1)

OldRecords(fs, i) == {n \in 1 .. fs[i].wrote : n > fs[i].wrote - fs[i].kept}

OldAddr(f, pos) == f.sector * W + pos * (f.recordsz + 1)

OldPartition(fs) ==
  [a \in 0 .. NSECT * W - 1 |->
    LET at == {w \in UNION {{i} \X OldRecords(fs, i) \X (0 .. fs[i].recordsz) : i \in 1 .. Len(fs)} :
                 a = OldAddr(Table(fs)[w[1]], w[2] % OldMax(fs[w[1]])) + w[3]}
    IN  IF at = {} THEN Blank ELSE CHOOSE w \in at : TRUE]

MigInit ==
  /\ layout \in Layouts
  /\ part = OldPartition(layout.files)
  /\ hdr = [h \in 0 .. 1 |-> [no |-> IF h = layout.newer THEN layout.no ELSE layout.other, magic |-> "old",
                              files |-> Table(layout.files)]]
  /\ oldno = 0 /\ files = <<>> /\ freeSector = 0 /\ id = 0
  /\ todo = <<>> /\ phase = "start"

-----------------------------------------------------------------------------
(* Operations on the partition.                                            *)
CopyOp(dest, src) == [op |-> "copy", to |-> dest, from |-> src]
EraseOp(s) == [op |-> "erase", to |-> s, from |-> s]

Sector(a) == a \div W

Put(addr, ws) ==
  [a \in DOMAIN part |-> IF addr <= a /\ a < addr + Len(ws) THEN ws[a - addr + 1] ELSE part[a]]

copySector(o) ==
  [a \in DOMAIN part |-> IF Sector(a) = o.to THEN part[(o.from * W) + (a % W)] ELSE part[a]]

eraseSector(o) == [a \in DOMAIN part |-> IF Sector(a) = o.to THEN Blank ELSE part[a]]

(* One sector too many, from the last one down.                            *)
moveSectors_up(from, nsectors, diff) ==
  [k \in 1 .. nsectors + 1 |-> CopyOp(from + k - 1 + diff, from + k - 1)]

moveSectors(from, nsectors, diff) ==
  [k \in 1 .. nsectors + 1 |-> CopyOp(from + nsectors + 1 - k + diff, from + nsectors + 1 - k)]

minSectorCnt(f) == ((f.records * (f.recordsz + 2) + W - 1) \div W) + 1

(* realocateFile: the n files above move up, the last one first, and the   *)
(* last new sector is erased.                                              *)
Growth(f) == IF minSectorCnt(f) > f.sectorcnt THEN minSectorCnt(f) - f.sectorcnt ELSE 0

moveFiles(n, diff) ==
  LET moved[k \in 0 .. n] ==
        IF k = 0 THEN <<>>
        ELSE LET f == files[Len(files) + 1 - k] IN moved[k - 1] \o moveSectors(f.sector, f.sectorcnt, diff)
  IN  moved[n]

realocateOps(i) ==
  LET diff == Growth(files[i])
  IN  moveFiles(Len(files) - i, diff)
      \o [k \in 1 .. diff |-> EraseOp(files[i].sector + files[i].sectorcnt - 1 + diff)]

realocated(i) ==
  LET diff == Growth(files[i])
  IN  [j \in 1 .. Len(files) |-> IF j < i THEN files[j]
                                 ELSE IF j = i THEN [files[j] EXCEPT !.sectorcnt = @ + diff]
                                 ELSE [files[j] EXCEPT !.sector = @ + diff]]

(* updateHeader: each copy is a header, then a header for each file.       *)
HeaderOps_secondFirst ==
  [k \in 1 .. 2 * (Len(files) + 1) |->
    [op |-> "header", to |-> 1 - ((k - 1) \div (Len(files) + 1)), from |-> (k - 1) % (Len(files) + 1)]]

HeaderOps ==
  [k \in 1 .. 2 * (Len(files) + 1) |->
    [op |-> "header", to |-> (k - 1) \div (Len(files) + 1), from |-> (k - 1) % (Len(files) + 1)]]

headerWrite(o) ==
  IF o.from = 0
  THEN [hdr EXCEPT ![o.to].magic = "new", ![o.to].no = oldno]
  ELSE [hdr EXCEPT ![o.to].files[o.from] = files[o.from]]

(* updateRecords: from the newest record back to the first one to keep.    *)
IdAt(f, pos) == part[OldAddr(f, pos)]

Latest(f) ==
  LET used == {p \in 0 .. OldMax(f) - 1 : IsId(IdAt(f, p))}
  IN  CHOOSE p \in used : /\ \A q \in used : IdAt(f, q)[2] <= IdAt(f, p)[2]
                          /\ \A q \in used : IdAt(f, q)[2] = IdAt(f, p)[2] => p <= q

(* How many records there are from the first one to the newest.            *)
Distance(f, last) ==
  LET Back(k) == IdAt(f, (last - k + OldMax(f)) % OldMax(f))
      stop    == {k \in 1 .. OldMax(f) - 1 :
                    ~IsId(Back(k)) \/ IdAt(f, last)[2] - Back(k)[2] = f.records - 1}
  IN  IF f.records = 1 \/ stop = {} THEN 1 ELSE Min(stop)

RecordOps(f, last, n) ==
  [i \in 1 .. IF n < f.records THEN n ELSE f.records |->
    [op |-> "record", to |-> i - 1, from |-> (last - n + i + OldMax(f)) % OldMax(f)]]

updateOps_noCopy(f) ==
  LET last   == Latest(f)
      needed == (f.records * (f.recordsz + 2) + W - 1) \div W
  IN  IF \A p \in 0 .. OldMax(f) - 1 : ~IsId(IdAt(f, p)) THEN <<>>
      ELSE [k \in 1 .. f.sectorcnt |-> EraseOp(f.sector + k - 1)]
           \o [k \in 1 .. needed |-> EraseOp(freeSector + k - 1)]
           \o RecordOps(f, last, Distance(f, last))
           \o [k \in 1 .. needed |-> CopyOp(f.sector + k - 1, freeSector + k - 1)]

updateOps(f) ==
  LET last   == Latest(f)
      needed == (f.records * (f.recordsz + 2) + W - 1) \div W
  IN  IF \A p \in 0 .. OldMax(f) - 1 : ~IsId(IdAt(f, p)) THEN <<>>
      ELSE [k \in 1 .. needed |-> EraseOp(freeSector + k - 1)]
           \o RecordOps(f, last, Distance(f, last))
           \o [k \in 1 .. f.sectorcnt |-> EraseOp(f.sector + k - 1)]
           \o [k \in 1 .. needed |-> CopyOp(f.sector + k - 1, freeSector + k - 1)]

(* The converted record goes where RECORD_OFFS says, a stride that leaves  *)
(* no room for the checksum.                                               *)
writeRecord(o, f) ==
  LET old == OldAddr(f, o.from)
      w   == part[old]
  IN  Put(freeSector * W + o.to * (f.recordsz + 1),
          <<w, Sum(w[1], w[2])>> \o [k \in 1 .. f.recordsz |-> part[old + k]])

-----------------------------------------------------------------------------
(* main.                                                                   *)
getOldHeader_first == hdr[0]

getOldHeader == IF hdr[0].no < hdr[1].no THEN hdr[1] ELSE hdr[0]

MigStart ==
  /\ phase = "start"
  /\ oldno' = getOldHeader.no
  /\ IF getOldHeader.no = NVALID \/ getOldHeader.magic # "old"
     THEN phase' = "refused" /\ UNCHANGED <<files, todo>>
     ELSE IF getOldHeader.files = <<>>
     THEN phase' = "done" /\ UNCHANGED <<files, todo>>
     ELSE LET fs == getOldHeader.files
          IN  /\ files' = fs
              /\ todo' = moveSectors(fs[1].sector, Last(fs).sector + Last(fs).sectorcnt, 2)
              /\ phase' = "shift"
  /\ UNCHANGED <<layout, part, hdr, freeSector, id>>

Fits(o) == o.op = "header" \/ o.op = "record" \/ (o.to < NSECT /\ o.from < NSECT)

(* The next operation of the phase; past the end of the device it fails.   *)
MigOp ==
  /\ todo # <<>> /\ Fits(Head(todo))
  /\ LET o == Head(todo)
     IN  /\ part' = CASE o.op = "copy"   -> copySector(o)
                      [] o.op = "erase"  -> eraseSector(o)
                      [] o.op = "record" -> writeRecord(o, files[id - 1])
                      [] OTHER           -> part
         /\ hdr' = IF phase = "header" THEN headerWrite(o) ELSE hdr
  /\ todo' = Tail(todo)
  /\ UNCHANGED <<layout, oldno, files, freeSector, id, phase>>

MigFail ==
  /\ todo # <<>>
  /\ todo' = <<>> /\ phase' = "failed"
  /\ UNCHANGED <<layout, part, hdr, oldno, files, freeSector, id>>

PhaseOver(p) == phase = p /\ todo = <<>> /\ UNCHANGED <<layout, part, hdr, oldno>>

MigShifted ==
  /\ PhaseOver("shift")
  /\ files' = [i \in 1 .. Len(files) |-> [files[i] EXCEPT !.sector = @ + 2]]
  /\ todo' = <<EraseOp(FirstSector), EraseOp(FirstSector + 1)>>
  /\ phase' = "reserve"
  /\ UNCHANGED <<freeSector, id>>

MigReserved ==
  /\ PhaseOver("reserve")
  /\ id' = Len(files)
  /\ phase' = "grow"
  /\ UNCHANGED <<files, freeSector, todo>>

MigGrow ==
  /\ PhaseOver("grow")
  /\ IF id > 0
     THEN /\ todo' = realocateOps(id)
          /\ files' = realocated(id)
          /\ id' = id - 1
          /\ UNCHANGED phase
     ELSE /\ todo' = HeaderOps
          /\ phase' = "header"
          /\ UNCHANGED <<files, id>>
  /\ UNCHANGED freeSector

End == Last(files).sector + Last(files).sectorcnt

MigHeaders ==
  /\ PhaseOver("header")
  /\ freeSector' = End
  /\ id' = 1
  /\ phase' = "convert"
  /\ UNCHANGED <<files, todo>>

MigConvert ==
  /\ PhaseOver("convert")
  /\ IF id <= Len(files)
     THEN todo' = updateOps(files[id]) /\ id' = id + 1 /\ UNCHANGED phase
     ELSE phase' = "done" /\ UNCHANGED <<todo, id>>
  /\ UNCHANGED <<files, freeSector>>

MigOver == phase \in {"done", "failed", "refused"} /\ UNCHANGED migVars

MigNext == MigStart \/ MigOp \/ MigFail \/ MigShifted \/ MigReserved \/ MigGrow \/ MigHeaders
           \/ MigConvert \/ MigOver

MigSpec == MigInit /\ [][MigNext]_migVars

-----------------------------------------------------------------------------
Holds(addr, ws) ==
  addr + Len(ws) <= NSECT * W /\ \A k \in 1 .. Len(ws) : part[addr + k - 1] = ws[k]

Somewhere(ws) == \E addr \in 0 .. NSECT * W - Len(ws) : Holds(addr, ws)

OldSector(i, s) ==
  LET old == OldPartition(layout.files)
  IN  [k \in 1 .. W |-> old[(Table(layout.files)[i].sector + s) * W + k - 1]]

(* Moving the files never overwrites a sector that has not been copied: at *)
(* every moment every sector of every file is to be found, and once the    *)
(* headers are written each file is where its header says.                 *)
SectorsSurvive ==
  phase \in {"shift", "reserve", "grow", "header"} =>
    \A i \in 1 .. Len(layout.files) : \A s \in 0 .. layout.files[i].sectorcnt - 1 :
      IF phase = "header" THEN Holds((files[i].sector + s) * W, OldSector(i, s))
      ELSE \E t \in 0 .. NSECT - 1 : Holds(t * W, OldSector(i, s))

(* Converting a file never leaves its newest record without a copy, in the *)
(* old form or in the new one with its checksum: not when the temporary    *)
(* space is used again for the next file, nor when an operation fails.     *)
NewestSurvives ==
  phase = "convert" =>
    \A i \in 1 .. Len(layout.files) :
      LET f == layout.files[i]
      IN  f.wrote > 0 => \/ Somewhere(OldRec(i, f.wrote, f.recordsz))
                         \/ Somewhere(NewRec(i, f.wrote, f.recordsz))

(* Once a header says the file system is converted the tool refuses to     *)
(* convert it again, although it rewrites the two copies one at a time.    *)
NoSecondConversion == (\E h \in 0 .. 1 : hdr[h].magic = "new") => getOldHeader.magic = "new"

=============================================================================
