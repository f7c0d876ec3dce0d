-------------------------------- MODULE KvDb ---------------------------------
(***************************************************************************)
(* Database of util/kvdb: RocksDB behind an overlay of buffered writes and   *)
(* the buffer a flush is writing.  Threads call it at once; what each lock   *)
(* covers is one step, and a lock held over several steps is a guard of      *)
(* those that want it (DbFree, OverlayFree, FlushingFree, Unlocked).         *)
(*                                                                           *)
(* RocksDB is external: batches are atomic, writes may fail.  A process that *)
(* is lost finds what was written: no machine fails.  Restores are not       *)
(* started while one is running.                                             *)
(*                                                                           *)
(* Bounds: MaxWrites transactions, MaxLosses events that lose something.     *)
(***************************************************************************)
EXTENDS Naturals

CONSTANTS Thread, Key, Value, MaxCol, Nothing, Batch,
          Columns,   \* DatabaseConfig.columns
          MaxWrites, MaxLosses

VARIABLES
  open,      \* db is Some
  disk,      \* the directory at self.path: whether it is there, its columns
             \* 1 .. cols (cfs holds their handles), and its cells
  backup,    \* the directory backup_db
  overlay,   \* its length, and what has been buffered per cell
  flushing,  \* the same, of what is being flushed
  flag,      \* the Boolean inside flushing_lock
  pc,        \* per thread: what it does next, and the cell it reads
  reshaped,  \* history: a column was added or dropped, or a flush swapped the
             \* buffers while a restore was replacing them
  last,      \* history: the number of transactions accepted, and the last one
  losses     \* history: events after which a cell may read otherwise

vars == <<open, disk, backup, overlay, flushing, flag, pc, reshaped, last, losses>>

Blank == [form |-> "plain", v |-> Nothing]

\* What an entry becomes on disk, as it is or compressed.
Written(e, packed) ==
  [form |-> CASE e.do # "compressed" -> "plain"
              [] e.do = "compressed" /\ ~packed -> "compressible"
              [] e.do = "compressed" /\ packed -> "compressed",
   v |-> e.v]

\* What a get returns.  A buffer gives the value as it was put, the disk the bytes
\* that are stored: nothing decompresses them.
Visible ==
  [x \in (0 .. MaxCol) \X Key |->
     CASE ~open -> Blank
       [] open /\ overlay.at[x].do # "none" -> Written(overlay.at[x], FALSE)
       [] open /\ overlay.at[x].do = "none" /\ flushing.at[x].do # "none" ->
            Written(flushing.at[x], FALSE)
       [] open /\ overlay.at[x].do = "none" /\ flushing.at[x].do = "none" ->
            disk.at[x]]

Promised == INSTANCE KvMap WITH map <- Visible
Cell == Promised!Cell
Entry == Promised!Entry
Kept == Promised!Kept

ASSUME KvDbAssumption ==
  /\ MaxCol \in Nat /\ Columns \in 0 .. MaxCol
  /\ MaxWrites \in Nat /\ MaxLosses \in Nat
  /\ Nothing \notin Value
  /\ Batch \subseteq [Cell -> Entry]

Stored == [form : {"plain", "compressible", "compressed"}, v : Value \cup {Nothing}]
Directory == [is : BOOLEAN, cols : 0 .. MaxCol, at : [Cell -> Stored]]
Buffer == [width : 0 .. MaxCol + 1, at : [Cell -> Entry]]

NoDirectory == [is |-> FALSE, cols |-> Columns, at |-> [x \in Cell |-> Blank]]
NewDirectory == [NoDirectory EXCEPT !.is = TRUE]
Fresh(width) == [width |-> width, at |-> [x \in Cell |-> Kept]]
IsEmpty(buffer) == \A x \in Cell : buffer.at[x] = Kept

Over(at, b) == [x \in Cell |-> IF b[x] = Kept THEN at[x] ELSE b[x]]

\* A faulty variant, for the mutants: deletions are not written.
OnDiskPlain(at, b, flush) ==
  [x \in Cell |-> IF b[x].do \in {"none", "delete"} THEN at[x]
                  ELSE Written(b[x], ~(flush /\ x[1] = 0))]

\* A batch on disk.  A flush does not compress what goes to the column of None.
OnDisk(at, b, flush) ==
  [x \in Cell |-> IF b[x] = Kept THEN at[x]
                  ELSE Written(b[x], ~(flush /\ x[1] = 0))]

\* Whether each column of a batch is below n, the length of the Vec it indexes.
Within(b, n) == \A x \in Cell : b[x] # Kept => x[1] < n

-----------------------------------------------------------------------------
(* Locks                                                                    *)

Steps == {"idle", "swap", "write", "clear", "getflushing", "getdisk",
          "clearoverlay", "clearflushing", "rename", "replace", "install", "reopen",
          "newoverlay", "newflushing"}
InFlush(t) == pc[t].at \in {"swap", "write", "clear"}
InGet(t) == pc[t].at \in {"getflushing", "getdisk"}
InRestore(t) == pc[t].at # "idle" /\ ~InFlush(t) /\ ~InGet(t)

\* A faulty variant: get drops the overlay's lock when it has
\* looked there.
OverlayFreeEarly == \A t \in Thread : pc[t].at # "getdisk"

\* No thread holds db, overlay or flushing for reading, flushing_lock.
DbFree == \A t \in Thread : ~InGet(t) /\ pc[t].at \notin {"write", "clear"}
OverlayFree == \A t \in Thread : ~InGet(t)
FlushingFree == \A t \in Thread : pc[t].at # "getdisk"
Unlocked == \A t \in Thread : ~InFlush(t)

NoCell == <<0, Nothing>>
Idle == [at |-> "idle", x |-> NoCell]
Goes(t, step) == pc' = [pc EXCEPT ![t] = [at |-> step, x |-> NoCell]]
Loses(condition) == losses' = IF condition THEN losses + 1 ELSE losses

Accepted(b) == last' = <<last[1] + 1, b>>

Init ==
  /\ open = TRUE
  /\ disk = NewDirectory /\ backup = NoDirectory
  /\ overlay = Fresh(Columns + 1) /\ flushing = Fresh(Columns + 1)
  /\ flag = FALSE
  /\ pc = [t \in Thread |-> Idle]
  /\ reshaped = FALSE
  /\ last = <<0, [x \in Cell |-> Kept]>>
  /\ losses = 0

-----------------------------------------------------------------------------
(* Writing                                                                  *)

\* A thread that indexes past the overlay panics with a part of its batch done.
WriteBuffered(t, b) ==
  /\ pc[t].at = "idle" /\ OverlayFree /\ last[1] < MaxWrites
  /\ \/ /\ Within(b, overlay.width)
        /\ overlay' = [overlay EXCEPT !.at = Over(@, b)]
        /\ Accepted(b)
        /\ Loses(~open) /\ losses' <= MaxLosses
     \/ /\ ~Within(b, overlay.width) /\ losses < MaxLosses
        /\ \E done \in SUBSET {x \in Cell : x[1] < overlay.width} :
             overlay' = [overlay EXCEPT !.at =
                           [x \in Cell |-> IF x \in done /\ b[x] # Kept
                                           THEN b[x] ELSE @[x]]]
        /\ Loses(TRUE)
        /\ UNCHANGED last
  /\ UNCHANGED <<open, disk, backup, flushing, flag, pc, reshaped>>

\* write goes past the overlay, which then hides what it has written.
Write(t, b) ==
  /\ pc[t].at = "idle" /\ open /\ Within(b, disk.cols + 1) /\ last[1] < MaxWrites
  /\ disk' = [disk EXCEPT !.at = OnDisk(@, b, FALSE)]
  /\ Accepted(b)
  /\ Loses(\E x \in Cell : b[x] # Kept /\ (overlay.at[x] # Kept \/ flushing.at[x] # Kept))
  /\ losses' <= MaxLosses
  /\ UNCHANGED <<open, backup, overlay, flushing, flag, pc, reshaped>>

\* flush: a flag that is set was left by a thread that panicked.
Flush(t) ==
  /\ pc[t].at = "idle" /\ Unlocked /\ ~flag
  /\ flag' = TRUE
  /\ Goes(t, "swap")
  /\ UNCHANGED <<open, disk, backup, overlay, flushing, reshaped, last, losses>>

\* write_flushing_with_lock: what an earlier flush has failed to write comes
\* into the overlay, in front of what was buffered since.
Swap(t) ==
  /\ pc[t].at = "swap"
  /\ IF open
     THEN /\ OverlayFree /\ FlushingFree
          /\ overlay' = flushing /\ flushing' = overlay
          /\ Goes(t, "write")
          /\ Loses(~IsEmpty(flushing)) /\ losses' <= MaxLosses
          /\ reshaped' = (reshaped \/ \E u \in Thread : InRestore(u))
          /\ UNCHANGED flag
     ELSE /\ Goes(t, "idle") /\ flag' = FALSE
          /\ UNCHANGED <<overlay, flushing, reshaped, losses>>
  /\ UNCHANGED <<open, disk, backup, last>>

\* The batch is built and written.  Both are one step: what the batch is built from,
\* flushing, changes in the swap and the clearing of the same flush only, and in the last
\* step of a restore that began before it.
WriteFlushing(t) ==
  /\ pc[t].at = "write"
  /\ \/ /\ Within(flushing.at, disk.cols + 1)
        /\ disk' = [disk EXCEPT !.at = OnDisk(@, flushing.at, TRUE)]
        /\ Goes(t, "clear")
        /\ UNCHANGED flag
     \/ /\ Within(flushing.at, disk.cols + 1)      \* RocksDB returns an error
        /\ Goes(t, "idle") /\ flag' = FALSE
        /\ UNCHANGED disk
     \/ /\ ~Within(flushing.at, disk.cols + 1)     \* the thread panics
        /\ Goes(t, "idle")
        /\ UNCHANGED <<disk, flag>>
  /\ UNCHANGED <<open, backup, overlay, flushing, reshaped, last, losses>>

\* Shows what a write has written under the entries while they were flushed.
Clear(t) ==
  /\ pc[t].at = "clear" /\ FlushingFree
  /\ flushing' = Fresh(flushing.width)
  /\ Goes(t, "idle") /\ flag' = FALSE
  /\ Loses(OnDisk(disk.at, flushing.at, TRUE) # disk.at)
  /\ losses' <= MaxLosses
  /\ UNCHANGED <<open, disk, backup, overlay, reshaped, last>>

-----------------------------------------------------------------------------
(* Reading: get looks into overlay, flushing and the database, and keeps    *)
(* the locks.  A thread that finds what it looks for, or panics because a    *)
(* Vec is too short, is idle again.                                          *)

Get(t, x) ==
  /\ pc[t].at = "idle" /\ open
  /\ x[1] < overlay.width /\ overlay.at[x] = Kept
  /\ pc' = [pc EXCEPT ![t] = [at |-> "getflushing", x |-> x]]
  /\ UNCHANGED <<open, disk, backup, overlay, flushing, flag, reshaped, last, losses>>

GetFlushing(t) ==
  /\ pc[t].at = "getflushing"
  /\ pc' = [pc EXCEPT ![t] =
              IF pc[t].x[1] < flushing.width /\ flushing.at[pc[t].x] = Kept
              THEN [@ EXCEPT !.at = "getdisk"] ELSE Idle]
  /\ UNCHANGED <<open, disk, backup, overlay, flushing, flag, reshaped, last, losses>>

GetDisk(t) ==
  /\ pc[t].at = "getdisk"
  /\ Goes(t, "idle")
  /\ UNCHANGED <<open, disk, backup, overlay, flushing, flag, reshaped, last, losses>>

-----------------------------------------------------------------------------
(* Columns, restore, and the process being lost                             *)

AddColumn(t) ==
  /\ pc[t].at = "idle" /\ DbFree /\ open /\ disk.cols < MaxCol
  /\ disk' = [disk EXCEPT !.cols = @ + 1]
  /\ reshaped' = TRUE
  /\ UNCHANGED <<open, backup, overlay, flushing, flag, pc, last, losses>>

DropColumn(t) ==
  /\ pc[t].at = "idle" /\ DbFree /\ open /\ disk.cols > 0 /\ losses < MaxLosses
  /\ disk' = [disk EXCEPT !.cols = @ - 1,
                          !.at = [x \in Cell |-> IF x[1] = disk.cols THEN Blank ELSE @[x]]]
  /\ reshaped' = TRUE
  /\ Loses(TRUE)
  /\ UNCHANGED <<open, backup, overlay, flushing, flag, pc, last>>

\* close, in restore: from here to Reopen all keys read as missing.
Close(t) ==
  /\ pc[t].at = "idle" /\ DbFree /\ losses < MaxLosses
  /\ \A u \in Thread : ~InRestore(u)
  /\ open' = FALSE
  /\ Goes(t, "clearoverlay")
  /\ Loses(TRUE)
  /\ UNCHANGED <<disk, backup, overlay, flushing, flag, reshaped, last>>

ClearOverlay(t) ==
  /\ pc[t].at = "clearoverlay" /\ OverlayFree
  /\ overlay' = Fresh(0)
  /\ Goes(t, "clearflushing")
  /\ UNCHANGED <<open, disk, backup, flushing, flag, reshaped, last, losses>>

ClearFlushing(t) ==
  /\ pc[t].at = "clearflushing" /\ FlushingFree
  /\ flushing' = Fresh(0)
  /\ Goes(t, "rename")
  /\ UNCHANGED <<open, disk, backup, overlay, flag, reshaped, last, losses>>

\* The first rename fails if there is a backup, and has nothing to rename after
\* a restore that could not put one back.  A restore that fails leaves the
\* database closed.
Rename(t) ==
  /\ pc[t].at = "rename"
  /\ \/ /\ disk.is /\ ~backup.is
        /\ backup' = disk /\ disk' = NoDirectory
        /\ Goes(t, "replace")
     \/ /\ Goes(t, IF disk.is THEN "idle" ELSE "install")
        /\ UNCHANGED <<disk, backup>>
  /\ UNCHANGED <<open, overlay, flushing, flag, reshaped, last, losses>>

\* The second puts the new database, an empty one here, in place: the backup
\* is removed then, and goes back if it fails; both may fail in turn.
Replace(t) ==
  /\ pc[t].at = "replace"
  /\ \/ /\ disk' = NewDirectory
        /\ \/ backup' = NoDirectory /\ Goes(t, "reopen")
           \/ UNCHANGED backup /\ Goes(t, "idle")
     \/ /\ \/ disk' = backup /\ backup' = NoDirectory
           \/ UNCHANGED <<disk, backup>>
        /\ Goes(t, "idle")
  /\ UNCHANGED <<open, overlay, flushing, flag, reshaped, last, losses>>

Install(t) ==
  /\ pc[t].at = "install"
  /\ \/ disk' = NewDirectory /\ Goes(t, "reopen")
     \/ UNCHANGED disk /\ Goes(t, "idle")
  /\ UNCHANGED <<open, backup, overlay, flushing, flag, reshaped, last, losses>>

Reopen(t) ==
  /\ pc[t].at = "reopen"
  /\ \/ /\ losses < MaxLosses
        /\ open' = TRUE
        /\ Goes(t, "newoverlay")
        /\ Loses(TRUE)
     \/ /\ Goes(t, "idle")
        /\ UNCHANGED <<open, losses>>
  /\ UNCHANGED <<disk, backup, overlay, flushing, flag, reshaped, last>>

\* A faulty variant: the default column gets no place.
NewOverlayShort(t) ==
  /\ pc[t].at = "newoverlay" /\ OverlayFree
  /\ overlay' = Fresh(Columns)
  /\ Goes(t, "newflushing")
  /\ UNCHANGED <<open, disk, backup, flushing, flag, reshaped, last, losses>>

NewOverlay(t) ==
  /\ pc[t].at = "newoverlay" /\ OverlayFree
  /\ overlay' = Fresh(Columns + 1)
  /\ Goes(t, "newflushing")
  /\ UNCHANGED <<open, disk, backup, flushing, flag, reshaped, last, losses>>

NewFlushing(t) ==
  /\ pc[t].at = "newflushing" /\ FlushingFree
  /\ flushing' = Fresh(Columns + 1)
  /\ Goes(t, "idle")
  /\ Loses(~IsEmpty(flushing)) /\ losses' <= MaxLosses
  /\ UNCHANGED <<open, disk, backup, overlay, flag, reshaped, last>>

\* The process is lost and started again, with a configuration of as many
\* columns as there are: open creates what is not there.
Crash ==
  /\ losses < MaxLosses
  /\ open' = TRUE
  /\ disk' = [disk EXCEPT !.is = TRUE]
  /\ overlay' = Fresh(disk.cols + 1) /\ flushing' = Fresh(disk.cols + 1)
  /\ flag' = FALSE
  /\ pc' = [t \in Thread |-> Idle]
  /\ reshaped' = FALSE
  /\ Loses(TRUE)
  /\ UNCHANGED <<backup, last>>

Next ==
  \/ \E t \in Thread :
       \/ \E b \in Batch : WriteBuffered(t, b) \/ Write(t, b)
       \/ Flush(t) \/ Swap(t) \/ WriteFlushing(t) \/ Clear(t)
       \/ \E x \in Cell : Get(t, x)
       \/ GetFlushing(t) \/ GetDisk(t)
       \/ AddColumn(t) \/ DropColumn(t)
       \/ Close(t) \/ ClearOverlay(t) \/ ClearFlushing(t)
       \/ Rename(t) \/ Replace(t) \/ Install(t) \/ Reopen(t) \/ NewOverlay(t) \/ NewFlushing(t)
  \/ Crash

Spec == Init /\ [][Next]_vars

-----------------------------------------------------------------------------

\* The variables have their types.
TypeOK ==
  /\ open \in BOOLEAN /\ flag \in BOOLEAN /\ reshaped \in BOOLEAN
  /\ disk \in Directory /\ backup \in Directory
  /\ overlay \in Buffer /\ flushing \in Buffer
  /\ pc \in [Thread -> [at : Steps, x : Cell \cup {NoCell}]]
  /\ last \in (0 .. MaxWrites) \X [Cell -> Entry]
  /\ losses \in 0 .. MaxLosses

\* What a get that is under way is going to answer, if no step comes between.
Answer(t) ==
  LET x == pc[t].x IN
  IF pc[t].at = "getflushing" /\ flushing.at[x] # Kept
  THEN Written(flushing.at[x], FALSE) ELSE disk.at[x]

\* A get that has passed the overlay, or both buffers, answers with what the
\* store holds in the end, whatever flush, write and restore do meanwhile.
GetIsAtomic == \A t \in Thread : InGet(t) => Answer(t) = Visible[pc[t].x]

\* Every column of the database has its place in both buffers, and the flag of
\* flushing_lock is set only while a flush is running: no call panics, and a
\* flush is refused only while another is running.  (Not once add_column or
\* drop_column has been called, nor once a flush got between a restore's steps.)
\* While the database is open its directory is there, and while restore moves
\* directories about, the old or the new one is (until the process is lost).
StaysUsable ==
  /\ ~reshaped =>
       /\ open /\ (\A t \in Thread : ~InRestore(t)) =>
            overlay.width = disk.cols + 1 /\ flushing.width = disk.cols + 1
       /\ flag => ~Unlocked
  /\ disk.is \/ (~open /\ backup.is)

\* KvDb behaves as the map: a transaction takes effect at once, and nothing else
\* changes what is read, but that a value given to put_compressed reads compressed
\* from some step on, and for what `losses' counts.
ImplementsMap == Promised!Spec

\* kvdb/src/lib.rs: "Values which have been written can always be read, but may
\* be present in an in-memory buffer".  Not so when an earlier flush has failed.
FlushKeepsValues == [][\A t \in Thread : Swap(t) => Visible' = Visible]_vars

=============================================================================
